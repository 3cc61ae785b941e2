------------------------------ MODULE MemoryGraph ------------------------------
(***************************************************************************)
(* The memories of one user as the extraction pipeline writes them: the    *)
(* stages that follow a stored extraction_result (entity alignment,        *)
(* reconciliation, graph transaction, repair of the replay set, index      *)
(* synchronisation) for each archive, over the Memory and Entity nodes of  *)
(* the graph and the documents of the retrieval index.                     *)
(*                                                                         *)
(* ExtractionTask models the consumer and the task documents around these  *)
(* stages and takes a result as one piece; here its candidates are told    *)
(* apart.  A run that fails, is aborted or dies starts again from the      *)
(* stored result, before or after other archives.                          *)
(***************************************************************************)
EXTENDS MemoryStore, ReconciliationPlan

CONSTANTS
  Archive,      \* archives with a stored result
  Workers,      \* extraction workers
  User,         \* the user
  Self,         \* name of the reserved entity that stands for the user
  Name,         \* normalized name of the subject each candidate mentions
  Alias,        \* the aliases it gives
  Initial,      \* Memory nodes at the start (of other users)
  MaxAliases,   \* max_stored_entity_alias_count
  IdRank,       \* the order of entity ids
  RecallLimit,  \* LIMIT of the recall query
  Faults        \* which of FaultKinds may happen

FaultKinds ==
  { "crash",      \* a worker dies between two stages
    "fail",       \* a stage fails before its first write
    "ack",        \* the transaction or the bulk request raises, done or not
    "skip",       \* the reconciliation LLM may discard a candidate
    "rebalance" } \* a second worker takes over while the first one is alive

Names == {Self} \cup { Name[c] : c \in DOMAIN Name } \cup UNION { Alias[c] : c \in DOMAIN Alias }

\* The id of the reserved entity is computed from the user; any other is drawn by the
\* worker that plans to create the entity.
EntityId(n, w) == IF n = Self THEN <<Self, "id">> ELSE <<n, w>>

EntityIds == { EntityId(n, w) : n \in Names, w \in Workers }

ASSUME GraphAssumption ==
  /\ User \in Users
  /\ DOMAIN Name \subseteq Evidence /\ DOMAIN Alias = DOMAIN Name
  /\ DOMAIN Name \subseteq DOMAIN SourceTime
  /\ \A c \in DOMAIN Name : SourceTime[c] \in 0..MaxTime
  /\ EntityIds \subseteq SubjectIds
  /\ DOMAIN IdRank = EntityIds
  /\ \A i, j \in EntityIds : IdRank[i] \in Nat /\ (IdRank[i] = IdRank[j] => i = j)
  /\ \A c \in DOMAIN Name : Self \notin Alias[c] /\ (Name[c] = Self => Alias[c] = {})
  /\ Faults \subseteq FaultKinds
  /\ \A a \in Archive : \E c \in DOMAIN Name : ArchiveOf[c] = a
  /\ \A c \in DOMAIN Name : ArchiveOf[c] \in Archive

\* The memories of other users are as a transaction creates them, from archives of theirs.
ASSUME InitialAssumption ==
  /\ Initial \in [Ids -> Node \cup {NoNode}]
  /\ \A m \in Ids : Initial[m] # NoNode =>
       /\ Created(Initial[m]) /\ Initial[m].user # User
       /\ \A e \in Initial[m].evidence : ArchiveOf[e] \notin Archive
       /\ Initial[m].link.old # Null => Initial[Initial[m].link.old] # NoNode

VARIABLES
  entity,      \* Entity nodes by entity_key: id and aliases
  doc,         \* documents of the retrieval index
  task,        \* status of each archive's task
  run          \* what each worker is doing

graphVars == <<memory, now, entity, doc, task, run>>

NoEntity == [id |-> "none"]
NoDoc == [status |-> "none"]

\* Candidates of an archive's extraction_result.
Candidates(a) == { c \in DOMAIN Name : ArchiveOf[c] = a }

-----------------------------------------------------------------------------
(* Entities *)

Known == { k \in Names : entity[k] # NoEntity }

\* find_by_entity_keys, then find_secondary_match_candidates: keys of the Entity nodes a
\* name matches.
Matches(n) == IF n \in Known THEN {n} ELSE { k \in Known : n \in entity[k].aliases }

\* Mutant: the aliases of this archive replace the stored ones.
NewAliasesOnly(existing, new) == kSubset(Min({MaxAliases, Cardinality(new)}), new)

\* _plan_alias_merge: existing aliases stay, new ones are added as long as there is room.
MergedAliases(existing, new) ==
  LET added == new \ existing
      room == Max({0, MaxAliases - Cardinality(existing)})
  IN { existing \cup s : s \in kSubset(Min({room, Cardinality(added)}), added) }

\* _aligned_existing
ExistingViews(k, c) ==
  [key : {k}, id : {entity[k].id}, aliases : MergedAliases(entity[k].aliases, Alias[c])]

\* _aligned_planned_create: an entity whose id this worker has drawn for the key.
PlannedViews(w, c) ==
  [key : {Name[c]}, id : {EntityId(Name[c], w)}, aliases : MergedAliases({}, Alias[c])]

\* Of several nodes that match, the one with the smallest id.
FirstMatch(n) ==
  CHOOSE k \in Matches(n) : \A l \in Matches(n) : IdRank[entity[k].id] <= IdRank[entity[l].id]

\* What the alignment makes of the subject that candidate c mentions.
Views(w, c) ==
  IF Matches(Name[c]) = {} THEN PlannedViews(w, c) ELSE ExistingViews(FirstMatch(Name[c]), c)

\* AlignedEntity
View == [key : Names, id : EntityIds, aliases : SUBSET Names]

Subject(view) == [c \in DOMAIN view |-> view[c].id]

-----------------------------------------------------------------------------
(* Memories *)

\* Mutant: evidence of a superseded memory does not count.
ProcessedOfLive(cs) ==
  { c \in cs : \E m \in Memories : memory[m].status \in Live /\ c \in memory[m].evidence }

\* find_processed_evidence_ids: of these evidence ids, those that support a memory.
Processed(cs) == { c \in cs : \E m \in Memories : c \in memory[m].evidence }

\* recall_memories_batch: active before conflicted, latest source time first, then id.
RecallsBefore(m, n) ==
  LET Rank(i) == IF memory[i].status = "active" THEN 0 ELSE 1
  IN \/ Rank(m) < Rank(n)
     \/ /\ Rank(m) = Rank(n)
        /\ \/ memory[m].latest > memory[n].latest
           \/ memory[m].latest = memory[n].latest /\ m < n

Recallable(id) ==
  { m \in Memories : /\ memory[m].user = User
                     /\ memory[m].subject = id
                     /\ memory[m].status \in Live }

Recall(id) ==
  { m \in Recallable(id) :
      Cardinality({ n \in Recallable(id) : RecallsBefore(n, m) }) < RecallLimit }

Decisions(id) ==
  IF Recall(id) = {} THEN {New}
  ELSE { d \in ValidDecisions(Recall(id)) : d = Skip => "skip" \in Faults }

Neighbours(ms) ==
  { n \in Memories : \E m \in ms :
      \/ memory[n].link.old = m
      \/ Exists(m) /\ memory[m].link.old = n }

Supported(a) == { m \in Memories : a \in Archives(memory[m]) }

Linked(ids) == { m \in Memories : memory[m].subject \in ids }

SubjectAliases(m) ==
  UNION { entity[k].aliases : k \in { n \in Known : entity[n].id = memory[m].subject } }

\* The document _build_documents makes of a row of load_memory_index_rows.
Row(m) ==
  [status |-> memory[m].status, version |-> memory[m].version, aliases |-> SubjectAliases(m)]

-----------------------------------------------------------------------------
(* Runs *)

NoRun == [pc |-> "idle", archive |-> "none", view |-> <<>>, fresh |-> {}, plan |-> EmptyPlan,
          skipped |-> FALSE, seeds |-> {}, rows |-> <<>>]

At(w, pc) == run[w].pc = pc

Arc(w) == run[w].archive

Stop(w) == run' = [run EXCEPT ![w] = NoRun]

Finish(w, status) ==
  /\ task' = [task EXCEPT ![Arc(w)] = status]
  /\ Stop(w)

\* A stage fails before its first write, and the task with it.
StageFails(w, stage) ==
  /\ "fail" \in Faults
  /\ At(w, stage)
  /\ Finish(w, "failed")
  /\ UNCHANGED <<memory, now, entity, doc>>

Start(w, a) ==
  /\ At(w, "idle")
  /\ task[a] \in {"pending", "processing"}
  /\ "rebalance" \in Faults \/ \A v \in Workers : At(v, "idle")
  /\ task' = [task EXCEPT ![a] = "processing"]
  /\ run' = [run EXCEPT ![w] = [NoRun EXCEPT !.pc = "align", !.archive = a]]
  /\ UNCHANGED <<memory, now, entity, doc>>

AlignEntities(w) ==
  /\ At(w, "align")
  /\ \E view \in [Candidates(Arc(w)) -> UNION { Views(w, c) : c \in Candidates(Arc(w)) }] :
       /\ \A c \in Candidates(Arc(w)) : view[c] \in Views(w, c)
       /\ run' = [run EXCEPT ![w].pc = "reconcile", ![w].view = view]
  /\ UNCHANGED <<memory, now, entity, doc, task>>

\* A read of the Entity nodes fails, or finds one it cannot use.
AlignFails(w) == StageFails(w, "align")

\* Candidates whose evidence is in the graph are not decided on again.
FindProcessed(w) ==
  /\ At(w, "reconcile")
  /\ run' = [run EXCEPT ![w].pc = "decide",
                        ![w].fresh = Candidates(Arc(w)) \ Processed(Candidates(Arc(w)))]
  /\ UNCHANGED <<memory, now, entity, doc, task>>

\* Nothing between the recall and the decision looks at the graph.
Reconcile(w) ==
  LET view == run[w].view
      fresh == run[w].fresh
      all == UNION { Decisions(view[c].id) : c \in fresh }
  IN /\ At(w, "decide")
     /\ \E d \in [fresh -> all] :
          /\ \A c \in fresh : d[c] \in Decisions(view[c].id)
          /\ IF PlanConflict(d)
             THEN Finish(w, "failed")
             ELSE /\ run' = [run EXCEPT ![w].pc = "graph", ![w].plan = Plan(d, Subject(view)),
                                        ![w].fresh = {}]
                  /\ UNCHANGED task
     /\ UNCHANGED <<memory, now, entity, doc>>

\* A read of the Evidence or Memory nodes fails, or the model gives no decision that can be
\* used.
ReconcileFails(w) == StageFails(w, "reconcile") \/ StageFails(w, "decide")

-----------------------------------------------------------------------------
(* The graph transaction *)

\* build_referenced_entity_write_set: only entities of the planned memories are written.
ReferencedKeys(view, plan) == { view[c].key : c \in PlannedEvidence(plan) }

\* The stored id wins over the planned one; of two mentions of one entity the aliases of
\* either are kept.
EntityRows(view, k) ==
  LET mentions == { view[c] : c \in { e \in DOMAIN view : view[e].key = k } }
  IN [id : IF k \in Known THEN {entity[k].id} ELSE { v.id : v \in mentions },
      aliases : { v.aliases : v \in mentions }]

\* The Entity MERGE: what may be stored for each key.
EntitiesAfter(view, plan) ==
  LET keys == ReferencedKeys(view, plan)
  IN { e \in [Names -> (UNION { EntityRows(view, k) : k \in keys }) \cup { entity[k] : k \in Names }] :
         \A k \in Names : IF k \in keys THEN e[k] \in EntityRows(view, k) ELSE e[k] = entity[k] }

NewNode(p, subject) ==
  [user |-> User, status |-> IF p.kind = "conflicts" THEN "conflicted" ELSE "active",
   version |-> 1, subject |-> subject, link |-> [kind |-> p.kind, old |-> p.old],
   evidence |-> p.from, latest |-> p.latest, created |-> now,
   importance |-> BaseImportance, consolidated |-> Null]

\* Mutant: the status is named like the action.
StatusLikeAction(u, status) ==
  CASE u.action = "SUPERSEDE" -> "supersede"
    [] u.action = "CONFLICT" -> "conflict"
    [] OTHER -> status

\* Mutant: a conflict marks the new memory only.
ConflictMarksNewOnly(u, status) ==
  IF u.action = "SUPERSEDE" THEN "superseded" ELSE status

StatusAfter(u, status) ==
  CASE u.action = "SUPERSEDE" -> "superseded"
    [] u.action = "CONFLICT" -> "conflicted"
    [] OTHER -> status

\* The relations an update adds to a memory.
Supporting(node, plan, u) == node.evidence \cup EvidenceForUpdate(plan, u)

\* Mutant: new evidence alone is not a new version.
SameVersionIfMerged(node, u, plan) ==
  [node EXCEPT !.version = IF u.action = "MERGE" THEN @ ELSE @ + 1,
               !.status = StatusAfter(u, @), !.latest = u.latest,
               !.evidence = Supporting(node, plan, u)]

UpdatedNode(node, u, plan) ==
  [node EXCEPT !.version = @ + 1, !.status = StatusAfter(u, @), !.latest = u.latest,
               !.evidence = Supporting(node, plan, u)]

\* id gives each new memory of the plan its id.
MemoriesAfter(plan, id, subject) ==
  [m \in Ids |->
    IF \E p \in plan.creates : id[p] = m
    THEN NewNode(CHOOSE p \in plan.creates : id[p] = m, subject[m])
    ELSE IF \E u \in plan.updates : u.target = m
         THEN UpdatedNode(memory[m], CHOOSE u \in plan.updates : u.target = m, plan)
         ELSE memory[m]]

Transaction(view, plan, id) ==
  \E e \in EntitiesAfter(view, plan) :
    /\ entity' = e
    /\ memory' = MemoriesAfter(plan, id,
         [m \in { id[p] : p \in plan.creates } |->
            e[view[CHOOSE c \in (CHOOSE p \in plan.creates : id[p] = m).from : TRUE].key].id])

NewIds(plan) ==
  { id \in [plan.creates -> Ids \ Memories] : \A p, q \in plan.creates : id[p] = id[q] => p = q }

\* Every planned piece of evidence is in the graph already: the transaction is skipped.
AllProcessed(plan) ==
  PlannedEvidence(plan) # {} /\ PlannedEvidence(plan) = Processed(PlannedEvidence(plan))

\* index_sync_memory_set: planned memories and update targets, whether or not the
\* transaction was skipped; a planned memory that was never written has no node.
IndexSet(plan, new) == new \cup { u.target : u \in plan.updates }

CheckProcessed(w) ==
  /\ At(w, "graph")
  /\ run' = [run EXCEPT ![w].pc = "write", ![w].skipped = AllProcessed(run[w].plan)]
  /\ UNCHANGED <<memory, now, entity, doc, task>>

\* build_graph_write_plan: the tokenizer fails, or a memory's search text is too long,
\* whether or not the transaction is to be skipped.
PlanFails(w) == StageFails(w, "write")

WriteGraph(w) ==
  LET plan == run[w].plan
      Repair(new) == run' = [run EXCEPT ![w].pc = "repair", ![w].plan = EmptyPlan,
                                        ![w].skipped = FALSE, ![w].seeds = IndexSet(plan, new)]
  IN /\ At(w, "write")
     /\ IF run[w].skipped
        THEN /\ Repair(IF plan.creates = {} THEN {} ELSE {Null})
             /\ UNCHANGED <<memory, entity, task>>
        ELSE \E id \in NewIds(plan) :
               /\ Transaction(run[w].view, plan, id)
               /\ \/ Repair({ id[p] : p \in plan.creates }) /\ UNCHANGED task
                  \/ "ack" \in Faults /\ Finish(w, "failed")
     /\ UNCHANGED <<now, doc>>

\* Mutant: a replay with nothing to write completes without looking at the index.
ReplayTakenForDone(w) ==
  /\ At(w, "repair")
  /\ IF run[w].seeds # {}
     THEN run' = [run EXCEPT ![w].pc = "sync"] /\ UNCHANGED task
     ELSE Finish(w, "completed")
  /\ UNCHANGED <<memory, now, entity, doc>>

\* _repair_empty_replay_index_sync_set: an empty set is replaced by the memories the
\* archive's evidence supports; if there are none, the run is abandoned.
RepairReplay(w) ==
  /\ At(w, "repair")
  /\ IF run[w].seeds # {}
     THEN run' = [run EXCEPT ![w].pc = "sync"]
     ELSE IF Supported(Arc(w)) # {}
          THEN run' = [run EXCEPT ![w].pc = "sync", ![w].seeds = Supported(Arc(w))]
          ELSE Stop(w)
  /\ UNCHANGED <<memory, now, entity, doc, task>>

\* The memories cannot be read: the run is abandoned as well.
RepairFails(w) ==
  /\ "fail" \in Faults
  /\ At(w, "repair") /\ run[w].seeds = {}
  /\ Stop(w)
  /\ UNCHANGED <<memory, now, entity, doc, task>>

\* extract_non_user_aligned_entity_ids
MentionedIds(view) == { view[c].id : c \in { e \in DOMAIN view : view[e].key # Self } }

\* Memories whose documents a synchronisation writes: the seeds, what they replace or
\* dispute and are replaced or disputed by, and whatever is about an entity other than
\* the user that the archive mentions.
SyncSet(seeds, view) == seeds \cup Neighbours(seeds) \cup Linked(MentionedIds(view))

LoadRows(w) ==
  LET ms == SyncSet(run[w].seeds, run[w].view)
  IN /\ At(w, "sync")
     /\ IF ms \subseteq Memories
        THEN /\ run' = [run EXCEPT ![w].pc = "index", ![w].rows = [m \in ms |-> Row(m)]]
             /\ UNCHANGED task
        ELSE Finish(w, "failed")
     /\ UNCHANGED <<memory, now, entity, doc>>

\* A read of the graph, the tokenizer or the embedding service fails.
SyncFails(w) == StageFails(w, "sync") \/ StageFails(w, "index")

\* The bulk request overwrites documents without looking at what they hold, and
\* mark_completed follows; a request that raises has stored any of them.
WriteIndex(w) ==
  LET rows == run[w].rows
      Store(ms) == doc' = [m \in Ids |-> IF m \in ms THEN rows[m] ELSE doc[m]]
  IN /\ At(w, "index")
     /\ \/ Store(DOMAIN rows) /\ Finish(w, "completed")
        \/ /\ "ack" \in Faults
           /\ \E ms \in SUBSET DOMAIN rows : Store(ms)
           /\ Finish(w, "failed")
     /\ UNCHANGED <<memory, now, entity>>

Crash(w) ==
  /\ "crash" \in Faults
  /\ ~At(w, "idle")
  /\ Stop(w)
  /\ UNCHANGED <<memory, now, entity, doc, task>>

\* An admin retries a failed task.
Retry(a) ==
  /\ task[a] = "failed"
  /\ task' = [task EXCEPT ![a] = "pending"]
  /\ UNCHANGED <<memory, now, entity, doc, run>>

-----------------------------------------------------------------------------

GraphInit ==
  /\ memory = Initial
  /\ now = 0
  /\ entity = [k \in Names |-> NoEntity]
  /\ doc = [m \in Ids |-> NoDoc]
  /\ task = [a \in Archive |-> "pending"]
  /\ run = [w \in Workers |-> NoRun]

Stage(w) ==
  \/ AlignEntities(w)
  \/ AlignFails(w)
  \/ FindProcessed(w)
  \/ Reconcile(w)
  \/ ReconcileFails(w)
  \/ CheckProcessed(w)
  \/ PlanFails(w)
  \/ WriteGraph(w)
  \/ RepairReplay(w)
  \/ RepairFails(w)
  \/ LoadRows(w)
  \/ SyncFails(w)
  \/ WriteIndex(w)
  \/ Crash(w)

GraphNext ==
  \/ \E w \in Workers : Stage(w) \/ \E a \in Archive : Start(w, a)
  \/ \E a \in Archive : Retry(a)

GraphSpec == GraphInit /\ [][GraphNext]_graphVars

-----------------------------------------------------------------------------
(* Properties *)

GraphTypeOK ==
  /\ StoreTypeOK
  /\ entity \in [Names -> [id : EntityIds, aliases : SUBSET Names] \cup {NoEntity}]
  /\ doc \in [Ids -> [status : Status, version : Nat, aliases : SUBSET Names] \cup {NoDoc}]
  /\ task \in [Archive -> {"pending", "processing", "failed", "completed"}]
  /\ \A w \in Workers :
       /\ run[w].pc \in {"idle", "align", "reconcile", "decide", "graph", "write", "repair",
                       "sync", "index"}
       /\ At(w, "idle") \/ Arc(w) \in Archive
       /\ \A c \in DOMAIN run[w].view : run[w].view[c] \in View
       /\ run[w].plan.updates \subseteq UpdatePlan /\ run[w].plan.creates \subseteq CreatePlan
       /\ DOMAIN run[w].rows \subseteq Memories

Unfinished == { a \in Archive : task[a] # "completed" }

\* Memories whose documents the next complete run of archive a writes.
Reach(a) ==
  LET ids == { entity[k].id : k \in (UNION { Matches(Name[c]) : c \in Candidates(a) }) \ {Self} }
  IN Supported(a) \cup Neighbours(Supported(a)) \cup Linked(ids)

\* A retrieval document differs from its Memory node, status and aliases of the subject
\* included, only as long as a task that will write it again has not completed: whatever
\* a crash, a failed stage or a half-done bulk request leaves behind is repaired.
StaleIsUnfinished ==
  \A m \in Memories :
    memory[m].user = User /\ doc[m] # Row(m) => \E a \in Unfinished : m \in Reach(a)

\* However often the stages of an archive are repeated, a candidate supports one memory,
\* and no candidate of a completed archive is missing from the graph.
EvidenceOnce ==
  /\ \A c \in DOMAIN Name : Cardinality({ m \in Memories : c \in memory[m].evidence }) <= 1
  /\ \A a \in Archive : task[a] = "completed" => Processed(Candidates(a)) = Candidates(a)

\* A memory is superseded exactly if a newer one supersedes it, and only one does; a live
\* memory is conflicted exactly if it is related to one it conflicts with; and every
\* memory is about an Entity node that exists.
RelationsHold ==
  \A m \in { n \in Memories : memory[n].user = User } :
    LET Newer(kind) == { n \in Memories : memory[n].link = [kind |-> kind, old |-> m] }
    IN /\ (memory[m].status = "superseded") <=> (Cardinality(Newer("supersedes")) = 1)
       /\ Cardinality(Newer("supersedes")) <= 1
       /\ memory[m].status # "superseded" =>
            (memory[m].status = "conflicted" <=>
               Newer("conflicts") # {} \/ memory[m].link.kind = "conflicts")
       /\ \E k \in Known : entity[k].id = memory[m].subject

\* An alias, once stored, is kept.
AliasesKept ==
  [][\A k \in Known : entity'[k] # NoEntity /\ entity[k].aliases \subseteq entity'[k].aliases]_entity

\* latest_source_time is the newest source time of the memory's evidence.
LatestIsMaxOfEvidence ==
  \A m \in Memories :
    memory[m].user = User => memory[m].latest = Max({ SourceTime[c] : c \in memory[m].evidence })
=============================================================================
