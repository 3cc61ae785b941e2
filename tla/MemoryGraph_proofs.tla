--------------------------- MODULE MemoryGraph_proofs ---------------------------
(***************************************************************************)
(* Proofs about MemoryGraph, for any number of archives, candidates, names *)
(* and memories and any texts and limits.  Type correctness holds with all *)
(* faults; what else is proved, as long as one worker at a time works on   *)
(* the user's archives.                                                    *)
(***************************************************************************)
EXTENDS MemoryGraph, Sequences, DataFacts

\* A second worker does not take over while the first one is alive.
OneAtATime == "rebalance" \notin Faults

\* No candidate is discarded.
NothingSkipped == "skip" \notin Faults

-----------------------------------------------------------------------------
(* The inductive invariant *)

Stages == {"idle", "align", "reconcile", "decide", "graph", "write", "repair", "sync", "index"}

Document == [status : Status, version : Nat, aliases : SUBSET Names]

Alignments == UNION { [cs -> View] : cs \in SUBSET DOMAIN Name }

Plans == [updates : SUBSET UpdatePlan, creates : SUBSET CreatePlan]

Run ==
  [pc : Stages, archive : Archive \cup {"none"}, view : Alignments, fresh : SUBSET DOMAIN Name,
   plan : Plans, skipped : BOOLEAN, seeds : SUBSET (Ids \cup {Null}),
   rows : UNION { [ms -> Document] : ms \in SUBSET Ids }]

\* The candidates whose evidence is in the graph.
Used == { c \in DOMAIN Name : \E m \in Memories : c \in memory[m].evidence }

\* The memory a replacing update is made for.
CreateOf(u) ==
  [kind |-> IF u.action = "SUPERSEDE" THEN "supersedes" ELSE "conflicts",
   old |-> u.target, from |-> u.from, latest |-> u.latest]

IsReplacing(u) == u.action \in Replacing

\* What is true of a plan when it is made, and as long as nobody else writes.
PlanFits(plan, a) ==
  /\ \A u \in plan.updates :
       /\ u.target \in Memories /\ memory[u.target].user = User
       /\ memory[u.target].status \in Live
       /\ u.from # {}
       /\ IsReplacing(u) => CreateOf(u) \in plan.creates
  /\ \A u, v \in plan.updates :
       u.target = v.target \/ u.from \cap v.from # {} => u = v
  /\ \A p \in plan.creates :
       /\ p.from # {}
       /\ \/ p.kind = "none" /\ p.old = Null
          \/ \E u \in plan.updates : IsReplacing(u) /\ p = CreateOf(u)
  /\ \A p, q \in plan.creates : p.from \cap q.from # {} => p = q
  /\ \A p \in plan.creates, u \in plan.updates :
       p.from \cap u.from # {} => IsReplacing(u) /\ p = CreateOf(u)
  /\ PlannedEvidence(plan) \subseteq Candidates(a) \ Used
  /\ NothingSkipped => Candidates(a) \ Used \subseteq PlannedEvidence(plan)

\* The subject c mentions is the Entity node it has been aligned to.
AlignedTo(c, view) ==
  /\ view.key \in Known /\ entity[view.key].id = view.id
  /\ view.key \in Matches(Name[c])

\* What a run of worker w knows at each stage.
Knows(r, w) ==
  /\ r.pc \in {"reconcile", "decide", "graph", "write"} =>
       \A c \in Candidates(r.archive) : r.view[c] \in Views(w, c)
  /\ r.pc = "decide" => r.fresh = Candidates(r.archive) \ Used
  /\ r.pc \in {"graph", "write"} => PlanFits(r.plan, r.archive)
  /\ r.pc = "write" => ~r.skipped
  /\ r.pc \in {"repair", "sync", "index"} =>
       /\ r.seeds \subseteq Memories
       /\ \A c \in Candidates(r.archive) : r.view[c].key = Self <=> Name[c] = Self
       /\ NothingSkipped => \A c \in Candidates(r.archive) : AlignedTo(c, r.view[c])
  /\ NothingSkipped /\ (r.pc \in {"sync", "index"} \/ (r.pc = "repair" /\ r.seeds # {})) =>
       Candidates(r.archive) \subseteq Used /\ Supported(r.archive) \subseteq r.seeds
  /\ r.pc = "index" => r.rows = [m \in SyncSet(r.seeds, r.view) |-> Row(m)]

OneRuns == \A v, w \in Workers : v # w => At(v, "idle") \/ At(w, "idle")

\* Every piece of evidence supports one memory, and was given by the archive's candidates.
EvidenceFits ==
  /\ \A c \in DOMAIN Name, m, n \in Memories :
       c \in memory[m].evidence /\ c \in memory[n].evidence => m = n
  /\ \A m \in Memories : \A e \in memory[m].evidence :
       ArchiveOf[e] \in Archive => e \in DOMAIN Name

\* An archive's candidates are written together.
AllOrNone ==
  NothingSkipped => \A a \in Archive :
    /\ Candidates(a) \subseteq Used \/ Candidates(a) \cap Used = {}
    /\ task[a] = "completed" => Candidates(a) \subseteq Used

\* The memories made to replace, or dispute, m.
MadeFor(kind, m) == { n \in Memories : memory[n].link = [kind |-> kind, old |-> m] }

RelationFits(m) ==
  /\ memory[m].status = "superseded" <=> MadeFor("supersedes", m) # {}
  /\ \A n, o \in MadeFor("supersedes", m) : n = o
  /\ memory[m].status # "superseded" =>
       (memory[m].status = "conflicted" <=>
          MadeFor("conflicts", m) # {} \/ memory[m].link.kind = "conflicts")
  /\ \E k \in Known : entity[k].id = memory[m].subject

RelationsFit ==
  /\ \A m \in Memories : memory[m].link.old # Null => memory[m].link.old \in Memories
  /\ \A m \in Memories : memory[m].user = User => RelationFits(m)

\* The user's entity neither has aliases nor is an alias; and whom a stored candidate
\* mentions can be found.
EntitiesFit ==
  /\ \A k \in Known : Self \notin entity[k].aliases /\ (k = Self => entity[k].aliases = {})
  /\ \A c \in Used : Matches(Name[c]) # {}

\* What is true of the nodes alone.
NodesFit == EvidenceFits /\ RelationsFit /\ EntitiesFit

GraphInv ==
  /\ OneRuns
  /\ \A w \in Workers : ~At(w, "idle") => task[Arc(w)] = "processing"
  /\ \A w \in Workers : Knows(run[w], w)
  /\ NodesFit
  /\ AllOrNone

\* No alias leads to two entities.
Unambiguous ==
  \A k, l \in Known : entity[k].aliases \cap entity[l].aliases # {} => k = l

-----------------------------------------------------------------------------
(* Facts about the data *)

LEMMA Numbers ==
  /\ MaxTime \in Nat /\ BaseImportance \in Nat /\ Ids \subseteq Nat /\ Null \notin Ids
  /\ NoTarget = Null
  BY StoreAssumption DEF Null, NoTarget

LEMMA NodesThatExist ==
  ASSUME StoreTypeOK
  PROVE  \A m \in Ids : m \in Memories <=> memory[m] \in Node
  BY DEF StoreTypeOK, Exists, Memories, Node, NoNode, Status, Live

Entity == [id : EntityIds, aliases : SUBSET Names]

LEMMA EntitiesThatExist ==
  ASSUME entity \in [Names -> Entity \cup {NoEntity}]
  PROVE  \A k \in Names : k \in Known <=> entity[k] \in Entity
  <1>1. NoEntity \notin Entity
    <2>1. \A e \in Entity : "aliases" \in DOMAIN e
      BY DEF Entity
    <2>2. "aliases" \notin DOMAIN NoEntity
      BY DEF NoEntity
    <2> QED  BY <2>1, <2>2
  <1> QED  BY <1>1 DEF Known

LEMMA CandidatesNamed ==
  /\ \A c \in DOMAIN Name : Name[c] \in Names /\ Alias[c] \subseteq Names
  /\ \A a : Candidates(a) \subseteq DOMAIN Name
  BY GraphAssumption DEF Names, Candidates

\* The source time of a group of candidates is one of theirs.
LEMMA LatestType ==
  ASSUME NEW g \in SUBSET DOMAIN Name, g # {}
  PROVE  LatestOf(g) \in 0..MaxTime
  <1> DEFINE S == { SourceTime[c] : c \in g }
  <1>1. S \in SUBSET (0..MaxTime) /\ S # {} /\ S \in SUBSET Nat
    BY GraphAssumption, Numbers
  <1>2. IsFiniteSet(S)
    <2>1. \A s \in S : s <= MaxTime
      BY <1>1, Numbers
    <2> HIDE DEF S
    <2> QED  BY <1>1, <2>1, Numbers, FS_BoundedSetOfNaturals
  <1>3. Max(S) \in S
    BY <1>1, <1>2, GreatestNatural
  <1> QED  BY <1>1, <1>3 DEF LatestOf

LEMMA NoRunType ==
  ASSUME TRUE
  PROVE  NoRun \in Run /\ EmptyPlan \in Plans
  <1>1. \A S : <<>> \in [{} -> S]
    <2>1. <<>> \in Seq({}) /\ Len(<<>>) = 0
      OBVIOUS
    <2>2. DOMAIN <<>> = 1..0
      BY <2>1
    <2> QED  BY <2>2
  <1>2. <<>> \in Alignments /\ <<>> \in UNION { [ms -> Document] : ms \in SUBSET Ids }
    BY <1>1 DEF Alignments
  <1>3. EmptyPlan \in Plans
    BY DEF EmptyPlan, Plans
  <1> QED  BY <1>2, <1>3 DEF NoRun, Run, Stages

-----------------------------------------------------------------------------
(* Plans *)

LEMMA DecisionIs ==
  ASSUME NEW id, NEW x \in Decisions(id)
  PROVE  /\ x.action \in {"SKIP", "CREATE", "MERGE"} \cup Replacing
         /\ x.action = "SKIP" => ~NothingSkipped
         /\ x.action \in {"SKIP", "CREATE"} <=> x.target = NoTarget
         /\ x.action \in {"MERGE"} \cup Replacing => x.target \in Recallable(id)
  <1>1. Recall(id) \subseteq Recallable(id) /\ Recallable(id) \subseteq Ids
    BY DEF Recall, Recallable, Memories
  <1>2. x \in {Skip, New} \/ x \in [action : {"MERGE"}, target : Recall(id), text : Texts \cup {NoText}]
          \/ x \in [action : Replacing, target : Recall(id), text : {NoText}]
    BY DEF Decisions, ValidDecisions
  <1>3. x = Skip => ~NothingSkipped
    BY DEF Decisions, NothingSkipped, Skip, New
  <1>4. CASE x \in {Skip, New}
    BY <1>3, <1>4 DEF Skip, New, Replacing
  <1>5. CASE x \in [action : {"MERGE"}, target : Recall(id), text : Texts \cup {NoText}]
    BY <1>1, <1>5, Numbers DEF Replacing
  <1>6. CASE x \in [action : Replacing, target : Recall(id), text : {NoText}]
    BY <1>1, <1>6, Numbers DEF Replacing
  <1> QED  BY <1>2, <1>4, <1>5, <1>6

\* Decisions on the candidates of cs that have been aligned to these entities.
Decided(d, cs, view) ==
  /\ DOMAIN d = cs /\ cs \subseteq DOMAIN Name
  /\ \A c \in cs : d[c] \in Decisions(view[c].id)

LEMMA SingleAction ==
  ASSUME NEW d, NEW cs, NEW view, Decided(d, cs, view), ~PlanConflict(d), NEW t \in Targets(d)
  PROVE  \E a \in {"MERGE"} \cup Replacing : Actions(d, t) = {a}
  <1>1. PICK c \in ExistingGroup(d, t) : TRUE
    BY DEF Targets, ExistingGroup
  <1>2. t # NoTarget
    BY DEF Targets
  <1>3. \A e \in ExistingGroup(d, t) : d[e].action \in {"MERGE"} \cup Replacing
    BY <1>2, DecisionIs DEF ExistingGroup, Aggregating, Decided
  <1>4. Actions(d, t) \in SUBSET {"MERGE", "SUPERSEDE", "CONFLICT"} /\ d[c].action \in Actions(d, t)
    BY <1>1, <1>3 DEF Actions, Replacing
  <1>5. IsFiniteSet({"MERGE", "SUPERSEDE", "CONFLICT"})
    <2>1. IsFiniteSet({"MERGE"} \cup {"SUPERSEDE"})
      BY FS_Singleton, FS_AddElement
    <2>2. IsFiniteSet(({"MERGE"} \cup {"SUPERSEDE"}) \cup {"CONFLICT"})
      BY <2>1, FS_AddElement
    <2>3. ({"MERGE"} \cup {"SUPERSEDE"}) \cup {"CONFLICT"} = {"MERGE", "SUPERSEDE", "CONFLICT"}
      OBVIOUS
    <2> QED  BY <2>2, <2>3
  <1>6. IsFiniteSet(Actions(d, t)) /\ Cardinality(Actions(d, t)) = 1
    BY <1>4, <1>5, FS_Subset DEF PlanConflict, Disputed
  <1>7. PICK a : Actions(d, t) = {a}
    BY <1>6, FS_Singleton
  <1> QED  BY <1>4, <1>7 DEF Replacing

LEMMA UpdateIs ==
  ASSUME NEW d, NEW cs, NEW view, Decided(d, cs, view), ~PlanConflict(d), NEW u \in Updates(d)
  PROVE  /\ u.target \in Targets(d)
         /\ u.from = ExistingGroup(d, u.target) /\ u.from # {} /\ u.from \subseteq cs
         /\ u.latest = LatestOf(u.from)
         /\ u.action \in {"MERGE"} \cup Replacing
         /\ \A c \in u.from : d[c].action = u.action /\ d[c].target = u.target
         /\ u = [target |-> u.target, action |-> u.action, from |-> u.from, latest |-> u.latest]
         /\ \E c \in cs : u.target \in Recallable(view[c].id)
  <1>1. PICK t \in Targets(d) :
          u = [target |-> t, action |-> CHOOSE a \in Actions(d, t) : TRUE,
               from |-> ExistingGroup(d, t), latest |-> LatestOf(ExistingGroup(d, t))]
    BY DEF Updates
  <1>2. PICK a \in {"MERGE"} \cup Replacing : Actions(d, t) = {a}
    BY SingleAction
  <1>3. u.action = a
    BY <1>1, <1>2
  <1>4. PICK c \in ExistingGroup(d, t) : TRUE
    BY DEF Targets, ExistingGroup
  <1>5. \A e \in ExistingGroup(d, t) : d[e].action = a /\ d[e].target = t /\ e \in cs
    BY <1>2 DEF Actions, ExistingGroup, Aggregating, Decided
  <1>6. t \in Recallable(view[c].id)
    BY <1>4, <1>5, DecisionIs DEF Decided
  <1> QED  BY <1>1, <1>3, <1>4, <1>5, <1>6

LEMMA GroupIs ==
  ASSUME NEW d, NEW cs, NEW view, Decided(d, cs, view), NEW subject, NEW g \in CreateGroups(d, subject)
  PROVE  /\ g # {} /\ g \subseteq cs
         /\ \A c \in g : d[c].action = "CREATE"
         /\ \A h \in CreateGroups(d, subject) : g \cap h # {} => g = h
  <1> DEFINE creating == { c \in Aggregating(d) : d[c].action = "CREATE" }
             Same(c, e) == subject[c] = subject[e] /\ Claim[c] = Claim[e]
  <1>1. CreateGroups(d, subject) = { { e \in creating : Same(c, e) } : c \in creating }
    BY DEF CreateGroups
  <1>2. PICK c \in creating : g = { e \in creating : Same(c, e) }
    BY <1>1
  <1>3. c \in g /\ g \subseteq creating
    BY <1>2
  <1>4. creating \subseteq cs
    BY DEF Aggregating, Decided
  <1>5. ASSUME NEW h \in CreateGroups(d, subject), g \cap h # {}
        PROVE  g = h
    <2>1. PICK b \in creating : h = { e \in creating : Same(b, e) }
      BY <1>1
    <2>2. PICK x \in g \cap h : TRUE
      BY <1>5
    <2>3. Same(c, x) /\ Same(b, x)
      BY <1>2, <2>1, <2>2
    <2> QED  BY <1>2, <2>1, <2>3
  <1> QED  BY <1>3, <1>4, <1>5

NewMemory(g) == [kind |-> "none", old |-> NoTarget, from |-> g, latest |-> LatestOf(g)]

LEMMA CreatesAre ==
  ASSUME NEW d, NEW subject
  PROVE  Creates(d, subject) =
           { NewMemory(g) : g \in CreateGroups(d, subject) }
             \cup { CreateOf(u) : u \in { v \in Updates(d) : IsReplacing(v) } }
  BY DEF Creates, NewMemory, CreateOf, IsReplacing

LEMMA PlannedBy ==
  ASSUME NEW plan, NEW c
  PROVE  c \in PlannedEvidence(plan) <=>
           (\E u \in plan.updates : c \in u.from) \/ (\E p \in plan.creates : c \in p.from)
  BY DEF PlannedEvidence

LEMMA PlannedIs ==
  ASSUME NEW d, NEW cs, NEW view, Decided(d, cs, view), ~PlanConflict(d), NEW subject
  PROVE  /\ PlannedEvidence(Plan(d, subject)) \subseteq cs
         /\ NothingSkipped => cs \subseteq PlannedEvidence(Plan(d, subject))
  <1> DEFINE plan == Plan(d, subject)
  <1>1. plan.updates = Updates(d) /\ plan.creates = Creates(d, subject)
    BY DEF Plan
  <1>2. \A u \in Updates(d) : u.from \subseteq cs
    BY UpdateIs
  <1>3. \A p \in Creates(d, subject) : p.from \subseteq cs
    BY <1>2, CreatesAre, GroupIs DEF NewMemory, CreateOf
  <1>4. ASSUME NothingSkipped, NEW c \in cs
        PROVE  \/ \E u \in Updates(d) : c \in u.from
               \/ \E p \in Creates(d, subject) : c \in p.from
    <2>1. c \in Aggregating(d) /\ d[c].action \in {"CREATE", "MERGE"} \cup Replacing
      BY <1>4, DecisionIs DEF Aggregating, Decided
    <2>2. CASE d[c].action = "CREATE"
      <3> DEFINE creating == { e \in Aggregating(d) : d[e].action = "CREATE" }
                 group == { e \in creating : subject[c] = subject[e] /\ Claim[c] = Claim[e] }
      <3>0. c \in creating /\ c \in group
        BY <2>1, <2>2
      <3>1. PICK g \in CreateGroups(d, subject) : c \in g
        <4>1. group \in CreateGroups(d, subject)
          BY <3>0 DEF CreateGroups
        <4> QED  BY <3>0, <4>1
      <3>2. NewMemory(g) \in Creates(d, subject) /\ NewMemory(g).from = g
        BY CreatesAre DEF NewMemory
      <3> QED  BY <3>1, <3>2
    <2>3. CASE d[c].action # "CREATE"
      <3>1. d[c].target # NoTarget
        BY <2>1, <2>3, DecisionIs DEF Decided, Replacing
      <3>2. d[c].target \in Targets(d) /\ c \in ExistingGroup(d, d[c].target)
        BY <2>1, <3>1 DEF Targets, ExistingGroup
      <3> DEFINE t == d[c].target
                 u == [target |-> t, action |-> CHOOSE a \in Actions(d, t) : TRUE,
                       from |-> ExistingGroup(d, t), latest |-> LatestOf(ExistingGroup(d, t))]
      <3>3. u \in Updates(d)
        BY <3>2 DEF Updates
      <3> QED  BY <3>2, <3>3
    <2> QED  BY <2>2, <2>3
  <1> HIDE DEF plan
  <1>5. ASSUME NEW c \in PlannedEvidence(plan) PROVE c \in cs
    BY <1>1, <1>2, <1>3, PlannedBy
  <1>6. ASSUME NothingSkipped, NEW c \in cs PROVE c \in PlannedEvidence(plan)
    BY <1>1, <1>4, <1>6, PlannedBy
  <1> QED  BY <1>5, <1>6 DEF plan

\* A plan is well-typed, is about these candidates and updates memories among ms.
PlanTyped(plan, cs, ms) ==
  /\ plan \in Plans
  /\ \A u \in plan.updates : u.target \in ms /\ u.from \subseteq cs /\ u.latest \in 0..MaxTime
  /\ \A p \in plan.creates :
       p.from # {} /\ p.from \subseteq cs /\ p.latest \in 0..MaxTime /\ p.old \in Ids \cup {Null}

LEMMA PlanIsTyped ==
  ASSUME NEW d, NEW cs, NEW view, Decided(d, cs, view), ~PlanConflict(d), NEW subject
  PROVE  PlanTyped(Plan(d, subject), cs, Memories)
  <1>1. ASSUME NEW u \in Updates(d)
        PROVE  u \in UpdatePlan /\ u.target \in Memories /\ u.from \subseteq cs /\ u.from # {}
                 /\ u.latest \in 0..MaxTime
    <2>1. u.target \in Memories
      BY UpdateIs DEF Recallable
    <2>2. u.target \in Nat
      BY <2>1, Numbers DEF Memories
    <2>3. u.from \in SUBSET DOMAIN SourceTime /\ u.from # {} /\ u.from \in SUBSET DOMAIN Name
      BY UpdateIs, GraphAssumption DEF Decided
    <2>4. u.latest \in 0..MaxTime
      BY <2>3, UpdateIs, LatestType
    <2>5. u.latest \in Nat
      BY <2>4, Numbers
    <2>6. u = [target |-> u.target, action |-> u.action, from |-> u.from, latest |-> u.latest]
          /\ u.action \in Replacing \cup {"MERGE"} /\ u.from \subseteq cs
      BY UpdateIs
    <2> QED  BY <2>1, <2>2, <2>3, <2>4, <2>5, <2>6 DEF UpdatePlan
  <1>2. ASSUME NEW p \in Creates(d, subject)
        PROVE  p \in CreatePlan /\ p.from # {} /\ p.from \subseteq cs /\ p.latest \in 0..MaxTime
                 /\ p.old \in Ids \cup {Null}
    <2>1. CASE \E u \in Updates(d) : p = CreateOf(u)
      <3>1. PICK u \in Updates(d) : p = CreateOf(u)
        BY <2>1
      <3> QED  BY <1>1, <3>1, Numbers DEF CreateOf, CreatePlan, UpdatePlan, Memories
    <2>2. CASE \E g \in CreateGroups(d, subject) : p = NewMemory(g)
      <3>1. PICK g \in CreateGroups(d, subject) : p = NewMemory(g)
        BY <2>2
      <3>2. g # {} /\ g \subseteq cs
        BY GroupIs
      <3>3. g \in SUBSET DOMAIN Name /\ g \in SUBSET DOMAIN SourceTime
        BY <3>2, GraphAssumption DEF Decided
      <3>4. LatestOf(g) \in 0..MaxTime /\ LatestOf(g) \in Nat
        BY <3>2, <3>3, LatestType, Numbers
      <3> QED  BY <3>1, <3>2, <3>3, <3>4, Numbers DEF NewMemory, CreatePlan, Null
    <2> QED  BY <2>1, <2>2, CreatesAre
  <1> QED  BY <1>1, <1>2 DEF PlanTyped, Plan, Plans

\* What a plan promises.
LEMMA PlanIsFit ==
  ASSUME NEW a, NEW cs, cs = Candidates(a) \ Used, NEW d, NEW view, Decided(d, cs, view),
         ~PlanConflict(d), NEW subject
  PROVE  PlanFits(Plan(d, subject), a)
  <1> DEFINE plan == Plan(d, subject)
  <1>0. plan.updates = Updates(d) /\ plan.creates = Creates(d, subject)
    BY DEF Plan
  <1>1. ASSUME NEW u \in Updates(d)
        PROVE  /\ u.target \in Memories /\ memory[u.target].user = User
               /\ memory[u.target].status \in Live
               /\ u.from # {}
               /\ IsReplacing(u) => CreateOf(u) \in Creates(d, subject)
    BY UpdateIs, CreatesAre DEF Recallable
  <1>2. ASSUME NEW u \in Updates(d), NEW v \in Updates(d), u.target = v.target \/ u.from \cap v.from # {}
        PROVE  u = v
    <2>1. u.target = v.target
      BY <1>2, UpdateIs
    <2> QED  BY <2>1, UpdateIs DEF Updates
  <1>3. ASSUME NEW p \in Creates(d, subject)
        PROVE  /\ p.from # {}
               /\ \/ p.kind = "none" /\ p.old = Null
                  \/ \E u \in Updates(d) : IsReplacing(u) /\ p = CreateOf(u)
    BY CreatesAre, GroupIs, UpdateIs, Numbers DEF NewMemory, CreateOf
  <1>4. ASSUME NEW p \in Creates(d, subject), NEW u \in Updates(d), p.from \cap u.from # {}
        PROVE  IsReplacing(u) /\ p = CreateOf(u)
    <2>1. CASE \E v \in Updates(d) : IsReplacing(v) /\ p = CreateOf(v)
      <3>1. PICK v \in Updates(d) : IsReplacing(v) /\ p = CreateOf(v)
        BY <2>1
      <3>2. v.from \cap u.from # {}
        BY <1>4, <3>1 DEF CreateOf
      <3> QED  BY <1>2, <3>1, <3>2
    <2>2. CASE \E g \in CreateGroups(d, subject) : p = NewMemory(g)
      <3>1. PICK g \in CreateGroups(d, subject) : p = NewMemory(g)
        BY <2>2
      <3>2. PICK c \in u.from : c \in g
        BY <1>4, <3>1 DEF NewMemory
      <3>3. d[c].action = "CREATE" /\ d[c].action \in {"MERGE"} \cup Replacing
        BY <3>2, GroupIs, UpdateIs
      <3> QED  BY <3>3 DEF Replacing
    <2> QED  BY <2>1, <2>2, CreatesAre
  <1>5. ASSUME NEW p \in Creates(d, subject), NEW q \in Creates(d, subject), p.from \cap q.from # {}
        PROVE  p = q
    <2>1. CASE \E u \in Updates(d) : IsReplacing(u) /\ p = CreateOf(u)
      BY <1>4, <1>5, <2>1 DEF CreateOf
    <2>2. CASE \E u \in Updates(d) : IsReplacing(u) /\ q = CreateOf(u)
      BY <1>4, <1>5, <2>2 DEF CreateOf
    <2>3. CASE \E g, h \in CreateGroups(d, subject) : p = NewMemory(g) /\ q = NewMemory(h)
      BY <1>5, <2>3, GroupIs DEF NewMemory
    <2> QED  BY <2>1, <2>2, <2>3, CreatesAre
  <1>6. PlannedEvidence(plan) \subseteq cs /\ (NothingSkipped => cs \subseteq PlannedEvidence(plan))
    BY PlannedIs
  <1> QED  BY <1>0, <1>1, <1>2, <1>3, <1>4, <1>5, <1>6 DEF PlanFits

-----------------------------------------------------------------------------
(* Types, with all faults *)

\* A run is well-typed; ms are the memories that exist.
RunOK(r, ms) ==
  /\ r \in Run
  /\ r.pc # "idle" => r.archive \in Archive
  /\ r.pc \notin {"idle", "align"} => DOMAIN r.view = Candidates(r.archive)
  /\ r.pc \in {"idle", "align"} => r.fresh = {} /\ r.plan = EmptyPlan
  /\ r.fresh \subseteq DOMAIN r.view
  /\ PlanTyped(r.plan, DOMAIN r.view, ms)
  /\ DOMAIN r.rows \subseteq ms

TypeInv ==
  /\ StoreTypeOK
  /\ entity \in [Names -> Entity \cup {NoEntity}]
  /\ doc \in [Ids -> Document \cup {NoDoc}]
  /\ task \in [Archive -> {"pending", "processing", "failed", "completed"}]
  /\ run \in [Workers -> Run]
  /\ \A w \in Workers : RunOK(run[w], Memories)

LEMMA EmptyPlanTyped ==
  ASSUME NEW cs, NEW ms
  PROVE  PlanTyped(EmptyPlan, cs, ms)
  <1>1. EmptyPlan \in Plans
    BY NoRunType
  <1> QED  BY <1>1 DEF PlanTyped, EmptyPlan

LEMMA NoRunOK ==
  ASSUME NEW ms
  PROVE  RunOK(NoRun, ms)
  <1>1. NoRun \in Run
    BY NoRunType
  <1>2. DOMAIN <<>> = {}
    <2>1. <<>> \in Seq({}) /\ Len(<<>>) = 0
      OBVIOUS
    <2> QED  BY <2>1
  <1> QED  BY <1>1, <1>2, EmptyPlanTyped DEF RunOK, NoRun

\* One worker takes a step that removes no memory.
LEMMA RunsStayTyped ==
  ASSUME TypeInv, NEW w \in Workers, NEW r, run' = [run EXCEPT ![w] = r],
         Memories \subseteq Memories', RunOK(r, Memories')
  PROVE  run' \in [Workers -> Run] /\ \A v \in Workers : RunOK(run'[v], Memories')
  <1>1. \A v \in Workers : run'[v] = IF v = w THEN r ELSE run[v]
    BY DEF TypeInv
  <1>2. \A v \in Workers : RunOK(run[v], Memories')
    BY DEF TypeInv, RunOK, PlanTyped
  <1>3. r \in Run
    BY DEF RunOK
  <1> QED  BY <1>1, <1>2, <1>3 DEF TypeInv

\* Steps that change neither node nor document.
LEMMA QuietStepTyped ==
  ASSUME TypeInv, NEW w \in Workers, NEW r, run' = [run EXCEPT ![w] = r], RunOK(r, Memories),
         UNCHANGED <<memory, now, entity, doc>>,
         task' \in [Archive -> {"pending", "processing", "failed", "completed"}]
  PROVE  TypeInv'
  <1>1. Memories' = Memories
    BY DEF Memories, Exists
  <1>2. run' \in [Workers -> Run] /\ \A v \in Workers : RunOK(run'[v], Memories')
    BY <1>1, RunsStayTyped
  <1>3. StoreTypeOK'
    BY DEF TypeInv, StoreTypeOK
  <1> QED  BY <1>2, <1>3 DEF TypeInv

\* A run ends.
LEMMA FinishTyped ==
  ASSUME TypeInv, NEW w \in Workers, ~At(w, "idle"), UNCHANGED <<memory, now, entity, doc>>,
         \/ Stop(w) /\ UNCHANGED task
         \/ \E status \in {"failed", "completed"} : Finish(w, status)
  PROVE  TypeInv'
  <1>1. run' = [run EXCEPT ![w] = NoRun]
    BY DEF Finish, Stop
  <1>2. task' \in [Archive -> {"pending", "processing", "failed", "completed"}]
    BY DEF Finish, Arc, TypeInv
  <1> QED  BY <1>1, <1>2, NoRunOK, QuietStepTyped

LEMMA StageFailsTyped ==
  ASSUME TypeInv, NEW w \in Workers, NEW stage, stage # "idle", StageFails(w, stage)
  PROVE  TypeInv'
  BY FinishTyped DEF StageFails, At

LEMMA MergedAliasesAre ==
  ASSUME NEW existing \in SUBSET Names, NEW new \in SUBSET Names
  PROVE  \A s \in MergedAliases(existing, new) :
           s \in SUBSET Names /\ existing \subseteq s /\ s \subseteq existing \cup new
  BY DEF MergedAliases, kSubset

\* Among the nodes that match a name, one has the smallest id.
LEMMA FirstMatchIs ==
  ASSUME entity \in [Names -> Entity \cup {NoEntity}], NEW n, Matches(n) # {}
  PROVE  FirstMatch(n) \in Matches(n) /\ FirstMatch(n) \in Known
  <1> DEFINE S == { IdRank[entity[k].id] : k \in Matches(n) }
  <1>1. Matches(n) \subseteq Known
    BY DEF Matches
  <1>2. \A k \in Matches(n) : entity[k].id \in EntityIds
    BY <1>1, EntitiesThatExist DEF Entity, Known
  <1>3. S \in SUBSET Nat /\ S # {}
    BY <1>2, GraphAssumption
  <1>4. PICK x \in S : \A y \in S : x <= y
    BY <1>3, LeastNatural
  <1>5. \E k \in Matches(n) : \A l \in Matches(n) : IdRank[entity[k].id] <= IdRank[entity[l].id]
    BY <1>4
  <1> QED  BY <1>1, <1>5 DEF FirstMatch

\* What a candidate's subject is aligned to.
LEMMA ViewsAre ==
  ASSUME entity \in [Names -> Entity \cup {NoEntity}], NEW w \in Workers, NEW c \in DOMAIN Name,
         NEW v \in Views(w, c)
  PROVE  /\ v \in View
         /\ IF Matches(Name[c]) = {}
            THEN v.key = Name[c] /\ v.id = EntityId(Name[c], w) /\ v.aliases \in MergedAliases({}, Alias[c])
            ELSE /\ v.key = FirstMatch(Name[c]) /\ v.key \in Known /\ v.key \in Matches(Name[c])
                 /\ v.id = entity[v.key].id
                 /\ v.aliases \in MergedAliases(entity[v.key].aliases, Alias[c])
                 /\ entity[v.key].aliases \subseteq v.aliases
  <1>1. Name[c] \in Names /\ Alias[c] \in SUBSET Names
    BY CandidatesNamed
  <1>2. CASE Matches(Name[c]) = {}
    <2>1. v.key = Name[c] /\ v.id = EntityId(Name[c], w) /\ v.aliases \in MergedAliases({}, Alias[c])
            /\ v = [key |-> v.key, id |-> v.id, aliases |-> v.aliases]
      BY <1>2 DEF Views, PlannedViews
    <2>2. v.id \in EntityIds /\ v.aliases \in SUBSET Names
      BY <1>1, <2>1, MergedAliasesAre DEF EntityIds
    <2> QED  BY <1>1, <1>2, <2>1, <2>2 DEF View
  <1>3. CASE Matches(Name[c]) # {}
    <2> DEFINE k == FirstMatch(Name[c])
    <2>1. k \in Matches(Name[c]) /\ k \in Known /\ k \in Names
      BY <1>3, FirstMatchIs DEF Known
    <2>2. entity[k] \in Entity
      BY <2>1, EntitiesThatExist
    <2>3. v.key = k /\ v.id = entity[k].id /\ v.aliases \in MergedAliases(entity[k].aliases, Alias[c])
            /\ v = [key |-> v.key, id |-> v.id, aliases |-> v.aliases]
      BY <1>3 DEF Views, ExistingViews
    <2>4. v.id \in EntityIds /\ v.aliases \in SUBSET Names /\ entity[k].aliases \subseteq v.aliases
      BY <1>1, <2>2, <2>3, MergedAliasesAre DEF Entity
    <2> HIDE DEF k
    <2>5. v \in View
      BY <2>1, <2>3, <2>4 DEF View
    <2> QED  BY <1>3, <2>1, <2>3, <2>4, <2>5 DEF k
  <1> QED  BY <1>2, <1>3

LEMMA StartTyped ==
  ASSUME TypeInv, NEW w \in Workers, NEW a \in Archive, Start(w, a)
  PROVE  TypeInv'
  <1> DEFINE r == [NoRun EXCEPT !.pc = "align", !.archive = a]
  <1>1. RunOK(r, Memories)
    <2>1. RunOK(NoRun, Memories)
      BY NoRunOK
    <2>2. NoRun \in Run
      BY NoRunType
    <2>3. r \in Run
      BY <2>2 DEF Run, Stages
    <2>4. r.pc = "align" /\ r.archive = a /\ r.view = NoRun.view /\ r.fresh = {}
            /\ r.plan = EmptyPlan /\ NoRun.plan = EmptyPlan /\ r.rows = NoRun.rows /\ NoRun.fresh = {}
      BY DEF NoRun
    <2> HIDE DEF r
    <2> QED  BY <2>1, <2>3, <2>4 DEF RunOK
  <1>2. task' \in [Archive -> {"pending", "processing", "failed", "completed"}]
    BY DEF Start, TypeInv
  <1> HIDE DEF r
  <1>3. run' = [run EXCEPT ![w] = r]
    BY DEF Start, r
  <1> QED  BY <1>1, <1>2, <1>3, QuietStepTyped DEF Start

LEMMA AlignTyped ==
  ASSUME TypeInv, NEW w \in Workers, AlignEntities(w)
  PROVE  TypeInv'
  <1> DEFINE cs == Candidates(Arc(w))
  <1>0. run[w] \in Run /\ RunOK(run[w], Memories) /\ run[w].pc = "align" /\ cs \in SUBSET DOMAIN Name
    BY CandidatesNamed DEF TypeInv, AlignEntities, At
  <1>1. PICK view : /\ DOMAIN view = cs /\ view \in [cs -> View]
                    /\ run' = [run EXCEPT ![w].pc = "reconcile", ![w].view = view]
    <2>1. PICK view : /\ view \in [cs -> UNION { Views(w, c) : c \in cs }]
                      /\ \A c \in cs : view[c] \in Views(w, c)
                      /\ run' = [run EXCEPT ![w].pc = "reconcile", ![w].view = view]
      BY DEF AlignEntities
    <2>2. \A c \in cs : view[c] \in View
      BY <1>0, <2>1, ViewsAre DEF TypeInv
    <2>3. view \in [cs -> View]
      BY <2>1, <2>2
    <2> QED  BY <2>1, <2>3
  <1> DEFINE r == [run[w] EXCEPT !.pc = "reconcile", !.view = view]
  <1>2. view \in Alignments
    BY <1>0, <1>1 DEF Alignments
  <1>3. r \in Run
    BY <1>0, <1>2 DEF Run, Stages
  <1>4. r.fresh = {} /\ r.plan = EmptyPlan /\ r.view = view /\ DOMAIN view = Candidates(r.archive)
          /\ r.pc = "reconcile" /\ r.archive \in Archive /\ DOMAIN r.rows \subseteq Memories
    BY <1>0, <1>1 DEF RunOK, Run, Arc
  <1> HIDE DEF r
  <1>5. RunOK(r, Memories)
    BY <1>3, <1>4, EmptyPlanTyped DEF RunOK
  <1>6. run' = [run EXCEPT ![w] = r]
    BY <1>1 DEF r
  <1> QED  BY <1>5, <1>6, QuietStepTyped DEF AlignEntities, TypeInv

LEMMA FindProcessedTyped ==
  ASSUME TypeInv, NEW w \in Workers, FindProcessed(w)
  PROVE  TypeInv'
  <1> DEFINE fresh == Candidates(Arc(w)) \ Processed(Candidates(Arc(w)))
             r == [run[w] EXCEPT !.pc = "decide", !.fresh = fresh]
  <1>1. run[w] \in Run /\ RunOK(run[w], Memories) /\ run[w].pc = "reconcile"
          /\ fresh \in SUBSET DOMAIN Name /\ fresh \subseteq Candidates(Arc(w))
    BY CandidatesNamed DEF TypeInv, FindProcessed, At
  <1> HIDE DEF fresh
  <1>2. r \in Run
    BY <1>1 DEF Run, Stages
  <1>3. r.fresh \subseteq DOMAIN r.view /\ r.view = run[w].view /\ r.plan = run[w].plan
          /\ r.rows = run[w].rows /\ r.archive = run[w].archive /\ r.pc = "decide"
    BY <1>1 DEF RunOK, Run, Arc
  <1> HIDE DEF r
  <1>4. RunOK(r, Memories)
    BY <1>1, <1>2, <1>3 DEF RunOK
  <1>5. run' = [run EXCEPT ![w] = r]
    BY DEF FindProcessed, fresh, r
  <1> QED  BY <1>4, <1>5, QuietStepTyped DEF FindProcessed, TypeInv

\* The decisions of a run, taken together.
LEMMA DecisionsTaken ==
  ASSUME NEW w \in Workers, run[w].fresh \subseteq DOMAIN Name, Reconcile(w)
  PROVE  \E d : /\ Decided(d, run[w].fresh, run[w].view)
                /\ IF PlanConflict(d)
                   THEN Finish(w, "failed")
                   ELSE /\ run' = [run EXCEPT ![w].pc = "graph",
                                              ![w].plan = Plan(d, Subject(run[w].view)),
                                              ![w].fresh = {}]
                        /\ UNCHANGED task
  BY DEF Reconcile, Decided

LEMMA ReconcileTyped ==
  ASSUME TypeInv, NEW w \in Workers, Reconcile(w)
  PROVE  TypeInv'
  <1>1. run[w] \in Run /\ RunOK(run[w], Memories) /\ run[w].pc = "decide"
          /\ UNCHANGED <<memory, now, entity, doc>> /\ run[w].fresh \subseteq DOMAIN Name
    BY DEF TypeInv, Reconcile, At, Run
  <1>2. PICK d : /\ Decided(d, run[w].fresh, run[w].view)
                 /\ IF PlanConflict(d)
                    THEN Finish(w, "failed")
                    ELSE /\ run' = [run EXCEPT ![w].pc = "graph",
                                               ![w].plan = Plan(d, Subject(run[w].view)),
                                               ![w].fresh = {}]
                         /\ UNCHANGED task
    BY <1>1, DecisionsTaken
  <1>3. CASE PlanConflict(d)
    BY <1>1, <1>2, <1>3, FinishTyped DEF At
  <1>4. CASE ~PlanConflict(d)
    <2> DEFINE plan == Plan(d, Subject(run[w].view))
               r == [run[w] EXCEPT !.pc = "graph", !.plan = plan, !.fresh = {}]
    <2>1. PlanTyped(plan, run[w].fresh, Memories)
      BY <1>2, <1>4, PlanIsTyped
    <2> HIDE DEF plan
    <2>2. PlanTyped(plan, DOMAIN run[w].view, Memories) /\ plan \in Plans
      BY <1>1, <2>1 DEF PlanTyped, RunOK
    <2>3. r \in Run
      <3>1. PICK q \in Run : q = run[w]
        BY <1>1
      <3> QED  BY <2>2, <3>1 DEF Run, Stages
    <2>4. r.fresh = {} /\ r.plan = plan /\ r.view = run[w].view /\ r.archive = run[w].archive
            /\ r.pc = "graph" /\ r.rows = run[w].rows
      BY <1>1 DEF Run
    <2> HIDE DEF r
    <2>5. RunOK(r, Memories)
      BY <1>1, <2>2, <2>3, <2>4 DEF RunOK
    <2>6. run' = [run EXCEPT ![w] = r]
      BY <1>2, <1>4 DEF plan, r
    <2> QED  BY <1>1, <1>2, <1>4, <2>5, <2>6, QuietStepTyped DEF TypeInv
  <1> QED  BY <1>3, <1>4

LEMMA CheckProcessedTyped ==
  ASSUME TypeInv, NEW w \in Workers, CheckProcessed(w)
  PROVE  TypeInv'
  <1> DEFINE skipped == AllProcessed(run[w].plan)
             r == [run[w] EXCEPT !.pc = "write", !.skipped = skipped]
  <1>1. run[w] \in Run /\ RunOK(run[w], Memories) /\ run[w].pc = "graph" /\ skipped \in BOOLEAN
    BY DEF TypeInv, CheckProcessed, At, AllProcessed
  <1> HIDE DEF skipped
  <1>2. r \in Run
    BY <1>1 DEF Run, Stages
  <1>3. r.fresh = run[w].fresh /\ r.view = run[w].view /\ r.plan = run[w].plan
          /\ r.rows = run[w].rows /\ r.archive = run[w].archive /\ r.pc = "write"
    BY <1>1 DEF Run
  <1> HIDE DEF r
  <1>4. RunOK(r, Memories)
    BY <1>1, <1>2, <1>3 DEF RunOK
  <1>5. run' = [run EXCEPT ![w] = r]
    BY DEF CheckProcessed, skipped, r
  <1> QED  BY <1>4, <1>5, QuietStepTyped DEF CheckProcessed, TypeInv

LEMMA RepairTyped ==
  ASSUME TypeInv, NEW w \in Workers, RepairReplay(w) \/ RepairFails(w)
  PROVE  TypeInv'
  <1>1. run[w] \in Run /\ RunOK(run[w], Memories) /\ run[w].pc = "repair"
          /\ UNCHANGED <<memory, now, entity, doc, task>>
    BY DEF TypeInv, RepairReplay, RepairFails, At
  <1>2. CASE Stop(w)
    BY <1>1, <1>2, FinishTyped DEF At
  <1>3. ASSUME NEW seeds \in SUBSET (Ids \cup {Null}),
               run' = [run EXCEPT ![w] = [run[w] EXCEPT !.pc = "sync", !.seeds = seeds]]
        PROVE  TypeInv'
    <2> DEFINE r == [run[w] EXCEPT !.pc = "sync", !.seeds = seeds]
    <2>1. r \in Run
      BY <1>1 DEF Run, Stages
    <2>2. r.fresh = run[w].fresh /\ r.view = run[w].view /\ r.plan = run[w].plan
            /\ r.rows = run[w].rows /\ r.archive = run[w].archive /\ r.pc = "sync"
      BY <1>1 DEF Run
    <2> HIDE DEF r
    <2>3. RunOK(r, Memories)
      BY <1>1, <2>1, <2>2 DEF RunOK
    <2>4. run' = [run EXCEPT ![w] = r]
      BY <1>3 DEF r
    <2> QED  BY <1>1, <2>3, <2>4, QuietStepTyped DEF TypeInv
  <1>4. CASE run' = [run EXCEPT ![w].pc = "sync"]
    <2>1. run[w].seeds \in SUBSET (Ids \cup {Null}) /\ run[w] = [run[w] EXCEPT !.seeds = run[w].seeds]
      BY <1>1 DEF Run
    <2>2. [run[w] EXCEPT !.pc = "sync"] = [run[w] EXCEPT !.pc = "sync", !.seeds = run[w].seeds]
      BY <1>1 DEF Run
    <2> QED  BY <1>3, <1>4, <2>1, <2>2
  <1>5. CASE run' = [run EXCEPT ![w].pc = "sync", ![w].seeds = Supported(Arc(w))]
    <2>1. Supported(Arc(w)) \in SUBSET (Ids \cup {Null})
      BY DEF Supported, Memories
    <2>2. run' = [run EXCEPT ![w] = [run[w] EXCEPT !.pc = "sync", !.seeds = Supported(Arc(w))]]
      BY <1>5
    <2> QED  BY <1>3, <2>1, <2>2
  <1> QED  BY <1>2, <1>4, <1>5 DEF RepairReplay, RepairFails

\* The document made of a memory's row.
LEMMA RowTyped ==
  ASSUME StoreTypeOK, entity \in [Names -> Entity \cup {NoEntity}], NEW m \in Memories
  PROVE  Row(m) \in Document
  <1>1. memory[m] \in Node
    BY NodesThatExist DEF Memories
  <1>2. \A k \in Known : entity[k].aliases \in SUBSET Names
    BY EntitiesThatExist DEF Known, Entity
  <1>3. SubjectAliases(m) \in SUBSET Names
    BY <1>2 DEF SubjectAliases
  <1> QED  BY <1>1, <1>3 DEF Row, Document, Node

LEMMA LoadTyped ==
  ASSUME TypeInv, NEW w \in Workers, LoadRows(w)
  PROVE  TypeInv'
  <1> DEFINE ms == SyncSet(run[w].seeds, run[w].view)
             rows == [m \in ms |-> Row(m)]
             r == [run[w] EXCEPT !.pc = "index", !.rows = rows]
  <1>1. run[w] \in Run /\ RunOK(run[w], Memories) /\ run[w].pc = "sync"
          /\ UNCHANGED <<memory, now, entity, doc>>
    BY DEF TypeInv, LoadRows, At
  <1>2. CASE ms \subseteq Memories
    <2>1. DOMAIN rows = ms /\ ms \in SUBSET Ids /\ rows \in [ms -> Document]
      BY <1>2, RowTyped DEF TypeInv, Memories
    <2>2. run' = [run EXCEPT ![w] = r] /\ UNCHANGED task
      BY <1>2 DEF LoadRows
    <2> HIDE DEF ms, rows
    <2>0. rows \in UNION { [ns -> Document] : ns \in SUBSET Ids }
      BY <2>1
    <2>3. r \in Run
      BY <1>1, <2>0 DEF Run, Stages
    <2>4. r.fresh = run[w].fresh /\ r.view = run[w].view /\ r.plan = run[w].plan
            /\ r.rows = rows /\ r.archive = run[w].archive /\ r.pc = "index"
      BY <1>1 DEF Run
    <2> HIDE DEF r
    <2>5. RunOK(r, Memories)
      BY <1>1, <1>2, <2>1, <2>3, <2>4 DEF RunOK
    <2> QED  BY <1>1, <2>2, <2>5, QuietStepTyped DEF TypeInv
  <1>3. CASE ~(ms \subseteq Memories)
    BY <1>1, <1>3, FinishTyped DEF LoadRows, At
  <1> QED  BY <1>2, <1>3

\* Documents are stored, and the run is over.
LEMMA IndexTyped ==
  ASSUME TypeInv, NEW w \in Workers, WriteIndex(w)
  PROVE  TypeInv'
  <1> DEFINE rows == run[w].rows
  <1>1. run[w] \in Run /\ RunOK(run[w], Memories) /\ run[w].pc = "index" /\ UNCHANGED <<memory, now, entity>>
    BY DEF TypeInv, WriteIndex, At
  <1>2. PICK ms \in SUBSET DOMAIN rows : doc' = [m \in Ids |-> IF m \in ms THEN rows[m] ELSE doc[m]]
    BY DEF WriteIndex
  <1>3. \A m \in ms : rows[m] \in Document
    BY <1>1, <1>2 DEF Run
  <1> HIDE DEF rows
  <1>4. doc' \in [Ids -> Document \cup {NoDoc}]
    BY <1>2, <1>3 DEF TypeInv
  <1>5. \E status \in {"failed", "completed"} : Finish(w, status)
    BY DEF WriteIndex
  <1>6. run' = [run EXCEPT ![w] = NoRun]
    BY <1>5 DEF Finish, Stop
  <1>7. Memories' = Memories /\ StoreTypeOK'
    BY <1>1 DEF Memories, Exists, TypeInv, StoreTypeOK
  <1>8. run' \in [Workers -> Run] /\ \A v \in Workers : RunOK(run'[v], Memories')
    BY <1>6, <1>7, NoRunOK, RunsStayTyped
  <1>9. task' \in [Archive -> {"pending", "processing", "failed", "completed"}]
    BY <1>1, <1>5 DEF Finish, Arc, TypeInv
  <1> QED  BY <1>1, <1>4, <1>7, <1>8, <1>9 DEF TypeInv

LEMMA RetryTyped ==
  ASSUME TypeInv, NEW a \in Archive, Retry(a)
  PROVE  TypeInv'
  <1>1. task' \in [Archive -> {"pending", "processing", "failed", "completed"}]
    BY DEF Retry, TypeInv
  <1>2. UNCHANGED <<memory, now, entity, doc, run>>
    BY DEF Retry
  <1>3. Memories' = Memories /\ StoreTypeOK'
    BY <1>2 DEF Memories, Exists, TypeInv, StoreTypeOK
  <1> QED  BY <1>1, <1>2, <1>3 DEF TypeInv

-----------------------------------------------------------------------------
(* The graph transaction *)

\* A plan whose evidence this alignment covers.
PlanCovered(plan, view, ms) ==
  /\ view \in Alignments
  /\ PlanTyped(plan, DOMAIN view, ms)

LEMMA CoveredView ==
  ASSUME NEW plan, NEW view, NEW ms, PlanCovered(plan, view, ms)
  PROVE  /\ DOMAIN view \subseteq DOMAIN Name /\ \A c \in DOMAIN view : view[c] \in View
         /\ PlannedEvidence(plan) \subseteq DOMAIN view
         /\ ReferencedKeys(view, plan) \subseteq Names
  <1>1. DOMAIN view \subseteq DOMAIN Name /\ \A c \in DOMAIN view : view[c] \in View
    BY DEF PlanCovered, Alignments
  <1>2. PlannedEvidence(plan) \subseteq DOMAIN view
    BY PlannedBy DEF PlanCovered, PlanTyped
  <1> QED  BY <1>1, <1>2 DEF ReferencedKeys, View

LEMMA EntitiesAfterAre ==
  ASSUME entity \in [Names -> Entity \cup {NoEntity}], NEW plan, NEW view,
         PlanCovered(plan, view, Memories), NEW e \in EntitiesAfter(view, plan)
  PROVE  /\ e \in [Names -> Entity \cup {NoEntity}]
         /\ \A k \in Names \ ReferencedKeys(view, plan) : e[k] = entity[k]
         /\ \A k \in ReferencedKeys(view, plan) :
              /\ e[k] \in Entity
              /\ k \in Known => e[k].id = entity[k].id
              /\ k \notin Known => \E c \in DOMAIN view : view[c].key = k /\ e[k].id = view[c].id
              /\ \E c \in DOMAIN view : view[c].key = k /\ e[k].aliases = view[c].aliases
  <1> DEFINE keys == ReferencedKeys(view, plan)
  <1>0. PICK S : e \in [Names -> S]
    BY DEF EntitiesAfter
  <1>1. /\ DOMAIN e = Names
        /\ \A k \in Names : IF k \in keys THEN e[k] \in EntityRows(view, k) ELSE e[k] = entity[k]
    BY DEF EntitiesAfter
  <1>2. keys \subseteq Names /\ \A c \in DOMAIN view : view[c] \in View
    BY CoveredView
  <1> HIDE DEF keys
  <1>3. ASSUME NEW k \in keys
        PROVE  /\ e[k] \in Entity
               /\ k \in Known => e[k].id = entity[k].id
               /\ k \notin Known => \E c \in DOMAIN view : view[c].key = k /\ e[k].id = view[c].id
               /\ \E c \in DOMAIN view : view[c].key = k /\ e[k].aliases = view[c].aliases
    <2>1. e[k] \in EntityRows(view, k)
      BY <1>1, <1>2
    <2>2. e[k] = [id |-> e[k].id, aliases |-> e[k].aliases]
      BY <2>1 DEF EntityRows
    <2>3. PICK c \in DOMAIN view : view[c].key = k /\ e[k].aliases = view[c].aliases
      BY <2>1 DEF EntityRows
    <2>4. k \in Known => e[k].id = entity[k].id
      BY <2>1 DEF EntityRows
    <2>5. k \notin Known => \E b \in DOMAIN view : view[b].key = k /\ e[k].id = view[b].id
      BY <2>1 DEF EntityRows
    <2>6. e[k].id \in EntityIds
      BY <1>2, <2>4, <2>5, EntitiesThatExist DEF Known, Entity, View
    <2>7. e[k].aliases \in SUBSET Names
      BY <1>2, <2>3 DEF View
    <2> QED  BY <2>2, <2>3, <2>4, <2>5, <2>6, <2>7 DEF Entity
  <1>4. \A k \in Names : e[k] \in Entity \cup {NoEntity}
    BY <1>1, <1>3
  <1>5. e \in [Names -> Entity \cup {NoEntity}]
    BY <1>0, <1>4
  <1> QED  BY <1>1, <1>2, <1>3, <1>5 DEF keys

\* What the transaction writes: a node for each planned memory, and each target once more.
LEMMA TransactionIs ==
  ASSUME StoreTypeOK, NEW plan, NEW view, PlanCovered(plan, view, Memories),
         NEW id \in NewIds(plan), Transaction(view, plan, id)
  PROVE  /\ entity' \in EntitiesAfter(view, plan)
         /\ DOMAIN memory' = Ids
         /\ \A p \in plan.creates :
              /\ id[p] \in Ids \ Memories
              /\ \E c \in p.from : memory'[id[p]] = NewNode(p, entity'[view[c].key].id)
         /\ \A p, q \in plan.creates : id[p] = id[q] => p = q
         /\ \A m \in Memories :
              \/ \E u \in plan.updates : u.target = m /\ memory'[m] = UpdatedNode(memory[m], u, plan)
              \/ (\A u \in plan.updates : u.target # m) /\ memory'[m] = memory[m]
         /\ \A m \in Ids \ Memories : (\E p \in plan.creates : id[p] = m) \/ memory'[m] = memory[m]
  <1>1. \A p \in plan.creates : id[p] \in Ids \ Memories
    BY DEF NewIds
  <1>2. \A p, q \in plan.creates : id[p] = id[q] => p = q
    BY DEF NewIds
  <1>3. entity' \in EntitiesAfter(view, plan)
    BY DEF Transaction
  <1> DEFINE Made(m) == CHOOSE p \in plan.creates : id[p] = m
             About(p) == CHOOSE c \in p.from : TRUE
             subject == [m \in { id[p] : p \in plan.creates } |-> entity'[view[About(Made(m))].key].id]
  <1>4. memory' = MemoriesAfter(plan, id, subject)
    <2> DEFINE of(e) == [m \in { id[p] : p \in plan.creates } |-> e[view[About(Made(m))].key].id]
    <2>1. \E e : entity' = e /\ memory' = MemoriesAfter(plan, id, of(e))
      BY Zenon DEF Transaction
    <2>2. subject = of(entity')
      OBVIOUS
    <2> HIDE DEF of, subject
    <2> QED  BY <2>1, <2>2
  <1>5. \A p \in plan.creates : Made(id[p]) = p
    BY <1>2
  <1>6. \A p \in plan.creates : About(p) \in p.from
    BY DEF PlanCovered, PlanTyped
  <1>7. ASSUME NEW p \in plan.creates
        PROVE  subject[id[p]] = entity'[view[About(p)].key].id
    <2>1. id[p] \in { id[q] : q \in plan.creates }
      OBVIOUS
    <2> HIDE DEF Made, About
    <2> QED  BY <2>1, <1>5
  <1> HIDE DEF subject
  <1>8. /\ DOMAIN memory' = Ids
        /\ \A m \in Ids : memory'[m] =
             IF \E p \in plan.creates : id[p] = m
             THEN NewNode(Made(m), subject[m])
             ELSE IF \E u \in plan.updates : u.target = m
                  THEN UpdatedNode(memory[m], CHOOSE u \in plan.updates : u.target = m, plan)
                  ELSE memory[m]
    BY <1>4 DEF MemoriesAfter
  <1>9. ASSUME NEW p \in plan.creates
        PROVE  \E c \in p.from : memory'[id[p]] = NewNode(p, entity'[view[c].key].id)
    <2>1. memory'[id[p]] = NewNode(p, subject[id[p]])
      BY <1>1, <1>5, <1>8
    <2> HIDE DEF Made, About
    <2> QED  BY <2>1, <1>6, <1>7
  <1>10. ASSUME NEW m \in Memories
         PROVE  \/ \E u \in plan.updates : u.target = m /\ memory'[m] = UpdatedNode(memory[m], u, plan)
                \/ (\A u \in plan.updates : u.target # m) /\ memory'[m] = memory[m]
    <2>1. m \in Ids /\ ~ \E p \in plan.creates : id[p] = m
      BY <1>1 DEF Memories
    <2>2. CASE \E u \in plan.updates : u.target = m
      <3> DEFINE u == CHOOSE u \in plan.updates : u.target = m
      <3>1. u \in plan.updates /\ u.target = m
        BY <2>2
      <3>2. memory'[m] = UpdatedNode(memory[m], u, plan)
        BY <1>8, <2>1, <2>2
      <3> HIDE DEF u
      <3> QED  BY <3>1, <3>2
    <2> QED  BY <1>8, <2>1, <2>2
  <1>11. ASSUME NEW m \in Ids \ Memories, ~ \E p \in plan.creates : id[p] = m
         PROVE  memory'[m] = memory[m]
    <2>1. ~ \E u \in plan.updates : u.target = m
      BY DEF PlanCovered, PlanTyped
    <2> QED  BY <1>8, <1>11, <2>1
  <1> QED  BY <1>1, <1>2, <1>3, <1>8, <1>9, <1>10, <1>11

LEMMA NewNodeTyped ==
  ASSUME NEW plan, NEW view, PlanCovered(plan, view, Memories), NEW p \in plan.creates,
         NEW subject \in EntityIds, now \in 0..MaxTime
  PROVE  NewNode(p, subject) \in Node
  <1>1. p.kind \in {"none", "supersedes", "conflicts"} /\ p.old \in Ids \cup {Null}
          /\ p.latest \in 0..MaxTime
    BY DEF PlanCovered, PlanTyped, Plans, CreatePlan
  <1>2. p.from \in SUBSET Evidence
    BY CoveredView, GraphAssumption DEF PlanCovered, PlanTyped
  <1>3. [kind |-> p.kind, old |-> p.old] \in Link
    BY <1>1 DEF Link
  <1> QED  BY <1>1, <1>2, <1>3, Numbers, GraphAssumption DEF NewNode, Node, Status, Live

LEMMA UpdatedNodeTyped ==
  ASSUME NEW plan, NEW view, PlanCovered(plan, view, Memories), NEW u \in plan.updates, NEW node \in Node
  PROVE  UpdatedNode(node, u, plan) \in Node
  <1>1. u.latest \in 0..MaxTime
    BY DEF PlanCovered, PlanTyped
  <1>2. u.from \in SUBSET Evidence
    BY CoveredView, GraphAssumption DEF PlanCovered, PlanTyped
  <1>3. Supporting(node, plan, u) \in SUBSET Evidence
    BY <1>2 DEF Supporting, EvidenceForUpdate, Node
  <1>4. StatusAfter(u, node.status) \in Status
    BY DEF StatusAfter, Status, Live, Node
  <1>5. node.version + 1 \in Nat
    BY DEF Node
  <1> QED  BY <1>1, <1>3, <1>4, <1>5 DEF UpdatedNode, Node

LEMMA TransactionTyped ==
  ASSUME StoreTypeOK, entity \in [Names -> Entity \cup {NoEntity}], UNCHANGED now,
         NEW plan, NEW view, PlanCovered(plan, view, Memories),
         NEW id \in NewIds(plan), Transaction(view, plan, id)
  PROVE  /\ StoreTypeOK'
         /\ entity' \in [Names -> Entity \cup {NoEntity}]
         /\ Memories' = Memories \cup { id[p] : p \in plan.creates }
  <1>1. entity' \in [Names -> Entity \cup {NoEntity}]
    BY TransactionIs, EntitiesAfterAre
  <1>2. ASSUME NEW p \in plan.creates
        PROVE  memory'[id[p]] \in Node
    <2>1. PICK c \in p.from : memory'[id[p]] = NewNode(p, entity'[view[c].key].id)
      BY TransactionIs
    <2>2. view[c].key \in ReferencedKeys(view, plan)
      BY PlannedBy DEF ReferencedKeys
    <2>3. entity'[view[c].key].id \in EntityIds
      BY <2>2, TransactionIs, EntitiesAfterAre DEF Entity
    <2> QED  BY <2>1, <2>3, NewNodeTyped DEF StoreTypeOK
  <1>3. ASSUME NEW m \in Memories
        PROVE  memory'[m] \in Node
    <2>1. memory[m] \in Node
      BY NodesThatExist DEF Memories
    <2> QED  BY <2>1, TransactionIs, UpdatedNodeTyped
  <1>4. \A m \in Ids \ Memories : (\E p \in plan.creates : id[p] = m) \/ memory'[m] = memory[m]
    BY TransactionIs
  <1>5. \A m \in Ids \ Memories : memory[m] = NoNode
    BY DEF Memories, Exists
  <1>6. \A m \in Ids : memory'[m] \in Node \cup {NoNode}
    BY <1>2, <1>3, <1>4, <1>5
  <1>7. memory' \in [Ids -> Node \cup {NoNode}]
    <2>1. \E subject : memory' = MemoriesAfter(plan, id, subject)
      BY Zenon DEF Transaction
    <2>2. memory' = [m \in Ids |-> memory'[m]]
      BY <2>1 DEF MemoriesAfter
    <2> QED  BY <1>6, <2>2
  <1>8. StoreTypeOK'
    BY <1>7 DEF StoreTypeOK
  <1>9. NoNode \notin Node
    BY DEF Node, NoNode, Status, Live
  <1>10. \A p \in plan.creates : id[p] \in Ids
    BY DEF NewIds
  <1>11. Memories' = Memories \cup { id[p] : p \in plan.creates }
    BY <1>2, <1>3, <1>4, <1>5, <1>9, <1>10 DEF Memories, Exists
  <1> QED  BY <1>1, <1>8, <1>11

LEMMA WriteTyped ==
  ASSUME TypeInv, NEW w \in Workers, WriteGraph(w)
  PROVE  TypeInv'
  <1> DEFINE plan == run[w].plan
             Repair(new) == run' = [run EXCEPT ![w].pc = "repair", ![w].plan = EmptyPlan,
                                               ![w].skipped = FALSE, ![w].seeds = IndexSet(plan, new)]
  <1>1. run[w] \in Run /\ RunOK(run[w], Memories) /\ run[w].pc = "write" /\ UNCHANGED <<now, doc>>
    BY DEF TypeInv, WriteGraph, At
  <1>2. PlanCovered(plan, run[w].view, Memories)
    BY <1>1 DEF RunOK, PlanCovered, Run
  <1>3. ASSUME NEW ms, ms = Memories', Memories \subseteq ms, NEW new \in SUBSET (Ids \cup {Null}), Repair(new)
        PROVE  run' \in [Workers -> Run] /\ \A v \in Workers : RunOK(run'[v], Memories')
    <2> DEFINE seeds == IndexSet(plan, new)
               r == [run[w] EXCEPT !.pc = "repair", !.plan = EmptyPlan, !.skipped = FALSE, !.seeds = seeds]
    <2>1. seeds \in SUBSET (Ids \cup {Null})
      BY <1>2 DEF IndexSet, PlanCovered, PlanTyped, Memories
    <2>2. run' = [run EXCEPT ![w] = r]
      BY <1>3
    <2> HIDE DEF seeds
    <2>3. r \in Run
      BY <1>1, <2>1, NoRunType DEF Run, Stages
    <2>4. r.fresh = run[w].fresh /\ r.view = run[w].view /\ r.plan = EmptyPlan
            /\ r.rows = run[w].rows /\ r.archive = run[w].archive /\ r.pc = "repair"
      BY <1>1 DEF Run
    <2> HIDE DEF r
    <2>5. RunOK(r, ms)
      BY <1>1, <1>3, <2>3, <2>4, EmptyPlanTyped DEF RunOK
    <2> QED  BY <1>3, <2>2, <2>5, RunsStayTyped
  <1>4. CASE run[w].skipped
    <2>1. PICK new \in {{}, {Null}} : Repair(new)
      BY <1>4 DEF WriteGraph
    <2>2. UNCHANGED <<memory, entity, task>>
      BY <1>4 DEF WriteGraph
    <2>3. Memories' = Memories /\ StoreTypeOK'
      BY <1>1, <2>2 DEF Memories, Exists, TypeInv, StoreTypeOK
    <2>4. new \in SUBSET (Ids \cup {Null})
      BY <2>1
    <2> HIDE DEF Repair
    <2>5. run' \in [Workers -> Run] /\ \A v \in Workers : RunOK(run'[v], Memories')
      BY <1>3, <2>1, <2>3, <2>4
    <2> QED  BY <1>1, <2>2, <2>3, <2>5 DEF TypeInv
  <1>5. CASE ~run[w].skipped
    <2>1. PICK id \in NewIds(plan) :
            /\ Transaction(run[w].view, plan, id)
            /\ \/ Repair({ id[p] : p \in plan.creates }) /\ UNCHANGED task
               \/ Finish(w, "failed")
      BY <1>5 DEF WriteGraph
    <2>2. /\ StoreTypeOK'
          /\ entity' \in [Names -> Entity \cup {NoEntity}]
          /\ Memories' = Memories \cup { id[p] : p \in plan.creates }
      BY <1>1, <1>2, <2>1, TransactionTyped DEF TypeInv
    <2>3. { id[p] : p \in plan.creates } \in SUBSET (Ids \cup {Null})
      BY DEF NewIds
    <2>4. CASE Repair({ id[p] : p \in plan.creates }) /\ UNCHANGED task
      <3> HIDE DEF Repair
      <3>1. run' \in [Workers -> Run] /\ \A v \in Workers : RunOK(run'[v], Memories')
        BY <1>3, <2>2, <2>3, <2>4
      <3> QED  BY <1>1, <2>2, <2>4, <3>1 DEF TypeInv
    <2>5. CASE Finish(w, "failed")
      <3>1. run' = [run EXCEPT ![w] = NoRun]
        BY <2>5 DEF Finish, Stop
      <3>2. task' \in [Archive -> {"pending", "processing", "failed", "completed"}]
        BY <1>1, <2>5 DEF Finish, Arc, TypeInv
      <3>3. run' \in [Workers -> Run] /\ \A v \in Workers : RunOK(run'[v], Memories')
        BY <2>2, <3>1, NoRunOK, RunsStayTyped
      <3> QED  BY <1>1, <2>2, <3>2, <3>3 DEF TypeInv
    <2> QED  BY <2>1, <2>4, <2>5
  <1> QED  BY <1>4, <1>5

-----------------------------------------------------------------------------

LEMMA TypeInvInit ==
  ASSUME GraphInit
  PROVE  TypeInv
  <1>1. StoreTypeOK
    BY InitialAssumption, Numbers DEF GraphInit, StoreTypeOK
  <1>2. run \in [Workers -> Run] /\ \A w \in Workers : RunOK(run[w], Memories)
    BY NoRunType, NoRunOK DEF GraphInit
  <1> QED  BY <1>1, <1>2 DEF GraphInit, TypeInv

LEMMA TypeInvNext ==
  ASSUME TypeInv, [GraphNext]_graphVars
  PROVE  TypeInv'
  <1>1. CASE UNCHANGED graphVars
    <2>1. UNCHANGED <<memory, now, entity, doc, task, run>>
      BY <1>1 DEF graphVars
    <2>2. Memories' = Memories /\ StoreTypeOK'
      BY <2>1 DEF Memories, Exists, TypeInv, StoreTypeOK
    <2> QED  BY <2>1, <2>2 DEF TypeInv
  <1>2. ASSUME NEW a \in Archive, Retry(a) PROVE TypeInv'
    BY <1>2, RetryTyped
  <1>3. ASSUME NEW w \in Workers, NEW a \in Archive, Start(w, a) PROVE TypeInv'
    BY <1>3, StartTyped
  <1>4. ASSUME NEW w \in Workers, Stage(w) PROVE TypeInv'
    <2>1. CASE AlignEntities(w)  BY <2>1, AlignTyped
    <2>2. CASE AlignFails(w)  BY <2>2, StageFailsTyped DEF AlignFails
    <2>3. CASE FindProcessed(w)  BY <2>3, FindProcessedTyped
    <2>4. CASE Reconcile(w)  BY <2>4, ReconcileTyped
    <2>5. CASE ReconcileFails(w)  BY <2>5, StageFailsTyped DEF ReconcileFails
    <2>6. CASE CheckProcessed(w)  BY <2>6, CheckProcessedTyped
    <2>7. CASE PlanFails(w)  BY <2>7, StageFailsTyped DEF PlanFails
    <2>8. CASE WriteGraph(w)  BY <2>8, WriteTyped
    <2>9. CASE RepairReplay(w) \/ RepairFails(w)  BY <2>9, RepairTyped
    <2>10. CASE LoadRows(w)  BY <2>10, LoadTyped
    <2>11. CASE SyncFails(w)  BY <2>11, StageFailsTyped DEF SyncFails
    <2>12. CASE WriteIndex(w)  BY <2>12, IndexTyped
    <2>13. CASE Crash(w)  BY <2>13, FinishTyped DEF Crash
    <2> QED
      BY <1>4, <2>1, <2>2, <2>3, <2>4, <2>5, <2>6, <2>7, <2>8, <2>9, <2>10, <2>11, <2>12, <2>13
      DEF Stage
  <1> QED  BY <1>1, <1>2, <1>3, <1>4 DEF GraphNext

LEMMA TypesInvariant == GraphSpec => []TypeInv
  <1>1. GraphInit => TypeInv
    BY TypeInvInit
  <1>2. TypeInv /\ [GraphNext]_graphVars => TypeInv'
    BY TypeInvNext
  <1> QED  BY <1>1, <1>2, PTL DEF GraphSpec

\* Whatever happens, two workers at once included: nodes, documents, tasks and runs are
\* well-typed, and no run loads rows of memories that do not exist.
THEOREM GraphTypes == GraphSpec => []GraphTypeOK
  <1>1. TypeInv => GraphTypeOK
    <2> SUFFICES ASSUME TypeInv PROVE GraphTypeOK
      OBVIOUS
    <2>1. ASSUME NEW w \in Workers
          PROVE  /\ run[w].pc \in Stages
                 /\ At(w, "idle") \/ Arc(w) \in Archive
                 /\ \A c \in DOMAIN run[w].view : run[w].view[c] \in View
                 /\ run[w].plan.updates \subseteq UpdatePlan /\ run[w].plan.creates \subseteq CreatePlan
                 /\ DOMAIN run[w].rows \subseteq Memories
      <3>1. run[w] \in Run /\ RunOK(run[w], Memories)
        BY DEF TypeInv
      <3>2. \A c \in DOMAIN run[w].view : run[w].view[c] \in View
        BY <3>1 DEF Run, Alignments
      <3> QED  BY <3>1, <3>2 DEF Run, RunOK, Plans, At, Arc
    <2> QED  BY <2>1 DEF TypeInv, GraphTypeOK, Stages, Entity, Document
  <1> QED  BY <1>1, TypesInvariant, PTL

-----------------------------------------------------------------------------
(* One worker at a time: steps that leave the nodes alone *)

\* What is read of unchanged nodes is unchanged.
LEMMA NodesRead ==
  ASSUME UNCHANGED <<memory, entity>>
  PROVE  /\ Memories' = Memories /\ Used' = Used /\ Known' = Known
         /\ \A n : Matches(n)' = Matches(n)
         /\ \A a : Supported(a)' = Supported(a)
         /\ (NodesFit' <=> NodesFit)
  <1>1. Memories' = Memories /\ Known' = Known
    BY DEF Memories, Exists, Known
  <1>2. Used' = Used
    BY <1>1 DEF Used
  <1>3. \A n : Matches(n)' = Matches(n)
    BY <1>1 DEF Matches
  <1>4. \A a : Supported(a)' = Supported(a)
    BY <1>1 DEF Supported
  <1>5. EvidenceFits' <=> EvidenceFits
    BY <1>1 DEF EvidenceFits
  <1>6. EntitiesFit' <=> EntitiesFit
    BY <1>1, <1>2, <1>3 DEF EntitiesFit
  <1>7. \A k, m : MadeFor(k, m)' = MadeFor(k, m)
    BY <1>1 DEF MadeFor
  <1>8. \A m : RelationFits(m)' <=> RelationFits(m)
    BY <1>1, <1>7 DEF RelationFits
  <1>9. RelationsFit' <=> RelationsFit
    BY <1>1, <1>8 DEF RelationsFit
  <1> QED  BY <1>1, <1>2, <1>3, <1>4, <1>5, <1>6, <1>9 DEF NodesFit

LEMMA ViewsRead ==
  ASSUME UNCHANGED <<memory, entity>>, NEW w, NEW c
  PROVE  Views(w, c)' = Views(w, c)
  <1>1. \A n : Matches(n)' = Matches(n)
    BY NodesRead
  <1>2. \A n : FirstMatch(n)' = FirstMatch(n)
    BY <1>1 DEF FirstMatch
  <1>3. \A k : ExistingViews(k, c)' = ExistingViews(k, c)
    BY DEF ExistingViews
  <1> QED  BY <1>1, <1>2, <1>3 DEF Views, PlannedViews

LEMMA RowsRead ==
  ASSUME UNCHANGED <<memory, entity>>
  PROVE  /\ \A m : Row(m)' = Row(m)
         /\ \A seeds, view : SyncSet(seeds, view)' = SyncSet(seeds, view)
  <1>1. Memories' = Memories /\ Known' = Known
    BY NodesRead
  <1>2. \A m : SubjectAliases(m)' = SubjectAliases(m)
    BY <1>1 DEF SubjectAliases
  <1>3. \A m : Row(m)' = Row(m)
    BY <1>2 DEF Row
  <1>4. \A ids : Linked(ids)' = Linked(ids)
    BY <1>1 DEF Linked
  <1>5. \A ms : Neighbours(ms)' = Neighbours(ms)
    BY <1>1 DEF Neighbours, Exists
  <1> QED  BY <1>3, <1>4, <1>5 DEF SyncSet

LEMMA KnowledgeKept ==
  ASSUME UNCHANGED <<memory, entity>>, NEW r, NEW w
  PROVE  Knows(r, w)' <=> Knows(r, w)
  <1>1. PlanFits(r.plan, r.archive)' <=> PlanFits(r.plan, r.archive)
    BY NodesRead DEF PlanFits
  <1>2. \A c : AlignedTo(c, r.view[c])' <=> AlignedTo(c, r.view[c])
    BY NodesRead DEF AlignedTo
  <1>3. [m \in SyncSet(r.seeds, r.view) |-> Row(m)]' = [m \in SyncSet(r.seeds, r.view) |-> Row(m)]
    BY RowsRead
  <1> QED  BY <1>1, <1>2, <1>3, NodesRead, ViewsRead DEF Knows

\* Nothing has to be known of an idle worker.
LEMMA IdleKnows ==
  ASSUME NEW r, NEW w, r.pc = "idle"
  PROVE  Knows(r, w)
  BY DEF Knows

LEMMA OnlyOne ==
  ASSUME TypeInv, GraphInv, NEW w \in Workers, ~At(w, "idle") \/ \A v \in Workers : At(v, "idle"),
         NEW r, run' = [run EXCEPT ![w] = r]
  PROVE  /\ run'[w] = r /\ \A v \in Workers : v # w => run'[v] = run[v] /\ run[v].pc = "idle"
         /\ OneRuns'
  <1>1. \A v \in Workers : run'[v] = IF v = w THEN r ELSE run[v]
    BY DEF TypeInv
  <1>2. \A v \in Workers : v # w => run[v].pc = "idle"
    BY DEF GraphInv, OneRuns, At
  <1> QED  BY <1>1, <1>2 DEF OneRuns, At

LEMMA QuietStep ==
  ASSUME TypeInv, GraphInv, NEW w \in Workers, ~At(w, "idle") \/ \A v \in Workers : At(v, "idle"),
         NEW r, run' = [run EXCEPT ![w] = r], UNCHANGED <<memory, entity>>, Knows(r, w),
         r.pc # "idle" => task'[r.archive] = "processing",
         \A a \in Archive : task'[a] = "completed" =>
           task[a] = "completed" \/ (NothingSkipped => Candidates(a) \subseteq Used)
  PROVE  GraphInv'
  <1>1. /\ run'[w] = r /\ \A v \in Workers : v # w => run'[v] = run[v] /\ run[v].pc = "idle"
        /\ OneRuns'
    BY OnlyOne
  <1>2. \A v \in Workers : ~At(v, "idle")' => task'[run'[v].archive] = "processing"
    BY <1>1 DEF At
  <1>3. ASSUME NEW v \in Workers PROVE Knows(run[v], v)'
    <2>1. PICK q : q = run'[v]
      OBVIOUS
    <2>2. Knows(q, v)
      BY <1>1, <2>1, IdleKnows
    <2>3. Knows(q, v)'
      BY <2>2, KnowledgeKept
    <2> QED  BY <2>1, <2>3 DEF Knows
  <1>4. NodesFit'
    BY NodesRead DEF GraphInv
  <1>5. AllOrNone'
    BY NodesRead DEF GraphInv, AllOrNone
  <1> QED  BY <1>1, <1>2, <1>3, <1>4, <1>5 DEF GraphInv, Arc

LEMMA StartKeeps ==
  ASSUME TypeInv, GraphInv, OneAtATime, NEW w \in Workers, NEW a \in Archive, Start(w, a)
  PROVE  GraphInv'
  <1> DEFINE r == [NoRun EXCEPT !.pc = "align", !.archive = a]
  <1>1. r.pc = "align" /\ r.archive = a
    BY DEF NoRun
  <1>2. run' = [run EXCEPT ![w] = r] /\ UNCHANGED <<memory, entity>> /\ \A v \in Workers : At(v, "idle")
    BY DEF Start, OneAtATime
  <1>3. task'[a] = "processing" /\ \A b \in Archive : task'[b] = "completed" => task[b] = "completed"
    BY DEF Start, TypeInv
  <1> HIDE DEF r
  <1>4. Knows(r, w)
    BY <1>1 DEF Knows
  <1> QED  BY <1>1, <1>2, <1>3, <1>4, QuietStep

LEMMA FinishKeeps ==
  ASSUME TypeInv, GraphInv, NEW w \in Workers, ~At(w, "idle"), UNCHANGED <<memory, entity>>,
         \/ Stop(w) /\ UNCHANGED task
         \/ Finish(w, "failed")
         \/ Finish(w, "completed") /\ (NothingSkipped => Candidates(Arc(w)) \subseteq Used)
  PROVE  GraphInv'
  <1>1. run' = [run EXCEPT ![w] = NoRun] /\ NoRun.pc = "idle"
    BY DEF Finish, Stop, NoRun
  <1>2. Knows(NoRun, w)
    BY <1>1, IdleKnows
  <1>3. \A a \in Archive : task'[a] = "completed" =>
           task[a] = "completed" \/ (NothingSkipped => Candidates(a) \subseteq Used)
    BY DEF Finish, Arc, TypeInv
  <1> QED  BY <1>1, <1>2, <1>3, QuietStep

LEMMA StageFailsKeeps ==
  ASSUME TypeInv, GraphInv, NEW w \in Workers, NEW stage, stage # "idle", StageFails(w, stage)
  PROVE  GraphInv'
  BY FinishKeeps DEF StageFails, At

\* A step within a run.
LEMMA StageKeeps ==
  ASSUME TypeInv, GraphInv, NEW w \in Workers, ~At(w, "idle"), UNCHANGED <<memory, entity, task>>,
         NEW r, run' = [run EXCEPT ![w] = r], Knows(r, w), r.archive = Arc(w)
  PROVE  GraphInv'
  <1>1. task'[r.archive] = "processing"
    BY DEF GraphInv
  <1> QED  BY <1>1, QuietStep

LEMMA AlignKeeps ==
  ASSUME TypeInv, GraphInv, NEW w \in Workers, AlignEntities(w)
  PROVE  GraphInv'
  <1>1. PICK view : /\ \A c \in Candidates(Arc(w)) : view[c] \in Views(w, c)
                    /\ run' = [run EXCEPT ![w].pc = "reconcile", ![w].view = view]
    BY DEF AlignEntities
  <1> DEFINE r == [run[w] EXCEPT !.pc = "reconcile", !.view = view]
  <1>2. r.pc = "reconcile" /\ r.archive = Arc(w) /\ r.view = view
    BY DEF TypeInv, Run, Arc
  <1>3. run' = [run EXCEPT ![w] = r]
    BY <1>1
  <1> HIDE DEF r
  <1>4. Knows(r, w)
    BY <1>1, <1>2 DEF Knows
  <1> QED  BY <1>2, <1>3, <1>4, StageKeeps DEF AlignEntities, At

LEMMA ProcessedIs ==
  ASSUME NEW cs \in SUBSET DOMAIN Name
  PROVE  Processed(cs) = cs \cap Used
  BY DEF Processed, Used

LEMMA FindProcessedKeeps ==
  ASSUME TypeInv, GraphInv, NEW w \in Workers, FindProcessed(w)
  PROVE  GraphInv'
  <1> DEFINE fresh == Candidates(Arc(w)) \ Processed(Candidates(Arc(w)))
             r == [run[w] EXCEPT !.pc = "decide", !.fresh = fresh]
  <1>1. r.pc = "decide" /\ r.archive = Arc(w) /\ r.view = run[w].view /\ r.fresh = fresh
    BY DEF TypeInv, Run, Arc
  <1>2. fresh = Candidates(Arc(w)) \ Used
    BY CandidatesNamed, ProcessedIs
  <1>3. run' = [run EXCEPT ![w] = r] /\ run[w].pc = "reconcile"
    BY DEF FindProcessed, At
  <1> HIDE DEF r, fresh
  <1>4. Knows(run[w], w)
    BY DEF GraphInv
  <1>5. Knows(r, w)
    BY <1>1, <1>2, <1>3, <1>4 DEF Knows, Arc
  <1> QED  BY <1>1, <1>3, <1>5, StageKeeps DEF FindProcessed, At

LEMMA ReconcileKeeps ==
  ASSUME TypeInv, GraphInv, NEW w \in Workers, Reconcile(w)
  PROVE  GraphInv'
  <1>1. /\ UNCHANGED <<memory, now, entity, doc>> /\ run[w].fresh \subseteq DOMAIN Name
        /\ Knows(run[w], w) /\ run[w].pc = "decide" /\ ~At(w, "idle") /\ run[w] \in Run
    BY DEF TypeInv, GraphInv, Reconcile, At, Run
  <1>2. PICK d : /\ Decided(d, run[w].fresh, run[w].view)
                 /\ IF PlanConflict(d)
                    THEN Finish(w, "failed")
                    ELSE /\ run' = [run EXCEPT ![w].pc = "graph",
                                               ![w].plan = Plan(d, Subject(run[w].view)),
                                               ![w].fresh = {}]
                         /\ UNCHANGED task
    BY <1>1, DecisionsTaken
  <1>3. CASE PlanConflict(d)
    BY <1>1, <1>2, <1>3, FinishKeeps
  <1>4. CASE ~PlanConflict(d)
    <2> DEFINE plan == Plan(d, Subject(run[w].view))
               r == [run[w] EXCEPT !.pc = "graph", !.plan = plan, !.fresh = {}]
    <2>1. run[w].fresh = Candidates(Arc(w)) \ Used
      BY <1>1 DEF Knows, Arc
    <2>2. PlanFits(plan, Arc(w))
      BY <1>2, <1>4, <2>1, PlanIsFit
    <2> HIDE DEF plan
    <2>3. r.pc = "graph" /\ r.plan = plan /\ r.archive = Arc(w) /\ r.view = run[w].view
      BY <1>1 DEF Run, Arc
    <2>4. run' = [run EXCEPT ![w] = r]
      BY <1>2, <1>4 DEF plan
    <2> HIDE DEF r
    <2>5. Knows(r, w)
      BY <1>1, <2>2, <2>3 DEF Knows, Arc
    <2> QED  BY <1>1, <1>2, <1>4, <2>3, <2>4, <2>5, StageKeeps
  <1> QED  BY <1>3, <1>4

\* None of the planned evidence is in the graph: nothing is skipped.
LEMMA CheckProcessedKeeps ==
  ASSUME TypeInv, GraphInv, NEW w \in Workers, CheckProcessed(w)
  PROVE  GraphInv'
  <1> DEFINE plan == run[w].plan
             r == [run[w] EXCEPT !.pc = "write", !.skipped = AllProcessed(plan)]
  <1>1. Knows(run[w], w) /\ run[w].pc = "graph" /\ ~At(w, "idle") /\ run[w] \in Run
    BY DEF TypeInv, GraphInv, CheckProcessed, At
  <1>2. PlannedEvidence(plan) \subseteq Candidates(Arc(w)) \ Used
    BY <1>1 DEF Knows, PlanFits, Arc
  <1>3. ~AllProcessed(plan)
    <2>1. Processed(PlannedEvidence(plan)) = PlannedEvidence(plan) \cap Used
      BY <1>2, CandidatesNamed, ProcessedIs
    <2> QED  BY <1>2, <2>1 DEF AllProcessed
  <1>4. r.pc = "write" /\ r.plan = plan /\ r.archive = Arc(w) /\ r.view = run[w].view /\ ~r.skipped
    BY <1>1, <1>3 DEF Run, Arc
  <1>5. run' = [run EXCEPT ![w] = r]
    BY DEF CheckProcessed
  <1> HIDE DEF r
  <1>6. Knows(r, w)
    BY <1>1, <1>4 DEF Knows, Arc
  <1> QED  BY <1>1, <1>4, <1>5, <1>6, StageKeeps DEF CheckProcessed

\* An empty set of seeds is replaced only if some of the archive's evidence is stored;
\* then all of it is.
LEMMA RepairKeeps ==
  ASSUME TypeInv, GraphInv, NEW w \in Workers, RepairReplay(w) \/ RepairFails(w)
  PROVE  GraphInv'
  <1> DEFINE a == Arc(w)
  <1>1. /\ Knows(run[w], w) /\ run[w].pc = "repair" /\ ~At(w, "idle") /\ run[w] \in Run
        /\ UNCHANGED <<memory, now, entity, doc, task>> /\ a \in Archive
    BY DEF TypeInv, GraphInv, RepairReplay, RepairFails, At, RunOK, Arc
  <1>2. CASE Stop(w)
    BY <1>1, <1>2, FinishKeeps
  <1>3. ASSUME NEW seeds, seeds \subseteq Memories,
               NothingSkipped => Candidates(a) \subseteq Used /\ Supported(a) \subseteq seeds,
               run' = [run EXCEPT ![w] = [run[w] EXCEPT !.pc = "sync", !.seeds = seeds]]
        PROVE  GraphInv'
    <2> DEFINE r == [run[w] EXCEPT !.pc = "sync", !.seeds = seeds]
    <2>1. r.pc = "sync" /\ r.seeds = seeds /\ r.archive = a /\ r.view = run[w].view
      BY <1>1 DEF Run, Arc
    <2>2. run' = [run EXCEPT ![w] = r]
      BY <1>3
    <2> HIDE DEF r
    <2>3. Knows(r, w)
      BY <1>1, <1>3, <2>1 DEF Knows, Arc
    <2> QED  BY <1>1, <2>1, <2>2, <2>3, StageKeeps
  <1>4. CASE run[w].seeds # {} /\ run' = [run EXCEPT ![w].pc = "sync"]
    <2>1. run[w].seeds \subseteq Memories
            /\ (NothingSkipped => Candidates(a) \subseteq Used /\ Supported(a) \subseteq run[w].seeds)
      BY <1>1, <1>4 DEF Knows, Arc
    <2>2. [run[w] EXCEPT !.pc = "sync"] = [run[w] EXCEPT !.pc = "sync", !.seeds = run[w].seeds]
      BY <1>1 DEF Run
    <2> QED  BY <1>3, <1>4, <2>1, <2>2
  <1>5. CASE Supported(a) # {} /\ run' = [run EXCEPT ![w].pc = "sync", ![w].seeds = Supported(a)]
    <2>1. Supported(a) \subseteq Memories
      BY DEF Supported
    <2>2. Candidates(a) \cap Used # {}
      <3>1. PICK m \in Memories : \E e \in memory[m].evidence : ArchiveOf[e] = a
        BY <1>5 DEF Supported, Archives
      <3>2. PICK e \in memory[m].evidence : ArchiveOf[e] = a
        BY <3>1
      <3>3. e \in DOMAIN Name
        BY <1>1, <3>2 DEF GraphInv, NodesFit, EvidenceFits
      <3> QED  BY <3>2, <3>3 DEF Candidates, Used
    <2>3. NothingSkipped => Candidates(a) \subseteq Used
      BY <1>1, <2>2 DEF GraphInv, AllOrNone
    <2> QED  BY <1>3, <1>5, <2>1, <2>3
  <1> QED  BY <1>2, <1>4, <1>5 DEF RepairReplay, RepairFails

LEMMA LoadKeeps ==
  ASSUME TypeInv, GraphInv, NEW w \in Workers, LoadRows(w)
  PROVE  GraphInv'
  <1> DEFINE ms == SyncSet(run[w].seeds, run[w].view)
             rows == [m \in ms |-> Row(m)]
             r == [run[w] EXCEPT !.pc = "index", !.rows = rows]
  <1>1. /\ Knows(run[w], w) /\ run[w].pc = "sync" /\ ~At(w, "idle") /\ run[w] \in Run
        /\ UNCHANGED <<memory, now, entity, doc>>
    BY DEF TypeInv, GraphInv, LoadRows, At
  <1>2. CASE Finish(w, "failed")
    BY <1>1, <1>2, FinishKeeps
  <1>3. CASE run' = [run EXCEPT ![w] = r] /\ UNCHANGED task
    <2>1. r.pc = "index" /\ r.archive = Arc(w) /\ r.view = run[w].view /\ r.seeds = run[w].seeds
            /\ r.rows = rows
      BY <1>1 DEF Run, Arc
    <2> HIDE DEF r
    <2>2. Knows(r, w)
      BY <1>1, <2>1 DEF Knows, Arc
    <2> QED  BY <1>1, <1>3, <2>1, <2>2, StageKeeps
  <1> QED  BY <1>2, <1>3 DEF LoadRows

LEMMA IndexKeeps ==
  ASSUME TypeInv, GraphInv, NEW w \in Workers, WriteIndex(w)
  PROVE  GraphInv'
  <1>1. Knows(run[w], w) /\ run[w].pc = "index" /\ ~At(w, "idle") /\ UNCHANGED <<memory, entity>>
    BY DEF GraphInv, WriteIndex, At
  <1>2. NothingSkipped => Candidates(Arc(w)) \subseteq Used
    BY <1>1 DEF Knows, Arc
  <1>3. Finish(w, "completed") \/ Finish(w, "failed")
    BY DEF WriteIndex
  <1> QED  BY <1>1, <1>2, <1>3, FinishKeeps

LEMMA RetryKeeps ==
  ASSUME TypeInv, GraphInv, NEW a \in Archive, Retry(a)
  PROVE  GraphInv'
  <1>1. UNCHANGED <<memory, entity, run>>
    BY DEF Retry
  <1>2. /\ \A b \in Archive : task[b] = "processing" => task'[b] = "processing"
        /\ \A b \in Archive : task'[b] = "completed" => task[b] = "completed"
    BY DEF Retry, TypeInv
  <1>3. \A w \in Workers : ~At(w, "idle")' => task'[Arc(w)'] = "processing"
    <2>1. \A w \in Workers : ~At(w, "idle") => Arc(w) \in Archive
      BY DEF TypeInv, RunOK, At, Arc
    <2> QED  BY <1>1, <1>2, <2>1 DEF GraphInv, At, Arc
  <1>4. ASSUME NEW v \in Workers PROVE Knows(run[v], v)'
    <2>1. PICK q : q = run[v]
      OBVIOUS
    <2>2. Knows(q, v)'
      BY <1>1, <2>1, KnowledgeKept DEF GraphInv
    <2> QED  BY <1>1, <2>1, <2>2 DEF Knows
  <1>5. NodesFit' /\ AllOrNone'
    BY <1>1, <1>2, NodesRead DEF GraphInv, AllOrNone
  <1>6. OneRuns'
    BY <1>1 DEF GraphInv, OneRuns, At
  <1> QED  BY <1>3, <1>4, <1>5, <1>6 DEF GraphInv

-----------------------------------------------------------------------------
(* One worker at a time: the transaction *)

\* Worker w writes, giving the new memories these ids.
Writes(w, id) ==
  /\ TypeInv /\ GraphInv
  /\ w \in Workers /\ At(w, "write") /\ UNCHANGED now
  /\ id \in NewIds(run[w].plan)
  /\ Transaction(run[w].view, run[w].plan, id)

LEMMA WritesFacts ==
  ASSUME NEW w, NEW id, Writes(w, id)
  PROVE  /\ PlanFits(run[w].plan, Arc(w)) /\ PlanCovered(run[w].plan, run[w].view, Memories)
         /\ DOMAIN run[w].view = Candidates(Arc(w)) /\ Arc(w) \in Archive
         /\ \A c \in Candidates(Arc(w)) : run[w].view[c] \in Views(w, c) /\ run[w].view[c] \in View
         /\ entity \in [Names -> Entity \cup {NoEntity}] /\ StoreTypeOK
         /\ StoreTypeOK' /\ entity' \in [Names -> Entity \cup {NoEntity}]
         /\ Memories' = Memories \cup { id[p] : p \in run[w].plan.creates }
  <1>1. run[w] \in Run /\ RunOK(run[w], Memories) /\ Knows(run[w], w) /\ run[w].pc = "write"
    BY DEF Writes, TypeInv, GraphInv, At
  <1>2. PlanCovered(run[w].plan, run[w].view, Memories)
    BY <1>1 DEF RunOK, PlanCovered, Run
  <1>3. DOMAIN run[w].view = Candidates(Arc(w)) /\ Arc(w) \in Archive
          /\ PlanFits(run[w].plan, Arc(w))
          /\ \A c \in Candidates(Arc(w)) : run[w].view[c] \in Views(w, c)
    BY <1>1 DEF RunOK, Knows, Arc
  <1>4. \A c \in Candidates(Arc(w)) : run[w].view[c] \in View
    BY <1>2, <1>3, CoveredView
  <1>5. entity \in [Names -> Entity \cup {NoEntity}] /\ StoreTypeOK
    BY DEF Writes, TypeInv
  <1>6. /\ StoreTypeOK' /\ entity' \in [Names -> Entity \cup {NoEntity}]
        /\ Memories' = Memories \cup { id[p] : p \in run[w].plan.creates }
    BY <1>2, <1>5, TransactionTyped DEF Writes
  <1> QED  BY <1>2, <1>3, <1>4, <1>5, <1>6

\* What a candidate of the archive has been aligned to: a node that is there, or one
\* that is to be made under the name itself.
LEMMA AlignmentIs ==
  ASSUME NEW w, NEW id, Writes(w, id), NEW c \in Candidates(Arc(w))
  PROVE  LET v == run[w].view[c]
         IN \/ /\ Matches(Name[c]) = {} /\ v.key = Name[c] /\ v.id = EntityId(Name[c], w)
               /\ v.key \notin Known /\ v.aliases \subseteq Alias[c]
            \/ /\ v.key \in Matches(Name[c]) /\ v.key \in Known /\ v.id = entity[v.key].id
               /\ entity[v.key].aliases \subseteq v.aliases
               /\ v.aliases \subseteq entity[v.key].aliases \cup Alias[c]
  <1> DEFINE v == run[w].view[c]
  <1>1. v \in Views(w, c) /\ c \in DOMAIN Name /\ entity \in [Names -> Entity \cup {NoEntity}]
          /\ w \in Workers /\ Alias[c] \in SUBSET Names
    BY WritesFacts, CandidatesNamed DEF Writes
  <1> HIDE DEF v
  <1>2. CASE Matches(Name[c]) = {}
    <2>1. v.key = Name[c] /\ v.id = EntityId(Name[c], w) /\ v.aliases \in MergedAliases({}, Alias[c])
      BY <1>1, <1>2, ViewsAre
    <2>2. v.aliases \subseteq Alias[c]
      BY <1>1, <2>1, MergedAliasesAre
    <2>3. Name[c] \notin Known
      BY <1>2 DEF Matches
    <2> QED  BY <1>2, <2>1, <2>2, <2>3, Zenon DEF v
  <1>3. CASE Matches(Name[c]) # {}
    <2>1. /\ v.key \in Known /\ v.key \in Matches(Name[c]) /\ v.id = entity[v.key].id
          /\ v.aliases \in MergedAliases(entity[v.key].aliases, Alias[c])
          /\ entity[v.key].aliases \subseteq v.aliases
      BY <1>1, <1>3, ViewsAre
    <2>2. entity[v.key].aliases \in SUBSET Names
      BY <1>1, <2>1, EntitiesThatExist DEF Known, Entity
    <2>3. v.aliases \subseteq entity[v.key].aliases \cup Alias[c]
      BY <1>1, <2>1, <2>2, MergedAliasesAre
    <2> QED  BY <2>1, <2>3 DEF v
  <1> QED  BY <1>2, <1>3

\* Entity nodes keep their ids and their aliases; a new one has the id that was drawn for
\* it, and is found under its name.
LEMMA EntitiesWritten ==
  ASSUME NEW w, NEW id, Writes(w, id)
  PROVE  LET view == run[w].view
             keys == ReferencedKeys(view, run[w].plan)
         IN /\ Known' = Known \cup keys
            /\ \A k \in Known : entity'[k].id = entity[k].id /\ entity[k].aliases \subseteq entity'[k].aliases
            /\ \A k \in Known \ keys : entity'[k] = entity[k]
            /\ \A k \in keys \ Known : entity'[k].id = EntityId(k, w) /\ Matches(k) = {}
            /\ \A k \in keys : \E c \in Candidates(Arc(w)) :
                 view[c].key = k /\ entity'[k].aliases = view[c].aliases
  <1> DEFINE view == run[w].view
             plan == run[w].plan
             keys == ReferencedKeys(view, plan)
  <1>1. entity' \in EntitiesAfter(view, plan)
    BY WritesFacts, TransactionIs DEF Writes
  <1>2. /\ entity' \in [Names -> Entity \cup {NoEntity}]
        /\ \A k \in Names \ keys : entity'[k] = entity[k]
        /\ \A k \in keys :
             /\ entity'[k] \in Entity
             /\ k \in Known => entity'[k].id = entity[k].id
             /\ k \notin Known => \E c \in DOMAIN view : view[c].key = k /\ entity'[k].id = view[c].id
             /\ \E c \in DOMAIN view : view[c].key = k /\ entity'[k].aliases = view[c].aliases
    BY <1>1, WritesFacts, EntitiesAfterAre
  <1>3. keys \subseteq Names /\ DOMAIN view = Candidates(Arc(w)) /\ Known \subseteq Names
    BY WritesFacts, CoveredView DEF Known
  <1> HIDE DEF keys, view, plan
  <1>4. \A c \in DOMAIN view :
          \/ /\ Matches(Name[c]) = {} /\ view[c].key = Name[c] /\ view[c].id = EntityId(Name[c], w)
             /\ view[c].key \notin Known
          \/ view[c].key \in Known /\ entity[view[c].key].aliases \subseteq view[c].aliases
    BY <1>3, AlignmentIs DEF view
  <1>5. NoEntity \notin Entity
    <2>1. \A e \in Entity : "aliases" \in DOMAIN e
      BY DEF Entity
    <2> QED  BY <2>1 DEF NoEntity
  <1>6. Known' = Known \cup keys
    BY <1>2, <1>3, <1>5 DEF Known
  <1>7. \A k \in Known : entity'[k].id = entity[k].id /\ entity[k].aliases \subseteq entity'[k].aliases
    BY <1>2, <1>3, <1>4
  <1>8. \A k \in keys \ Known : entity'[k].id = EntityId(k, w) /\ Matches(k) = {}
    BY <1>2, <1>4
  <1> QED  BY <1>2, <1>3, <1>6, <1>7, <1>8 DEF keys, view, plan

\* A node that matches a name goes on matching it.
LEMMA MatchesGrow ==
  ASSUME NEW w, NEW id, Writes(w, id), NEW n
  PROVE  Matches(n) \subseteq Matches(n)'
  <1>1. /\ Known' = Known \cup ReferencedKeys(run[w].view, run[w].plan)
        /\ \A k \in Known : entity[k].aliases \subseteq entity'[k].aliases
        /\ \A k \in ReferencedKeys(run[w].view, run[w].plan) \ Known : Matches(k) = {}
    BY EntitiesWritten
  <1> QED  BY <1>1 DEF Matches

\* After the write, whom c mentions is the entity it was aligned to: if its evidence is
\* planned, or the entity was there.
LEMMA AlignedAfter ==
  ASSUME NEW w, NEW id, Writes(w, id), NEW c \in Candidates(Arc(w)),
         c \in PlannedEvidence(run[w].plan) \/ Matches(Name[c]) # {}
  PROVE  LET v == run[w].view[c]
         IN v.key \in Known' /\ entity'[v.key].id = v.id /\ v.key \in Matches(Name[c])'
  <1> DEFINE v == run[w].view[c]
             keys == ReferencedKeys(run[w].view, run[w].plan)
  <1>1. /\ Known' = Known \cup keys
        /\ \A k \in Known : entity'[k].id = entity[k].id
        /\ \A k \in keys \ Known : entity'[k].id = EntityId(k, w)
    BY EntitiesWritten
  <1>2. c \in PlannedEvidence(run[w].plan) => v.key \in keys
    BY DEF ReferencedKeys
  <1> HIDE DEF keys
  <1>3. CASE /\ Matches(Name[c]) = {} /\ v.key = Name[c] /\ v.id = EntityId(Name[c], w)
             /\ v.key \notin Known
    BY <1>1, <1>2, <1>3 DEF Matches
  <1>4. CASE v.key \in Matches(Name[c]) /\ v.key \in Known /\ v.id = entity[v.key].id
    BY <1>1, <1>4, MatchesGrow
  <1> QED  BY <1>3, <1>4, AlignmentIs

\* The memories after the write: the new ones, the updated ones and the others.
LEMMA MemoriesWritten ==
  ASSUME NEW w, NEW id, Writes(w, id)
  PROVE  LET plan == run[w].plan
         IN /\ \A p \in plan.creates :
                 /\ id[p] \in Memories' \ Memories
                 /\ \E c \in p.from : memory'[id[p]] = NewNode(p, entity'[run[w].view[c].key].id)
            /\ \A p, q \in plan.creates : id[p] = id[q] => p = q
            /\ \A m \in Memories :
                 /\ m \in Memories'
                 /\ \/ \E u \in plan.updates : u.target = m /\ memory'[m] = UpdatedNode(memory[m], u, plan)
                    \/ (\A u \in plan.updates : u.target # m) /\ memory'[m] = memory[m]
            /\ \A m \in Memories' \ Memories : \E p \in plan.creates : id[p] = m
            /\ \A m \in Memories : memory[m] \in Node
            /\ \A m \in Memories' : memory'[m] \in Node
  <1>1. Memories' = Memories \cup { id[p] : p \in run[w].plan.creates } /\ StoreTypeOK'
    BY WritesFacts
  <1>2. PlanCovered(run[w].plan, run[w].view, Memories) /\ StoreTypeOK
    BY WritesFacts
  <1>3. \A m \in Memories : memory[m] \in Node
    BY <1>2, NodesThatExist DEF Memories
  <1>4. \A m \in Memories' : memory'[m] \in Node
    BY <1>1 DEF StoreTypeOK, Memories, Exists
  <1>5. Transaction(run[w].view, run[w].plan, id) /\ id \in NewIds(run[w].plan)
    BY DEF Writes
  <1> DEFINE plan == run[w].plan
  <1>6. /\ \A p \in plan.creates :
             /\ id[p] \in Ids \ Memories
             /\ \E c \in p.from : memory'[id[p]] = NewNode(p, entity'[run[w].view[c].key].id)
        /\ \A p, q \in plan.creates : id[p] = id[q] => p = q
        /\ \A m \in Memories :
             \/ \E u \in plan.updates : u.target = m /\ memory'[m] = UpdatedNode(memory[m], u, plan)
             \/ (\A u \in plan.updates : u.target # m) /\ memory'[m] = memory[m]
    BY <1>2, <1>5, TransactionIs
  <1> HIDE DEF plan
  <1>7. \A p \in plan.creates : id[p] \in Memories' \ Memories
    BY <1>1, <1>6 DEF plan
  <1>8. /\ \A m \in Memories : m \in Memories'
        /\ \A m \in Memories' \ Memories : \E p \in plan.creates : id[p] = m
    BY <1>1 DEF plan
  <1> QED  BY <1>3, <1>4, <1>6, <1>7, <1>8 DEF plan

\* The fields of a node that is updated, and of one that is made.
LEMMA UpdatedFields ==
  ASSUME NEW node \in Node, NEW u, NEW plan
  PROVE  LET new == UpdatedNode(node, u, plan)
         IN /\ new.user = node.user /\ new.subject = node.subject /\ new.link = node.link
            /\ new.status = StatusAfter(u, node.status) /\ new.version = node.version + 1
            /\ new.evidence = node.evidence \cup EvidenceForUpdate(plan, u)
            /\ new.consolidated = node.consolidated
  BY DEF UpdatedNode, Node, Supporting

LEMMA NewFields ==
  ASSUME NEW p, NEW subject
  PROVE  LET new == NewNode(p, subject)
         IN /\ new.user = User /\ new.subject = subject /\ new.link = [kind |-> p.kind, old |-> p.old]
            /\ new.status = (IF p.kind = "conflicts" THEN "conflicted" ELSE "active")
            /\ new.evidence = p.from /\ new.version = 1 /\ new.consolidated = Null
  BY DEF NewNode

\* What evidence each memory has after the write.
LEMMA EvidenceWritten ==
  ASSUME NEW w, NEW id, Writes(w, id), NEW m \in Memories', NEW e
  PROVE  LET plan == run[w].plan
         IN e \in memory'[m].evidence <=>
              \/ m \in Memories /\ e \in memory[m].evidence
              \/ \E p \in plan.creates : m = id[p] /\ e \in p.from
              \/ \E u \in plan.updates :
                   m = u.target /\ e \in u.from /\ \A p \in plan.creates : e \notin p.from
  <1> DEFINE plan == run[w].plan
  <1>1. \A u : e \in EvidenceForUpdate(plan, u) <=> e \in u.from /\ \A p \in plan.creates : e \notin p.from
    BY DEF EvidenceForUpdate
  <1>2. PlanFits(plan, Arc(w))
    BY WritesFacts
  <1>3. \A u, v \in plan.updates : u.target = v.target => u = v
    BY <1>2 DEF PlanFits
  <1>4. \A u \in plan.updates : u.target \in Memories
    BY <1>2 DEF PlanFits
  <1>5. CASE m \in Memories
    <2>1. \A p \in plan.creates : id[p] # m
      BY <1>5, MemoriesWritten
    <2>2. memory[m] \in Node
      BY <1>5, MemoriesWritten
    <2>3. CASE \E u \in plan.updates : u.target = m /\ memory'[m] = UpdatedNode(memory[m], u, plan)
      <3>1. PICK u \in plan.updates : u.target = m /\ memory'[m] = UpdatedNode(memory[m], u, plan)
        BY <2>3
      <3>2. memory'[m].evidence = memory[m].evidence \cup EvidenceForUpdate(plan, u)
        BY <2>2, <3>1, UpdatedFields
      <3> HIDE DEF plan
      <3>3. \A v \in plan.updates : v.target = m => v = u
        BY <1>3, <3>1
      <3>4. e \in memory'[m].evidence <=>
              e \in memory[m].evidence \/ (e \in u.from /\ \A p \in plan.creates : e \notin p.from)
        BY <1>1, <3>2
      <3> QED  BY <1>5, <2>1, <3>1, <3>3, <3>4 DEF plan
    <2>4. CASE (\A u \in plan.updates : u.target # m) /\ memory'[m] = memory[m]
      BY <1>5, <2>1, <2>4
    <2> QED  BY <1>5, <2>3, <2>4, MemoriesWritten
  <1>6. CASE m \notin Memories
    <2>1. PICK p \in plan.creates : id[p] = m
      BY <1>6, MemoriesWritten
    <2>2. PICK c \in p.from : memory'[m] = NewNode(p, entity'[run[w].view[c].key].id)
      BY <2>1, MemoriesWritten
    <2>3. memory'[m].evidence = p.from
      BY <2>2 DEF NewNode
    <2>4. \A q \in plan.creates : id[q] = m => q = p
      BY <2>1, MemoriesWritten
    <2> QED  BY <1>4, <1>6, <2>1, <2>3, <2>4
  <1> QED  BY <1>5, <1>6

LEMMA UsedWritten ==
  ASSUME NEW w, NEW id, Writes(w, id)
  PROVE  Used' = Used \cup PlannedEvidence(run[w].plan)
  <1> DEFINE plan == run[w].plan
  <1>1. PlanFits(plan, Arc(w))
    BY WritesFacts
  <1>2. PlannedEvidence(plan) \subseteq DOMAIN Name
    BY <1>1, CandidatesNamed DEF PlanFits
  <1>3. ASSUME NEW c \in Used' PROVE c \in Used \cup PlannedEvidence(plan)
    <2>1. PICK m \in Memories' : c \in memory'[m].evidence /\ c \in DOMAIN Name
      BY DEF Used
    <2> QED  BY <2>1, EvidenceWritten, PlannedBy DEF Used
  <1>4. ASSUME NEW c \in Used PROVE c \in Used'
    <2>1. PICK m \in Memories : c \in memory[m].evidence /\ c \in DOMAIN Name
      BY DEF Used
    <2>2. m \in Memories'
      BY MemoriesWritten
    <2> QED  BY <2>1, <2>2, EvidenceWritten DEF Used
  <1>5. ASSUME NEW c \in PlannedEvidence(plan) PROVE c \in Used'
    <2>1. CASE \E p \in plan.creates : c \in p.from
      <3>1. PICK p \in plan.creates : c \in p.from
        BY <2>1
      <3>2. id[p] \in Memories'
        BY MemoriesWritten
      <3> QED  BY <1>2, <3>1, <3>2, EvidenceWritten DEF Used
    <2>2. CASE \A p \in plan.creates : c \notin p.from
      <3>1. PICK u \in plan.updates : c \in u.from
        BY <2>2, PlannedBy
      <3>2. u.target \in Memories /\ u.target \in Memories'
        BY <1>1, MemoriesWritten DEF PlanFits
      <3> QED  BY <1>2, <2>2, <3>1, <3>2, EvidenceWritten DEF Used
    <2> QED  BY <2>1, <2>2
  <1> QED  BY <1>3, <1>4, <1>5

\* The evidence of a memory that is neither new nor updated was there before.
LEMMA EvidenceFitsAfter ==
  ASSUME NEW w, NEW id, Writes(w, id)
  PROVE  EvidenceFits'
  <1> DEFINE plan == run[w].plan
  <1>1. PlanFits(plan, Arc(w)) /\ EvidenceFits
    BY WritesFacts DEF Writes, GraphInv, NodesFit
  <1>2. \A p, q \in plan.creates : p.from \cap q.from # {} => p = q
    BY <1>1 DEF PlanFits
  <1>3. \A u, v \in plan.updates : u.from \cap v.from # {} => u = v
    BY <1>1 DEF PlanFits
  <1>4. \A c : (\E p \in plan.creates : c \in p.from) \/ (\E u \in plan.updates : c \in u.from) =>
          c \in DOMAIN Name /\ \A m \in Memories : c \notin memory[m].evidence
    BY <1>1, PlannedBy, CandidatesNamed DEF PlanFits, Used
  <1> HIDE DEF plan
  <1>5. ASSUME NEW c \in DOMAIN Name, NEW m \in Memories', NEW n \in Memories',
               c \in memory'[m].evidence, c \in memory'[n].evidence
        PROVE  m = n
    <2>1. \A x \in {m, n} :
             \/ x \in Memories /\ c \in memory[x].evidence
             \/ \E p \in plan.creates : x = id[p] /\ c \in p.from
             \/ \E u \in plan.updates :
                  x = u.target /\ c \in u.from /\ \A p \in plan.creates : c \notin p.from
      BY <1>5, EvidenceWritten DEF plan
    <2>2. CASE m \in Memories /\ c \in memory[m].evidence
      <3>1. n \in Memories /\ c \in memory[n].evidence
        BY <1>4, <2>1, <2>2
      <3> QED  BY <1>1, <2>2, <3>1 DEF EvidenceFits
    <2>3. CASE \E p \in plan.creates : m = id[p] /\ c \in p.from
      <3>1. PICK p \in plan.creates : m = id[p] /\ c \in p.from
        BY <2>3
      <3>2. PICK q \in plan.creates : n = id[q] /\ c \in q.from
        BY <1>4, <2>1, <3>1
      <3>3. p = q
        BY <1>2, <3>1, <3>2
      <3> QED  BY <3>1, <3>2, <3>3
    <2>4. CASE \E u \in plan.updates :
                  m = u.target /\ c \in u.from /\ \A p \in plan.creates : c \notin p.from
      <3>1. PICK u \in plan.updates : m = u.target /\ c \in u.from
        BY <2>4
      <3>2. PICK v \in plan.updates : n = v.target /\ c \in v.from
        BY <1>4, <2>1, <2>4
      <3>3. u = v
        BY <1>3, <3>1, <3>2
      <3> QED  BY <3>1, <3>2, <3>3
    <2> QED  BY <2>1, <2>2, <2>3, <2>4
  <1>6. ASSUME NEW m \in Memories', NEW e \in memory'[m].evidence, ArchiveOf[e] \in Archive
        PROVE  e \in DOMAIN Name
    BY <1>1, <1>4, <1>6, EvidenceWritten DEF EvidenceFits, plan
  <1> QED  BY <1>5, <1>6 DEF EvidenceFits

\* Nobody is related to a new memory yet, and a memory that is replaced or disputed is
\* related to the one memory made for it.
LEMMA MadeForWritten ==
  ASSUME NEW w, NEW id, Writes(w, id), NEW kind \in {"supersedes", "conflicts"}, NEW m \in Memories'
  PROVE  LET plan == run[w].plan
         IN MadeFor(kind, m)' =
              (IF m \in Memories THEN MadeFor(kind, m) ELSE {})
                \cup { id[p] : p \in { q \in plan.creates : q.kind = kind /\ q.old = m } }
  <1> DEFINE plan == run[w].plan
             made == { id[p] : p \in { q \in plan.creates : q.kind = kind /\ q.old = m } }
  <1>1. RelationsFit
    BY DEF Writes, GraphInv, NodesFit
  <1>2. Null \notin Memories' /\ Memories' \subseteq Ids
    BY Numbers DEF Memories
  <1>3. ASSUME NEW n \in Memories
        PROVE  memory'[n].link = memory[n].link
    <2>1. memory[n] \in Node
      BY MemoriesWritten
    <2> QED  BY <2>1, MemoriesWritten, UpdatedFields
  <1>4. ASSUME NEW n \in Memories, memory[n].link = [kind |-> kind, old |-> m]
        PROVE  m \in Memories
    BY <1>1, <1>2, <1>4 DEF RelationsFit
  <1>5. ASSUME NEW p \in plan.creates
        PROVE  /\ memory'[id[p]].link = [kind |-> p.kind, old |-> p.old]
               /\ id[p] \in Memories' /\ id[p] \notin Memories
    <2>1. PICK c \in p.from : memory'[id[p]] = NewNode(p, entity'[run[w].view[c].key].id)
      BY MemoriesWritten
    <2>2. memory'[id[p]].link = [kind |-> p.kind, old |-> p.old]
      BY <2>1 DEF NewNode
    <2> QED  BY <2>2, MemoriesWritten
  <1>6. \A n \in Memories' \ Memories : \E p \in plan.creates : id[p] = n
    BY MemoriesWritten
  <1>7. Memories \subseteq Memories'
    BY MemoriesWritten
  <1>8. ASSUME NEW n
        PROVE  n \in MadeFor(kind, m)' <=>
                 (m \in Memories /\ n \in MadeFor(kind, m)) \/ n \in made
    <2>1. CASE n \in Memories
      BY <1>3, <1>4, <1>5, <1>7, <2>1 DEF MadeFor
    <2>2. CASE n \in Memories' \ Memories
      <3>1. PICK p \in plan.creates : id[p] = n
        BY <1>6, <2>2
      <3>2. \A q \in plan.creates : id[q] = n => q = p
        BY <3>1, MemoriesWritten
      <3>3. n \in made <=> p.kind = kind /\ p.old = m
        BY <3>1, <3>2
      <3>4. n \in MadeFor(kind, m)' <=> p.kind = kind /\ p.old = m
        <4>1. memory'[n].link = [kind |-> p.kind, old |-> p.old]
          BY <1>5, <3>1
        <4>2. memory'[n].link = [kind |-> kind, old |-> m] <=> p.kind = kind /\ p.old = m
          BY <4>1
        <4> QED  BY <2>2, <4>2 DEF MadeFor
      <3> QED  BY <2>2, <3>3, <3>4 DEF MadeFor
    <2>3. CASE n \notin Memories'
      BY <1>5, <1>7, <2>3 DEF MadeFor
    <2> QED  BY <2>1, <2>2, <2>3
  <1> HIDE DEF made
  <1> QED  BY <1>8 DEF made

LEMMA RelationsFitAfter ==
  ASSUME NEW w, NEW id, Writes(w, id)
  PROVE  RelationsFit'
  <1> DEFINE plan == run[w].plan
             made(kind, m) == { id[p] : p \in { q \in plan.creates : q.kind = kind /\ q.old = m } }
  <1>1. PlanFits(plan, Arc(w)) /\ RelationsFit
    BY WritesFacts DEF Writes, GraphInv, NodesFit
  <1>2. Memories \subseteq Memories' /\ Memories' \subseteq Ids /\ Null \notin Ids
    BY MemoriesWritten, Numbers DEF Memories
  <1>3. /\ \A p \in plan.creates : \/ p.kind = "none" /\ p.old = Null
                                  \/ \E u \in plan.updates : IsReplacing(u) /\ p = CreateOf(u)
        /\ \A u \in plan.updates : IsReplacing(u) => CreateOf(u) \in plan.creates
        /\ \A u \in plan.updates : u.target \in Memories /\ memory[u.target].status \in Live
        /\ \A u, v \in plan.updates : u.target = v.target => u = v
    BY <1>1 DEF PlanFits
  <1>4. \A p \in plan.creates : \E c \in PlannedEvidence(plan) :
          c \in Candidates(Arc(w)) /\ memory'[id[p]] = NewNode(p, entity'[run[w].view[c].key].id)
    BY <1>1, MemoriesWritten, PlannedBy DEF PlanFits
  <1> HIDE DEF plan
  <1>5. ASSUME NEW m \in Memories', memory'[m].link.old # Null
        PROVE  memory'[m].link.old \in Memories'
    <2>1. CASE m \in Memories
      <3>1. memory'[m].link = memory[m].link
        <4>1. memory[m] \in Node
          BY <2>1, MemoriesWritten
        <4> QED  BY <2>1, <4>1, MemoriesWritten, UpdatedFields
      <3> QED  BY <1>1, <1>2, <1>5, <2>1, <3>1 DEF RelationsFit
    <2>2. CASE m \notin Memories
      <3>1. PICK p \in plan.creates : id[p] = m
        BY <2>2, MemoriesWritten DEF plan
      <3>2. memory'[m].link.old = p.old
        <4>1. PICK c : memory'[m] = NewNode(p, entity'[run[w].view[c].key].id)
          BY <1>4, <3>1
        <4> QED  BY <4>1 DEF NewNode
      <3> QED  BY <1>2, <1>3, <1>5, <3>1, <3>2 DEF CreateOf
    <2> QED  BY <2>1, <2>2
  <1>6. \A kind \in {"supersedes", "conflicts"}, m \in Memories' :
          MadeFor(kind, m)' = (IF m \in Memories THEN MadeFor(kind, m) ELSE {}) \cup made(kind, m)
    BY MadeForWritten DEF plan
  <1>7. ASSUME NEW m \in Memories', memory'[m].user = User, m \notin Memories
        PROVE  RelationFits(m)'
    <2>1. PICK p \in plan.creates : id[p] = m
      BY <1>7, MemoriesWritten DEF plan
    <2>2. PICK c \in PlannedEvidence(plan) :
            c \in Candidates(Arc(w)) /\ memory'[m] = NewNode(p, entity'[run[w].view[c].key].id)
      BY <1>4, <2>1
    <2>3. /\ memory'[m].status = (IF p.kind = "conflicts" THEN "conflicted" ELSE "active")
          /\ memory'[m].link.kind = p.kind /\ memory'[m].subject = entity'[run[w].view[c].key].id
      BY <2>2 DEF NewNode
    <2>4. \A kind : made(kind, m) = {}
      BY <1>2, <1>3, <1>7 DEF CreateOf
    <2>5. MadeFor("supersedes", m)' = {} /\ MadeFor("conflicts", m)' = {}
      BY <1>6, <1>7, <2>4
    <2>6. run[w].view[c].key \in Known'
      BY <2>2, AlignedAfter DEF plan
    <2> QED  BY <2>3, <2>5, <2>6 DEF RelationFits
  <1>8. ASSUME NEW m \in Memories', memory'[m].user = User, m \in Memories
        PROVE  RelationFits(m)'
    <2>1. memory[m] \in Node
      BY <1>8, MemoriesWritten
    <2>2. memory'[m].user = memory[m].user /\ memory'[m].subject = memory[m].subject
            /\ memory'[m].link = memory[m].link
      BY <1>8, <2>1, MemoriesWritten, UpdatedFields
    <2>3. RelationFits(m)
      BY <1>1, <1>8, <2>2 DEF RelationsFit
    <2>4. \E k \in Known' : entity'[k].id = memory'[m].subject
      BY <2>2, <2>3, EntitiesWritten DEF RelationFits
    <2>5. CASE (\A u \in plan.updates : u.target # m) /\ memory'[m] = memory[m]
      <3>1. \A kind \in {"supersedes", "conflicts"} : made(kind, m) = {}
        BY <1>2, <1>3, <2>5 DEF CreateOf
      <3>2. \A kind \in {"supersedes", "conflicts"} : MadeFor(kind, m)' = MadeFor(kind, m)
        BY <1>6, <1>8, <3>1
      <3> QED  BY <2>3, <2>4, <2>5, <3>2 DEF RelationFits
    <2>6. ASSUME NEW u \in plan.updates, u.target = m, memory'[m] = UpdatedNode(memory[m], u, plan)
          PROVE  RelationFits(m)'
      <3>1. memory'[m].status = StatusAfter(u, memory[m].status) /\ memory[m].status \in Live
        BY <1>3, <2>1, <2>6, UpdatedFields
      <3>2. MadeFor("supersedes", m) = {}
        BY <2>3, <3>1 DEF RelationFits, Live
      <3>3. \A v \in plan.updates : v.target = m => v = u
        BY <1>3, <2>6
      <3>4. \A p \in plan.creates : p.old = m => IsReplacing(u) /\ p = CreateOf(u)
        BY <1>2, <1>3, <3>3 DEF CreateOf
      <3>5. CASE ~IsReplacing(u)
        <4>0. \A kind \in {"supersedes", "conflicts"} : made(kind, m) = {}
          BY <3>4, <3>5
        <4>1. \A kind \in {"supersedes", "conflicts"} : MadeFor(kind, m)' = MadeFor(kind, m)
          BY <1>6, <1>8, <4>0
        <4>2. memory'[m].status = memory[m].status
          BY <3>1, <3>5 DEF StatusAfter, IsReplacing, Replacing
        <4> QED  BY <2>2, <2>3, <2>4, <4>1, <4>2 DEF RelationFits
      <3>6. CASE u.action = "SUPERSEDE"
        <4>1. CreateOf(u) \in plan.creates /\ CreateOf(u).kind = "supersedes" /\ CreateOf(u).old = m
          BY <1>3, <2>6, <3>6 DEF CreateOf, IsReplacing, Replacing
        <4>2. made("supersedes", m) = { id[CreateOf(u)] }
          BY <3>4, <4>1
        <4>3. MadeFor("supersedes", m)' = { id[CreateOf(u)] }
          BY <1>6, <1>8, <3>2, <4>2
        <4>4. memory'[m].status = "superseded"
          BY <3>1, <3>6 DEF StatusAfter
        <4> QED  BY <2>4, <4>3, <4>4 DEF RelationFits
      <3>7. CASE u.action = "CONFLICT"
        <4>1. CreateOf(u) \in plan.creates /\ CreateOf(u).kind = "conflicts" /\ CreateOf(u).old = m
          BY <1>3, <2>6, <3>7 DEF CreateOf, IsReplacing, Replacing
        <4>2. made("supersedes", m) = {} /\ id[CreateOf(u)] \in made("conflicts", m)
          BY <3>4, <4>1
        <4>3. MadeFor("supersedes", m)' = {} /\ MadeFor("conflicts", m)' # {}
          BY <1>6, <1>8, <3>2, <4>2
        <4>4. memory'[m].status = "conflicted"
          BY <3>1, <3>7 DEF StatusAfter
        <4> QED  BY <2>4, <4>3, <4>4 DEF RelationFits
      <3> QED  BY <3>5, <3>6, <3>7 DEF IsReplacing, Replacing
    <2> QED  BY <1>8, <2>5, <2>6, MemoriesWritten DEF plan
  <1> QED  BY <1>5, <1>7, <1>8 DEF RelationsFit

\* The user's own name leads to the reserved entity, and no other name does.
LEMMA SelfIsSelf ==
  ASSUME NEW w, NEW id, Writes(w, id), NEW c \in Candidates(Arc(w))
  PROVE  run[w].view[c].key = Self <=> Name[c] = Self
  <1>1. \A k \in Known : Self \notin entity[k].aliases /\ (k = Self => entity[k].aliases = {})
    BY DEF Writes, GraphInv, NodesFit, EntitiesFit
  <1>2. \A n : Self \in Matches(n) => n = Self
    BY <1>1 DEF Matches
  <1>3. \A k \in Matches(Self) : k = Self
    BY <1>1 DEF Matches
  <1>4. PICK v : v = run[w].view[c]
    OBVIOUS
  <1>5. v.key = Name[c] \/ v.key \in Matches(Name[c])
    BY <1>4, AlignmentIs
  <1> QED  BY <1>2, <1>3, <1>4, <1>5

LEMMA EntitiesFitAfter ==
  ASSUME NEW w, NEW id, Writes(w, id)
  PROVE  EntitiesFit'
  <1> DEFINE view == run[w].view
             keys == ReferencedKeys(view, run[w].plan)
  <1>1. EntitiesFit
    BY DEF Writes, GraphInv, NodesFit
  <1>2. ASSUME NEW k \in Known'
        PROVE  Self \notin entity'[k].aliases /\ (k = Self => entity'[k].aliases = {})
    <2>1. CASE k \in keys
      <3>1. PICK c \in Candidates(Arc(w)) : view[c].key = k /\ entity'[k].aliases = view[c].aliases
        BY <2>1, EntitiesWritten
      <3>2. \/ view[c].aliases \subseteq Alias[c]
            \/ k \in Known /\ view[c].aliases \subseteq entity[k].aliases \cup Alias[c]
        BY <3>1, AlignmentIs
      <3>3. Self \notin Alias[c] /\ (Name[c] = Self => Alias[c] = {})
        BY GraphAssumption DEF Candidates
      <3>4. k = Self => Name[c] = Self
        BY <3>1, SelfIsSelf
      <3> QED  BY <1>1, <3>1, <3>2, <3>3, <3>4 DEF EntitiesFit
    <2>2. CASE k \notin keys
      <3>1. k \in Known /\ entity'[k] = entity[k]
        BY <2>2, EntitiesWritten
      <3> QED  BY <1>1, <3>1 DEF EntitiesFit
    <2> QED  BY <2>1, <2>2
  <1>3. ASSUME NEW c \in Used'
        PROVE  Matches(Name[c])' # {}
    <2>1. CASE c \in Used
      BY <1>1, <2>1, MatchesGrow DEF EntitiesFit
    <2>2. CASE c \in PlannedEvidence(run[w].plan)
      <3>1. c \in Candidates(Arc(w))
        BY <2>2, WritesFacts DEF PlanFits
      <3> QED  BY <2>2, <3>1, AlignedAfter
    <2> QED  BY <2>1, <2>2, UsedWritten
  <1> QED  BY <1>2, <1>3 DEF EntitiesFit

\* If nothing was discarded, all of the archive's candidates are in the graph now.
LEMMA AllStored ==
  ASSUME NEW w, NEW id, Writes(w, id), NothingSkipped
  PROVE  Candidates(Arc(w)) \subseteq Used'
  BY UsedWritten, WritesFacts DEF PlanFits

LEMMA AllOrNoneAfter ==
  ASSUME NEW w, NEW id, Writes(w, id),
         \A a \in Archive : task'[a] = "completed" => task[a] = "completed"
  PROVE  AllOrNone'
  <1> SUFFICES ASSUME NothingSkipped, NEW a \in Archive
               PROVE  /\ Candidates(a) \subseteq Used' \/ Candidates(a) \cap Used' = {}
                      /\ task'[a] = "completed" => Candidates(a) \subseteq Used'
    BY DEF AllOrNone, NothingSkipped, Candidates
  <1>1. /\ Candidates(a) \subseteq Used \/ Candidates(a) \cap Used = {}
        /\ task[a] = "completed" => Candidates(a) \subseteq Used
    BY DEF Writes, GraphInv, AllOrNone
  <1>2. Used' = Used \cup PlannedEvidence(run[w].plan)
    BY UsedWritten
  <1>3. PlannedEvidence(run[w].plan) \subseteq Candidates(Arc(w))
    BY WritesFacts DEF PlanFits
  <1>4. CASE a = Arc(w)
    BY <1>4, AllStored
  <1>5. CASE a # Arc(w)
    <2>1. Candidates(a) \cap Candidates(Arc(w)) = {}
      BY <1>5 DEF Candidates
    <2> QED  BY <1>1, <1>2, <1>3, <2>1
  <1> QED  BY <1>4, <1>5

LEMMA SeedsExist ==
  ASSUME NEW w, NEW id, Writes(w, id)
  PROVE  IndexSet(run[w].plan, { id[p] : p \in run[w].plan.creates }) \subseteq Memories'
  <1>1. PlanFits(run[w].plan, Arc(w))
    BY WritesFacts
  <1>2. \A u \in run[w].plan.updates : u.target \in Memories
    BY <1>1 DEF PlanFits
  <1> QED  BY <1>2, MemoriesWritten DEF IndexSet

\* A memory that one of the archive's candidates supports has just been written, unless
\* there was nothing to write.
LEMMA SeedsAfter ==
  ASSUME NEW w, NEW id, Writes(w, id),
         NEW seeds, seeds = IndexSet(run[w].plan, { id[p] : p \in run[w].plan.creates }),
         NEW a, a = Arc(w)
  PROVE  NothingSkipped /\ seeds # {} => Supported(a)' \subseteq seeds
  <1> DEFINE plan == run[w].plan
  <1>1. PlanFits(plan, a) /\ a \in Archive
    BY WritesFacts
  <1>2. \A m : m \in seeds <=>
          (\E p \in plan.creates : m = id[p]) \/ \E u \in plan.updates : m = u.target
    BY DEF IndexSet
  <1>3. \A u \in plan.updates : u.target \in Memories /\ u.from # {}
    BY <1>1 DEF PlanFits
  <1>4. \A p \in plan.creates : p.from # {}
    BY <1>1 DEF PlanFits
  <1>6. ASSUME NothingSkipped, seeds # {}, NEW m \in Supported(a)'
        PROVE  m \in seeds
    <2>1. PlannedEvidence(plan) # {}
      <3>1. PICK x : (\E p \in plan.creates : x \in p.from) \/ \E u \in plan.updates : x \in u.from
        BY <1>2, <1>3, <1>4, <1>6
      <3> QED  BY <3>1, PlannedBy
    <2>2. Candidates(a) \cap Used = {}
      <3>1. PlannedEvidence(plan) \subseteq Candidates(a) \ Used
        BY <1>1 DEF PlanFits
      <3>2. Candidates(a) \subseteq Used \/ Candidates(a) \cap Used = {}
        BY <1>1, <1>6 DEF Writes, GraphInv, AllOrNone
      <3> QED  BY <2>1, <3>1, <3>2
    <2>3. PICK e \in memory'[m].evidence : ArchiveOf[e] = a /\ m \in Memories'
      BY <1>6 DEF Supported, Archives
    <2>4. e \in DOMAIN Name
      BY <1>1, <2>3, EvidenceFitsAfter DEF EvidenceFits
    <2>5. ~(m \in Memories /\ e \in memory[m].evidence)
      BY <2>2, <2>3, <2>4 DEF Candidates, Used
    <2> QED  BY <1>2, <2>3, <2>5, EvidenceWritten
  <1> QED  BY <1>6

LEMMA WriteKeeps ==
  ASSUME TypeInv, GraphInv, NEW w \in Workers, WriteGraph(w)
  PROVE  GraphInv'
  <1> DEFINE plan == run[w].plan
  <1>0. PICK a : a = Arc(w)
    OBVIOUS
  <1>1. /\ Knows(run[w], w) /\ run[w].pc = "write" /\ ~At(w, "idle") /\ run[w] \in Run
        /\ UNCHANGED <<now, doc>> /\ ~run[w].skipped /\ task[a] = "processing"
    BY <1>0 DEF TypeInv, GraphInv, WriteGraph, At, Knows
  <1>2. PICK id \in NewIds(plan) :
          /\ Transaction(run[w].view, plan, id)
          /\ \/ /\ run' = [run EXCEPT ![w].pc = "repair", ![w].plan = EmptyPlan, ![w].skipped = FALSE,
                                     ![w].seeds = IndexSet(plan, { id[p] : p \in plan.creates })]
                /\ UNCHANGED task
             \/ Finish(w, "failed")
    BY <1>1 DEF WriteGraph
  <1>3. Writes(w, id)
    BY <1>1, <1>2 DEF Writes, At
  <1>4. NodesFit'
    BY <1>3, EvidenceFitsAfter, RelationsFitAfter, EntitiesFitAfter DEF NodesFit
  <1>5. \A b \in Archive : task'[b] = "completed" => task[b] = "completed"
    BY <1>2 DEF Finish, TypeInv
  <1>6. AllOrNone'
    BY <1>3, <1>5, AllOrNoneAfter
  <1>7. CASE Finish(w, "failed")
    <2>1. run' = [run EXCEPT ![w] = NoRun] /\ NoRun.pc = "idle"
      BY <1>7 DEF Finish, Stop, NoRun
    <2>2. \A v \in Workers : run'[v].pc = "idle"
      <3>1. \A v \in Workers : v # w => run'[v] = run[v] /\ run[v].pc = "idle"
        BY <1>1, <2>1, OnlyOne
      <3>2. run'[w] = NoRun
        BY <1>1, <2>1, OnlyOne
      <3> QED  BY <2>1, <3>1, <3>2
    <2>3. OneRuns' /\ \A v \in Workers : ~At(v, "idle")' => task'[Arc(v)'] = "processing"
      BY <2>2 DEF OneRuns, At
    <2>4. \A v \in Workers : Knows(run[v], v)'
      BY <2>2 DEF Knows
    <2> QED  BY <1>4, <1>6, <2>3, <2>4 DEF GraphInv
  <1>8. ASSUME NEW seeds, seeds = IndexSet(plan, { id[p] : p \in plan.creates }), UNCHANGED task,
               NEW r, run' = [run EXCEPT ![w] = r],
               r = [run[w] EXCEPT !.pc = "repair", !.plan = EmptyPlan, !.skipped = FALSE, !.seeds = seeds]
        PROVE  GraphInv'
    <2>1. r.pc = "repair" /\ r.archive = a /\ r.view = run[w].view /\ r.seeds = seeds
      BY <1>0, <1>1, <1>8 DEF Run, Arc
    <2>2. run' = [run EXCEPT ![w] = r]
      BY <1>8
    <2>3. /\ run'[w] = r /\ \A v \in Workers : v # w => run'[v] = run[v] /\ run[v].pc = "idle"
          /\ OneRuns'
      BY <1>1, <2>2, OnlyOne
    <2>4. \A v \in Workers : ~At(v, "idle")' => task'[Arc(v)'] = "processing"
      BY <1>1, <1>8, <2>1, <2>3 DEF At, Arc
    <2>5. seeds \subseteq Memories' /\ (NothingSkipped /\ seeds # {} => Supported(a)' \subseteq seeds)
      <3>1. Writes(w, id) /\ seeds = IndexSet(run[w].plan, { id[p] : p \in run[w].plan.creates }) /\ a = Arc(w)
        BY <1>0, <1>3, <1>8
      <3>2. seeds \subseteq Memories'
        BY <3>1, SeedsExist
      <3>3. NothingSkipped /\ seeds # {} => Supported(a)' \subseteq seeds
        BY <3>1, SeedsAfter
      <3> QED  BY <3>2, <3>3
    <2>6. \A c \in Candidates(a) : r.view[c].key = Self <=> Name[c] = Self
      BY <1>0, <1>3, <2>1, SelfIsSelf
    <2>7. ASSUME NothingSkipped, NEW c \in Candidates(a)
          PROVE  AlignedTo(c, r.view[c])'
      <3>1. c \in PlannedEvidence(plan) \/ Matches(Name[c]) # {}
        <4>1. c \in PlannedEvidence(plan) \/ c \in Used
          BY <1>0, <1>3, <2>7, WritesFacts DEF PlanFits
        <4> QED  BY <4>1 DEF GraphInv, NodesFit, EntitiesFit
      <3>2. r.view[c].key \in Known' /\ entity'[r.view[c].key].id = r.view[c].id
              /\ r.view[c].key \in Matches(Name[c])'
        BY <1>0, <1>3, <2>1, <3>1, AlignedAfter
      <3> QED  BY <2>3, <3>2 DEF AlignedTo
    <2>8. NothingSkipped => Candidates(a) \subseteq Used'
      BY <1>0, <1>3, AllStored
    <2>9. Knows(r, w)'
      BY <2>1, <2>5, <2>6, <2>7, <2>8 DEF Knows, NothingSkipped
    <2>11. Knows(run[w], w)'
      BY <2>3, <2>9 DEF Knows
    <2>10. \A v \in Workers : v # w => Knows(run[v], v)'
      BY <2>3 DEF Knows
    <2> QED  BY <1>4, <1>6, <2>3, <2>4, <2>10, <2>11 DEF GraphInv
  <1>9. CASE /\ run' = [run EXCEPT ![w].pc = "repair", ![w].plan = EmptyPlan, ![w].skipped = FALSE,
                                   ![w].seeds = IndexSet(plan, { id[p] : p \in plan.creates })]
             /\ UNCHANGED task
    <2>1. PICK seeds : seeds = IndexSet(plan, { id[p] : p \in plan.creates })
      OBVIOUS
    <2>2. PICK r : r = [run[w] EXCEPT !.pc = "repair", !.plan = EmptyPlan, !.skipped = FALSE,
                                      !.seeds = seeds]
      OBVIOUS
    <2>3. run' = [run EXCEPT ![w] = r]
      BY <1>9, <2>1, <2>2
    <2> QED  BY <1>8, <1>9, <2>1, <2>2, <2>3
  <1> QED  BY <1>2, <1>7, <1>9

-----------------------------------------------------------------------------
(* One worker at a time: the theorems *)

LEMMA GraphInvInit ==
  ASSUME GraphInit
  PROVE  GraphInv
  <1>1. \A w \in Workers : run[w].pc = "idle"
    BY DEF GraphInit, NoRun
  <1>2. Known = {} /\ \A a \in Archive : task[a] # "completed"
    BY DEF GraphInit, Known
  <1>3. ASSUME NEW m \in Memories
        PROVE  /\ m \in Ids /\ memory[m].user # User
               /\ \A e \in memory[m].evidence : ArchiveOf[e] \notin Archive
               /\ memory[m].link.old # Null => memory[m].link.old \in Memories
    <2>1. m \in Ids /\ Initial[m] # NoNode /\ memory = Initial
      BY DEF GraphInit, Memories, Exists
    <2>2. Initial[m] \in Node
      BY <2>1, InitialAssumption
    <2>3. Initial[m].link.old \in Ids \cup {Null}
      BY <2>2 DEF Node, Link
    <2> QED  BY <2>1, <2>3, InitialAssumption DEF Memories, Exists
  <1>4. Used = {}
    BY <1>3, GraphAssumption DEF Used
  <1>5. NodesFit
    BY <1>2, <1>3, <1>4, GraphAssumption DEF NodesFit, EvidenceFits, RelationsFit, EntitiesFit
  <1>6. AllOrNone
    BY <1>2, <1>4 DEF AllOrNone
  <1>7. \A w \in Workers : Knows(run[w], w)
    BY <1>1, IdleKnows
  <1> QED  BY <1>1, <1>5, <1>6, <1>7 DEF GraphInv, OneRuns, At

LEMMA GraphInvNext ==
  ASSUME OneAtATime, TypeInv, GraphInv, [GraphNext]_graphVars
  PROVE  GraphInv'
  <1>1. CASE UNCHANGED graphVars
    <2>1. UNCHANGED <<memory, entity, task, run>>
      BY <1>1 DEF graphVars
    <2>2. NodesFit' /\ AllOrNone'
      BY <2>1, NodesRead DEF GraphInv, AllOrNone
    <2>3. ASSUME NEW v \in Workers PROVE Knows(run[v], v)'
      <3>1. PICK q : q = run[v]
        OBVIOUS
      <3>2. Knows(q, v)'
        BY <2>1, <3>1, KnowledgeKept DEF GraphInv
      <3> QED  BY <2>1, <3>1, <3>2 DEF Knows
    <2> QED  BY <2>1, <2>2, <2>3 DEF GraphInv, OneRuns, At, Arc
  <1>2. ASSUME NEW a \in Archive, Retry(a) PROVE GraphInv'
    BY <1>2, RetryKeeps
  <1>3. ASSUME NEW w \in Workers, NEW a \in Archive, Start(w, a) PROVE GraphInv'
    BY <1>3, StartKeeps
  <1>4. ASSUME NEW w \in Workers, Stage(w) PROVE GraphInv'
    <2>1. CASE AlignEntities(w)  BY <2>1, AlignKeeps
    <2>2. CASE AlignFails(w)  BY <2>2, StageFailsKeeps DEF AlignFails
    <2>3. CASE FindProcessed(w)  BY <2>3, FindProcessedKeeps
    <2>4. CASE Reconcile(w)  BY <2>4, ReconcileKeeps
    <2>5. CASE ReconcileFails(w)  BY <2>5, StageFailsKeeps DEF ReconcileFails
    <2>6. CASE CheckProcessed(w)  BY <2>6, CheckProcessedKeeps
    <2>7. CASE PlanFails(w)  BY <2>7, StageFailsKeeps DEF PlanFails
    <2>8. CASE WriteGraph(w)  BY <2>8, WriteKeeps
    <2>9. CASE RepairReplay(w) \/ RepairFails(w)  BY <2>9, RepairKeeps
    <2>10. CASE LoadRows(w)  BY <2>10, LoadKeeps
    <2>11. CASE SyncFails(w)  BY <2>11, StageFailsKeeps DEF SyncFails
    <2>12. CASE WriteIndex(w)  BY <2>12, IndexKeeps
    <2>13. CASE Crash(w)  BY <2>13, FinishKeeps DEF Crash
    <2> QED
      BY <1>4, <2>1, <2>2, <2>3, <2>4, <2>5, <2>6, <2>7, <2>8, <2>9, <2>10, <2>11, <2>12, <2>13
      DEF Stage
  <1> QED  BY <1>1, <1>2, <1>3, <1>4 DEF GraphNext

\* As long as one worker at a time works on the user's archives, GraphInv is kept.
THEOREM GraphInvariant ==
  ASSUME OneAtATime
  PROVE  GraphSpec => [](TypeInv /\ GraphInv)
  <1>1. GraphInit => TypeInv /\ GraphInv
    BY TypeInvInit, GraphInvInit
  <1>2. (TypeInv /\ GraphInv) /\ [GraphNext]_graphVars => (TypeInv /\ GraphInv)'
    BY TypeInvNext, GraphInvNext
  <1> QED  BY <1>1, <1>2, PTL DEF GraphSpec

LEMMA AtMostOne ==
  ASSUME NEW S, \A x, y \in S : x = y
  PROVE  IsFiniteSet(S) /\ Cardinality(S) \in 0..1 /\ (S # {} <=> Cardinality(S) = 1)
  <1>1. CASE S = {}
    BY <1>1, FS_EmptySet
  <1>2. CASE S # {}
    <2>1. PICK x \in S : TRUE
      BY <1>2
    <2>2. S = {x}
      BY <2>1
    <2> QED  BY <1>2, <2>2, FS_Singleton
  <1> QED  BY <1>1, <1>2

\* However often stages fail or die and archives are replayed, a candidate's evidence
\* supports at most one memory; and if the reconciliation discards nothing, all the
\* evidence of a completed archive is in the graph (find_processed_evidence_ids,
\* AllProcessed and the MERGE of Evidence nodes together).
THEOREM EvidenceSupportsOneMemory ==
  ASSUME OneAtATime, NothingSkipped
  PROVE  GraphSpec => []EvidenceOnce
  <1>1. GraphInv => EvidenceOnce
    <2> SUFFICES ASSUME GraphInv PROVE EvidenceOnce
      OBVIOUS
    <2>1. ASSUME NEW c \in DOMAIN Name
          PROVE  Cardinality({ m \in Memories : c \in memory[m].evidence }) <= 1
      <3> DEFINE S == { m \in Memories : c \in memory[m].evidence }
      <3>1. \A x, y \in S : x = y
        BY DEF GraphInv, NodesFit, EvidenceFits
      <3> HIDE DEF S
      <3>2. Cardinality(S) \in 0..1
        BY <3>1, AtMostOne
      <3> QED  BY <3>2 DEF S
    <2>2. ASSUME NEW a \in Archive, task[a] = "completed"
          PROVE  Processed(Candidates(a)) = Candidates(a)
      <3>1. Candidates(a) \subseteq Used
        BY <2>2 DEF GraphInv, AllOrNone
      <3>2. Processed(Candidates(a)) = Candidates(a) \cap Used
        BY CandidatesNamed, ProcessedIs
      <3> QED  BY <3>1, <3>2
    <2> QED  BY <2>1, <2>2 DEF EvidenceOnce
  <1> QED  BY <1>1, GraphInvariant, PTL

\* A memory is superseded exactly if one newer memory supersedes it, a live one is
\* conflicted exactly if it is in a conflict, and each is about an entity that exists:
\* the transaction marks the old memory and relates the new one together, and never
\* replaces a memory twice.
THEOREM RelationsAreKept ==
  ASSUME OneAtATime
  PROVE  GraphSpec => []RelationsHold
  <1>1. GraphInv => RelationsHold
    <2> SUFFICES ASSUME GraphInv, NEW m \in Memories, memory[m].user = User
                 PROVE  LET Newer(kind) == { n \in Memories : memory[n].link = [kind |-> kind, old |-> m] }
                        IN /\ (memory[m].status = "superseded") <=> (Cardinality(Newer("supersedes")) = 1)
                           /\ Cardinality(Newer("supersedes")) <= 1
                           /\ memory[m].status # "superseded" =>
                                (memory[m].status = "conflicted" <=>
                                   Newer("conflicts") # {} \/ memory[m].link.kind = "conflicts")
                           /\ \E k \in Known : entity[k].id = memory[m].subject
      BY DEF RelationsHold
    <2>1. RelationFits(m)
      BY DEF GraphInv, NodesFit, RelationsFit
    <2> DEFINE S == MadeFor("supersedes", m)
    <2>2. \A x, y \in S : x = y
      BY <2>1 DEF RelationFits
    <2> HIDE DEF S
    <2>3. Cardinality(S) \in 0..1 /\ (S # {} <=> Cardinality(S) = 1)
      <3>1. ASSUME NEW T, \A x, y \in T : x = y
            PROVE  Cardinality(T) \in 0..1 /\ (T # {} <=> Cardinality(T) = 1)
        BY <3>1, AtMostOne
      <3> QED  BY <2>2, <3>1
    <2> QED  BY <2>1, <2>3 DEF S, RelationFits, MadeFor
  <1> QED  BY <1>1, GraphInvariant, PTL

\* Only a write changes the nodes.
LEMMA NodesChange ==
  ASSUME TypeInv, GraphInv, [GraphNext]_graphVars
  PROVE  UNCHANGED <<memory, entity>> \/ \E w, id : Writes(w, id)
  <1>1. ASSUME NEW w \in Workers, WriteGraph(w)
        PROVE  \E id : Writes(w, id)
    <2>1. ~run[w].skipped /\ At(w, "write") /\ UNCHANGED now
      BY <1>1 DEF GraphInv, Knows, WriteGraph, At
    <2> QED  BY <1>1, <2>1 DEF WriteGraph, Writes
  <1> QED
    BY <1>1, ZenonT(60) DEF GraphNext, graphVars, Stage, Start, Retry, AlignEntities, AlignFails,
      FindProcessed, Reconcile, ReconcileFails, CheckProcessed, PlanFails, RepairReplay,
      RepairFails, LoadRows, SyncFails, WriteIndex, Crash, StageFails

\* Aliases are merged and entities matched, never replaced: what is known of an entity is
\* kept by every replay (EntitiesAfter, _plan_alias_merge).
THEOREM AliasesAreKept ==
  ASSUME OneAtATime
  PROVE  GraphSpec => AliasesKept
  <1> DEFINE Keep == \A k \in Known : entity'[k] # NoEntity /\ entity[k].aliases \subseteq entity'[k].aliases
  <1>1. TypeInv /\ GraphInv /\ [GraphNext]_graphVars => [Keep]_entity
    <2> SUFFICES ASSUME TypeInv, GraphInv, [GraphNext]_graphVars, entity' # entity
                 PROVE  Keep
      OBVIOUS
    <2>1. PICK w, id : Writes(w, id)
      BY NodesChange
    <2> QED  BY <2>1, EntitiesWritten DEF Known
  <1> QED  BY <1>1, GraphInvariant, PTL DEF GraphSpec, AliasesKept

\* The transactions of one worker at a time do to Memory nodes only what everyone who
\* reads them relies on: a change is a new version, evidence is not taken away, and no
\* superseded memory comes back.
THEOREM GraphImplementsStore ==
  ASSUME OneAtATime
  PROVE  GraphSpec => StoreSpec
  <1>1. GraphInit => StoreInit
    BY InitialAssumption DEF GraphInit, StoreInit, Memories, Exists
  <1>2. TypeInv /\ GraphInv /\ [GraphNext]_graphVars => [StoreStep]_memory
    <2> SUFFICES ASSUME TypeInv, GraphInv, [GraphNext]_graphVars, memory' # memory, NEW m \in Ids
                 PROVE  GraphStep(memory[m], memory'[m])
      BY DEF StoreStep, NodeStep
    <2>1. PICK w, id : Writes(w, id)
      BY NodesChange
    <2> DEFINE plan == run[w].plan
    <2>2. PlanFits(plan, Arc(w))
      BY <2>1, WritesFacts
    <2>3. ASSUME NEW u \in plan.updates, u.target = m, m \in Memories,
                 memory'[m] = UpdatedNode(memory[m], u, plan)
          PROVE  GraphStep(memory[m], memory'[m])
      <3>1. memory[m] \in Node /\ memory'[m] \in Node
        BY <2>1, <2>3, MemoriesWritten
      <3>2. memory[m].status # "superseded"
        BY <2>2, <2>3 DEF PlanFits, Live
      <3>3. memory'[m].version = memory[m].version + 1 /\ memory[m].evidence \subseteq memory'[m].evidence
        BY <2>3, <3>1, UpdatedFields
      <3>4. memory'[m] = [memory[m] EXCEPT !.version = memory'[m].version, !.status = memory'[m].status,
                                          !.evidence = memory'[m].evidence, !.latest = memory'[m].latest]
        BY <2>3, <3>1 DEF UpdatedNode, Node
      <3>5. memory[m] # NoNode /\ memory'[m] # NoNode
        BY <2>1, <2>3, MemoriesWritten DEF Memories, Exists
      <3> QED  BY <3>2, <3>3, <3>4, <3>5 DEF GraphStep, Rewritten
    <2>4. ASSUME NEW p \in plan.creates, id[p] = m
          PROVE  GraphStep(memory[m], memory'[m])
      <3>1. PICK c \in p.from : memory'[m] = NewNode(p, entity'[run[w].view[c].key].id)
        BY <2>1, <2>4, MemoriesWritten
      <3>2. /\ memory'[m].version = 1 /\ memory'[m].status \in Live /\ memory'[m].evidence = p.from
            /\ memory'[m].consolidated = Null
        BY <3>1 DEF NewNode, Live
      <3>3. p.from # {}
        BY <2>2 DEF PlanFits
      <3>4. memory[m] = NoNode /\ memory'[m] # NoNode
        BY <2>1, <2>4, MemoriesWritten DEF Memories, Exists
      <3> QED  BY <3>2, <3>3, <3>4 DEF GraphStep, Created
    <2>5. CASE m \in Memories
      BY <2>1, <2>3, <2>5, MemoriesWritten DEF GraphStep
    <2>6. CASE m \notin Memories
      <3>1. CASE m \in Memories'
        BY <2>1, <2>4, <2>6, <3>1, MemoriesWritten
      <3>2. CASE m \notin Memories'
        BY <2>6, <3>2 DEF Memories, Exists, GraphStep
      <3> QED  BY <3>1, <3>2
    <2> QED  BY <2>5, <2>6
  <1> QED  BY <1>1, <1>2, GraphInvariant, PTL DEF GraphSpec, StoreSpec

-----------------------------------------------------------------------------
(* One worker at a time: the retrieval index *)

\* With no ambiguous alias a name matches one node at most.
LEMMA OneMatch ==
  ASSUME Unambiguous, NEW n, NEW k \in Matches(n), NEW l \in Matches(n)
  PROVE  k = l
  BY DEF Matches, Unambiguous

\* No alias is given to candidates of different names.
OwnAliases ==
  \A c, d \in DOMAIN Name : Alias[c] \cap Alias[d] # {} => Name[c] = Name[d]

\* Every stored alias was given by a candidate that mentions its entity.
AliasesGiven ==
  \A k \in Known : \A x \in entity[k].aliases :
    \E c \in DOMAIN Name : x \in Alias[c] /\ k \in Matches(Name[c])

LEMMA AliasesGivenAfter ==
  ASSUME NEW w, NEW id, Writes(w, id), AliasesGiven, NEW k \in Known', NEW x \in entity'[k].aliases
  PROVE  \E c \in DOMAIN Name :
           /\ x \in Alias[c] /\ k \in Matches(Name[c])'
           /\ k \in Matches(Name[c]) \/ (Matches(Name[c]) = {} /\ k = Name[c])
  <1> DEFINE keys == ReferencedKeys(run[w].view, run[w].plan)
  <1>1. CASE k \in Known /\ x \in entity[k].aliases
    BY <1>1, MatchesGrow DEF AliasesGiven
  <1>2. CASE ~(k \in Known /\ x \in entity[k].aliases)
    <2>1. k \in keys
      BY <1>2, EntitiesWritten
    <2>2. PICK c \in Candidates(Arc(w)) : run[w].view[c].key = k /\ entity'[k].aliases = run[w].view[c].aliases
      BY <2>1, EntitiesWritten
    <2>3. c \in DOMAIN Name
      BY DEF Candidates
    <2>4. x \in Alias[c] /\ (k \in Matches(Name[c]) \/ (Matches(Name[c]) = {} /\ k = Name[c]))
      BY <1>2, <2>2, AlignmentIs
    <2>5. k \in Matches(Name[c])'
      BY <2>4, MatchesGrow DEF Matches
    <2> QED  BY <2>3, <2>4, <2>5
  <1> QED  BY <1>1, <1>2

LEMMA UnambiguousNext ==
  ASSUME OwnAliases, TypeInv, GraphInv, Unambiguous, AliasesGiven, [GraphNext]_graphVars
  PROVE  Unambiguous' /\ AliasesGiven'
  <1>1. CASE UNCHANGED <<memory, entity>>
    <2>1. Known' = Known /\ \A n : Matches(n)' = Matches(n)
      BY <1>1, NodesRead
    <2> QED  BY <1>1, <2>1 DEF Unambiguous, AliasesGiven
  <1>2. ASSUME NEW w, NEW id, Writes(w, id) PROVE Unambiguous' /\ AliasesGiven'
    <2>1. AliasesGiven'
      BY <1>2, AliasesGivenAfter DEF AliasesGiven
    <2>2. ASSUME NEW k \in Known', NEW l \in Known', NEW x \in entity'[k].aliases, x \in entity'[l].aliases
          PROVE  k = l
      <3>1. PICK c \in DOMAIN Name :
              x \in Alias[c] /\ (k \in Matches(Name[c]) \/ (Matches(Name[c]) = {} /\ k = Name[c]))
        BY <1>2, AliasesGivenAfter
      <3>2. PICK d \in DOMAIN Name :
              x \in Alias[d] /\ (l \in Matches(Name[d]) \/ (Matches(Name[d]) = {} /\ l = Name[d]))
        BY <1>2, <2>2, AliasesGivenAfter
      <3>3. Name[c] = Name[d]
        BY <3>1, <3>2 DEF OwnAliases
      <3> QED  BY <3>1, <3>2, <3>3, OneMatch
    <2> QED  BY <2>1, <2>2 DEF Unambiguous
  <1> QED  BY <1>1, <1>2, NodesChange

\* As long as no alias is given to candidates of different names, no stored alias leads to
\* two entities: a name that matched an entity by an alias never gets one of its own.
THEOREM NamesAreUnambiguous ==
  ASSUME OneAtATime, OwnAliases
  PROVE  GraphSpec => []Unambiguous
  <1> DEFINE I == Unambiguous /\ AliasesGiven
  <1>1. GraphInit => I
    BY DEF GraphInit, Known, Unambiguous, AliasesGiven
  <1>2. I /\ TypeInv /\ GraphInv /\ [GraphNext]_graphVars => I'
    BY UnambiguousNext
  <1>3. I => Unambiguous
    OBVIOUS
  <1> HIDE DEF I
  <1> QED  BY <1>1, <1>2, <1>3, GraphInvariant, PTL DEF GraphSpec

ReachedIds(a) == { entity[k].id : k \in (UNION { Matches(Name[c]) : c \in Candidates(a) }) \ {Self} }

LEMMA ReachIs ==
  ASSUME NEW a, NEW m
  PROVE  /\ m \in Reach(a) <=> m \in Supported(a) \/ m \in Neighbours(Supported(a)) \/ m \in Linked(ReachedIds(a))
         /\ m \in Linked(ReachedIds(a)) <=>
              m \in Memories /\ \E c \in Candidates(a) : \E k \in Matches(Name[c]) \ {Self} :
                                  memory[m].subject = entity[k].id
  BY DEF Reach, ReachedIds, Linked

LEMMA ReachRead ==
  ASSUME UNCHANGED <<memory, entity>>, NEW a
  PROVE  Reach(a)' = Reach(a)
  <1>1. Supported(a)' = Supported(a) /\ Memories' = Memories /\ \A n : Matches(n)' = Matches(n)
    BY NodesRead
  <1>2. ReachedIds(a)' = ReachedIds(a)
    BY <1>1 DEF ReachedIds
  <1>3. Reach(a) = Supported(a) \cup Neighbours(Supported(a)) \cup Linked(ReachedIds(a))
    BY DEF Reach, ReachedIds
  <1>4. Reach(a)' = Supported(a)' \cup Neighbours(Supported(a))' \cup Linked(ReachedIds(a))'
    BY DEF Reach, ReachedIds
  <1>5. Neighbours(Supported(a))' = Neighbours(Supported(a))
    BY <1>1 DEF Neighbours, Exists
  <1>6. Linked(ReachedIds(a))' = Linked(ReachedIds(a))
    BY <1>1, <1>2 DEF Linked
  <1> QED  BY <1>1, <1>3, <1>4, <1>5, <1>6

\* What a write leaves of a memory that was there.
LEMMA MemoryAfter ==
  ASSUME NEW w, NEW id, Writes(w, id), NEW m \in Memories
  PROVE  /\ m \in Memories' /\ memory'[m].link = memory[m].link
         /\ memory'[m].user = memory[m].user /\ memory'[m].subject = memory[m].subject
         /\ memory[m].evidence \subseteq memory'[m].evidence
  <1>1. memory[m] \in Node
    BY MemoriesWritten
  <1> QED  BY <1>1, MemoriesWritten, UpdatedFields

\* What the next run of an archive will write again only grows.
LEMMA ReachGrows ==
  ASSUME NEW w, NEW id, Writes(w, id), NEW a
  PROVE  Reach(a) \subseteq Reach(a)'
  <1>1. Supported(a) \subseteq Supported(a)'
    BY MemoryAfter DEF Supported, Archives
  <1>2. ASSUME NEW m \in Neighbours(Supported(a)) PROVE m \in Neighbours(Supported(a))'
    <2>1. PICK n \in Supported(a) : /\ m \in Memories /\ n \in Memories
                                    /\ memory[m].link.old = n \/ memory[n].link.old = m
      BY DEF Neighbours, Supported
    <2>2. /\ m \in Memories' /\ n \in Memories' /\ n \in Supported(a)'
          /\ memory'[m].link.old = n \/ memory'[n].link.old = m
      BY <1>1, <2>1, MemoryAfter
    <2> QED  BY <2>2 DEF Neighbours, Memories
  <1>3. ASSUME NEW m \in Linked(ReachedIds(a)) PROVE m \in Linked(ReachedIds(a))'
    <2>1. PICK c \in Candidates(a), k \in Names :
            m \in Memories /\ k \in Matches(Name[c]) \ {Self} /\ memory[m].subject = entity[k].id /\ k \in Known
      BY ReachIs DEF Matches, Known
    <2>2. m \in Memories' /\ k \in Matches(Name[c])' /\ memory'[m].subject = entity'[k].id
      BY <2>1, MemoryAfter, MatchesGrow, EntitiesWritten
    <2>3. entity'[k].id \in ReachedIds(a)'
      BY <2>1, <2>2 DEF ReachedIds
    <2> QED  BY <2>2, <2>3 DEF Linked
  <1>4. Reach(a)' = Supported(a)' \cup Neighbours(Supported(a))' \cup Linked(ReachedIds(a))'
    BY DEF Reach, ReachedIds
  <1> QED  BY <1>1, <1>2, <1>3, <1>4, ReachIs

\* The aliases of a memory's subject change only if the entity is one of those written.
LEMMA SubjectWritten ==
  ASSUME NEW w, NEW id, Writes(w, id), NEW m \in Memories, SubjectAliases(m)' # SubjectAliases(m)
  PROVE  \E k \in ReferencedKeys(run[w].view, run[w].plan) :
           k # Self /\ k \in Known' /\ entity'[k].id = memory[m].subject
  <1> DEFINE keys == ReferencedKeys(run[w].view, run[w].plan)
  <1>1. memory'[m].subject = memory[m].subject
    BY MemoryAfter
  <1>2. /\ Known' = Known \cup keys
        /\ \A k \in Known : entity'[k].id = entity[k].id /\ entity[k].aliases \subseteq entity'[k].aliases
        /\ \A k \in Known \ keys : entity'[k] = entity[k]
    BY EntitiesWritten
  <1>3. SubjectAliases(m) \subseteq SubjectAliases(m)'
    BY <1>1, <1>2 DEF SubjectAliases
  <1>4. PICK x \in SubjectAliases(m)' : x \notin SubjectAliases(m)
    BY <1>3
  <1>5. PICK k \in Known' : entity'[k].id = memory[m].subject /\ x \in entity'[k].aliases
    BY <1>1, <1>4 DEF SubjectAliases
  <1>6. k \in keys
    BY <1>2, <1>4, <1>5 DEF SubjectAliases
  <1>7. k # Self
    BY <1>5, EntitiesFitAfter DEF EntitiesFit
  <1> QED  BY <1>5, <1>6, <1>7

\* Whatever row a write changes is one that the run of the same archive writes again.
LEMMA ChangedIsReached ==
  ASSUME NEW w, NEW id, Writes(w, id), NEW a, a = Arc(w), NEW m \in Memories',
         m \in Memories => Row(m)' # Row(m)
  PROVE  m \in Reach(a)'
  <1> DEFINE plan == run[w].plan
             view == run[w].view
  <1>1. PlanFits(plan, a)
    BY WritesFacts
  <1>2. \A c \in PlannedEvidence(plan) : ArchiveOf[c] = a /\ c \in Candidates(a)
    BY <1>1 DEF PlanFits, Candidates
  <1>3. Reach(a)' = Supported(a)' \cup Neighbours(Supported(a))' \cup Linked(ReachedIds(a))'
    BY DEF Reach, ReachedIds
  <1>4. ASSUME NEW p \in plan.creates
        PROVE  id[p] \in Supported(a)' /\ memory'[id[p]].link.old = p.old /\ id[p] \in Memories'
    <2>1. PICK c \in p.from : memory'[id[p]] = NewNode(p, entity'[view[c].key].id)
      BY MemoriesWritten
    <2>2. memory'[id[p]].evidence = p.from /\ memory'[id[p]].link.old = p.old
      BY <2>1 DEF NewNode
    <2>3. c \in PlannedEvidence(plan)
      BY <2>1, PlannedBy
    <2>4. id[p] \in Memories'
      BY MemoriesWritten
    <2>5. ArchiveOf[c] = a
      BY <1>2, <2>3
    <2>6. a \in Archives(memory[id[p]])'
      BY <2>1, <2>2, <2>5 DEF Archives
    <2> QED  BY <2>2, <2>4, <2>6 DEF Supported
  <1>5. CASE m \notin Memories
    BY <1>3, <1>4, <1>5, MemoriesWritten
  <1>6. ASSUME m \in Memories, NEW u \in plan.updates, u.target = m
        PROVE  m \in Reach(a)'
    <2>1. u.from # {}
      BY <1>1 DEF PlanFits
    <2>2. CASE \E c \in u.from : \A p \in plan.creates : c \notin p.from
      <3>1. PICK c \in u.from : \A p \in plan.creates : c \notin p.from
        BY <2>2
      <3>2. c \in memory'[m].evidence
        BY <1>6, <3>1, EvidenceWritten
      <3>3. ArchiveOf[c] = a
        BY <1>2, PlannedBy
      <3> QED  BY <1>3, <3>2, <3>3 DEF Supported, Archives
    <2>3. CASE \A c \in u.from : \E p \in plan.creates : c \in p.from
      <3>1. PICK c \in u.from, p \in plan.creates : c \in p.from
        BY <2>1, <2>3
      <3>2. p = CreateOf(u)
        BY <1>1, <3>1 DEF PlanFits
      <3>3. memory'[id[p]].link.old = m /\ id[p] \in Supported(a)' /\ memory'[id[p]] # NoNode
        BY <1>4, <1>6, <3>2 DEF CreateOf, Memories, Exists
      <3>4. m \in Neighbours(Supported(a))'
        BY <3>3 DEF Neighbours, Exists
      <3> QED  BY <1>3, <3>4
    <2> QED  BY <2>2, <2>3
  <1>7. CASE m \in Memories /\ memory'[m] = memory[m]
    <2>1. SubjectAliases(m)' # SubjectAliases(m)
      BY <1>7 DEF Row
    <2>2. PICK k \in ReferencedKeys(view, plan) :
            k # Self /\ k \in Known' /\ entity'[k].id = memory[m].subject
      BY <1>7, <2>1, SubjectWritten
    <2>3. PICK c \in PlannedEvidence(plan) : k = view[c].key
      BY <2>2 DEF ReferencedKeys
    <2>4. k \in Matches(Name[c])' /\ c \in Candidates(a)
      BY <1>2, <2>3, AlignedAfter
    <2>5. entity'[k].id \in ReachedIds(a)'
      BY <2>2, <2>4 DEF ReachedIds
    <2>6. m \in Linked(ReachedIds(a))'
      BY <1>7, <2>2, <2>5 DEF Linked
    <2> QED  BY <1>3, <2>6
  <1> QED  BY <1>5, <1>6, <1>7, MemoriesWritten

LEMMA StaleWrite ==
  ASSUME TypeInv, GraphInv, StaleIsUnfinished, NEW w \in Workers, WriteGraph(w)
  PROVE  StaleIsUnfinished'
  <1>0. PICK a : a = Arc(w)
    OBVIOUS
  <1>1. ~run[w].skipped /\ At(w, "write") /\ UNCHANGED <<now, doc>> /\ task[a] = "processing"
          /\ run[w].pc # "idle"
    BY <1>0 DEF GraphInv, Knows, WriteGraph, At
  <1>2. a \in Archive
    BY <1>0, <1>1 DEF TypeInv, RunOK, Arc
  <1>3. PICK id \in NewIds(run[w].plan) : Transaction(run[w].view, run[w].plan, id)
    BY <1>1 DEF WriteGraph
  <1>4. Writes(w, id)
    BY <1>1, <1>3 DEF Writes
  <1>5. UNCHANGED task \/ task' = [task EXCEPT ![a] = "failed"]
    BY <1>0, <1>1 DEF WriteGraph, Finish
  <1>6. Unfinished \subseteq Unfinished' /\ a \in Unfinished'
    BY <1>1, <1>2, <1>5 DEF Unfinished, TypeInv
  <1> SUFFICES ASSUME NEW m \in Memories', memory'[m].user = User, doc'[m] # Row(m)'
               PROVE  \E b \in Unfinished' : m \in Reach(b)'
    BY DEF StaleIsUnfinished
  <1>7. CASE m \in Memories /\ Row(m)' = Row(m)
    <2>1. PICK b \in Unfinished : m \in Reach(b)
      BY <1>1, <1>4, <1>7, MemoryAfter DEF StaleIsUnfinished
    <2> QED  BY <1>4, <1>6, <2>1, ReachGrows
  <1>8. CASE m \in Memories => Row(m)' # Row(m)
    <2>1. m \in Reach(a)'
      BY <1>0, <1>4, <1>8, ChangedIsReached
    <2> QED  BY <1>6, <2>1
  <1> QED  BY <1>7, <1>8

\* A run that completes writes every document its archive reaches.
LEMMA ReachIsSynced ==
  ASSUME NothingSkipped, Unambiguous, NEW r, NEW w, Knows(r, w), r.pc = "index",
         DOMAIN r.view = Candidates(r.archive)
  PROVE  Reach(r.archive) \subseteq SyncSet(r.seeds, r.view)
  <1> DEFINE a == r.archive
  <1>1. Supported(a) \subseteq r.seeds /\ r.seeds \subseteq Memories
    BY DEF Knows
  <1>2. Neighbours(Supported(a)) \subseteq Neighbours(r.seeds)
    BY <1>1 DEF Neighbours
  <1>3. ASSUME NEW m \in Linked(ReachedIds(a)) PROVE m \in Linked(MentionedIds(r.view))
    <2>1. PICK c \in Candidates(a) : \E k \in Matches(Name[c]) \ {Self} :
            m \in Memories /\ memory[m].subject = entity[k].id
      BY ReachIs
    <2>2. PICK k \in Matches(Name[c]) \ {Self} : m \in Memories /\ memory[m].subject = entity[k].id
      BY <2>1
    <2>3. r.view[c].key \in Matches(Name[c]) /\ entity[r.view[c].key].id = r.view[c].id
      BY DEF Knows, AlignedTo
    <2>4. k = r.view[c].key
      BY <2>2, <2>3, OneMatch
    <2>5. c \in DOMAIN r.view /\ r.view[c].key # Self
      BY <2>2, <2>4
    <2>6. r.view[c].id \in MentionedIds(r.view)
      BY <2>5 DEF MentionedIds
    <2> QED  BY <2>2, <2>3, <2>4, <2>6 DEF Linked
  <1> QED  BY <1>1, <1>2, <1>3, ReachIs DEF SyncSet

LEMMA StaleIndex ==
  ASSUME NothingSkipped, Unambiguous, TypeInv, GraphInv, StaleIsUnfinished, NEW w \in Workers, WriteIndex(w)
  PROVE  StaleIsUnfinished'
  <1>0. PICK a : a = Arc(w)
    OBVIOUS
  <1> DEFINE rows == run[w].rows
  <1>1. /\ Knows(run[w], w) /\ RunOK(run[w], Memories) /\ run[w].pc = "index"
        /\ UNCHANGED <<memory, now, entity>>
    BY DEF TypeInv, GraphInv, WriteIndex, At
  <1>2. a \in Archive /\ DOMAIN run[w].view = Candidates(a)
    BY <1>0, <1>1 DEF RunOK, Arc
  <1>3. rows = [m \in SyncSet(run[w].seeds, run[w].view) |-> Row(m)]
    BY <1>1 DEF Knows
  <1>4. Reach(a) \subseteq DOMAIN rows
    <2>1. Reach(run[w].archive) \subseteq SyncSet(run[w].seeds, run[w].view)
      BY <1>0, <1>1, <1>2, ReachIsSynced DEF Arc
    <2> QED  BY <1>0, <1>3, <2>1 DEF Arc
  <1>5. PICK ms \in SUBSET DOMAIN rows :
          /\ doc' = [m \in Ids |-> IF m \in ms THEN rows[m] ELSE doc[m]]
          /\ \/ ms = DOMAIN rows /\ task' = [task EXCEPT ![a] = "completed"]
             \/ task' = [task EXCEPT ![a] = "failed"]
    BY <1>0 DEF WriteIndex, Finish
  <1> SUFFICES ASSUME NEW m \in Memories', memory'[m].user = User, doc'[m] # Row(m)'
               PROVE  \E b \in Unfinished' : m \in Reach(b)'
    BY DEF StaleIsUnfinished
  <1>6. Row(m)' = Row(m) /\ Memories' = Memories /\ \A b : Reach(b)' = Reach(b)
    BY <1>1, RowsRead, NodesRead, ReachRead
  <1>7. m \notin ms /\ doc'[m] = doc[m]
    BY <1>3, <1>5, <1>6 DEF Memories
  <1>8. PICK b \in Unfinished : m \in Reach(b)
    BY <1>1, <1>6, <1>7 DEF StaleIsUnfinished
  <1>9. b \in Unfinished'
    BY <1>4, <1>5, <1>7, <1>8 DEF Unfinished, TypeInv
  <1> QED  BY <1>6, <1>8, <1>9

LEMMA StaleNext ==
  ASSUME NothingSkipped, Unambiguous, TypeInv, GraphInv, StaleIsUnfinished, [GraphNext]_graphVars
  PROVE  StaleIsUnfinished'
  <1>1. ASSUME UNCHANGED <<memory, entity, doc>>, Unfinished \subseteq Unfinished'
        PROVE  StaleIsUnfinished'
    <2>1. Memories' = Memories /\ \A m : Row(m)' = Row(m)
      BY <1>1, NodesRead, RowsRead
    <2>2. \A b : Reach(b)' = Reach(b)
      BY <1>1, ReachRead
    <2> QED  BY <1>1, <2>1, <2>2 DEF StaleIsUnfinished
  <1>2. ASSUME NEW w \in Workers, UNCHANGED <<memory, entity, doc>>,
               UNCHANGED task \/ Finish(w, "failed")
        PROVE  StaleIsUnfinished'
    <2>1. Unfinished \subseteq Unfinished'
      BY <1>2 DEF Unfinished, Finish, TypeInv
    <2> QED  BY <1>1, <1>2, <2>1
  <1>3. CASE UNCHANGED graphVars
    BY <1>1, <1>3 DEF graphVars, Unfinished
  <1>4. ASSUME NEW a \in Archive, Retry(a) PROVE StaleIsUnfinished'
    <2>1. Unfinished \subseteq Unfinished'
      BY <1>4 DEF Unfinished, Retry, TypeInv
    <2> QED  BY <1>1, <1>4, <2>1 DEF Retry
  <1>5. ASSUME NEW w \in Workers, NEW a \in Archive, Start(w, a) PROVE StaleIsUnfinished'
    <2>1. Unfinished \subseteq Unfinished'
      BY <1>5 DEF Unfinished, Start, TypeInv
    <2> QED  BY <1>1, <1>5, <2>1 DEF Start
  <1>6. ASSUME NEW w \in Workers, Stage(w) PROVE StaleIsUnfinished'
    <2>1. CASE WriteGraph(w)  BY <2>1, StaleWrite
    <2>2. CASE WriteIndex(w)  BY <2>2, StaleIndex
    <2>3. CASE AlignEntities(w) \/ FindProcessed(w) \/ CheckProcessed(w) \/ RepairReplay(w)
                \/ RepairFails(w) \/ Crash(w)
      BY <1>2, <2>3 DEF AlignEntities, FindProcessed, CheckProcessed, RepairReplay, RepairFails, Crash
    <2>4. CASE Reconcile(w) \/ LoadRows(w)
      BY <1>2, <2>4 DEF Reconcile, LoadRows
    <2>5. CASE AlignFails(w) \/ ReconcileFails(w) \/ PlanFails(w) \/ SyncFails(w)
      BY <1>2, <2>5 DEF AlignFails, ReconcileFails, PlanFails, SyncFails, StageFails
    <2> QED  BY <1>6, <2>1, <2>2, <2>3, <2>4, <2>5 DEF Stage
  <1> QED  BY <1>3, <1>4, <1>5, <1>6 DEF GraphNext

\* A document may be stale only while a task that will write it again is unfinished, as
\* long as no alias leads to two entities: then what an archive reaches only grows, a write
\* changes rows its own archive reaches, and an archive completes only after it has
\* written all of them (_repair_empty_replay_index_sync_set, SyncSet, mark_completed).
THEOREM StaleDocumentsAreRepaired ==
  ASSUME OneAtATime, NothingSkipped
  PROVE  GraphSpec /\ []Unambiguous => []StaleIsUnfinished
  <1>1. GraphInit => StaleIsUnfinished
    BY InitialAssumption DEF GraphInit, StaleIsUnfinished, Memories, Exists
  <1>2. TypeInv /\ GraphInv /\ Unambiguous /\ StaleIsUnfinished /\ [GraphNext]_graphVars
          => StaleIsUnfinished'
    BY StaleNext
  <1> QED  BY <1>1, <1>2, GraphInvariant, PTL DEF GraphSpec

\* In terms of what the archives mention: where no alias is given to candidates of
\* different names, no completed run leaves a stale document behind.
THEOREM StaleDocumentsAreRepairedOfOwnAliases ==
  ASSUME OneAtATime, NothingSkipped, OwnAliases
  PROVE  GraphSpec => []StaleIsUnfinished
  <1>1. GraphSpec => []Unambiguous
    BY NamesAreUnambiguous
  <1>2. GraphSpec /\ []Unambiguous => []StaleIsUnfinished
    BY StaleDocumentsAreRepaired
  <1> QED  BY <1>1, <1>2, PTL
=============================================================================
