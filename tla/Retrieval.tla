------------------------------- MODULE Retrieval -------------------------------
(***************************************************************************)
(* Retrieval requests: two search channels side by side on an index that   *)
(* may be behind the graph, fusion, authoritative readback with rerank and *)
(* one-hop expansion, scoring, and the statistics of the memories that are *)
(* returned, all under one deadline.  Memories and documents change while  *)
(* a request runs.                                                         *)
(***************************************************************************)
EXTENDS MemoryStore, RetrievalRanking

CONSTANTS
  Initial,       \* Memory nodes at the start
  InitialDoc,    \* status in each memory's document, or "none"
  Requests,
  Queries,       \* [user, conflicted, history, expand, length]
  MaxAttempts,   \* MAX_HTTP_ATTEMPTS of the clients of the hosted models
  SourceEnd,     \* source_time_end of each Evidence node
  MaxSources,    \* max_source_message_ids
  TopN,          \* bm25_top_n, vector_top_n
  RerankTopN,    \* rerank_top_n
  Relevance,     \* scores the cross-encoder may give
  UserEntity,    \* the reserved entity that stands for the user
  MaxVersion,    \* bound: memories change up to this version
  Touched,       \* bound: the memories that change, or whose documents are written
  Faults         \* which of FaultKinds may happen

FaultKinds ==
  { "search",    \* a search channel, the tokenizer or the embedding service fails
    "graph",     \* a read of the graph fails
    "rerank",    \* the rerank service fails
    "stats" }    \* the statistics write fails, done or not

ASSUME RetrievalAssumption ==
  /\ Faults \subseteq FaultKinds
  /\ Touched \subseteq Ids
  /\ IsFiniteSet(Requests)
  /\ MaxAttempts \in Nat \ {0}
  /\ MaxSources \in Nat \ {0}
  /\ TopN \in Nat /\ 1..TopN \subseteq DOMAIN RrfWeight
  /\ Relevance \subseteq 0..100
  /\ SourceEnd \in [Evidence -> Nat]
  /\ \A q \in Queries : q.length \in {"refused", "none", "fits", "long"}

\* A memory is never without evidence: MemoryStore!Created, and no writer takes any away.
ASSUME InitialAssumption ==
  /\ Initial \in [Ids -> Node \cup {NoNode}]
  /\ \A m \in Ids : Initial[m] # NoNode => Initial[m].evidence # {}
  /\ InitialDoc \in [Ids -> Status \cup {"none"}]

VARIABLES
  doc,    \* status in each memory's document
  stat,   \* retrieval_count and last_retrieved_time
  req     \* requests

retVars == <<memory, now, doc, stat, req>>

Running == [kind |-> "running", hits |-> <<>>]
Failed(kind) == [kind |-> kind, hits |-> <<>>]

NoReq == [pc |-> "idle", query |-> <<>>, late |-> FALSE, bm25 |-> Running, vector |-> Running,
          stage |-> "tokenize", attempt |-> 1, fused |-> <<>>, direct |-> <<>>, expanded |-> <<>>,
          edges |-> {}, warnings |-> {}, mode |-> "none", code |-> "none", memories |-> <<>>]

At(r, pc) == req[r].pc = pc

Query(r) == req[r].query

Set(r, x) == req' = [req EXCEPT ![r] = x]

ReadsOnly == UNCHANGED <<memory, now, doc, stat>>

\* Everything of a request that its answer does not need is forgotten with it.
Answer(r, code, mode, warnings, memories) ==
  Set(r, [NoReq EXCEPT !.pc = "done", !.query = Query(r), !.late = req[r].late,
                       !.bm25 = Failed(req[r].bm25.kind), !.vector = Failed(req[r].vector.kind),
                       !.code = code, !.mode = mode, !.warnings = warnings,
                       !.memories = memories])

Fail(r, code) == Answer(r, code, "none", {}, <<>>)

-----------------------------------------------------------------------------
(* The two channels *)

Matching(query) ==
  { m \in Ids : doc[m] \in AllowedStatus(query) /\ Exists(m) /\ memory[m].user = query.user }

\* What a search may find: documents that match the filter, in any order.
Hits(query) == UNION { { s \in [1..n -> Matching(query)] : IsInjective(s) } : n \in 0..TopN }

Found(query) == { [kind |-> "success", hits |-> s] : s \in Hits(query) }

Bm25Outcomes(query) ==
  Found(query) \cup (IF "search" \in Faults THEN {Failed("channel_failure")} ELSE {})

\* validate_retrieval_input: an empty or overlong query, a user id or type that is none.
Rejected(query) == query.length = "refused"

Ask(r) ==
  /\ At(r, "idle")
  /\ \E query \in Queries :
       Set(r, IF Rejected(query)
              THEN [NoReq EXCEPT !.pc = "done", !.query = query, !.code = "invalid_request"]
              ELSE [NoReq EXCEPT !.pc = "channels", !.query = query])
  /\ ReadsOnly

\* The keyword channel does not look at the deadline.
Bm25Search(r) ==
  /\ At(r, "channels")
  /\ req[r].bm25 = Running
  /\ \E outcome \in Bm25Outcomes(Query(r)) : Set(r, [req[r] EXCEPT !.bm25 = outcome])
  /\ ReadsOnly

VectorStage(r, stage) == At(r, "channels") /\ req[r].vector = Running /\ req[r].stage = stage

\* The vector channel gives up; the request goes on without it.
VectorFails(r, kind, warning) ==
  Set(r, [req[r] EXCEPT !.vector = Failed(kind), !.attempt = 1, !.warnings = @ \cup {warning}])

Tokenize(r) ==
  /\ VectorStage(r, "tokenize")
  /\ \/ "search" \in Faults /\ VectorFails(r, "channel_failure", "embedding_failed")
     \/ /\ Query(r).length = "long"
        /\ VectorFails(r, "skipped_query_too_long", "vector_skipped_query_too_long")
     \/ Query(r).length = "none" /\ Fail(r, "invalid_request")
     \/ Query(r).length = "fits" /\ ~req[r].late /\ Set(r, [req[r] EXCEPT !.stage = "embed"])
     \/ req[r].late /\ Fail(r, "retrieval_timeout")
  /\ ReadsOnly

\* What one request to a hosted model comes to: a usable answer; a timeout, 429 or 5xx,
\* which is worth another attempt; any other status or an answer that cannot be used.
EmbeddingReplies ==
  {"ok"} \cup (IF "search" \in Faults THEN {"retryable", "refused"} ELSE {})

\* Another attempt, after a pause.
TryAgain(r) ==
  /\ req[r].attempt < MaxAttempts
  /\ Set(r, [req[r] EXCEPT !.attempt = @ + 1])

EmbedAgain(r) ==
  /\ VectorStage(r, "embed")
  /\ "retryable" \in EmbeddingReplies
  /\ TryAgain(r)
  /\ ReadsOnly

\* All attempts together have a timeout of their own, whatever is left of the request's
\* time.
Embed(r) ==
  /\ VectorStage(r, "embed")
  /\ \/ /\ EmbeddingReplies # {"ok"}
        /\ VectorFails(r, "channel_failure", "embedding_failed")
     \/ IF req[r].late
        THEN Fail(r, "retrieval_timeout")
        ELSE Set(r, [req[r] EXCEPT !.stage = "search", !.attempt = 1])
  /\ ReadsOnly

VectorSearch(r) ==
  /\ VectorStage(r, "search")
  /\ \/ \E outcome \in Found(Query(r)) : Set(r, [req[r] EXCEPT !.vector = outcome])
     \/ "search" \in Faults /\ VectorFails(r, "channel_failure", "vector_retrieval_failed")
  /\ ReadsOnly

FusedHits(r) == Fused(RankMap(req[r].bm25), RankMap(req[r].vector))

Bm25Warning(r) ==
  IF req[r].bm25.kind = "channel_failure" THEN {"bm25_retrieval_failed"} ELSE {}

\* Mutant: fusion waits for hits of both channels.
FuseBothOnly(r) ==
  /\ At(r, "channels")
  /\ req[r].bm25.kind = "success" /\ req[r].vector.kind = "success"
  /\ Set(r, [req[r] EXCEPT !.pc = "load", !.fused = FusedHits(r),
                           !.bm25.hits = <<>>, !.vector.hits = <<>>,
                           !.mode = Mode(req[r].bm25, req[r].vector)])
  /\ ReadsOnly

Fuse(r) ==
  /\ At(r, "channels")
  /\ req[r].bm25 # Running /\ req[r].vector # Running
  /\ IF Unavailable(req[r].bm25, req[r].vector)
     THEN Fail(r, "retrieval_unavailable")
     ELSE IF req[r].late
          THEN Fail(r, "retrieval_timeout")
          ELSE Set(r, [req[r] EXCEPT !.pc = "load", !.fused = FusedHits(r),
                                     !.bm25.hits = <<>>, !.vector.hits = <<>>,
                                     !.mode = Mode(req[r].bm25, req[r].vector),
                                     !.warnings = @ \cup Bm25Warning(r)])
  /\ ReadsOnly

-----------------------------------------------------------------------------
(* Authoritative readback *)

Snap(m) ==
  [status |-> memory[m].status, importance |-> memory[m].importance,
   latest |-> memory[m].latest, count |-> stat[m].count, last |-> stat[m].last]

\* load_memories: memories of the user that are there.
Loaded(query, ms) == { m \in ms : Exists(m) /\ memory[m].user = query.user }

\* Mutant: what the index lets through is not looked at again.
TrustIndex(query, ms) == Loaded(query, ms)

\* validate_memory_for_request
Valid(query, ms) == { m \in Loaded(query, ms) : memory[m].status \in AllowedStatus(query) }

Direct(r) ==
  [m \in Valid(Query(r), DOMAIN req[r].fused) |->
     [score |-> req[r].fused[m], origin |-> "direct", snap |-> Snap(m)]]

StaleWarnings(query, ms) ==
  (IF ms \subseteq Loaded(query, ms) THEN {} ELSE {"dirty_index_document"})
  \cup (IF Loaded(query, ms) = Valid(query, ms) THEN {} ELSE {"stale_index_document"})

LoadMemories(r) ==
  LET ms == DOMAIN req[r].fused
  IN /\ At(r, "load")
     /\ \/ Set(r, [req[r] EXCEPT !.pc = IF DOMAIN Direct(r) = {} THEN "score" ELSE "rerank",
                                 !.direct = Direct(r),
                                 !.fused = <<>>,
                                 !.warnings = @ \cup StaleWarnings(Query(r), ms)])
        \/ "graph" \in Faults /\ ms # {} /\ Fail(r, "graph_load_failed")
     /\ ReadsOnly

AfterRerank(r) == IF Query(r).expand THEN "expand" ELSE "score"

RerankReplies ==
  {"ok"} \cup (IF "rerank" \in Faults THEN {"retryable", "refused"} ELSE {})

RerankAgain(r) ==
  /\ At(r, "rerank")
  /\ "retryable" \in RerankReplies
  /\ TryAgain(r)
  /\ ReadsOnly

\* Every candidate gets a new score, or the order stays as it was: a service that fails or
\* does not return all of them changes nothing.
Rerank(r) ==
  LET n == Cardinality(DOMAIN req[r].direct)
  IN /\ At(r, "rerank")
     /\ \/ /\ n <= RerankTopN
           /\ \E score \in [DOMAIN req[r].direct -> Relevance] :
                Set(r, [req[r] EXCEPT
                  !.pc = AfterRerank(r), !.attempt = 1,
                  !.direct = [m \in DOMAIN @ |-> [@[m] EXCEPT !.score = score[m]]]])
        \/ /\ n > RerankTopN \/ RerankReplies # {"ok"}
           /\ Set(r, [req[r] EXCEPT !.pc = AfterRerank(r), !.attempt = 1,
                                    !.warnings = @ \cup {"rerank_failed"}])
     /\ ReadsOnly

\* expand_one_hop: replaced and disputed memories first, then those of the same subject,
\* unless that is the user.
Edge(seed, m, tier) ==
  [seed |-> seed, related |-> m, tier |-> tier, importance |-> memory[m].importance,
   latest |-> memory[m].latest, status |-> memory[m].status]

Related(seed, m) ==
  memory[m].link.old = seed \/ memory[seed].link.old = m

SameSubject(seed, m) ==
  memory[m].subject = memory[seed].subject /\ memory[m].subject # UserEntity

OneHop(query, seeds) ==
  LET pairs == { p \in seeds \X Memories :
                   p[1] # p[2] /\ \A i \in 1..2 : memory[p[i]].user = query.user }
  IN { Edge(p[1], p[2], 0) : p \in { q \in pairs : Related(q[1], q[2]) } }
     \cup { Edge(p[1], p[2], 2) : p \in { q \in pairs : SameSubject(q[1], q[2]) } }

\* _filter_expansion_edges, rank_per_seed_edges
Kept(r) ==
  PerSeed(ClosestEdges({ e \in OneHop(Query(r), DOMAIN req[r].direct) :
                           e.status \in AllowedStatus(Query(r)) }))

ExpansionFails(r) ==
  /\ "graph" \in Faults
  /\ Set(r, [req[r] EXCEPT !.pc = "score", !.edges = {},
                           !.warnings = @ \cup {"graph_expansion_failed"}])

\* Memories that were found directly stay what they are.
Expand(r) ==
  LET kept == Kept(r)
      pure == Aggregated(kept) \ DOMAIN req[r].direct
  IN /\ At(r, "expand")
     /\ \/ Set(r, [req[r] EXCEPT !.pc = IF pure = {} THEN "score" ELSE "loadExpanded",
                                 !.edges = { e \in kept : e.related \in pure }])
        \/ ExpansionFails(r)
     /\ ReadsOnly

Expanded(r, ms) ==
  [m \in Valid(Query(r), ms) |->
     [score |-> GraphScore(m, req[r].edges, req[r].direct), origin |-> "expanded",
      snap |-> Snap(m)]]

LoadExpanded(r) ==
  LET found == Expanded(r, { e.related : e \in req[r].edges })
  IN /\ At(r, "loadExpanded")
     /\ \/ Set(r, [req[r] EXCEPT !.pc = IF DOMAIN found = {} THEN "score" ELSE "exists",
                                 !.edges = {}, !.expanded = found])
        \/ ExpansionFails(r)
     /\ ReadsOnly

\* exists_many: an expanded memory is returned only if it has a document.
ExistMany(r) ==
  /\ At(r, "exists")
  /\ \/ Set(r, [req[r] EXCEPT !.pc = "score",
                              !.expanded = [m \in { n \in DOMAIN @ : doc[n] # "none" } |-> @[m]]])
     \/ /\ "search" \in Faults
        /\ Set(r, [req[r] EXCEPT !.pc = "score", !.expanded = <<>>,
                                 !.warnings = @ \cup {"graph_expansion_failed"}])
  /\ ReadsOnly

-----------------------------------------------------------------------------
(* Scoring, statistics and the answer *)

\* load_evidence_for_memories, when the memories to return are chosen.
EvidenceRows(m) == memory[m].evidence

NewerEvidence(e, f) == SourceEnd[e] > SourceEnd[f]

\* aggregate_evidence_for_memory: the newest sources come first; which of equally old ones
\* do does not matter here.
Sources(m) ==
  { s \in SUBSET EvidenceRows(m) :
      /\ Cardinality(s) = Min({MaxSources, Cardinality(EvidenceRows(m))})
      /\ \A e \in s, f \in EvidenceRows(m) \ s : ~NewerEvidence(f, e) }

Returned(r) ==
  LET candidates == [m \in DOMAIN req[r].direct \cup DOMAIN req[r].expanded |->
                       IF m \in DOMAIN req[r].direct THEN req[r].direct[m] ELSE req[r].expanded[m]]
  IN [m \in Best(candidates, now) |->
        [status |-> candidates[m].snap.status, sources |-> CHOOSE s \in Sources(m) : TRUE]]

\* Mutant: nobody looks at the clock once the memories are chosen.
ScoreAnyTime(r) ==
  LET memories == Returned(r)
      done == [req[r] EXCEPT !.pc = "stats", !.direct = <<>>, !.expanded = <<>>,
                             !.memories = memories]
  IN /\ At(r, "score")
     /\ \/ Set(r, done)
        \/ "graph" \in Faults /\ DOMAIN memories # {} /\ Fail(r, "graph_load_failed")
     /\ ReadsOnly

\* From here on the request has its memories: running out of time no longer fails it.
Score(r) ==
  LET memories == Returned(r)
      done == [req[r] EXCEPT !.pc = "stats", !.direct = <<>>, !.expanded = <<>>,
                             !.memories = memories]
  IN /\ At(r, "score")
     /\ \/ req[r].late /\ Fail(r, "retrieval_timeout")
        \/ ~req[r].late /\ Set(r, done)
        \/ "graph" \in Faults /\ DOMAIN memories # {} /\ Fail(r, "graph_load_failed")
     /\ ReadsOnly

ReturnedIds(r) == DOMAIN req[r].memories

\* increment_retrieval_stats
Counted(r) ==
  [m \in Ids |->
    IF m \in ReturnedIds(r)
    THEN [count |-> stat[m].count + 1, last |-> Max({stat[m].last, now})]
    ELSE stat[m]]

AnswerWith(r, warnings) ==
  Answer(r, "ok", req[r].mode, req[r].warnings \cup warnings, req[r].memories)

\* Mutant: a deadline that expires while the statistics are written fails the request.
TimeoutInStatistics(r) ==
  /\ At(r, "stats")
  /\ IF req[r].late
     THEN Fail(r, "retrieval_timeout") /\ stat' \in {stat, Counted(r)}
     ELSE AnswerWith(r, {}) /\ stat' = Counted(r)
  /\ UNCHANGED <<memory, now, doc>>

\* Whatever happens to the statistics, the memories are returned.
UpdateStatistics(r) ==
  /\ At(r, "stats")
  /\ \/ ~req[r].late /\ AnswerWith(r, {}) /\ stat' = Counted(r)
     \/ /\ "stats" \in Faults /\ ReturnedIds(r) # {}
        /\ AnswerWith(r, {"retrieval_stat_update_failed"})
        /\ stat' \in {stat, Counted(r)}
     \/ /\ req[r].late
        /\ AnswerWith(r, {"retrieval_timeout_degraded"})
        /\ stat' \in {stat, Counted(r)}
  /\ UNCHANGED <<memory, now, doc>>

\* The deadline cuts a read of the graph or the index that it is wrapped around.
Expire(r) ==
  /\ req[r].late
  /\ \/ req[r].pc \in {"load", "rerank", "expand", "loadExpanded", "exists"}
     \/ VectorStage(r, "search")
  /\ Fail(r, "retrieval_timeout")
  /\ ReadsOnly

DeadlinePasses(r) ==
  /\ req[r].pc \notin {"idle", "done"}
  /\ ~req[r].late
  /\ Set(r, [req[r] EXCEPT !.late = TRUE])
  /\ ReadsOnly

-----------------------------------------------------------------------------
(* The rest of the system *)

\* A graph transaction gives a memory another status, and more evidence.
MemoryChanges(m) ==
  /\ Exists(m)
  /\ memory[m].version < MaxVersion
  /\ memory[m].status # "superseded"
  /\ \E status \in {memory[m].status, "conflicted", "superseded"} :
       memory' = [memory EXCEPT ![m].status = status, ![m].version = @ + 1,
                                ![m].evidence = Evidence]
  /\ UNCHANGED <<now, doc, stat, req>>

\* The index is brought up to date.
DocumentWritten(m) ==
  /\ Exists(m)
  /\ doc' = [doc EXCEPT ![m] = memory[m].status]
  /\ UNCHANGED <<memory, now, stat, req>>

-----------------------------------------------------------------------------

RetrievalInit ==
  /\ memory = Initial
  /\ now = 0
  /\ doc = InitialDoc
  /\ stat = [m \in Ids |-> [count |-> 0, last |-> Null]]
  /\ req = [r \in Requests |-> NoReq]

RequestStep(r) ==
  \/ Bm25Search(r)
  \/ Tokenize(r)
  \/ EmbedAgain(r)
  \/ Embed(r)
  \/ VectorSearch(r)
  \/ Fuse(r)
  \/ LoadMemories(r)
  \/ RerankAgain(r)
  \/ Rerank(r)
  \/ Expand(r)
  \/ LoadExpanded(r)
  \/ ExistMany(r)
  \/ Score(r)
  \/ UpdateStatistics(r)
  \/ Expire(r)

RetrievalNext ==
  \/ \E r \in Requests : Ask(r) \/ RequestStep(r) \/ DeadlinePasses(r)
  \/ \E m \in Touched : MemoryChanges(m) \/ DocumentWritten(m)

RetrievalSpec == RetrievalInit /\ [][RetrievalNext]_retVars

\* Every call of a request has a timeout of its own, also those the deadline does not cut.
RetrievalFair == RetrievalSpec /\ \A r \in Requests : WF_retVars(RequestStep(r))

-----------------------------------------------------------------------------
(* Properties *)

Done(r) == At(r, "done")

Outcome == {"success", "running"} \cup Failures

RetrievalTypeOK ==
  /\ StoreTypeOK
  /\ doc \in [Ids -> Status \cup {"none"}]
  /\ stat \in [Ids -> [count : Nat, last : {Null} \cup (0..MaxTime)]]
  /\ \A r \in Requests :
       /\ req[r].late \in BOOLEAN /\ req[r].attempt \in 1..MaxAttempts
       /\ {req[r].bm25.kind, req[r].vector.kind} \subseteq Outcome
       /\ req[r].mode \in {"hybrid", "bm25_only", "vector_only", "none"}
       /\ \A m \in DOMAIN req[r].direct : req[r].direct[m].score \in 0..100
       /\ \A m \in DOMAIN req[r].expanded : req[r].expanded[m].score \in 0..100

\* Every memory that is returned is the user's, and its status is one the request asks
\* for, although the index may be behind and the expansion and the readback have looked at
\* the graph at different times; and it says where the memory comes from.
AnswersWhatWasAsked ==
  \A r \in Requests : \A m \in ReturnedIds(r) :
    /\ memory[m].user = Query(r).user
    /\ req[r].memories[m].status \in AllowedStatus(Query(r))
    /\ req[r].memories[m].sources # {}
    /\ req[r].memories[m].sources \subseteq memory[m].evidence

\* A memory is counted as retrieved only if it was returned, once for each request, and it
\* is counted if the answer does not say otherwise.
StatisticsMatchAnswers ==
  /\ \A m \in Ids :
       stat[m].count <= Cardinality({ r \in Requests : Done(r) /\ m \in ReturnedIds(r) })
  /\ \A r \in Requests :
       Done(r) /\ req[r].code = "ok"
         /\ req[r].warnings \cap {"retrieval_stat_update_failed", "retrieval_timeout_degraded"} = {}
       => \A m \in ReturnedIds(r) : stat[m].count >= 1

VectorWarnings == {"embedding_failed", "vector_skipped_query_too_long", "vector_retrieval_failed"}

\* What an answer says of the channels: it rests on one of them at least, and the warnings name
\* the one it had to do without.
Told(x) ==
  /\ "success" \in {x.bm25.kind, x.vector.kind}
  /\ x.bm25.kind # "success" <=> "bm25_retrieval_failed" \in x.warnings
  /\ x.vector.kind # "success" <=> x.warnings \cap VectorWarnings # {}
  /\ x.mode = "hybrid" => {x.bm25.kind, x.vector.kind} = {"success"}

\* The memories of a request are chosen; what is left are the statistics, or nothing.
Chosen(x) == x.pc = "stats" \/ (x.pc = "done" /\ x.code = "ok")

\* An answer says which of the channels it had to do without.  Without both of them, and for
\* a request whose deadline passes before its memories are chosen, there is no answer but an
\* error, and an error comes without memories.
MissingChannelIsTold ==
  [][ \A r \in Requests :
        /\ Done(r)' => IF req'[r].code = "ok" THEN Told(req'[r]) ELSE ReturnedIds(r)' = {}
        /\ req[r].late /\ Chosen(req'[r]) => Chosen(req[r]) ]_retVars

RanksHigher(channel, m, n) ==
  \E i \in DOMAIN channel.hits :
    channel.hits[i] = m /\ \A j \in 1..i : channel.hits[j] # n

\* Fusion never drops a memory and keeps one that both channels rank lower, nor gives it
\* a lower score.
FusionRespectsChannels ==
  \A r \in Requests : At(r, "channels") /\ req[r].bm25 # Running /\ req[r].vector # Running =>
    LET fused == FusedHits(r)
    IN \A n \in DOMAIN fused, m \in Ids :
         RanksHigher(req[r].bm25, m, n) /\ RanksHigher(req[r].vector, m, n) =>
           m \in DOMAIN fused /\ fused[m] >= fused[n]

\* Every request is answered.
RequestIsAnswered == \A r \in Requests : At(r, "channels") ~> Done(r)
=============================================================================
