---------------------------- MODULE Retrieval_proofs ----------------------------
(***************************************************************************)
(* Proofs about Retrieval, for any number of requests and memories, any    *)
(* ranks, limits and settings, and all faults.                             *)
(***************************************************************************)
EXTENDS Retrieval, DataFacts

-----------------------------------------------------------------------------
(* The inductive invariant *)

Stages == {"tokenize", "embed", "search"}

Searching == {"idle", "channels"}

\* Both channels are done, the memories are not chosen.
Choosing == {"load", "rerank", "expand", "loadExpanded", "exists", "score"}

Modes == {"hybrid", "bm25_only", "vector_only", "none"}

Warnings ==
  VectorWarnings \cup
    {"bm25_retrieval_failed", "dirty_index_document", "stale_index_document", "rerank_failed",
     "graph_expansion_failed", "retrieval_stat_update_failed", "retrieval_timeout_degraded"}

Errors ==
  {"invalid_request", "retrieval_timeout", "retrieval_unavailable", "graph_load_failed"}

Codes == Errors \cup {"none", "ok"}

Channel ==
  { c \in [kind : Outcome, hits : UNION { [1..n -> Ids] : n \in 0..TopN }] :
      IsInjective(c.hits) /\ (c.kind # "success" => c.hits = <<>>) }

\* Functions on some of the memories.
Partial(S) == UNION { [ms -> S] : ms \in SUBSET Ids }

Snapshot ==
  [status : Status, importance : Int, latest : 0..MaxTime, count : Nat,
   last : {Null} \cup (0..MaxTime)]

Candidate == [score : 0..100, origin : {"direct", "expanded"}, snap : Snapshot]

Scores == Partial(0..100)

Candidates == Partial(Candidate)

Answers == Partial([status : Status, sources : SUBSET Evidence])

GraphEdge ==
  [seed : Ids, related : Ids, tier : Nat, importance : Int, latest : 0..MaxTime,
   status : Status]

Request ==
  [pc : Searching \cup Choosing \cup {"stats", "done"}, query : Queries \cup {<<>>},
   late : BOOLEAN, bm25 : Channel, vector : Channel, stage : Stages,
   attempt : 1..MaxAttempts, fused : Scores, direct : Candidates, expanded : Candidates,
   edges : SUBSET GraphEdge, warnings : SUBSET Warnings, mode : Modes, code : Codes,
   memories : Answers]

\* What a request is at each point of its way.
OnItsWay(x) ==
  /\ x.pc = "idle" => x = NoReq
  /\ x.bm25.kind # "skipped_query_too_long"
  /\ x.pc = "channels" =>
       /\ "bm25_retrieval_failed" \notin x.warnings
       /\ x.vector.kind \in Failures <=> x.warnings \cap VectorWarnings # {}
  /\ x.pc \in Choosing \cup {"stats"} => Told(x)
  /\ x.pc = "done" /\ x.code = "ok" => Told(x)
  /\ x.pc = "done" /\ x.code # "ok" => x.memories = <<>>
  /\ x.pc \notin {"stats", "done"} => x.memories = <<>>
  /\ x.pc # "loadExpanded" => x.edges = {}
  /\ \A e \in x.edges : e.seed \in DOMAIN x.direct

Asked(x, c, node) ==
  /\ node # NoNode
  /\ node.user = x.query.user
  /\ c.snap.status \in AllowedStatus(x.query)

\* What a request holds was asked for, ms being the Memory nodes.
HoldsWhatWasAsked(x, ms) ==
  /\ \A m \in DOMAIN x.direct : Asked(x, x.direct[m], ms[m])
  /\ \A m \in DOMAIN x.expanded : Asked(x, x.expanded[m], ms[m])
  /\ \A m \in DOMAIN x.memories :
       /\ ms[m].user = x.query.user
       /\ x.memories[m].status \in AllowedStatus(x.query)
       /\ x.memories[m].sources # {}
       /\ x.memories[m].sources \subseteq ms[m].evidence

RequestOK(x, ms) == x \in Request /\ OnItsWay(x) /\ HoldsWhatWasAsked(x, ms)

Stat == [count : Nat, last : {Null} \cup (0..MaxTime)]

NodesOK ==
  /\ StoreTypeOK
  /\ \A m \in Memories : memory[m].evidence # {}
  /\ doc \in [Ids -> Status \cup {"none"}]
  /\ stat \in [Ids -> Stat]

RetrievalInv ==
  /\ NodesOK
  /\ DOMAIN req = Requests
  /\ \A r \in Requests : RequestOK(req[r], memory)
  /\ StatisticsMatchAnswers

-----------------------------------------------------------------------------
(* Types *)

LEMMA NothingYet ==
  /\ DOMAIN <<>> = {}
  /\ \A S : <<>> \in [{} -> S]
<1>1. <<>> \in Seq({}) /\ Len(<<>>) = 0
  OBVIOUS
<1>2. DOMAIN <<>> = {}
  BY <1>1
<1> QED
  BY <1>2

LEMMA PartialIs ==
  ASSUME NEW S, NEW ms \in SUBSET Ids, NEW f \in [ms -> S]
  PROVE  f \in Partial(S)
BY DEF Partial

LEMMA PartialHas ==
  ASSUME NEW S, NEW f \in Partial(S)
  PROVE  /\ DOMAIN f \subseteq Ids
         /\ \A m \in DOMAIN f : f[m] \in S
         /\ f = [m \in DOMAIN f |-> f[m]]
BY DEF Partial

LEMMA NoneIsPartial ==
  ASSUME NEW S
  PROVE  <<>> \in Partial(S)
BY NothingYet, PartialIs

LEMMA ChannelHas ==
  ASSUME NEW c \in Channel
  PROVE  /\ c.kind \in Outcome
         /\ \E n \in 0..TopN : c.hits \in [1..n -> Ids]
         /\ IsInjective(c.hits)
         /\ c.kind # "success" => c.hits = <<>>
         /\ c = [kind |-> c.kind, hits |-> c.hits]
BY DEF Channel

\* A channel whose hits have been used up.
LEMMA ChannelEmptied ==
  ASSUME NEW c \in Channel
  PROVE  [c EXCEPT !.hits = <<>>] = Failed(c.kind)
<1>1. c = [kind |-> c.kind, hits |-> c.hits]
  BY ChannelHas
<1>2. PICK kind, hits : c = [kind |-> kind, hits |-> hits]
  BY <1>1
<1> QED
  BY <1>2 DEF Failed

LEMMA ChannelsAre ==
  /\ Running \in Channel
  /\ \A kind \in Outcome : Failed(kind) \in Channel
<1>1. <<>> \in [1..0 -> Ids] /\ DOMAIN <<>> = {}
  BY NothingYet, 1..0 = {}
<1>2. <<>> \in UNION { [1..n -> Ids] : n \in 0..TopN }
  <2>1. 0 \in 0..TopN
    BY RetrievalAssumption
  <2> QED
    BY <1>1, <2>1
<1>3. IsInjective(<<>>)
  BY <1>1 DEF IsInjective
<1> QED
  BY <1>2, <1>3 DEF Channel, Running, Failed, Outcome

LEMMA NoReqIsOK ==
  ASSUME NEW ms
  PROVE  RequestOK(NoReq, ms)
<1>1. NoReq \in Request
  <2>1. 1 \in 1..MaxAttempts
    BY RetrievalAssumption
  <2>2. <<>> \in Scores /\ <<>> \in Candidates /\ <<>> \in Answers
    BY NoneIsPartial DEF Scores, Candidates, Answers
  <2>3. Running \in Channel
    BY ChannelsAre
  <2>4. <<>> \in Queries \cup {<<>>}
    OBVIOUS
  <2> QED
    BY <2>1, <2>2, <2>3, <2>4 DEF NoReq, Request, Stages, Searching, Modes, Codes
<1>2. OnItsWay(NoReq)
  BY DEF NoReq, OnItsWay, Running, Failures, VectorWarnings, Choosing, Told
<1>3. HoldsWhatWasAsked(NoReq, ms)
  BY NothingYet DEF NoReq, HoldsWhatWasAsked
<1> QED
  BY <1>1, <1>2, <1>3 DEF RequestOK

LEMMA StepsAreTyped ==
  ASSUME RetrievalInv, NEW r \in Requests
  PROVE  req[r] \in Request /\ OnItsWay(req[r]) /\ HoldsWhatWasAsked(req[r], memory)
BY DEF RetrievalInv, RequestOK

\* A step of a request that returns no memories, and that chooses none after the deadline.
Moves(r, x) ==
  /\ req' = [req EXCEPT ![r] = x]
  /\ RequestOK(x, memory)
  /\ req[r].pc # "done"
  /\ x.pc = "done" => x.memories = <<>>
  /\ req[r].late /\ Chosen(x) => Chosen(req[r])
  /\ UNCHANGED <<memory, now, doc, stat>>

LEMMA FailMoves ==
  ASSUME RetrievalInv, NEW r \in Requests, NEW code \in Errors,
         Fail(r, code), ReadsOnly, req[r].pc # "done"
  PROVE  \E x : Moves(r, x)
<1> DEFINE x == [NoReq EXCEPT !.pc = "done", !.query = Query(r), !.late = req[r].late,
                              !.bm25 = Failed(req[r].bm25.kind),
                              !.vector = Failed(req[r].vector.kind),
                              !.code = code, !.mode = "none", !.warnings = {},
                              !.memories = <<>>]
<1>1. req' = [req EXCEPT ![r] = x] /\ UNCHANGED <<memory, now, doc, stat>>
  BY DEF Fail, Answer, Set, ReadsOnly
<1>2. req[r] \in Request /\ OnItsWay(req[r])
  BY StepsAreTyped
<1>3. Failed(req[r].bm25.kind) \in Channel /\ Failed(req[r].vector.kind) \in Channel
  <2>1. req[r].bm25 \in Channel /\ req[r].vector \in Channel
    BY <1>2 DEF Request
  <2> QED
    BY <2>1, ChannelHas, ChannelsAre
<1>4. NoReq \in Request
  BY NoReqIsOK DEF RequestOK
<1>5. x \in Request
  <2>1. "done" \in Searching \cup Choosing \cup {"stats", "done"}
    OBVIOUS
  <2>2. Query(r) \in Queries \cup {<<>>} /\ req[r].late \in BOOLEAN
    BY <1>2 DEF Request, Query
  <2>3. code \in Codes /\ "none" \in Modes
    BY DEF Codes, Modes
  <2>4. <<>> \in Answers
    BY NoneIsPartial DEF Answers
  <2> QED
    BY <1>3, <1>4, <2>1, <2>2, <2>3, <2>4 DEF Request
<1>6. /\ x.pc = "done" /\ x.code = code /\ x.memories = <<>> /\ x.edges = {}
      /\ x.direct = <<>> /\ x.expanded = <<>> /\ x.bm25.kind = req[r].bm25.kind
  BY DEF NoReq, Failed
<1> HIDE DEF x
<1>7. OnItsWay(x)
  BY <1>2, <1>6 DEF OnItsWay, Errors, Choosing
<1>8. HoldsWhatWasAsked(x, memory)
  BY <1>6, NothingYet DEF HoldsWhatWasAsked
<1>9. ~Chosen(x)
  BY <1>6 DEF Chosen, Errors
<1> QED
  BY <1>1, <1>5, <1>6, <1>7, <1>8, <1>9 DEF Moves, RequestOK

\* A step that touches none of what the request holds.
LEMMA SearchMoves ==
  ASSUME RetrievalInv, NEW r \in Requests, NEW x \in Request, OnItsWay(x),
         req' = [req EXCEPT ![r] = x], ReadsOnly, req[r].pc # "done",
         x.pc \notin {"stats", "done"},
         x.query = req[r].query, x.direct = req[r].direct, x.expanded = req[r].expanded,
         x.memories = req[r].memories
  PROVE  Moves(r, x)
<1>1. HoldsWhatWasAsked(x, memory)
  <2>1. HoldsWhatWasAsked(req[r], memory)
    BY StepsAreTyped
  <2>2. \A c, node : Asked(req[r], c, node) => Asked(x, c, node)
    BY DEF Asked
  <2> QED
    BY <2>1, <2>2 DEF HoldsWhatWasAsked
<1> QED
  BY <1>1 DEF Moves, RequestOK, ReadsOnly, Chosen

LEMMA AskMoves ==
  ASSUME RetrievalInv, NEW r \in Requests, Ask(r)
  PROVE  \E x : Moves(r, x)
<1>1. PICK query \in Queries :
        Set(r, IF Rejected(query)
               THEN [NoReq EXCEPT !.pc = "done", !.query = query, !.code = "invalid_request"]
               ELSE [NoReq EXCEPT !.pc = "channels", !.query = query])
  BY DEF Ask
<1> DEFINE x == IF Rejected(query)
                THEN [NoReq EXCEPT !.pc = "done", !.query = query, !.code = "invalid_request"]
                ELSE [NoReq EXCEPT !.pc = "channels", !.query = query]
<1>2. RequestOK(NoReq, memory)
  BY NoReqIsOK
<1>3. x \in Request
  BY <1>2 DEF RequestOK, Request, Searching, Codes, Errors
<1>4. /\ x.pc \in {"channels", "done"} /\ (x.pc = "done" => x.code = "invalid_request")
      /\ x.memories = <<>> /\ x.edges = {} /\ x.direct = <<>> /\ x.expanded = <<>>
      /\ x.warnings = {} /\ x.bm25 = Running /\ x.vector = Running
  BY DEF NoReq
<1>5. req' = [req EXCEPT ![r] = x]
  BY <1>1 DEF Set
<1> HIDE DEF x
<1>6. OnItsWay(x)
  BY <1>4 DEF OnItsWay, Running, Failures, Choosing, VectorWarnings
<1>7. HoldsWhatWasAsked(x, memory)
  BY <1>4, NothingYet DEF HoldsWhatWasAsked
<1>8. req[r].pc # "done" /\ UNCHANGED <<memory, now, doc, stat>>
  BY DEF Ask, At, ReadsOnly
<1>9. ~Chosen(x)
  BY <1>4 DEF Chosen
<1> QED
  BY <1>3, <1>4, <1>5, <1>6, <1>7, <1>8, <1>9 DEF Moves, RequestOK

LEMMA FoundIsChannel ==
  ASSUME NEW query, NEW outcome \in Found(query)
  PROVE  outcome \in Channel /\ outcome.kind = "success"
<1>1. PICK s \in Hits(query) : outcome = [kind |-> "success", hits |-> s]
  BY DEF Found
<1>2. PICK n \in 0..TopN : s \in [1..n -> Matching(query)] /\ IsInjective(s)
  BY DEF Hits
<1>3. s \in [1..n -> Ids]
  BY <1>2 DEF Matching
<1> QED
  BY <1>1, <1>2, <1>3 DEF Channel, Outcome

LEMMA Bm25Moves ==
  ASSUME RetrievalInv, NEW r \in Requests, Bm25Search(r)
  PROVE  \E x : Moves(r, x)
<1>1. PICK outcome \in Bm25Outcomes(Query(r)) : Set(r, [req[r] EXCEPT !.bm25 = outcome])
  BY DEF Bm25Search
<1>2. outcome \in Channel /\ outcome.kind \in {"success", "channel_failure"}
  <2>1. CASE outcome \in Found(Query(r))
    BY <2>1, FoundIsChannel
  <2>2. CASE outcome = Failed("channel_failure")
    BY <2>2, ChannelsAre DEF Outcome, Failures, Failed
  <2> QED
    BY <1>1, <2>1, <2>2 DEF Bm25Outcomes
<1> DEFINE x == [req[r] EXCEPT !.bm25 = outcome]
<1>3. req[r] \in Request /\ OnItsWay(req[r]) /\ req[r].pc = "channels"
  BY StepsAreTyped DEF Bm25Search, At
<1>4. x \in Request
  BY <1>2, <1>3 DEF Request
<1>5. OnItsWay(x)
  BY <1>2, <1>3 DEF OnItsWay, Choosing, Request
<1>6. Moves(r, x)
  BY <1>1, <1>3, <1>4, <1>5, SearchMoves DEF Set, Bm25Search, Request
<1> QED
  BY <1>6

-----------------------------------------------------------------------------
(* Fusion *)

\* What RankMap gives of a channel.
Ranks == Partial(1..TopN)

LEMMA RankMapIs ==
  ASSUME NEW channel \in Channel
  PROVE  /\ RankMap(channel) \in Ranks
         /\ Effective(channel) => DOMAIN RankMap(channel) = ToSet(channel.hits)
         /\ \A m \in DOMAIN RankMap(channel) :
              /\ RankMap(channel)[m] \in DOMAIN channel.hits
              /\ channel.hits[RankMap(channel)[m]] = m
<1>1. PICK n \in 0..TopN : channel.hits \in [1..n -> Ids]
  BY ChannelHas
<1> DEFINE ms == IF Effective(channel) THEN ToSet(channel.hits) ELSE {}
<1>2. ms \subseteq Ids /\ \A m \in ms : \E rank \in DOMAIN channel.hits : channel.hits[rank] = m
  BY <1>1 DEF ToSet
<1>3. DOMAIN RankMap(channel) = ms
  BY DEF RankMap
<1>4. ASSUME NEW m \in ms
      PROVE  /\ RankMap(channel)[m] \in DOMAIN channel.hits
             /\ channel.hits[RankMap(channel)[m]] = m
  <2>1. RankMap(channel)[m] = CHOOSE rank \in DOMAIN channel.hits : channel.hits[rank] = m
    BY DEF RankMap
  <2>2. PICK rank \in DOMAIN channel.hits : channel.hits[rank] = m
    BY <1>2
  <2> HIDE DEF ms
  <2> QED
    BY <2>1, <2>2
<1>5. RankMap(channel) \in [ms -> 1..TopN]
  <2>1. \A m \in ms : RankMap(channel)[m] \in 1..TopN
    BY <1>1, <1>4, RetrievalAssumption
  <2>2. RankMap(channel) = [m \in ms |-> RankMap(channel)[m]]
    BY DEF RankMap
  <2> HIDE DEF ms
  <2> QED
    BY <2>1, <2>2
<1> HIDE DEF ms
<1>7. RankMap(channel) \in Ranks
  BY <1>2, <1>5, PartialIs DEF Ranks
<1> QED
  BY <1>3, <1>4, <1>7, Effective(channel) => ms = ToSet(channel.hits) DEF ms

LEMMA Product ==
  ASSUME NEW a \in 0..100, NEW b \in 0..100
  PROVE  (a * b) \div 100 \in 0..100
<1>1. PICK p \in Nat : p = a * b
  OBVIOUS
<1>2. a * b <= a * 100
  OBVIOUS
<1>3. p <= 10000
  BY <1>1, <1>2
<1>4. p \div 100 \in 0..100
  BY <1>3
<1> QED
  BY <1>1, <1>4, Zenon

LEMMA RrfIs ==
  ASSUME NEW a \in Ranks, NEW b \in Ranks, NEW m \in DOMAIN a \cup DOMAIN b
  PROVE  /\ Rrf(a, b, m) \in Nat
         /\ Contribution(a, m) \in Nat
         /\ Contribution(b, m) \in Nat
         /\ RrfWeight[1] \in Nat \ {0}
         /\ RrfMax(a, b) \in Nat \ {0}
<1>1. DOMAIN a \subseteq Ids /\ DOMAIN b \subseteq Ids
      /\ (\A i \in DOMAIN a : a[i] \in 1..TopN) /\ (\A i \in DOMAIN b : b[i] \in 1..TopN)
  BY PartialHas DEF Ranks
<1>2. \A rank \in 1..TopN : RrfWeight[rank] \in Nat \ {0}
  BY RetrievalAssumption, RankingAssumption
<1>3. Contribution(a, m) \in Nat /\ Contribution(b, m) \in Nat
  BY <1>1, <1>2 DEF Contribution
<1>4. RrfWeight[1] \in Nat \ {0}
  <2>1. 1 \in 1..TopN
    BY <1>1, RetrievalAssumption
  <2> QED
    BY <1>2, <2>1
<1> DEFINE used == { i \in 1..2 : DOMAIN (<<a, b>>[i]) # {} }
<1>5. Cardinality(used) \in Nat \ {0}
  <2>1. IsFiniteSet(used)
    BY FS_Interval, FS_Subset, used \subseteq 1..2
  <2>2. used # {}
    <3>1. CASE m \in DOMAIN a
      BY <3>1, <<a, b>>[1] = a
    <3>2. CASE m \in DOMAIN b
      BY <3>2, <<a, b>>[2] = b
    <3> QED
      BY <3>1, <3>2
  <2> HIDE DEF used
  <2> QED
    BY <2>1, <2>2, FS_CardinalityType, FS_EmptySet
<1>6. RrfMax(a, b) = Cardinality(used) * RrfWeight[1]
  BY DEF RrfMax
<1> HIDE DEF used
<1>7. \A p, q \in Nat \ {0} : p * q \in Nat \ {0}
  OBVIOUS
<1> QED
  BY <1>3, <1>4, <1>5, <1>6, <1>7 DEF Rrf

LEMMA NormalizedIs ==
  ASSUME NEW a \in Ranks, NEW b \in Ranks, NEW m \in DOMAIN a \cup DOMAIN b
  PROVE  /\ (100 * Rrf(a, b, m)) \div RrfMax(a, b) \in Nat
         /\ Normalized(a, b, m) \in 0..100
<1>1. \A p \in Nat, q \in Nat \ {0} : (100 * p) \div q \in Nat
  OBVIOUS
<1>2. PICK k \in Nat : k = (100 * Rrf(a, b, m)) \div RrfMax(a, b)
  BY <1>1, RrfIs
<1>3. Normalized(a, b, m) = Min({100, k})
  BY <1>2 DEF Normalized
<1>4. Min({100, k}) = IF 100 <= k THEN 100 ELSE k
  BY MinOfTwo
<1> QED
  BY <1>2, <1>3, <1>4

LEMMA FusedIsScores ==
  ASSUME NEW a \in Ranks, NEW b \in Ranks
  PROVE  Fused(a, b) \in Scores
<1> DEFINE found == DOMAIN a \cup DOMAIN b
<1> DEFINE first == { m \in found :
                        Cardinality({ n \in found : FusedBefore(a, b, n, m) }) < FusedTopN }
<1>1. Fused(a, b) = [m \in first |-> Normalized(a, b, m)]
  BY DEF Fused
<1>2. first \subseteq DOMAIN a \cup DOMAIN b
  OBVIOUS
<1>3. found \subseteq Ids
  BY PartialHas DEF Ranks
<1> HIDE DEF first
<1>4. \A m \in first : Normalized(a, b, m) \in 0..100
  BY <1>2, NormalizedIs
<1>5. Fused(a, b) \in [first -> 0..100]
  BY <1>1, <1>4
<1> QED
  BY <1>2, <1>3, <1>5, PartialIs DEF Scores

LEMMA HigherRank ==
  ASSUME NEW channel \in Channel, NEW m, NEW n, RanksHigher(channel, m, n)
  PROVE  /\ m \in DOMAIN RankMap(channel)
         /\ n \in DOMAIN RankMap(channel) => RankMap(channel)[m] < RankMap(channel)[n]
<1>1. PICK i \in DOMAIN channel.hits :
        channel.hits[i] = m /\ \A j \in 1..i : channel.hits[j] # n
  BY DEF RanksHigher
<1>2. PICK len \in 0..TopN : channel.hits \in [1..len -> Ids]
  BY ChannelHas
<1>3. IsInjective(channel.hits) /\ DOMAIN channel.hits = 1..len /\ len \in Nat
  BY <1>2, ChannelHas, RetrievalAssumption
<1>4. Effective(channel)
  BY <1>1, <1>3, ChannelHas, NothingYet DEF Effective
<1>5. m \in DOMAIN RankMap(channel)
  BY <1>1, <1>4, RankMapIs DEF ToSet
<1>6. RankMap(channel)[m] = i
  BY <1>1, <1>3, <1>5, RankMapIs DEF IsInjective
<1>7. ASSUME n \in DOMAIN RankMap(channel)
      PROVE  i < RankMap(channel)[n]
  <2>1. RankMap(channel)[n] \in 1..len /\ channel.hits[RankMap(channel)[n]] = n
    BY <1>3, <1>7, RankMapIs
  <2> QED
    BY <1>1, <1>3, <2>1
<1> QED
  BY <1>5, <1>6, <1>7

LEMMA MinRankIs ==
  ASSUME NEW a \in Ranks, NEW b \in Ranks, NEW m \in DOMAIN a \cup DOMAIN b
  PROVE  /\ MinRank(a, b, m) \in Nat
         /\ \E f \in {a, b} : m \in DOMAIN f /\ MinRank(a, b, m) = f[m]
         /\ \A f \in {a, b} : m \in DOMAIN f => MinRank(a, b, m) <= f[m]
<1> DEFINE ranks == { f[m] : f \in { g \in {a, b} : m \in DOMAIN g } }
<1>1. \A f \in {a, b} : m \in DOMAIN f => f[m] \in Nat
  BY PartialHas, RetrievalAssumption DEF Ranks
<1>2. ranks \in SUBSET Nat /\ ranks # {}
  BY <1>1
<1>3. MinRank(a, b, m) = Min(ranks)
  BY DEF MinRank
<1>4. \A f \in {a, b} : m \in DOMAIN f => f[m] \in ranks
  OBVIOUS
<1>5. \A k \in ranks : \E f \in {a, b} : m \in DOMAIN f /\ k = f[m]
  OBVIOUS
<1> HIDE DEF ranks
<1>6. PICK k \in ranks : \A y \in ranks : k <= y
  BY <1>2, LeastNatural
<1>7. Min(ranks) = k
  BY <1>2, <1>6, MinIs
<1> QED
  BY <1>2, <1>3, <1>4, <1>5, <1>6, <1>7

\* A memory that both channels rank higher comes first.
LEMMA HigherComesFirst ==
  ASSUME NEW a \in Ranks, NEW b \in Ranks, NEW m \in DOMAIN a \cap DOMAIN b,
         NEW n \in DOMAIN a \cup DOMAIN b,
         n \in DOMAIN a => a[m] < a[n], n \in DOMAIN b => b[m] < b[n]
  PROVE  Rrf(a, b, m) >= Rrf(a, b, n) /\ MinRank(a, b, m) < MinRank(a, b, n)
<1>1. ASSUME NEW f \in {a, b}
      PROVE  Contribution(f, m) >= Contribution(f, n)
  <2>1. m \in DOMAIN f /\ \A k \in DOMAIN f : f[k] \in 1..TopN
    BY PartialHas DEF Ranks
  <2>2. f[m] \in DOMAIN RrfWeight /\ RrfWeight[f[m]] \in Nat
    BY <2>1, RetrievalAssumption, RankingAssumption
  <2>3. CASE n \in DOMAIN f
    <3>1. f[n] \in DOMAIN RrfWeight /\ f[m] <= f[n]
      BY <2>1, <2>3, RetrievalAssumption
    <3> QED
      BY <2>1, <2>2, <2>3, <3>1, RankingAssumption DEF Contribution
  <2>4. CASE n \notin DOMAIN f
    BY <2>1, <2>2, <2>4 DEF Contribution
  <2> QED
    BY <2>3, <2>4
<1>2. /\ Contribution(a, m) \in Nat /\ Contribution(b, m) \in Nat
      /\ Contribution(a, n) \in Nat /\ Contribution(b, n) \in Nat
  BY RrfIs
<1>3. Rrf(a, b, m) >= Rrf(a, b, n)
  BY <1>1, <1>2 DEF Rrf
<1>4. PICK f \in {a, b} : n \in DOMAIN f /\ MinRank(a, b, n) = f[n]
  BY MinRankIs
<1>5. MinRank(a, b, m) <= f[m] /\ MinRank(a, b, m) \in Nat /\ MinRank(a, b, n) \in Nat
  BY MinRankIs
<1>6. f[m] \in Nat /\ f[m] < f[n]
  BY <1>4, PartialHas, RetrievalAssumption DEF Ranks
<1> QED
  BY <1>3, <1>4, <1>5, <1>6

LEMMA FusionKeepsTheHigher ==
  ASSUME NEW a \in Ranks, NEW b \in Ranks, NEW m \in DOMAIN a \cap DOMAIN b,
         NEW n \in DOMAIN Fused(a, b),
         n \in DOMAIN a => a[m] < a[n], n \in DOMAIN b => b[m] < b[n]
  PROVE  m \in DOMAIN Fused(a, b) /\ Fused(a, b)[m] >= Fused(a, b)[n]
<1> DEFINE found == DOMAIN a \cup DOMAIN b
           Before(k) == { x \in found : FusedBefore(a, b, x, k) }
           first == { k \in found : Cardinality(Before(k)) < FusedTopN }
<1>1. Fused(a, b) = [k \in first |-> Normalized(a, b, k)]
  BY DEF Fused
<1>2. n \in found /\ m \in found /\ Cardinality(Before(n)) < FusedTopN
  BY <1>1
<1>3. Rrf(a, b, m) >= Rrf(a, b, n) /\ MinRank(a, b, m) < MinRank(a, b, n)
  BY <1>2, HigherComesFirst
<1>4. found \subseteq Ids /\ found \subseteq Nat /\ IsFiniteSet(found)
  BY PartialHas, StoreAssumption, FS_Subset DEF Ranks
<1>5. Before(m) \subseteq Before(n)
  <2>1. \A k \in found : Rrf(a, b, k) \in Nat /\ MinRank(a, b, k) \in Nat
    BY RrfIs, MinRankIs
  <2>2. ASSUME NEW x \in found, FusedBefore(a, b, x, m)
        PROVE  FusedBefore(a, b, x, n)
    BY <1>2, <1>3, <1>4, <2>1, <2>2 DEF FusedBefore
  <2> QED
    BY <2>2
<1>6. Cardinality(Before(m)) < FusedTopN
  <2>1. IsFiniteSet(Before(n))
    BY <1>4, FS_Subset, Before(n) \subseteq found
  <2>2. Cardinality(Before(m)) <= Cardinality(Before(n))
        /\ Cardinality(Before(m)) \in Nat /\ Cardinality(Before(n)) \in Nat
    BY <1>5, <2>1, FS_Subset, FS_CardinalityType
  <2> QED
    BY <1>2, <2>2, RankingAssumption
<1>7. m \in first /\ n \in first
  BY <1>2, <1>6
<1> HIDE DEF first
<1>8. Normalized(a, b, m) >= Normalized(a, b, n)
  <2>1. Rrf(a, b, m) \in Nat /\ Rrf(a, b, n) \in Nat /\ RrfMax(a, b) \in Nat \ {0}
    BY <1>2, RrfIs
  <2>2. PICK p \in Nat, q \in Nat : /\ p = (100 * Rrf(a, b, m)) \div RrfMax(a, b)
                                   /\ q = (100 * Rrf(a, b, n)) \div RrfMax(a, b)
    BY <1>2, NormalizedIs
  <2>3. p >= q
    <3>1. \A i, j \in Nat, d \in Nat \ {0} : i >= j => i \div d >= j \div d
      OBVIOUS
    <3>2. 100 * Rrf(a, b, m) \in Nat /\ 100 * Rrf(a, b, n) \in Nat
          /\ 100 * Rrf(a, b, m) >= 100 * Rrf(a, b, n)
      BY <1>3, <2>1
    <3> QED
      BY <2>1, <2>2, <3>1, <3>2
  <2>4. Normalized(a, b, m) = Min({100, p}) /\ Normalized(a, b, n) = Min({100, q})
    BY <2>2 DEF Normalized
  <2>5. Min({100, p}) = IF 100 <= p THEN 100 ELSE p
    BY MinOfTwo
  <2>6. Min({100, q}) = IF 100 <= q THEN 100 ELSE q
    BY MinOfTwo
  <2> QED
    BY <2>3, <2>4, <2>5, <2>6
<1> QED
  BY <1>1, <1>7, <1>8

-----------------------------------------------------------------------------
(* The vector channel *)

LEMMA VectorFailsMoves ==
  ASSUME RetrievalInv, NEW r \in Requests, NEW kind \in Failures, NEW warning \in VectorWarnings,
         VectorFails(r, kind, warning), ReadsOnly, At(r, "channels")
  PROVE  \E x : Moves(r, x)
<1> DEFINE x == [req[r] EXCEPT !.vector = Failed(kind), !.attempt = 1,
                               !.warnings = @ \cup {warning}]
<1>1. req[r] \in Request /\ OnItsWay(req[r]) /\ req[r].pc = "channels"
  BY StepsAreTyped DEF At
<1>2. Failed(kind) \in Channel /\ Failed(kind).kind = kind
  BY ChannelsAre DEF Outcome, Failed
<1>3. x \in Request
  <2>1. 1 \in 1..MaxAttempts
    BY RetrievalAssumption
  <2>2. req[r].warnings \cup {warning} \in SUBSET Warnings
    BY <1>1 DEF Request, Warnings
  <2> QED
    BY <1>1, <1>2, <2>1, <2>2 DEF Request
<1>4. OnItsWay(x)
  <2>1. /\ x.pc = "channels" /\ x.warnings = req[r].warnings \cup {warning}
        /\ x.vector.kind = kind /\ x.bm25 = req[r].bm25 /\ x.edges = req[r].edges
        /\ x.direct = req[r].direct /\ x.memories = req[r].memories
    BY <1>1, <1>2 DEF Request
  <2> HIDE DEF x
  <2> QED
    BY <1>1, <2>1 DEF OnItsWay, Choosing, VectorWarnings
<1>5. Moves(r, x)
  BY <1>1, <1>3, <1>4, SearchMoves DEF Set, VectorFails, Request
<1> QED
  BY <1>5

\* Steps within a stage of the search.
LEMMA StageMoves ==
  ASSUME RetrievalInv, NEW r \in Requests, At(r, "channels"), ReadsOnly,
         NEW stage \in Stages, NEW attempt \in 1..MaxAttempts,
         Set(r, [req[r] EXCEPT !.stage = stage, !.attempt = attempt])
  PROVE  \E x : Moves(r, x)
<1> DEFINE x == [req[r] EXCEPT !.stage = stage, !.attempt = attempt]
<1>1. req[r] \in Request /\ OnItsWay(req[r]) /\ req[r].pc = "channels"
  BY StepsAreTyped DEF At
<1>2. x \in Request
  BY <1>1 DEF Request
<1>3. OnItsWay(x)
  BY <1>1 DEF OnItsWay, Choosing, Request
<1>4. Moves(r, x)
  BY <1>1, <1>2, <1>3, SearchMoves DEF Set, Request
<1> QED
  BY <1>4

LEMMA TokenizeMoves ==
  ASSUME RetrievalInv, NEW r \in Requests, Tokenize(r)
  PROVE  \E x : Moves(r, x)
<1>1. At(r, "channels") /\ req[r].pc # "done" /\ ReadsOnly
  BY DEF Tokenize, VectorStage, At
<1>2. CASE VectorFails(r, "channel_failure", "embedding_failed")
  BY <1>1, <1>2, VectorFailsMoves DEF Failures, VectorWarnings
<1>3. CASE VectorFails(r, "skipped_query_too_long", "vector_skipped_query_too_long")
  BY <1>1, <1>3, VectorFailsMoves DEF Failures, VectorWarnings
<1>4. CASE Fail(r, "invalid_request") \/ Fail(r, "retrieval_timeout")
  BY <1>1, <1>4, FailMoves DEF Errors
<1>5. CASE Set(r, [req[r] EXCEPT !.stage = "embed"])
  <2>1. req[r] \in Request
    BY StepsAreTyped
  <2>2. req[r].attempt \in 1..MaxAttempts
    BY <2>1 DEF Request
  <2>3. [req[r] EXCEPT !.stage = "embed"]
          = [req[r] EXCEPT !.stage = "embed", !.attempt = req[r].attempt]
    BY <2>1 DEF Request
  <2> QED
    BY <1>1, <1>5, <2>2, <2>3, StageMoves DEF Stages
<1> QED
  BY <1>2, <1>3, <1>4, <1>5 DEF Tokenize

LEMMA EmbedAgainMoves ==
  ASSUME RetrievalInv, NEW r \in Requests, EmbedAgain(r)
  PROVE  \E x : Moves(r, x)
<1>1. req[r] \in Request
  BY StepsAreTyped
<1>2. req[r].attempt + 1 \in 1..MaxAttempts /\ req[r].stage \in Stages
  BY <1>1, RetrievalAssumption DEF EmbedAgain, TryAgain, Request
<1>3. [req[r] EXCEPT !.attempt = @ + 1]
        = [req[r] EXCEPT !.stage = req[r].stage, !.attempt = req[r].attempt + 1]
  BY <1>1 DEF Request
<1> QED
  BY <1>2, <1>3, StageMoves DEF EmbedAgain, VectorStage, TryAgain

LEMMA EmbedMoves ==
  ASSUME RetrievalInv, NEW r \in Requests, Embed(r)
  PROVE  \E x : Moves(r, x)
<1>1. At(r, "channels") /\ req[r].pc # "done" /\ ReadsOnly
  BY DEF Embed, VectorStage, At
<1>2. CASE VectorFails(r, "channel_failure", "embedding_failed")
  BY <1>1, <1>2, VectorFailsMoves DEF Failures, VectorWarnings
<1>3. CASE Fail(r, "retrieval_timeout")
  BY <1>1, <1>3, FailMoves DEF Errors
<1>4. CASE Set(r, [req[r] EXCEPT !.stage = "search", !.attempt = 1])
  <2>1. 1 \in 1..MaxAttempts
    BY RetrievalAssumption
  <2> QED
    BY <1>1, <1>4, <2>1, StageMoves DEF Stages
<1> QED
  BY <1>2, <1>3, <1>4 DEF Embed

LEMMA VectorSearchMoves ==
  ASSUME RetrievalInv, NEW r \in Requests, VectorSearch(r)
  PROVE  \E x : Moves(r, x)
<1>1. At(r, "channels") /\ ReadsOnly /\ req[r].vector = Running
  BY DEF VectorSearch, VectorStage
<1>2. CASE VectorFails(r, "channel_failure", "vector_retrieval_failed")
  BY <1>1, <1>2, VectorFailsMoves DEF Failures, VectorWarnings
<1>3. ASSUME NEW outcome \in Found(Query(r)), Set(r, [req[r] EXCEPT !.vector = outcome])
      PROVE  \E x : Moves(r, x)
  <2> DEFINE x == [req[r] EXCEPT !.vector = outcome]
  <2>1. req[r] \in Request /\ OnItsWay(req[r]) /\ req[r].pc = "channels"
    BY <1>1, StepsAreTyped DEF At
  <2>2. outcome \in Channel /\ outcome.kind = "success"
    BY FoundIsChannel
  <2>3. x \in Request
    BY <2>1, <2>2 DEF Request
  <2>4. OnItsWay(x)
    BY <1>1, <2>1, <2>2 DEF OnItsWay, Choosing, Request, Failures, Running
  <2>5. Moves(r, x)
    BY <1>1, <1>3, <2>1, <2>3, <2>4, SearchMoves DEF Set, Request
  <2> QED
    BY <2>5
<1> QED
  BY <1>2, <1>3 DEF VectorSearch

LEMMA FuseMoves ==
  ASSUME RetrievalInv, NEW r \in Requests, Fuse(r)
  PROVE  \E x : Moves(r, x)
<1>1. At(r, "channels") /\ req[r].pc # "done" /\ ReadsOnly
      /\ req[r].bm25 # Running /\ req[r].vector # Running
  BY DEF Fuse, At
<1>2. CASE Fail(r, "retrieval_unavailable") \/ Fail(r, "retrieval_timeout")
  BY <1>1, <1>2, FailMoves DEF Errors
<1> DEFINE x == [req[r] EXCEPT !.pc = "load", !.fused = FusedHits(r),
                               !.bm25.hits = <<>>, !.vector.hits = <<>>,
                               !.mode = Mode(req[r].bm25, req[r].vector),
                               !.warnings = @ \cup Bm25Warning(r)]
<1>3. CASE ~Unavailable(req[r].bm25, req[r].vector) /\ Set(r, x)
  <2>1. req[r] \in Request /\ OnItsWay(req[r]) /\ req[r].pc = "channels"
    BY <1>1, StepsAreTyped DEF At
  <2>2. req[r].bm25 \in Channel /\ req[r].vector \in Channel
    BY <2>1 DEF Request
  <2>3. /\ [req[r].bm25 EXCEPT !.hits = <<>>] = Failed(req[r].bm25.kind)
        /\ [req[r].vector EXCEPT !.hits = <<>>] = Failed(req[r].vector.kind)
    BY <2>2, ChannelEmptied
  <2>4. Failed(req[r].bm25.kind) \in Channel /\ Failed(req[r].vector.kind) \in Channel
    BY <2>2, ChannelHas, ChannelsAre
  <2>5. FusedHits(r) \in Scores
    BY <2>2, RankMapIs, FusedIsScores DEF FusedHits
  <2>6. Mode(req[r].bm25, req[r].vector) \in Modes
        /\ (Mode(req[r].bm25, req[r].vector) = "hybrid" =>
              req[r].bm25.kind = "success" /\ req[r].vector.kind = "success")
    BY DEF Mode, Modes, Effective
  <2>7. Bm25Warning(r) \subseteq Warnings
    BY DEF Bm25Warning, Warnings
  <2>8. x = [req[r] EXCEPT !.pc = "load", !.fused = FusedHits(r),
                           !.bm25 = Failed(req[r].bm25.kind),
                           !.vector = Failed(req[r].vector.kind),
                           !.mode = Mode(req[r].bm25, req[r].vector),
                           !.warnings = req[r].warnings \cup Bm25Warning(r)]
    BY <2>1, <2>3 DEF Request
  <2>9. x \in Request
    <3>1. "load" \in Searching \cup Choosing \cup {"stats", "done"}
      BY DEF Choosing
    <3>2. req[r].warnings \cup Bm25Warning(r) \in SUBSET Warnings
      BY <2>1, <2>7 DEF Request
    <3> HIDE DEF x
    <3> QED
      BY <2>1, <2>4, <2>5, <2>6, <2>8, <3>1, <3>2 DEF Request
  <2>10. /\ x.pc = "load" /\ x.bm25.kind = req[r].bm25.kind
         /\ x.vector.kind = req[r].vector.kind /\ x.mode = Mode(req[r].bm25, req[r].vector)
         /\ x.warnings = req[r].warnings \cup Bm25Warning(r)
         /\ x.edges = req[r].edges /\ x.direct = req[r].direct
         /\ x.expanded = req[r].expanded /\ x.memories = req[r].memories
         /\ x.query = req[r].query
    <3>1. /\ Failed(req[r].bm25.kind).kind = req[r].bm25.kind
          /\ Failed(req[r].vector.kind).kind = req[r].vector.kind
      BY DEF Failed
    <3> HIDE DEF x
    <3> QED
      BY <2>1, <2>8, <3>1 DEF Request
  <2> HIDE DEF x
  <2>11. req[r].bm25.kind \in {"success", "channel_failure"}
         /\ req[r].vector.kind \in {"success"} \cup Failures
    BY <1>1, <2>1, <2>2, ChannelHas DEF OnItsWay, Running, Outcome, Failures
  <2>12. Told(x)
    <3>1. (x.bm25.kind # "success") <=> "bm25_retrieval_failed" \in x.warnings
      BY <2>1, <2>10, <2>11 DEF OnItsWay, Bm25Warning
    <3>2. x.warnings \cap VectorWarnings = req[r].warnings \cap VectorWarnings
      BY <2>10 DEF Bm25Warning, VectorWarnings
    <3>3. (x.vector.kind # "success") <=> x.warnings \cap VectorWarnings # {}
      BY <2>1, <2>10, <2>11, <3>2 DEF OnItsWay, Failures
    <3>4. "success" \in {x.bm25.kind, x.vector.kind}
      BY <1>3, <2>10, <2>11 DEF Unavailable, Failures
    <3> QED
      BY <2>6, <2>10, <3>1, <3>3, <3>4 DEF Told
  <2>13. OnItsWay(x)
    BY <2>1, <2>10, <2>12 DEF OnItsWay
  <2>14. Moves(r, x)
    BY <1>1, <1>3, <2>9, <2>10, <2>13, SearchMoves DEF Set
  <2> QED
    BY <2>14
<1> QED
  BY <1>2, <1>3 DEF Fuse

-----------------------------------------------------------------------------
(* Readback, rerank and expansion *)

LaterWarnings ==
  {"dirty_index_document", "stale_index_document", "rerank_failed", "graph_expansion_failed"}

LEMMA ChooseMoves ==
  ASSUME RetrievalInv, NEW r \in Requests, NEW x \in Request,
         NEW more \in SUBSET LaterWarnings,
         req' = [req EXCEPT ![r] = x], ReadsOnly,
         req[r].pc \in Choosing, x.pc \in Choosing,
         x.bm25 = req[r].bm25, x.vector = req[r].vector, x.mode = req[r].mode,
         x.query = req[r].query, x.memories = req[r].memories,
         x.warnings = req[r].warnings \cup more,
         x.pc # "loadExpanded" => x.edges = {},
         \A e \in x.edges : e.seed \in DOMAIN x.direct,
         \A m \in DOMAIN x.direct : Asked(x, x.direct[m], memory[m]),
         \A m \in DOMAIN x.expanded : Asked(x, x.expanded[m], memory[m])
  PROVE  Moves(r, x)
<1>1. req[r] \in Request /\ OnItsWay(req[r]) /\ HoldsWhatWasAsked(req[r], memory)
  BY StepsAreTyped
<1>2. req[r].memories = <<>> /\ Told(req[r])
  BY <1>1 DEF OnItsWay, Choosing
<1>3. Told(x)
  <2>1. /\ more \cap VectorWarnings = {}
        /\ "bm25_retrieval_failed" \notin more
    BY DEF LaterWarnings, VectorWarnings
  <2> QED
    BY <1>2, <2>1 DEF Told
<1>4. OnItsWay(x)
  BY <1>1, <1>2, <1>3 DEF OnItsWay, Choosing
<1>5. HoldsWhatWasAsked(x, memory)
  BY <1>2, NothingYet DEF HoldsWhatWasAsked
<1>6. req[r].pc # "done" /\ x.pc # "done" /\ ~Chosen(x)
  BY DEF Choosing, Chosen
<1> QED
  BY <1>4, <1>5, <1>6 DEF Moves, RequestOK, ReadsOnly

LEMMA ValidAreAsked ==
  ASSUME NodesOK, NEW query, NEW ms \in SUBSET Ids, NEW m \in Valid(query, ms)
  PROVE  /\ m \in ms /\ m \in Ids
         /\ Snap(m) \in Snapshot
         /\ memory[m] # NoNode /\ memory[m].user = query.user
         /\ Snap(m).status \in AllowedStatus(query)
<1>1. m \in ms /\ memory[m] # NoNode /\ memory[m].user = query.user
      /\ memory[m].status \in AllowedStatus(query)
  BY DEF Valid, Loaded, Exists
<1>2. memory[m] \in Node /\ stat[m] \in Stat
  BY <1>1 DEF NodesOK, StoreTypeOK
<1> QED
  BY <1>1, <1>2 DEF Snap, Snapshot, Node, Stat

LEMMA LoadMemoriesMoves ==
  ASSUME RetrievalInv, NEW r \in Requests, LoadMemories(r)
  PROVE  \E x : Moves(r, x)
<1>1. req[r] \in Request /\ OnItsWay(req[r]) /\ HoldsWhatWasAsked(req[r], memory)
      /\ req[r].pc = "load" /\ ReadsOnly
  BY StepsAreTyped DEF LoadMemories, At
<1>2. CASE Fail(r, "graph_load_failed")
  BY <1>1, <1>2, FailMoves DEF Errors
<1> DEFINE ms == DOMAIN req[r].fused
           more == StaleWarnings(Query(r), ms)
           x == [req[r] EXCEPT !.pc = IF DOMAIN Direct(r) = {} THEN "score" ELSE "rerank",
                               !.direct = Direct(r), !.fused = <<>>,
                               !.warnings = @ \cup more]
<1>3. CASE Set(r, x)
  <2>1. req[r].fused \in Scores /\ req[r].expanded \in Candidates /\ ms \subseteq Ids
    BY <1>1, PartialHas DEF Request, Scores
  <2>2. NodesOK
    BY DEF RetrievalInv
  <2>3. ASSUME NEW m \in DOMAIN Direct(r)
        PROVE  /\ m \in Ids /\ Direct(r)[m] \in Candidate
               /\ memory[m] # NoNode /\ memory[m].user = Query(r).user
               /\ Direct(r)[m].snap.status \in AllowedStatus(Query(r))
    <3>1. m \in Valid(Query(r), ms)
          /\ Direct(r)[m] = [score |-> req[r].fused[m], origin |-> "direct", snap |-> Snap(m)]
      BY <2>3 DEF Direct
    <3>2. m \in ms /\ m \in Ids /\ Snap(m) \in Snapshot
          /\ memory[m] # NoNode /\ memory[m].user = Query(r).user /\ Snap(m).status \in AllowedStatus(Query(r))
      BY <2>1, <2>2, <3>1, ValidAreAsked
    <3>3. req[r].fused[m] \in 0..100
      BY <2>1, <3>2, PartialHas DEF Scores
    <3>4. Direct(r)[m] \in Candidate /\ Direct(r)[m].snap = Snap(m)
      <4>1. PICK score \in 0..100, snap \in Snapshot :
              /\ snap = Snap(m)
              /\ Direct(r)[m] = [score |-> score, origin |-> "direct", snap |-> snap]
        BY <3>1, <3>2, <3>3
      <4>2. [score |-> score, origin |-> "direct", snap |-> snap] \in Candidate
        BY <4>1 DEF Candidate
      <4>3. [score |-> score, origin |-> "direct", snap |-> snap].snap = snap
        OBVIOUS
      <4> QED
        BY <4>1, <4>2, <4>3
    <3> QED
      BY <3>2, <3>4
  <2>4. Direct(r) \in Candidates
    <3>1. Direct(r) = [m \in DOMAIN Direct(r) |-> Direct(r)[m]]
      BY DEF Direct
    <3>2. Direct(r) \in [DOMAIN Direct(r) -> Candidate]
      BY <2>3, <3>1
    <3> QED
      BY <2>3, <3>2, PartialIs DEF Candidates
  <2>5. more \in SUBSET LaterWarnings
    BY DEF StaleWarnings, LaterWarnings
  <2>6. req[r].warnings \cup more \in SUBSET Warnings
    BY <1>1, <2>5 DEF Request, Warnings, LaterWarnings
  <2> DEFINE pc == IF DOMAIN Direct(r) = {} THEN "score" ELSE "rerank"
  <2>7. pc \in Choosing /\ pc # "loadExpanded"
    BY DEF Choosing
  <2>8. <<>> \in Scores
    BY NoneIsPartial DEF Scores
  <2> HIDE DEF more, pc
  <2>9. x = [req[r] EXCEPT !.pc = pc, !.direct = Direct(r), !.fused = <<>>,
                           !.warnings = req[r].warnings \cup more]
    BY <1>1 DEF Request, pc
  <2> HIDE DEF x
  <2>10. x \in Request
    BY <1>1, <2>4, <2>6, <2>7, <2>8, <2>9 DEF Request
  <2>11. /\ x.pc = pc /\ x.direct = Direct(r) /\ x.warnings = req[r].warnings \cup more
         /\ x.bm25 = req[r].bm25 /\ x.vector = req[r].vector /\ x.mode = req[r].mode
         /\ x.query = req[r].query /\ x.memories = req[r].memories
         /\ x.edges = req[r].edges /\ x.expanded = req[r].expanded
    BY <1>1, <2>9 DEF Request
  <2>12. req[r].edges = {} /\ req[r].pc \in Choosing
    BY <1>1 DEF OnItsWay, Choosing
  <2>13. \A m \in DOMAIN x.direct : Asked(x, x.direct[m], memory[m])
    BY <2>3, <2>11 DEF Asked, Query
  <2>14. \A m \in DOMAIN x.expanded : Asked(x, x.expanded[m], memory[m])
    BY <1>1, <2>11 DEF Asked, HoldsWhatWasAsked
  <2>15. Moves(r, x)
    BY <1>1, <1>3, <2>5, <2>7, <2>10, <2>11, <2>12, <2>13, <2>14, ChooseMoves DEF Set
  <2> QED
    BY <2>15
<1> QED
  BY <1>2, <1>3 DEF LoadMemories

\* One more attempt of the rerank request.
LEMMA RerankAgainMoves ==
  ASSUME RetrievalInv, NEW r \in Requests, RerankAgain(r)
  PROVE  \E x : Moves(r, x)
<1>1. req[r] \in Request /\ OnItsWay(req[r]) /\ HoldsWhatWasAsked(req[r], memory)
      /\ req[r].pc = "rerank" /\ ReadsOnly
  BY StepsAreTyped DEF RerankAgain, At
<1> DEFINE x == [req[r] EXCEPT !.attempt = @ + 1]
<1>2. x \in Request
  <2>1. req[r].attempt + 1 \in 1..MaxAttempts
    BY <1>1, RetrievalAssumption DEF Request, RerankAgain, TryAgain
  <2> QED
    BY <1>1, <2>1 DEF Request
<1>3. OnItsWay(x)
  BY <1>1 DEF OnItsWay, Request, Told
<1>4. Moves(r, x)
  BY <1>1, <1>2, <1>3, SearchMoves DEF RerankAgain, TryAgain, Set, Request
<1> QED
  BY <1>4

LEMMA RerankMoves ==
  ASSUME RetrievalInv, NEW r \in Requests, Rerank(r)
  PROVE  \E x : Moves(r, x)
<1>1. req[r] \in Request /\ OnItsWay(req[r]) /\ HoldsWhatWasAsked(req[r], memory)
      /\ req[r].pc = "rerank" /\ ReadsOnly
  BY StepsAreTyped DEF Rerank, At
<1>2. 1 \in 1..MaxAttempts
  BY RetrievalAssumption
<1>3. AfterRerank(r) \in Choosing /\ AfterRerank(r) # "loadExpanded"
  BY DEF AfterRerank, Choosing
<1>4. req[r].edges = {} /\ req[r].pc \in Choosing /\ req[r].direct \in Candidates
  BY <1>1 DEF OnItsWay, Choosing, Request
<1>5. ASSUME NEW direct \in Candidates, DOMAIN direct = DOMAIN req[r].direct,
             \A m \in DOMAIN direct : direct[m].snap = req[r].direct[m].snap,
             NEW more \in SUBSET LaterWarnings,
             Set(r, [req[r] EXCEPT !.pc = AfterRerank(r), !.attempt = 1, !.direct = direct,
                                   !.warnings = req[r].warnings \cup more])
      PROVE  \E x : Moves(r, x)
  <2> DEFINE x == [req[r] EXCEPT !.pc = AfterRerank(r), !.attempt = 1, !.direct = direct,
                                 !.warnings = req[r].warnings \cup more]
  <2>1. req[r].warnings \cup more \in SUBSET Warnings
    BY <1>1 DEF Request, Warnings, LaterWarnings
  <2>2. x \in Request
    BY <1>1, <1>2, <1>3, <2>1 DEF Request
  <2>3. /\ x.pc = AfterRerank(r) /\ x.direct = direct
        /\ x.warnings = req[r].warnings \cup more
        /\ x.bm25 = req[r].bm25 /\ x.vector = req[r].vector /\ x.mode = req[r].mode
        /\ x.query = req[r].query /\ x.memories = req[r].memories
        /\ x.edges = req[r].edges /\ x.expanded = req[r].expanded
    BY <1>1 DEF Request
  <2>4. req' = [req EXCEPT ![r] = x]
    BY <1>5 DEF Set
  <2> HIDE DEF x
  <2>5. \A m \in DOMAIN x.direct : Asked(x, x.direct[m], memory[m])
    BY <1>1, <1>5, <2>3 DEF Asked, HoldsWhatWasAsked
  <2>6. \A m \in DOMAIN x.expanded : Asked(x, x.expanded[m], memory[m])
    BY <1>1, <2>3 DEF Asked, HoldsWhatWasAsked
  <2>7. Moves(r, x)
    BY <1>1, <1>3, <1>4, <2>2, <2>3, <2>4, <2>5, <2>6, ChooseMoves
  <2> QED
    BY <2>7
<1>6. ASSUME NEW score \in [DOMAIN req[r].direct -> Relevance],
             Set(r, [req[r] EXCEPT
               !.pc = AfterRerank(r), !.attempt = 1,
               !.direct = [m \in DOMAIN @ |-> [@[m] EXCEPT !.score = score[m]]]])
      PROVE  \E x : Moves(r, x)
  <2> DEFINE direct == [m \in DOMAIN req[r].direct |->
                          [req[r].direct[m] EXCEPT !.score = score[m]]]
  <2>1. DOMAIN req[r].direct \subseteq Ids
        /\ \A m \in DOMAIN req[r].direct : req[r].direct[m] \in Candidate
    BY <1>4, PartialHas DEF Candidates
  <2>2. \A m \in DOMAIN req[r].direct : score[m] \in 0..100
    BY RetrievalAssumption
  <2>3. ASSUME NEW m \in DOMAIN direct
        PROVE  direct[m] \in Candidate /\ direct[m].snap = req[r].direct[m].snap
    <3>1. req[r].direct[m] \in Candidate /\ score[m] \in 0..100
      BY <2>1, <2>2
    <3>2. direct[m] = [req[r].direct[m] EXCEPT !.score = score[m]]
      OBVIOUS
    <3> HIDE DEF direct
    <3>3. PICK c \in Candidate, s \in 0..100 :
            c = req[r].direct[m] /\ s = score[m] /\ direct[m] = [c EXCEPT !.score = s]
      BY <3>1, <3>2
    <3>4. [c EXCEPT !.score = s] \in Candidate /\ [c EXCEPT !.score = s].snap = c.snap
      BY <3>3 DEF Candidate
    <3>5. direct[m] \in Candidate /\ direct[m].snap = c.snap
      BY <3>3, <3>4
    <3> QED
      BY <3>3, <3>5
  <2>4. DOMAIN direct = DOMAIN req[r].direct /\ direct \in [DOMAIN req[r].direct -> Candidate]
    BY <2>3
  <2>5. direct \in Candidates
    BY <2>1, <2>4, PartialIs DEF Candidates
  <2>6. [req[r] EXCEPT !.pc = AfterRerank(r), !.attempt = 1,
                       !.direct = [m \in DOMAIN @ |-> [@[m] EXCEPT !.score = score[m]]]]
          = [req[r] EXCEPT !.pc = AfterRerank(r), !.attempt = 1, !.direct = direct,
                           !.warnings = req[r].warnings \cup {}]
    BY <1>1 DEF Request
  <2>7. Set(r, [req[r] EXCEPT !.pc = AfterRerank(r), !.attempt = 1, !.direct = direct,
                              !.warnings = req[r].warnings \cup {}])
    BY <1>6, <2>6 DEF Set
  <2>8. {} \in SUBSET LaterWarnings
    OBVIOUS
  <2> HIDE DEF direct
  <2> QED
    BY <1>5, <2>3, <2>4, <2>5, <2>7, <2>8
<1>7. CASE Set(r, [req[r] EXCEPT !.pc = AfterRerank(r), !.attempt = 1,
                                 !.warnings = @ \cup {"rerank_failed"}])
  <2>1. [req[r] EXCEPT !.pc = AfterRerank(r), !.attempt = 1,
                       !.warnings = @ \cup {"rerank_failed"}]
          = [req[r] EXCEPT !.pc = AfterRerank(r), !.attempt = 1, !.direct = req[r].direct,
                           !.warnings = req[r].warnings \cup {"rerank_failed"}]
    BY <1>1 DEF Request
  <2>2. {"rerank_failed"} \in SUBSET LaterWarnings
    BY DEF LaterWarnings
  <2> QED
    BY <1>4, <1>5, <1>7, <2>1, <2>2
<1> QED
  BY <1>6, <1>7 DEF Rerank

LEMMA KeptIs ==
  ASSUME RetrievalInv, NEW r \in Requests, NEW e \in Kept(r)
  PROVE  e \in GraphEdge /\ e.seed \in DOMAIN req[r].direct
<1> DEFINE seeds == DOMAIN req[r].direct
<1>1. e \in OneHop(Query(r), seeds)
  BY DEF Kept, PerSeed, ClosestEdges
<1>2. PICK p \in seeds \X Memories : e = Edge(p[1], p[2], 0) \/ e = Edge(p[1], p[2], 2)
  BY <1>1 DEF OneHop
<1>3. p[1] \in seeds /\ p[2] \in Ids /\ memory[p[2]] \in Node
  BY DEF Memories, Exists, RetrievalInv, NodesOK, StoreTypeOK
<1>4. seeds \subseteq Ids
  BY StepsAreTyped, PartialHas DEF Request, Candidates
<1>5. memory[p[2]].importance \in Int /\ memory[p[2]].latest \in 0..MaxTime
      /\ memory[p[2]].status \in Status
  BY <1>3 DEF Node
<1> QED
  BY <1>2, <1>3, <1>4, <1>5 DEF Edge, GraphEdge

LEMMA GraphScoreIs ==
  ASSUME NEW m, NEW edges, NEW direct \in Candidates,
         \A e \in edges : e.seed \in DOMAIN direct
  PROVE  GraphScore(m, edges, direct) \in 0..100
<1> DEFINE Passed(e) == (direct[e.seed].score * GraphDecay) \div 100
           scores == {0} \cup { Passed(e) : e \in { f \in edges : f.related = m } }
<1>1. ASSUME NEW e \in edges PROVE Passed(e) \in 0..100
  <2>1. direct[e.seed] \in Candidate
    BY PartialHas DEF Candidates
  <2>2. direct[e.seed].score \in 0..100 /\ GraphDecay \in 0..100
    BY <2>1, RankingAssumption DEF Candidate
  <2> QED
    BY <2>2, Product
<1>2. scores \subseteq 0..100
  <2> HIDE DEF Passed
  <2> QED
    BY <1>1
<1>3. GraphScore(m, edges, direct) = Max(scores)
  BY DEF GraphScore
<1>4. 0 \in scores
  OBVIOUS
<1> HIDE DEF scores
<1>5. IsFiniteSet(scores)
  <2>1. scores \in SUBSET Nat /\ \A n \in scores : n <= 100
    BY <1>2
  <2> QED
    BY <2>1, 100 \in Nat, FS_BoundedSetOfNaturals
<1>6. Max(scores) \in scores
  BY <1>2, <1>4, <1>5, GreatestNatural
<1> QED
  BY <1>2, <1>3, <1>6

\* What the steps of the expansion may change.
LEMMA ExpansionMoves ==
  ASSUME RetrievalInv, NEW r \in Requests, NEW pc \in Choosing,
         req[r].pc \in {"expand", "loadExpanded", "exists"}, ReadsOnly,
         NEW edges \in SUBSET GraphEdge, NEW expanded \in Candidates,
         NEW more \in SUBSET LaterWarnings,
         pc # "loadExpanded" => edges = {},
         \A e \in edges : e.seed \in DOMAIN req[r].direct,
         \A m \in DOMAIN expanded : Asked(req[r], expanded[m], memory[m]),
         Set(r, [req[r] EXCEPT !.pc = pc, !.edges = edges, !.expanded = expanded,
                               !.warnings = req[r].warnings \cup more])
  PROVE  \E x : Moves(r, x)
<1> DEFINE x == [req[r] EXCEPT !.pc = pc, !.edges = edges, !.expanded = expanded,
                               !.warnings = req[r].warnings \cup more]
<1>1. req[r] \in Request /\ HoldsWhatWasAsked(req[r], memory)
  BY StepsAreTyped
<1>2. req[r].warnings \cup more \in SUBSET Warnings
  BY <1>1 DEF Request, Warnings, LaterWarnings
<1>3. x \in Request
  BY <1>1, <1>2 DEF Request
<1>4. /\ x.pc = pc /\ x.edges = edges /\ x.expanded = expanded
      /\ x.warnings = req[r].warnings \cup more
      /\ x.bm25 = req[r].bm25 /\ x.vector = req[r].vector /\ x.mode = req[r].mode
      /\ x.query = req[r].query /\ x.memories = req[r].memories
      /\ x.direct = req[r].direct
  BY <1>1 DEF Request
<1>5. req' = [req EXCEPT ![r] = x]
  BY DEF Set
<1> HIDE DEF x
<1>6. \A m \in DOMAIN x.direct : Asked(x, x.direct[m], memory[m])
  BY <1>1, <1>4 DEF Asked, HoldsWhatWasAsked
<1>7. \A m \in DOMAIN x.expanded : Asked(x, x.expanded[m], memory[m])
  BY <1>4 DEF Asked
<1>8. req[r].pc \in Choosing
  BY DEF Choosing
<1>9. Moves(r, x)
  BY <1>3, <1>4, <1>5, <1>6, <1>7, <1>8, ChooseMoves
<1> QED
  BY <1>9

LEMMA ExpansionFailsMoves ==
  ASSUME RetrievalInv, NEW r \in Requests, ExpansionFails(r), ReadsOnly,
         req[r].pc \in {"expand", "loadExpanded"}
  PROVE  \E x : Moves(r, x)
<1>1. req[r] \in Request /\ HoldsWhatWasAsked(req[r], memory)
  BY StepsAreTyped
<1>2. [req[r] EXCEPT !.pc = "score", !.edges = {}, !.warnings = @ \cup {"graph_expansion_failed"}]
        = [req[r] EXCEPT !.pc = "score", !.edges = {}, !.expanded = req[r].expanded,
                         !.warnings = req[r].warnings \cup {"graph_expansion_failed"}]
  BY <1>1 DEF Request
<1>3. Set(r, [req[r] EXCEPT !.pc = "score", !.edges = {}, !.expanded = req[r].expanded,
                            !.warnings = req[r].warnings \cup {"graph_expansion_failed"}])
  BY <1>2 DEF ExpansionFails
<1>4. "score" \in Choosing /\ {"graph_expansion_failed"} \in SUBSET LaterWarnings
      /\ {} \in SUBSET GraphEdge /\ req[r].expanded \in Candidates
  BY <1>1 DEF Choosing, LaterWarnings, Request
<1>5. \A m \in DOMAIN req[r].expanded : Asked(req[r], req[r].expanded[m], memory[m])
  BY <1>1 DEF HoldsWhatWasAsked
<1> QED
  BY <1>3, <1>4, <1>5, ExpansionMoves

LEMMA ExpandMoves ==
  ASSUME RetrievalInv, NEW r \in Requests, Expand(r)
  PROVE  \E x : Moves(r, x)
<1>1. req[r] \in Request /\ HoldsWhatWasAsked(req[r], memory)
      /\ req[r].pc = "expand" /\ ReadsOnly
  BY StepsAreTyped DEF Expand, At
<1>2. CASE ExpansionFails(r)
  BY <1>1, <1>2, ExpansionFailsMoves
<1> DEFINE pure == Aggregated(Kept(r)) \ DOMAIN req[r].direct
           pc == IF pure = {} THEN "score" ELSE "loadExpanded"
           edges == { e \in Kept(r) : e.related \in pure }
<1>3. CASE Set(r, [req[r] EXCEPT !.pc = pc, !.edges = edges])
  <2>1. edges \in SUBSET GraphEdge /\ \A e \in edges : e.seed \in DOMAIN req[r].direct
    BY KeptIs
  <2>2. pc # "loadExpanded" => edges = {}
    OBVIOUS
  <2>3. pc \in Choosing
    BY DEF Choosing
  <2> HIDE DEF pc, edges
  <2>4. [req[r] EXCEPT !.pc = pc, !.edges = edges]
          = [req[r] EXCEPT !.pc = pc, !.edges = edges, !.expanded = req[r].expanded,
                           !.warnings = req[r].warnings \cup {}]
    BY <1>1 DEF Request
  <2>5. Set(r, [req[r] EXCEPT !.pc = pc, !.edges = edges, !.expanded = req[r].expanded,
                              !.warnings = req[r].warnings \cup {}])
    BY <1>3, <2>4
  <2>6. req[r].expanded \in Candidates /\ {} \in SUBSET LaterWarnings
    BY <1>1 DEF Request
  <2>7. \A m \in DOMAIN req[r].expanded : Asked(req[r], req[r].expanded[m], memory[m])
    BY <1>1 DEF HoldsWhatWasAsked
  <2> QED
    BY <1>1, <2>1, <2>2, <2>3, <2>5, <2>6, <2>7, ExpansionMoves
<1> QED
  BY <1>2, <1>3 DEF Expand

LEMMA LoadExpandedMoves ==
  ASSUME RetrievalInv, NEW r \in Requests, LoadExpanded(r)
  PROVE  \E x : Moves(r, x)
<1>1. req[r] \in Request /\ OnItsWay(req[r]) /\ req[r].pc = "loadExpanded" /\ ReadsOnly
  BY StepsAreTyped DEF LoadExpanded, At
<1>2. CASE ExpansionFails(r)
  BY <1>1, <1>2, ExpansionFailsMoves
<1> DEFINE ms == { e.related : e \in req[r].edges }
           found == Expanded(r, ms)
           pc == IF DOMAIN found = {} THEN "score" ELSE "exists"
<1>3. CASE Set(r, [req[r] EXCEPT !.pc = pc, !.edges = {}, !.expanded = found])
  <2>1. ms \subseteq Ids /\ req[r].direct \in Candidates
    BY <1>1 DEF Request, GraphEdge
  <2>2. NodesOK
    BY DEF RetrievalInv
  <2>3. ASSUME NEW m \in DOMAIN found
        PROVE  /\ m \in Ids /\ found[m] \in Candidate
               /\ Asked(req[r], found[m], memory[m])
    <3>1. m \in Valid(Query(r), ms)
          /\ found[m] = [score |-> GraphScore(m, req[r].edges, req[r].direct),
                         origin |-> "expanded", snap |-> Snap(m)]
      BY <2>3 DEF Expanded
    <3>2. m \in Ids /\ Snap(m) \in Snapshot
          /\ memory[m] # NoNode /\ memory[m].user = Query(r).user /\ Snap(m).status \in AllowedStatus(Query(r))
      BY <2>1, <2>2, <3>1, ValidAreAsked
    <3>3. GraphScore(m, req[r].edges, req[r].direct) \in 0..100
      BY <1>1, <2>1, GraphScoreIs DEF OnItsWay
    <3>4. found[m] \in Candidate /\ found[m].snap = Snap(m)
      <4>1. PICK score \in 0..100, snap \in Snapshot :
              /\ snap = Snap(m)
              /\ found[m] = [score |-> score, origin |-> "expanded", snap |-> snap]
        BY <3>1, <3>2, <3>3
      <4>2. [score |-> score, origin |-> "expanded", snap |-> snap] \in Candidate
        BY <4>1 DEF Candidate
      <4>3. [score |-> score, origin |-> "expanded", snap |-> snap].snap = snap
        OBVIOUS
      <4> QED
        BY <4>1, <4>2, <4>3
    <3>5. Asked(req[r], found[m], memory[m])
      BY <3>2, <3>4 DEF Asked, Query
    <3> QED
      BY <3>2, <3>4, <3>5
  <2>4. found = [m \in DOMAIN found |-> found[m]]
    BY DEF Expanded
  <2>5. pc \in Choosing /\ pc # "loadExpanded"
    BY DEF Choosing
  <2> HIDE DEF found, pc
  <2>6. found \in [DOMAIN found -> Candidate]
    BY <2>3, <2>4
  <2>7. found \in Candidates
    BY <2>3, <2>6, PartialIs DEF Candidates
  <2>8. [req[r] EXCEPT !.pc = pc, !.edges = {}, !.expanded = found]
          = [req[r] EXCEPT !.pc = pc, !.edges = {}, !.expanded = found,
                           !.warnings = req[r].warnings \cup {}]
    BY <1>1 DEF Request
  <2>9. Set(r, [req[r] EXCEPT !.pc = pc, !.edges = {}, !.expanded = found,
                              !.warnings = req[r].warnings \cup {}])
    BY <1>3, <2>8
  <2>10. {} \in SUBSET LaterWarnings /\ {} \in SUBSET GraphEdge
    OBVIOUS
  <2> QED
    BY <1>1, <2>3, <2>5, <2>7, <2>9, <2>10, ExpansionMoves
<1> QED
  BY <1>2, <1>3 DEF LoadExpanded

LEMMA ExistManyMoves ==
  ASSUME RetrievalInv, NEW r \in Requests, ExistMany(r)
  PROVE  \E x : Moves(r, x)
<1>1. req[r] \in Request /\ OnItsWay(req[r]) /\ HoldsWhatWasAsked(req[r], memory)
      /\ req[r].pc = "exists" /\ ReadsOnly
  BY StepsAreTyped DEF ExistMany, At
<1>2. req[r].edges = {} /\ req[r].expanded \in Candidates
  BY <1>1 DEF OnItsWay, Request
<1>3. ASSUME NEW expanded \in Candidates, NEW more \in SUBSET LaterWarnings,
             \A m \in DOMAIN expanded : Asked(req[r], expanded[m], memory[m]),
             Set(r, [req[r] EXCEPT !.pc = "score", !.expanded = expanded,
                                   !.warnings = req[r].warnings \cup more])
      PROVE  \E x : Moves(r, x)
  <2>1. [req[r] EXCEPT !.pc = "score", !.expanded = expanded,
                       !.warnings = req[r].warnings \cup more]
          = [req[r] EXCEPT !.pc = "score", !.edges = {}, !.expanded = expanded,
                           !.warnings = req[r].warnings \cup more]
    BY <1>1, <1>2 DEF Request
  <2>2. Set(r, [req[r] EXCEPT !.pc = "score", !.edges = {}, !.expanded = expanded,
                              !.warnings = req[r].warnings \cup more])
    BY <1>3, <2>1
  <2>3. "score" \in Choosing /\ {} \in SUBSET GraphEdge
    BY DEF Choosing
  <2> QED
    BY <1>1, <1>3, <2>2, <2>3, ExpansionMoves
<1> DEFINE indexed == [m \in { n \in DOMAIN req[r].expanded : doc[n] # "none" } |->
                         req[r].expanded[m]]
<1>4. CASE Set(r, [req[r] EXCEPT
                     !.pc = "score",
                     !.expanded = [m \in { n \in DOMAIN @ : doc[n] # "none" } |-> @[m]]])
  <2>1. [req[r] EXCEPT !.pc = "score",
                       !.expanded = [m \in { n \in DOMAIN @ : doc[n] # "none" } |-> @[m]]]
          = [req[r] EXCEPT !.pc = "score", !.expanded = indexed,
                           !.warnings = req[r].warnings \cup {}]
    BY <1>1 DEF Request
  <2>2. Set(r, [req[r] EXCEPT !.pc = "score", !.expanded = indexed,
                              !.warnings = req[r].warnings \cup {}])
    BY <1>4, <2>1 DEF Set
  <2>3. DOMAIN req[r].expanded \subseteq Ids
        /\ \A m \in DOMAIN req[r].expanded : req[r].expanded[m] \in Candidate
    BY <1>2, PartialHas DEF Candidates
  <2>4. DOMAIN indexed \subseteq Ids /\ indexed \in [DOMAIN indexed -> Candidate]
    BY <2>3
  <2>5. \A m \in DOMAIN indexed : Asked(req[r], indexed[m], memory[m])
    BY <1>1 DEF HoldsWhatWasAsked
  <2>6. {} \in SUBSET LaterWarnings
    OBVIOUS
  <2> HIDE DEF indexed
  <2>7. indexed \in Candidates
    BY <2>4, PartialIs DEF Candidates
  <2> QED
    BY <1>3, <2>2, <2>5, <2>6, <2>7
<1>5. CASE Set(r, [req[r] EXCEPT !.pc = "score", !.expanded = <<>>,
                                 !.warnings = @ \cup {"graph_expansion_failed"}])
  <2>1. [req[r] EXCEPT !.pc = "score", !.expanded = <<>>,
                       !.warnings = @ \cup {"graph_expansion_failed"}]
          = [req[r] EXCEPT !.pc = "score", !.expanded = <<>>,
                           !.warnings = req[r].warnings \cup {"graph_expansion_failed"}]
    BY <1>1 DEF Request
  <2>2. <<>> \in Candidates /\ DOMAIN <<>> = {}
    BY NoneIsPartial, NothingYet DEF Candidates
  <2>3. {"graph_expansion_failed"} \in SUBSET LaterWarnings
    BY DEF LaterWarnings
  <2> QED
    BY <1>3, <1>5, <2>1, <2>2, <2>3
<1> QED
  BY <1>4, <1>5 DEF ExistMany

-----------------------------------------------------------------------------
(* The answer *)

\* Some k of the sources are the newest: take them one by one, a newest of what is left.
LEMMA NewestSources ==
  ASSUME NEW S \in SUBSET Evidence, NEW k \in Nat, k <= Cardinality(S)
  PROVE  \E T \in SUBSET S :
           Cardinality(T) = k /\ \A e \in T, f \in S \ T : ~NewerEvidence(f, e)
<1> DEFINE Newest(T) == \A e \in T, f \in S \ T : ~NewerEvidence(f, e)
           Without == { n \in 0..Cardinality(S) :
                          ~\E T \in SUBSET S : Cardinality(T) = n /\ Newest(T) }
<1>1. IsFiniteSet(S) /\ Cardinality(S) \in Nat
  BY StoreAssumption, FS_Subset, FS_CardinalityType
<1>2. SUFFICES ASSUME Without # {} PROVE FALSE
  BY <1>1
<1>3. PICK n \in Without : \A i \in Without : n <= i
  <2>1. Without \in SUBSET Nat
    BY <1>1
  <2> HIDE DEF Without
  <2> QED
    BY <1>2, <2>1, LeastNatural
<1>4. n # 0
  <2>1. {} \in SUBSET S /\ Cardinality({}) = 0 /\ Newest({})
    BY FS_EmptySet
  <2> QED
    BY <1>3, <2>1
<1>5. n - 1 \in 0..Cardinality(S) /\ n - 1 \notin Without /\ n <= Cardinality(S)
  BY <1>1, <1>3, <1>4
<1>6. PICK T \in SUBSET S : Cardinality(T) = n - 1 /\ Newest(T)
  BY <1>5
<1>7. S \ T # {}
  <2>1. T # S
    BY <1>1, <1>5, <1>6
  <2> QED
    BY <2>1
<1>8. PICK g \in S \ T : \A f \in S \ T : SourceEnd[f] <= SourceEnd[g]
  <2> DEFINE ends == { SourceEnd[f] : f \in S \ T }
             End == [f \in S \ T |-> SourceEnd[f]]
  <2>1. ends \in SUBSET Nat /\ ends # {}
    BY <1>7, RetrievalAssumption
  <2>2. IsFiniteSet(ends)
    <3>1. IsFiniteSet(S \ T)
      BY <1>1, FS_Subset
    <3>2. End \in Surjection(S \ T, ends)
      BY DEF Surjection
    <3> HIDE DEF ends, End
    <3> QED
      BY <3>1, <3>2, FS_Surjection
  <2>3. Max(ends) \in ends /\ \A y \in ends : y <= Max(ends)
    <3> HIDE DEF ends
    <3> QED
      BY <2>1, <2>2, GreatestNatural
  <2>4. PICK g \in S \ T : SourceEnd[g] = Max(ends)
    BY <2>3
  <2>5. \A f \in S \ T : SourceEnd[f] <= SourceEnd[g]
    BY <2>3, <2>4
  <2> QED
    BY <2>5
<1>9. Cardinality(T \cup {g}) = n
  <2>1. IsFiniteSet(T)
    BY <1>1, FS_Subset
  <2>2. Cardinality(T \cup {g}) = Cardinality(T) + 1
    BY <1>8, <2>1, FS_AddElement
  <2> QED
    BY <1>3, <1>6, <2>2
<1>10. Newest(T \cup {g})
  <2>1. \A f \in S \ T : SourceEnd[f] \in Nat
    BY RetrievalAssumption
  <2>2. ASSUME NEW e \in T \cup {g}, NEW f \in S \ (T \cup {g})
        PROVE  ~NewerEvidence(f, e)
    <3>1. CASE e \in T
      BY <1>6, <3>1
    <3>2. CASE e = g
      BY <1>8, <2>1, <3>2 DEF NewerEvidence
    <3> QED
      BY <3>1, <3>2
  <2> QED
    BY <2>2
<1> QED
  BY <1>3, <1>8, <1>9, <1>10

LEMMA SourcesAre ==
  ASSUME NodesOK, NEW m \in Ids, memory[m] # NoNode
  PROVE  LET s == CHOOSE s \in Sources(m) : TRUE
         IN s # {} /\ s \subseteq memory[m].evidence /\ s \in SUBSET Evidence
<1> DEFINE S == memory[m].evidence
           k == Min({MaxSources, Cardinality(S)})
<1>1. S \in SUBSET Evidence /\ S # {}
  BY DEF NodesOK, StoreTypeOK, Node, Memories, Exists
<1> HIDE DEF S
<1>2. IsFiniteSet(S) /\ Cardinality(S) \in Nat /\ Cardinality(S) # 0
  BY <1>1, StoreAssumption, FS_Subset, FS_CardinalityType, FS_EmptySet
<1>3. k = IF MaxSources <= Cardinality(S) THEN MaxSources ELSE Cardinality(S)
  BY <1>2, RetrievalAssumption, MinOfTwo
<1>4. k \in Nat /\ k # 0 /\ k <= Cardinality(S)
  BY <1>2, <1>3, RetrievalAssumption
<1> HIDE DEF k
<1>5. PICK T \in SUBSET S :
        Cardinality(T) = k /\ \A e \in T, f \in S \ T : ~NewerEvidence(f, e)
  BY <1>1, <1>4, NewestSources
<1>6. T \in Sources(m)
  BY <1>5 DEF Sources, EvidenceRows, S, k
<1> DEFINE s == CHOOSE s \in Sources(m) : TRUE
<1>7. s \in Sources(m)
  BY <1>6
<1>8. s \in SUBSET S /\ Cardinality(s) = k
  BY <1>7 DEF Sources, EvidenceRows, S, k
<1>9. s # {}
  BY <1>4, <1>8, FS_EmptySet
<1> HIDE DEF s
<1> QED
  BY <1>1, <1>8, <1>9 DEF S, s

LEMMA ReturnedIs ==
  ASSUME RetrievalInv, NEW r \in Requests
  PROVE  /\ Returned(r) \in Answers
         /\ \A m \in DOMAIN Returned(r) :
              /\ memory[m].user = Query(r).user
              /\ Returned(r)[m].status \in AllowedStatus(Query(r))
              /\ Returned(r)[m].sources # {}
              /\ Returned(r)[m].sources \subseteq memory[m].evidence
<1> DEFINE candidates ==
             [m \in DOMAIN req[r].direct \cup DOMAIN req[r].expanded |->
                IF m \in DOMAIN req[r].direct THEN req[r].direct[m] ELSE req[r].expanded[m]]
           best == Best(candidates, now)
           Shown(m) == CHOOSE s \in Sources(m) : TRUE
<1>1. req[r] \in Request /\ HoldsWhatWasAsked(req[r], memory)
  BY StepsAreTyped
<1>2. ASSUME NEW m \in DOMAIN candidates
      PROVE  /\ m \in Ids /\ memory[m] # NoNode /\ memory[m].user = Query(r).user
             /\ candidates[m].snap.status \in AllowedStatus(Query(r))
             /\ candidates[m].snap.status \in Status
  <2>1. req[r].direct \in Candidates /\ req[r].expanded \in Candidates
    BY <1>1 DEF Request
  <2>2. m \in Ids /\ candidates[m] \in Candidate
    <3>1. CASE m \in DOMAIN req[r].direct
      BY <2>1, <3>1, PartialHas DEF Candidates
    <3>2. CASE m \notin DOMAIN req[r].direct
      BY <1>2, <2>1, <3>2, PartialHas DEF Candidates
    <3> QED
      BY <3>1, <3>2
  <2>3. Asked(req[r], candidates[m], memory[m])
    BY <1>1, <1>2 DEF HoldsWhatWasAsked
  <2>4. candidates[m].snap.status \in Status
    <3> HIDE DEF candidates
    <3> QED
      BY <2>2 DEF Candidate, Snapshot
  <2> QED
    BY <2>2, <2>3, <2>4 DEF Asked, Query
<1>3. Returned(r) = [m \in best |-> [status |-> candidates[m].snap.status, sources |-> Shown(m)]]
  BY DEF Returned
<1>4. best \subseteq DOMAIN candidates
  BY DEF Best
<1> HIDE DEF candidates, best
<1>5. \A m \in best : Shown(m) # {} /\ Shown(m) \subseteq memory[m].evidence
                      /\ Shown(m) \in SUBSET Evidence
  BY <1>2, <1>4, SourcesAre DEF RetrievalInv
<1> HIDE DEF Shown
<1>6. Returned(r) \in [best -> [status : Status, sources : SUBSET Evidence]]
  BY <1>2, <1>3, <1>4, <1>5
<1>7. Returned(r) \in Answers
  BY <1>2, <1>4, <1>6, PartialIs DEF Answers
<1>8. ASSUME NEW m \in DOMAIN Returned(r)
      PROVE  /\ memory[m].user = Query(r).user
             /\ Returned(r)[m].status \in AllowedStatus(Query(r))
             /\ Returned(r)[m].sources # {}
             /\ Returned(r)[m].sources \subseteq memory[m].evidence
  <2>1. m \in best /\ m \in DOMAIN candidates
    BY <1>3, <1>4
  <2>2. Returned(r)[m] = [status |-> candidates[m].snap.status, sources |-> Shown(m)]
    BY <1>3, <2>1
  <2> QED
    BY <1>2, <1>5, <2>1, <2>2
<1> QED
  BY <1>7, <1>8

LEMMA ScoreMoves ==
  ASSUME RetrievalInv, NEW r \in Requests, Score(r)
  PROVE  \E x : Moves(r, x)
<1>1. req[r] \in Request /\ OnItsWay(req[r]) /\ HoldsWhatWasAsked(req[r], memory)
      /\ req[r].pc = "score" /\ ReadsOnly
  BY StepsAreTyped DEF Score, At
<1>2. CASE Fail(r, "retrieval_timeout") \/ Fail(r, "graph_load_failed")
  BY <1>1, <1>2, FailMoves DEF Errors
<1> DEFINE x == [req[r] EXCEPT !.pc = "stats", !.direct = <<>>, !.expanded = <<>>,
                               !.memories = Returned(r)]
<1>3. CASE ~req[r].late /\ Set(r, x)
  <2>1. <<>> \in Candidates /\ DOMAIN <<>> = {}
    BY NoneIsPartial, NothingYet DEF Candidates
  <2>2. x \in Request
    BY <1>1, <2>1, ReturnedIs DEF Request
  <2>3. /\ x.pc = "stats" /\ x.direct = <<>> /\ x.expanded = <<>> /\ x.memories = Returned(r)
        /\ x.bm25 = req[r].bm25 /\ x.vector = req[r].vector /\ x.mode = req[r].mode
        /\ x.warnings = req[r].warnings /\ x.edges = req[r].edges /\ x.query = Query(r)
    BY <1>1 DEF Request, Query
  <2>4. req' = [req EXCEPT ![r] = x]
    BY <1>3 DEF Set
  <2> HIDE DEF x
  <2>5. Told(req[r]) /\ req[r].edges = {}
    BY <1>1 DEF OnItsWay, Choosing
  <2>6. OnItsWay(x)
    BY <1>1, <2>3, <2>5 DEF OnItsWay, Told, Choosing
  <2>7. HoldsWhatWasAsked(x, memory)
    BY <2>1, <2>3, ReturnedIs DEF HoldsWhatWasAsked
  <2>8. Moves(r, x)
    BY <1>1, <1>3, <2>2, <2>3, <2>4, <2>6, <2>7 DEF Moves, RequestOK, ReadsOnly
  <2> QED
    BY <2>8
<1> QED
  BY <1>2, <1>3 DEF Score

LEMMA ExpireMoves ==
  ASSUME RetrievalInv, NEW r \in Requests, Expire(r)
  PROVE  \E x : Moves(r, x)
<1>1. req[r].pc # "done"
  BY DEF Expire, VectorStage, At
<1> QED
  BY <1>1, FailMoves DEF Expire, Errors

LEMMA DeadlineMoves ==
  ASSUME RetrievalInv, NEW r \in Requests, DeadlinePasses(r)
  PROVE  \E x : Moves(r, x)
<1> DEFINE x == [req[r] EXCEPT !.late = TRUE]
<1>1. req[r] \in Request /\ OnItsWay(req[r]) /\ HoldsWhatWasAsked(req[r], memory)
      /\ req[r].pc \notin {"idle", "done"} /\ ReadsOnly
  BY StepsAreTyped DEF DeadlinePasses
<1>2. x \in Request
  BY <1>1 DEF Request
<1>3. /\ x.pc = req[r].pc /\ x.direct = req[r].direct /\ x.expanded = req[r].expanded
      /\ x.memories = req[r].memories /\ x.bm25 = req[r].bm25 /\ x.vector = req[r].vector
      /\ x.mode = req[r].mode /\ x.warnings = req[r].warnings /\ x.edges = req[r].edges
      /\ x.query = req[r].query /\ x.code = req[r].code
  BY <1>1 DEF Request
<1>4. req' = [req EXCEPT ![r] = x]
  BY DEF DeadlinePasses, Set
<1> HIDE DEF x
<1>5. OnItsWay(x)
  BY <1>1, <1>3 DEF OnItsWay, Told
<1>6. HoldsWhatWasAsked(x, memory)
  BY <1>1, <1>3 DEF HoldsWhatWasAsked, Asked
<1>7. Moves(r, x)
  BY <1>1, <1>2, <1>3, <1>4, <1>5, <1>6 DEF Moves, RequestOK, ReadsOnly, Chosen
<1> QED
  BY <1>7

-----------------------------------------------------------------------------
(* Every step preserves the invariant *)

\* The requests that were answered with a memory.
Tellers(m) == { r \in Requests : Done(r) /\ m \in ReturnedIds(r) }

LEMMA MovesKeep ==
  ASSUME RetrievalInv, NEW r \in Requests, NEW x, Moves(r, x)
  PROVE  RetrievalInv'
<1>1. /\ req' = [req EXCEPT ![r] = x] /\ DOMAIN req = Requests
      /\ memory' = memory /\ now' = now /\ doc' = doc /\ stat' = stat
  BY DEF Moves, RetrievalInv
<1>2. req'[r] = x /\ \A q \in Requests : q # r => req'[q] = req[q]
  BY <1>1
<1>3. NodesOK'
  BY <1>1 DEF RetrievalInv, NodesOK, StoreTypeOK, Memories, Exists
<1>4. DOMAIN req' = Requests
  BY <1>1
<1>5. \A q \in Requests : RequestOK(req'[q], memory')
  BY <1>1, <1>2 DEF Moves, RetrievalInv
<1>6. \A m \in Ids : stat[m].count \in Nat /\ stat[m].count <= Cardinality(Tellers(m))
  BY DEF RetrievalInv, NodesOK, Stat, StatisticsMatchAnswers, Tellers
<1>7. ASSUME NEW m \in Ids
      PROVE  stat'[m].count <= Cardinality(Tellers(m)')
  <2>1. Tellers(m) \subseteq Tellers(m)'
    BY <1>2 DEF Tellers, Done, At, ReturnedIds, Moves
  <2>2. IsFiniteSet(Tellers(m)')
    BY RetrievalAssumption, FS_Subset DEF Tellers
  <2>3. Cardinality(Tellers(m)) <= Cardinality(Tellers(m)')
        /\ Cardinality(Tellers(m)) \in Nat /\ Cardinality(Tellers(m)') \in Nat
    BY <2>1, <2>2, FS_Subset, FS_CardinalityType
  <2> QED
    BY <1>1, <1>6, <2>3
<1>8. ASSUME NEW q \in Requests, Done(q)', req'[q].code = "ok",
             req'[q].warnings \cap {"retrieval_stat_update_failed", "retrieval_timeout_degraded"} = {},
             NEW m \in DOMAIN req'[q].memories
      PROVE  stat'[m].count >= 1
  <2>1. q # r
    BY <1>2, <1>8, NothingYet DEF Done, At, Moves
  <2> QED
    BY <1>1, <1>2, <1>8, <2>1 DEF RetrievalInv, StatisticsMatchAnswers, Done, At, ReturnedIds
<1>9. StatisticsMatchAnswers'
  BY <1>7, <1>8 DEF StatisticsMatchAnswers, Tellers, ReturnedIds
<1> QED
  BY <1>3, <1>4, <1>5, <1>9 DEF RetrievalInv

LEMMA AnswerIsOK ==
  ASSUME RetrievalInv, NEW r \in Requests, req[r].pc = "stats",
         NEW more \in SUBSET {"retrieval_stat_update_failed", "retrieval_timeout_degraded"},
         AnswerWith(r, more)
  PROVE  \E x : /\ RequestOK(x, memory)
                /\ req' = [req EXCEPT ![r] = x]
                /\ x.pc = "done" /\ x.memories = req[r].memories
                /\ more \subseteq x.warnings
<1> DEFINE x == [NoReq EXCEPT !.pc = "done", !.query = Query(r), !.late = req[r].late,
                              !.bm25 = Failed(req[r].bm25.kind),
                              !.vector = Failed(req[r].vector.kind),
                              !.code = "ok", !.mode = req[r].mode,
                              !.warnings = req[r].warnings \cup more,
                              !.memories = req[r].memories]
<1>1. req[r] \in Request /\ OnItsWay(req[r]) /\ HoldsWhatWasAsked(req[r], memory)
  BY StepsAreTyped
<1>2. req' = [req EXCEPT ![r] = x]
  BY DEF AnswerWith, Answer, Set
<1>3. Failed(req[r].bm25.kind) \in Channel /\ Failed(req[r].vector.kind) \in Channel
  <2>1. req[r].bm25 \in Channel /\ req[r].vector \in Channel
    BY <1>1 DEF Request
  <2> QED
    BY <2>1, ChannelHas, ChannelsAre
<1>4. x \in Request
  <2>1. NoReq \in Request
    BY NoReqIsOK DEF RequestOK
  <2>2. Query(r) \in Queries \cup {<<>>} /\ req[r].late \in BOOLEAN /\ req[r].mode \in Modes
        /\ req[r].memories \in Answers
    BY <1>1 DEF Request, Query
  <2>3. req[r].warnings \cup more \in SUBSET Warnings
    BY <1>1 DEF Request, Warnings
  <2> QED
    BY <1>3, <2>1, <2>2, <2>3 DEF Request, Codes
<1>5. /\ x.pc = "done" /\ x.code = "ok" /\ x.memories = req[r].memories /\ x.edges = {}
      /\ x.direct = <<>> /\ x.expanded = <<>> /\ x.bm25.kind = req[r].bm25.kind
      /\ x.vector.kind = req[r].vector.kind /\ x.mode = req[r].mode
      /\ x.warnings = req[r].warnings \cup more /\ x.query = req[r].query
  BY DEF NoReq, Failed, Query
<1> HIDE DEF x
<1>6. Told(x)
  <2>1. more \cap VectorWarnings = {} /\ "bm25_retrieval_failed" \notin more
    BY DEF VectorWarnings
  <2>2. Told(req[r])
    BY <1>1 DEF OnItsWay
  <2> QED
    BY <1>5, <2>1, <2>2 DEF Told
<1>7. OnItsWay(x)
  BY <1>1, <1>5, <1>6 DEF OnItsWay, Choosing
<1>8. HoldsWhatWasAsked(x, memory)
  BY <1>1, <1>5, NothingYet DEF HoldsWhatWasAsked
<1> QED
  BY <1>2, <1>4, <1>5, <1>7, <1>8 DEF RequestOK

LEMMA UpdateStatisticsKeeps ==
  ASSUME RetrievalInv, NEW r \in Requests, UpdateStatistics(r)
  PROVE  RetrievalInv'
<1>1. req[r].pc = "stats" /\ memory' = memory /\ now' = now /\ doc' = doc
  BY DEF UpdateStatistics, At
<1> DEFINE degraded == {"retrieval_stat_update_failed", "retrieval_timeout_degraded"}
<1>2. PICK more \in SUBSET degraded :
        /\ AnswerWith(r, more)
        /\ stat' = Counted(r) \/ (stat' = stat /\ more # {})
  <2>1. CASE AnswerWith(r, {}) /\ stat' = Counted(r)
    BY <2>1, {} \in SUBSET degraded
  <2>2. CASE AnswerWith(r, {"retrieval_stat_update_failed"}) /\ stat' \in {stat, Counted(r)}
    BY <2>2, {"retrieval_stat_update_failed"} \in SUBSET degraded
  <2>3. CASE AnswerWith(r, {"retrieval_timeout_degraded"}) /\ stat' \in {stat, Counted(r)}
    BY <2>3, {"retrieval_timeout_degraded"} \in SUBSET degraded
  <2> QED
    BY <2>1, <2>2, <2>3 DEF UpdateStatistics
<1>3. PICK x : /\ RequestOK(x, memory)
               /\ req' = [req EXCEPT ![r] = x]
               /\ x.pc = "done" /\ x.memories = req[r].memories
               /\ more \subseteq x.warnings
  BY <1>1, <1>2, AnswerIsOK
<1>4. DOMAIN req = Requests /\ DOMAIN req' = Requests
      /\ req'[r] = x /\ \A q \in Requests : q # r => req'[q] = req[q]
  BY <1>3 DEF RetrievalInv
<1>5. \A m \in Ids : stat[m] \in Stat
  BY DEF RetrievalInv, NodesOK
<1>6. ASSUME NEW m \in Ids
      PROVE  /\ stat'[m] \in Stat
             /\ \/ stat'[m].count = stat[m].count
                \/ m \in ReturnedIds(r) /\ stat'[m].count = stat[m].count + 1
             /\ more = {} /\ m \in ReturnedIds(r) => stat'[m].count >= 1
  <2>1. stat[m] \in Stat /\ stat[m].count \in Nat /\ stat[m].last \in {Null} \cup (0..MaxTime)
    BY <1>5 DEF Stat
  <2>2. CASE stat' = stat /\ more # {}
    BY <2>1, <2>2
  <2>3. CASE stat' = Counted(r)
    <3>1. now \in 0..MaxTime /\ MaxTime \in Nat
      BY StoreAssumption DEF RetrievalInv, NodesOK, StoreTypeOK
    <3>2. Max({stat[m].last, now}) \in {Null} \cup (0..MaxTime)
      <4>1. stat[m].last \in Int /\ now \in Int
        BY <2>1, <3>1 DEF Null
      <4>2. Max({stat[m].last, now}) = IF stat[m].last >= now THEN stat[m].last ELSE now
        BY <4>1, MaxOfTwo
      <4> QED
        BY <2>1, <3>1, <4>2
    <3>3. stat'[m] = IF m \in ReturnedIds(r)
                     THEN [count |-> stat[m].count + 1, last |-> Max({stat[m].last, now})]
                     ELSE stat[m]
      BY <2>3 DEF Counted
    <3> QED
      BY <2>1, <3>2, <3>3 DEF Stat
  <2> QED
    BY <1>2, <2>2, <2>3
<1>7. stat' \in [Ids -> Stat]
  <2>1. stat' = [m \in Ids |-> stat'[m]]
    BY <1>2 DEF Counted, RetrievalInv, NodesOK
  <2> QED
    BY <1>6, <2>1
<1>8. NodesOK'
  BY <1>1, <1>7 DEF RetrievalInv, NodesOK, StoreTypeOK, Memories, Exists
<1>9. \A q \in Requests : RequestOK(req'[q], memory')
  BY <1>1, <1>3, <1>4 DEF RetrievalInv
<1>10. ASSUME NEW m \in Ids
       PROVE  stat'[m].count <= Cardinality(Tellers(m)')
  <2>1. stat[m].count <= Cardinality(Tellers(m)) /\ stat[m].count \in Nat
        /\ stat'[m].count \in Nat
    BY <1>5, <1>6 DEF RetrievalInv, StatisticsMatchAnswers, Tellers, Stat
  <2>2. r \notin Tellers(m) /\ IsFiniteSet(Tellers(m)) /\ Cardinality(Tellers(m)) \in Nat
    BY <1>1, RetrievalAssumption, FS_Subset, FS_CardinalityType DEF Tellers, Done, At
  <2>3. Tellers(m)' = IF m \in ReturnedIds(r) THEN Tellers(m) \cup {r} ELSE Tellers(m)
    BY <1>1, <1>3, <1>4 DEF Tellers, Done, At, ReturnedIds
  <2>4. CASE m \in ReturnedIds(r)
    <3>1. Cardinality(Tellers(m)') = Cardinality(Tellers(m)) + 1
      BY <2>2, <2>3, <2>4, FS_AddElement
    <3> QED
      BY <1>6, <2>1, <2>2, <2>4, <3>1
  <2>5. CASE m \notin ReturnedIds(r)
    BY <1>6, <2>1, <2>2, <2>3, <2>5
  <2> QED
    BY <2>4, <2>5
<1>11. ASSUME NEW q \in Requests, Done(q)', req'[q].code = "ok", req'[q].warnings \cap degraded = {},
              NEW m \in DOMAIN req'[q].memories
       PROVE  stat'[m].count >= 1
  <2>1. m \in Ids
    <3>1. req'[q] \in Request
      BY <1>9 DEF RequestOK
    <3>2. req'[q].memories \in Answers
      BY <3>1 DEF Request
    <3> QED
      BY <3>2, PartialHas DEF Answers
  <2>2. stat[m].count \in Nat /\ stat'[m].count \in Nat
    BY <1>5, <1>6, <2>1 DEF Stat
  <2>3. CASE q = r
    BY <1>3, <1>4, <1>6, <1>11, <2>1, <2>3 DEF ReturnedIds
  <2>4. CASE q # r
    <3>1. stat[m].count >= 1
      BY <1>4, <1>11, <2>4 DEF RetrievalInv, StatisticsMatchAnswers, Done, At, ReturnedIds
    <3> QED
      BY <1>6, <2>1, <2>2, <3>1
  <2> QED
    BY <2>3, <2>4
<1>12. StatisticsMatchAnswers'
  BY <1>10, <1>11 DEF StatisticsMatchAnswers, Tellers, ReturnedIds
<1> QED
  BY <1>4, <1>8, <1>9, <1>12 DEF RetrievalInv

LEMMA NodesAreThere ==
  ASSUME NEW node \in Node
  PROVE  node # NoNode
<1>1. "user" \in DOMAIN node
  BY DEF Node
<1>2. "user" \notin DOMAIN NoNode
  BY DEF NoNode
<1> QED
  BY <1>1, <1>2

LEMMA MemoryChangesKeeps ==
  ASSUME RetrievalInv, NEW m \in Ids, MemoryChanges(m)
  PROVE  RetrievalInv'
<1>1. memory[m] \in Node /\ memory[m].evidence # {} /\ memory \in [Ids -> Node \cup {NoNode}]
  BY DEF MemoryChanges, Exists, RetrievalInv, NodesOK, StoreTypeOK, Memories
<1>2. now' = now /\ doc' = doc /\ stat' = stat /\ req' = req
  BY DEF MemoryChanges
<1>3. PICK status \in {memory[m].status, "conflicted", "superseded"} :
        memory' = [memory EXCEPT ![m].status = status, ![m].version = @ + 1,
                                 ![m].evidence = Evidence]
  BY DEF MemoryChanges
<1>4. PICK node : node = [memory[m] EXCEPT !.status = status, !.version = @ + 1,
                                           !.evidence = Evidence]
  OBVIOUS
<1>5. memory' = [memory EXCEPT ![m] = node]
  BY <1>1, <1>3, <1>4
<1>6. /\ node \in Node /\ node.user = memory[m].user
      /\ memory[m].evidence \subseteq node.evidence /\ node.evidence # {}
  <2>1. status \in Status
    BY <1>1 DEF Node, Status, Live
  <2>2. node \in Node
    <3>1. memory[m].version + 1 \in Nat /\ Evidence \in SUBSET Evidence
      BY <1>1 DEF Node
    <3> DEFINE version == memory[m].version + 1
    <3>2. node = [memory[m] EXCEPT !.status = status, !.version = version, !.evidence = Evidence]
      BY <1>1, <1>4 DEF Node
    <3> QED
      BY <1>1, <2>1, <3>1, <3>2 DEF Node
  <2>3. node.user = memory[m].user /\ node.evidence = Evidence
    BY <1>1, <1>4 DEF Node
  <2>4. memory[m].evidence \subseteq Evidence
    BY <1>1 DEF Node
  <2> QED
    BY <1>1, <2>2, <2>3, <2>4
<1>7. memory'[m] = node /\ \A n \in Ids : n # m => memory'[n] = memory[n]
  BY <1>1, <1>5
<1>8. memory' \in [Ids -> Node \cup {NoNode}]
  BY <1>1, <1>5, <1>6
<1>9. NodesOK'
  <2>1. \A n \in Memories' : memory'[n].evidence # {}
    BY <1>6, <1>7 DEF RetrievalInv, NodesOK, Memories, Exists
  <2> QED
    BY <1>2, <1>8, <2>1 DEF RetrievalInv, NodesOK, StoreTypeOK
<1>10. ASSUME NEW q \in Requests PROVE RequestOK(req'[q], memory')
  <2>1. req[q] \in Request /\ OnItsWay(req[q]) /\ HoldsWhatWasAsked(req[q], memory)
    BY StepsAreTyped
  <2>2. DOMAIN req[q].direct \subseteq Ids /\ DOMAIN req[q].expanded \subseteq Ids
        /\ DOMAIN req[q].memories \subseteq Ids
    <3>1. req[q].direct \in Candidates /\ req[q].expanded \in Candidates
          /\ req[q].memories \in Answers
      BY <2>1 DEF Request
    <3> QED
      BY <3>1, PartialHas DEF Candidates, Answers
  <2>3. \A n \in Ids : /\ memory'[n].user = memory[n].user
                       /\ memory[n] # NoNode => memory'[n] # NoNode
                       /\ memory[n].evidence \subseteq memory'[n].evidence
    BY <1>6, <1>7, NodesAreThere
  <2>4. HoldsWhatWasAsked(req[q], memory')
    BY <2>1, <2>2, <2>3 DEF HoldsWhatWasAsked, Asked
  <2> QED
    BY <1>2, <2>1, <2>4 DEF RequestOK
<1>11. StatisticsMatchAnswers'
  BY <1>2 DEF RetrievalInv, StatisticsMatchAnswers, Done, At, ReturnedIds
<1> QED
  BY <1>2, <1>9, <1>10, <1>11 DEF RetrievalInv

LEMMA UnchangedKeeps ==
  ASSUME RetrievalInv, UNCHANGED <<memory, now, stat, req>>,
         doc' \in [Ids -> Status \cup {"none"}]
  PROVE  RetrievalInv'
<1>1. NodesOK'
  BY DEF RetrievalInv, NodesOK, StoreTypeOK, Memories, Exists
<1>2. StatisticsMatchAnswers'
  BY DEF RetrievalInv, StatisticsMatchAnswers, Done, At, ReturnedIds
<1> QED
  BY <1>1, <1>2 DEF RetrievalInv

LEMMA DocumentWrittenKeeps ==
  ASSUME RetrievalInv, NEW m \in Ids, DocumentWritten(m)
  PROVE  RetrievalInv'
<1>1. memory[m].status \in Status
  BY DEF DocumentWritten, Exists, RetrievalInv, NodesOK, StoreTypeOK, Node
<1>2. doc' \in [Ids -> Status \cup {"none"}]
  BY <1>1 DEF DocumentWritten, RetrievalInv, NodesOK
<1> QED
  BY <1>2, UnchangedKeeps DEF DocumentWritten

LEMMA InitHolds ==
  ASSUME RetrievalInit
  PROVE  RetrievalInv
<1>1. NodesOK
  <2>1. 0 \in 0..MaxTime
    BY StoreAssumption
  <2>2. stat \in [Ids -> Stat]
    BY DEF RetrievalInit, Stat
  <2> QED
    BY <2>1, <2>2, InitialAssumption
       DEF RetrievalInit, NodesOK, StoreTypeOK, Memories, Exists
<1>2. DOMAIN req = Requests /\ \A r \in Requests : req[r] = NoReq
  BY DEF RetrievalInit
<1>3. \A r \in Requests : RequestOK(req[r], memory)
  BY <1>2, NoReqIsOK
<1>4. StatisticsMatchAnswers
  <2>1. \A r \in Requests : ~Done(r)
    BY <1>2 DEF Done, At, NoReq
  <2>2. \A m \in Ids : stat[m].count = 0
    BY DEF RetrievalInit
  <2>3. \A m \in Ids : Tellers(m) = {}
    BY <2>1 DEF Tellers
  <2>4. \A m \in Ids : stat[m].count <= Cardinality(Tellers(m))
    BY <2>2, <2>3, FS_EmptySet
  <2> QED
    BY <2>1, <2>4 DEF StatisticsMatchAnswers, Tellers
<1> QED
  BY <1>1, <1>2, <1>3, <1>4 DEF RetrievalInv

\* A step of a request updates the statistics, or is one of the moves.
LEMMA RequestMoves ==
  ASSUME RetrievalInv, NEW r \in Requests, Ask(r) \/ RequestStep(r) \/ DeadlinePasses(r)
  PROVE  UpdateStatistics(r) \/ \E x : Moves(r, x)
<1>1. CASE Ask(r)
  BY <1>1, AskMoves
<1>2. CASE DeadlinePasses(r)
  BY <1>2, DeadlineMoves
<1>3. CASE Bm25Search(r)
  BY <1>3, Bm25Moves
<1>4. CASE Tokenize(r)
  BY <1>4, TokenizeMoves
<1>5. CASE EmbedAgain(r)
  BY <1>5, EmbedAgainMoves
<1>6. CASE Embed(r)
  BY <1>6, EmbedMoves
<1>7. CASE VectorSearch(r)
  BY <1>7, VectorSearchMoves
<1>8. CASE Fuse(r)
  BY <1>8, FuseMoves
<1>9. CASE LoadMemories(r)
  BY <1>9, LoadMemoriesMoves
<1>10. CASE RerankAgain(r)
  BY <1>10, RerankAgainMoves
<1>11. CASE Rerank(r)
  BY <1>11, RerankMoves
<1>12. CASE Expand(r)
  BY <1>12, ExpandMoves
<1>13. CASE LoadExpanded(r)
  BY <1>13, LoadExpandedMoves
<1>14. CASE ExistMany(r)
  BY <1>14, ExistManyMoves
<1>15. CASE Score(r)
  BY <1>15, ScoreMoves
<1>16. CASE Expire(r)
  BY <1>16, ExpireMoves
<1> QED
  BY <1>1, <1>2, <1>3, <1>4, <1>5, <1>6, <1>7, <1>8, <1>9, <1>10, <1>11, <1>12, <1>13,
     <1>14, <1>15, <1>16 DEF RequestStep

LEMMA StepKeeps ==
  ASSUME RetrievalInv, [RetrievalNext]_retVars
  PROVE  RetrievalInv'
<1>1. ASSUME NEW r \in Requests, Ask(r) \/ RequestStep(r) \/ DeadlinePasses(r)
      PROVE  RetrievalInv'
  BY <1>1, RequestMoves, MovesKeep, UpdateStatisticsKeeps
<1>2. ASSUME NEW m \in Touched, MemoryChanges(m) \/ DocumentWritten(m)
      PROVE  RetrievalInv'
  <2>1. m \in Ids
    BY RetrievalAssumption
  <2> QED
    BY <1>2, <2>1, MemoryChangesKeeps, DocumentWrittenKeeps
<1>3. CASE UNCHANGED retVars
  BY <1>3, UnchangedKeeps DEF retVars, RetrievalInv, NodesOK
<1> QED
  BY <1>1, <1>2, <1>3 DEF RetrievalNext

\* Once the deadline has passed, a step chooses no memories.
LEMMA ChosenInTime ==
  ASSUME RetrievalInv, [RetrievalNext]_retVars, NEW r \in Requests
  PROVE  req[r].late /\ Chosen(req'[r]) => Chosen(req[r])
<1>1. ASSUME NEW q \in Requests, Ask(q) \/ RequestStep(q) \/ DeadlinePasses(q)
      PROVE  req[r].late /\ Chosen(req'[r]) => Chosen(req[r])
  <2>1. DOMAIN req = Requests
    BY DEF RetrievalInv
  <2>2. CASE UpdateStatistics(q)
    <3>1. Chosen(req[q])
      BY <2>2 DEF UpdateStatistics, At, Chosen
    <3>2. q # r => req'[r] = req[r]
      BY <2>1, <2>2 DEF UpdateStatistics, AnswerWith, Answer, Set
    <3> QED
      BY <3>1, <3>2
  <2>3. ASSUME NEW x, Moves(q, x)
        PROVE  req[r].late /\ Chosen(req'[r]) => Chosen(req[r])
    <3>1. req'[q] = x /\ (q # r => req'[r] = req[r])
      BY <2>1, <2>3 DEF Moves
    <3> QED
      BY <2>3, <3>1 DEF Moves
  <2> QED
    BY <1>1, <2>2, <2>3, RequestMoves
<1>2. ASSUME req' = req
      PROVE  req[r].late /\ Chosen(req'[r]) => Chosen(req[r])
  BY <1>2
<1> QED
  BY <1>1, <1>2 DEF RetrievalNext, MemoryChanges, DocumentWritten, retVars

-----------------------------------------------------------------------------
(* Theorems *)

\* The invariant of the retrieval: what every request holds at each point of its way, and
\* the statistics, whatever happens to the memories and the documents meanwhile.
THEOREM RetrievalInvariant == RetrievalSpec => []RetrievalInv
<1>1. RetrievalInit => RetrievalInv
  BY InitHolds
<1>2. RetrievalInv /\ [RetrievalNext]_retVars => RetrievalInv'
  BY StepKeeps
<1> QED
  BY <1>1, <1>2, PTL DEF RetrievalSpec

\* Types are kept: retrieval scores stay within 0 and 100 through fusion, rerank and
\* expansion, and no request to a hosted model is made more than MAX_HTTP_ATTEMPTS times.
THEOREM RetrievalTypes == RetrievalSpec => []RetrievalTypeOK
<1>1. RetrievalInv => RetrievalTypeOK
  <2> SUFFICES ASSUME RetrievalInv PROVE RetrievalTypeOK
    OBVIOUS
  <2>1. StoreTypeOK /\ doc \in [Ids -> Status \cup {"none"}]
        /\ stat \in [Ids -> [count : Nat, last : {Null} \cup (0..MaxTime)]]
    BY DEF RetrievalInv, NodesOK, Stat
  <2>2. ASSUME NEW r \in Requests
        PROVE  /\ req[r].late \in BOOLEAN /\ req[r].attempt \in 1..MaxAttempts
               /\ {req[r].bm25.kind, req[r].vector.kind} \subseteq Outcome
               /\ req[r].mode \in {"hybrid", "bm25_only", "vector_only", "none"}
               /\ \A m \in DOMAIN req[r].direct : req[r].direct[m].score \in 0..100
               /\ \A m \in DOMAIN req[r].expanded : req[r].expanded[m].score \in 0..100
    <3>1. req[r] \in Request
      BY StepsAreTyped
    <3>2. /\ req[r].late \in BOOLEAN /\ req[r].attempt \in 1..MaxAttempts
          /\ req[r].bm25 \in Channel /\ req[r].vector \in Channel
          /\ req[r].mode \in Modes
          /\ req[r].direct \in Candidates /\ req[r].expanded \in Candidates
      BY <3>1 DEF Request
    <3>3. req[r].bm25.kind \in Outcome /\ req[r].vector.kind \in Outcome
      BY <3>2, ChannelHas
    <3>4. ASSUME NEW c \in Candidates, NEW m \in DOMAIN c PROVE c[m].score \in 0..100
      <4>1. c[m] \in Candidate
        BY PartialHas DEF Candidates
      <4> QED
        BY <4>1 DEF Candidate
    <3> QED
      BY <3>2, <3>3, <3>4 DEF Modes
  <2> QED
    BY <2>1, <2>2 DEF RetrievalTypeOK
<1> QED
  BY <1>1, RetrievalInvariant, PTL

\* A request returns memories of its user, of a status it asks for, with sources the memory
\* has: although the index may be behind and the graph changes between the readback, the
\* expansion and the answer.
THEOREM AnswersAreWhatWasAsked == RetrievalSpec => []AnswersWhatWasAsked
<1>1. RetrievalInv => AnswersWhatWasAsked
  BY StepsAreTyped DEF AnswersWhatWasAsked, HoldsWhatWasAsked, ReturnedIds, Query
<1> QED
  BY <1>1, RetrievalInvariant, PTL

\* retrieval_count never counts more than the answers a memory was in, and every answer
\* that does not say otherwise is counted.
THEOREM StatisticsAreOfAnswers == RetrievalSpec => []StatisticsMatchAnswers
<1>1. RetrievalInv => StatisticsMatchAnswers
  BY DEF RetrievalInv
<1> QED
  BY <1>1, RetrievalInvariant, PTL

\* An answer rests on one of the channels at least and says which it had to do without, an
\* error comes without memories, and no memories are chosen once the deadline has passed.
THEOREM MissingChannelsAreTold == RetrievalSpec => MissingChannelIsTold
<1>1. RetrievalInv /\ RetrievalInv' /\ [RetrievalNext]_retVars =>
        \A r \in Requests :
          /\ Done(r)' => IF req'[r].code = "ok" THEN Told(req'[r]) ELSE ReturnedIds(r)' = {}
          /\ req[r].late /\ Chosen(req'[r]) => Chosen(req[r])
  <2> SUFFICES ASSUME RetrievalInv, RetrievalInv', [RetrievalNext]_retVars, NEW r \in Requests
               PROVE  /\ Done(r)' => IF req'[r].code = "ok" THEN Told(req'[r])
                                                            ELSE ReturnedIds(r)' = {}
                      /\ req[r].late /\ Chosen(req'[r]) => Chosen(req[r])
    OBVIOUS
  <2>1. OnItsWay(req'[r])
    BY DEF RetrievalInv, RequestOK
  <2>2. Done(r)' => IF req'[r].code = "ok" THEN Told(req'[r]) ELSE ReturnedIds(r)' = {}
    BY <2>1, NothingYet DEF OnItsWay, ReturnedIds, Done, At
  <2>3. req[r].late /\ Chosen(req'[r]) => Chosen(req[r])
    BY ChosenInTime
  <2> QED
    BY <2>2, <2>3
<1> QED
  BY <1>1, RetrievalInvariant, StepKeeps, PTL DEF RetrievalSpec, MissingChannelIsTold

\* Fusion never keeps a memory and drops, or gives a lower score to, one that both channels
\* rank higher; in units in which 1 / (rrf_k + rank) does not grow with the rank.
THEOREM FusionIsFair == RetrievalSpec => []FusionRespectsChannels
<1>1. RetrievalInv => FusionRespectsChannels
  <2> SUFFICES ASSUME RetrievalInv, NEW r \in Requests,
                      NEW n \in DOMAIN FusedHits(r), NEW m \in Ids,
                      RanksHigher(req[r].bm25, m, n), RanksHigher(req[r].vector, m, n)
               PROVE  m \in DOMAIN FusedHits(r) /\ FusedHits(r)[m] >= FusedHits(r)[n]
    BY DEF FusionRespectsChannels
  <2> DEFINE a == RankMap(req[r].bm25)
             b == RankMap(req[r].vector)
  <2>1. req[r].bm25 \in Channel /\ req[r].vector \in Channel
    BY StepsAreTyped DEF Request
  <2>2. a \in Ranks /\ b \in Ranks
    BY <2>1, RankMapIs
  <2>3. /\ m \in DOMAIN a \cap DOMAIN b
        /\ n \in DOMAIN a => a[m] < a[n]
        /\ n \in DOMAIN b => b[m] < b[n]
    BY <2>1, HigherRank
  <2>4. FusedHits(r) = Fused(a, b)
    BY DEF FusedHits
  <2> HIDE DEF a, b
  <2> QED
    BY <2>2, <2>3, <2>4, FusionKeepsTheHigher
<1> QED
  BY <1>1, RetrievalInvariant, PTL
=============================================================================
