--------------------------- MODULE RetrievalRanking ---------------------------
(***************************************************************************)
(* The pure part of a retrieval: reciprocal rank fusion of the two search  *)
(* channels, one-hop expansion, scoring and the choice of the memories     *)
(* that are returned.                                                      *)
(*                                                                         *)
(* Scores are integers in hundredths.  A snapshot of a memory is           *)
(* [status, importance, latest, count, last]; a candidate is               *)
(* [score, origin, snap], where score is the normalized retrieval score,   *)
(* and candidates are a function on memory ids.                            *)
(***************************************************************************)
EXTENDS Integers, FiniteSets, Sequences, FiniteSetsExt, SequencesExt

CONSTANTS
  RrfWeight,          \* 1 / (rrf_k + rank), in some unit
  FusedTopN,          \* fused_top_n
  ExpandPerSeed,      \* graph_expand_per_seed
  MaxGraphCandidates, \* max_graph_candidates
  GraphDecay,         \* graph_decay, in hundredths
  RetrievalWeight, ImportanceWeight, FrequencyWeight, RecencyWeight,  \* in hundredths
  FrequencyScore,     \* of a retrieval count
  RecencyScore,       \* of an age
  StatusPenalty,      \* in hundredths
  TopK                \* top_k of the request

\* rrf_k (60, not validated) is not negative; graph_decay is at most 1
\* (validate_memory_retrieval).
ASSUME RankingAssumption ==
  /\ \A i \in DOMAIN RrfWeight :
       /\ RrfWeight[i] \in Nat \ {0}
       /\ \A j \in DOMAIN RrfWeight : i <= j => RrfWeight[i] >= RrfWeight[j]
  /\ FusedTopN \in Nat
  /\ GraphDecay \in 0..100

-----------------------------------------------------------------------------
(* Channels: [kind, hits], where hits are memory ids in the order of their rank. *)

Failures == {"channel_failure", "skipped_query_too_long"}

Effective(channel) ==
  channel.kind = "success" /\ channel.hits # <<>> /\ IsInjective(channel.hits)

Unavailable(bm25, vector) == bm25.kind \in Failures /\ vector.kind \in Failures

Mode(bm25, vector) ==
  CASE Effective(bm25) /\ Effective(vector) -> "hybrid"
    [] Effective(bm25) -> "bm25_only"
    [] Effective(vector) -> "vector_only"
    [] OTHER -> "none"

\* Mutant: ranks go up with the score.
RankedByScore(channel) ==
  [m \in IF Effective(channel) THEN ToSet(channel.hits) ELSE {} |->
     Len(channel.hits) + 1 - CHOOSE rank \in DOMAIN channel.hits : channel.hits[rank] = m]

\* Ranks of the memories an effective channel has found.
RankMap(channel) ==
  [m \in IF Effective(channel) THEN ToSet(channel.hits) ELSE {} |->
     CHOOSE rank \in DOMAIN channel.hits : channel.hits[rank] = m]

Contribution(ranks, m) == IF m \in DOMAIN ranks THEN RrfWeight[ranks[m]] ELSE 0

Rrf(bm25, vector, m) == Contribution(bm25, m) + Contribution(vector, m)

\* The score a memory would have that every effective channel ranks first.
RrfMax(bm25, vector) ==
  Cardinality({ i \in 1..2 : DOMAIN (<<bm25, vector>>[i]) # {} }) * RrfWeight[1]

Normalized(bm25, vector, m) == Min({100, (100 * Rrf(bm25, vector, m)) \div RrfMax(bm25, vector)})

MinRank(bm25, vector, m) ==
  Min({ ranks[m] : ranks \in { f \in {bm25, vector} : m \in DOMAIN f } })

FusedBefore(bm25, vector, m, n) ==
  \/ Rrf(bm25, vector, m) > Rrf(bm25, vector, n)
  \/ /\ Rrf(bm25, vector, m) = Rrf(bm25, vector, n)
     /\ \/ MinRank(bm25, vector, m) < MinRank(bm25, vector, n)
        \/ MinRank(bm25, vector, m) = MinRank(bm25, vector, n) /\ m < n

\* fuse_rrf, given the ranks in either channel and without the order of its result, which
\* nothing that follows depends on: the memories found, the first fused_top_n of them,
\* with their normalized scores.
Fused(bm25, vector) ==
  LET found == DOMAIN bm25 \cup DOMAIN vector
      first == { m \in found :
                   Cardinality({ n \in found : FusedBefore(bm25, vector, n, m) }) < FusedTopN }
  IN [m \in first |-> Normalized(bm25, vector, m)]

-----------------------------------------------------------------------------
(* Which memories may be returned; the search filters look at documents and the *)
(* readback at snapshots. *)

AllowedStatus(query) ==
  {"active"} \cup (IF query.conflicted THEN {"conflicted"} ELSE {})
             \cup (IF query.history THEN {"superseded"} ELSE {})

-----------------------------------------------------------------------------
(* One-hop expansion.  An edge is [seed, related, tier, importance, latest, status]. *)

EdgeBefore(e, f) ==
  \/ e.tier < f.tier
  \/ /\ e.tier = f.tier
     /\ \/ e.importance > f.importance
        \/ /\ e.importance = f.importance
           /\ \/ e.latest > f.latest
              \/ e.latest = f.latest /\ e.related < f.related

\* Of the edges between two memories, that of the closest relation.
ClosestEdges(edges) ==
  { e \in edges : \A f \in edges :
      f.seed = e.seed /\ f.related = e.related => e.tier <= f.tier }

\* rank_per_seed_edges
PerSeed(edges) ==
  { e \in edges :
      Cardinality({ f \in edges : f.seed = e.seed /\ EdgeBefore(f, e) }) < ExpandPerSeed }

\* aggregate_expanded_candidates: related memories, each with the best of its edges first.
Aggregated(edges) ==
  LET best == { e \in edges : \A f \in edges : f.related = e.related => ~EdgeBefore(f, e) }
      related == { e.related : e \in best }
      Better(m, n) == \E e, f \in best : e.related = m /\ f.related = n /\ EdgeBefore(e, f)
  IN { m \in related : Cardinality({ n \in related : Better(n, m) }) < MaxGraphCandidates }

\* Mutant: what the seeds contribute is added up.
GraphScoreSummed(m, edges, direct) ==
  MapThenSumSet(LAMBDA e : (direct[e.seed].score * GraphDecay) \div 100,
                { e \in edges : e.related = m })

\* compute_graph_retrieval_score
GraphScore(m, edges, direct) ==
  Max({0} \cup { (direct[e.seed].score * GraphDecay) \div 100 :
                 e \in { f \in edges : f.related = m } })

-----------------------------------------------------------------------------
(* ACT-R scoring *)

Recency(snap, time) == RecencyScore[Max({0, time - Max({snap.last, snap.latest, 0})})]

\* compute_final_score; confidence is part of what is not modelled.
FinalScore(c, time) ==
  ((RetrievalWeight * c.score + ImportanceWeight * c.snap.importance
      + FrequencyWeight * FrequencyScore[c.snap.count] + RecencyWeight * Recency(c.snap, time))
    * StatusPenalty[c.snap.status]) \div 10000

ScoredBefore(m, n, candidates, time) ==
  LET c == candidates[m]
      d == candidates[n]
  IN \/ FinalScore(c, time) > FinalScore(d, time)
     \/ /\ FinalScore(c, time) = FinalScore(d, time)
        /\ \/ c.snap.latest > d.snap.latest
           \/ /\ c.snap.latest = d.snap.latest
              /\ \/ c.snap.importance > d.snap.importance
                 \/ c.snap.importance = d.snap.importance /\ m < n

\* The first top_k of sort_scored_candidates.
Best(candidates, time) ==
  { m \in DOMAIN candidates :
      Cardinality({ n \in DOMAIN candidates : ScoredBefore(n, m, candidates, time) }) < TopK }
=============================================================================
