------------------------- MODULE Consolidation_proofs -------------------------
(***************************************************************************)
(* Proofs about Consolidation, for every number of users, memories, pieces *)
(* of evidence and instances of the job, every batch size and all scoring  *)
(* settings the assumptions admit.                                         *)
(***************************************************************************)
EXTENDS Consolidation, DataFacts

-----------------------------------------------------------------------------
(* Facts about the data *)

\* The numbers among the constants.
LEMMA Numbers ==
  /\ MaxTime \in Nat /\ BatchSize \in Nat /\ BatchSize > 0
  /\ BaseImportance \in Nat /\ BonusWeight \in Nat
  /\ HalfLife \in Nat /\ SupersededHalfLife \in Nat
  /\ MinImportance \in Nat /\ ConflictedMinImportance \in Nat /\ MaxImportance \in Nat
  /\ MinImportance <= MaxImportance /\ ConflictedMinImportance <= MaxImportance
BY StoreAssumption, ConsolidationAssumption

\* The memories of a set that come before m.
Earlier(S, m) == { n \in S : n < m }

\* The batch a query returns is all there is, or it is full; and it leaves out nothing
\* before its last memory.
LEMMA BatchIsPrefix ==
  ASSUME NEW after \in SUBSET Ids, NEW batch \in SUBSET after,
         \A m \in after : m \in batch <=> Cardinality(Earlier(after, m)) < BatchSize
  PROVE  /\ \A m \in batch, n \in after : n < m => n \in batch
         /\ Cardinality(batch) # BatchSize => batch = after
<1>0. after \in SUBSET Nat /\ batch \in SUBSET Nat /\ IsFiniteSet(after) /\ IsFiniteSet(batch)
  BY FS_Subset, StoreAssumption
<1>1. \A m : IsFiniteSet(Earlier(after, m)) /\ Cardinality(Earlier(after, m)) \in Nat
  <2> TAKE m
  <2>1. Earlier(after, m) \in SUBSET after
    BY DEF Earlier
  <2> QED
    BY <1>0, <2>1, FS_Subset, FS_CardinalityType
<1>2. ASSUME NEW m \in batch, NEW n \in after, n < m
      PROVE  n \in batch
  <2>1. m \in Nat /\ n \in Nat /\ \A k \in after : k \in Nat
    BY <1>0
  <2>2. Earlier(after, n) \in SUBSET Earlier(after, m)
    <3>1. ASSUME NEW k \in after, k < n PROVE k < m
      BY <1>2, <2>1, <3>1
    <3> QED
      BY <3>1 DEF Earlier
  <2>3. Cardinality(Earlier(after, n)) <= Cardinality(Earlier(after, m))
    BY <1>1, <2>2, FS_Subset
  <2>4. Cardinality(Earlier(after, m)) < BatchSize
    OBVIOUS
  <2>5. Cardinality(Earlier(after, n)) < BatchSize
    BY <1>1, <2>3, <2>4, Numbers
  <2> QED
    BY <2>5
<1>3. ASSUME batch # after
      PROVE  Cardinality(batch) = BatchSize
  <2>1. PICK m \in after \ batch : \A n \in after \ batch : m <= n
    <3>1. after \ batch \in SUBSET Nat /\ after \ batch # {}
      BY <1>0, <1>3
    <3> QED
      BY <3>1, LeastNatural
  <2>2. batch = Earlier(after, m)
    <3>1. ASSUME NEW n \in batch PROVE n < m
      <4>1. n # m /\ ~(m < n)
        BY <1>2, <2>1
      <4>2. n \in Nat /\ m \in Nat
        BY <1>0
      <4> QED
        BY <4>1, <4>2
    <3>2. ASSUME NEW n \in after, n < m PROVE n \in batch
      <4>1. n \in Nat /\ m \in Nat
        BY <1>0
      <4> QED
        BY <2>1, <3>2, <4>1
    <3> QED
      BY <3>1, <3>2 DEF Earlier
  <2>3. Cardinality(batch) \in Nat /\ Cardinality(batch) >= BatchSize
    <3>1. ~(Cardinality(Earlier(after, m)) < BatchSize)
      BY <2>1
    <3> QED
      BY <1>1, <2>2, <3>1, Numbers
  <2>4. batch # {}
    BY <2>3, FS_EmptySet, Numbers, Cardinality({}) = 0
  <2>5. PICK x \in batch : \A n \in batch : n <= x
    BY <1>0, <2>4, GreatestNatural
  <2>6. batch \ {x} = Earlier(after, x)
    <3>1. x \in Nat /\ \A k \in after : k \in Nat
      BY <1>0
    <3>2. ASSUME NEW n \in batch, n # x PROVE n < x
      BY <1>0, <2>5, <3>1, <3>2
    <3>3. ASSUME NEW n \in after, n < x PROVE n \in batch /\ n # x
      BY <1>2, <3>1, <3>3
    <3> QED
      BY <3>2, <3>3 DEF Earlier
  <2>7. Cardinality(batch \ {x}) = Cardinality(batch) - 1
    BY <1>0, FS_RemoveElement
  <2>8. Cardinality(Earlier(after, x)) < BatchSize
    OBVIOUS
  <2> QED
    BY <1>1, <2>3, <2>6, <2>7, <2>8, Numbers
<1> QED
  BY <1>2, <1>3

\* No more archives than pieces of evidence.
LEMMA ArchivesBound ==
  ASSUME NEW node, node.evidence \subseteq Evidence
  PROVE  Cardinality(Archives(node)) \in 0..Cardinality(Evidence)
<1> DEFINE source == [e \in node.evidence |-> ArchiveOf[e]]
<1>1. IsFiniteSet(node.evidence) /\ Cardinality(node.evidence) <= Cardinality(Evidence)
  BY FS_Subset, StoreAssumption
<1>2. source \in Surjection(node.evidence, Archives(node))
  BY DEF Surjection, Archives
<1>3. /\ IsFiniteSet(Archives(node))
      /\ Cardinality(Archives(node)) <= Cardinality(node.evidence)
  BY <1>1, <1>2, FS_Surjection
<1> QED
  BY <1>1, <1>3, FS_CardinalityType, StoreAssumption

\* What importance is computed from.
Input == [status : Status, latest : 0..MaxTime, created : 0..MaxTime,
          archives : 0..Cardinality(Evidence)]

LEMMA InputsType ==
  ASSUME NEW node \in Node
  PROVE  Inputs(node) \in Input
BY ArchivesBound DEF Inputs, Input, Node

\* The importance of any memory at any time is a number within the configured bounds,
\* whatever the age of the memory, its status and the evidence for it.
THEOREM ImportanceInBounds ==
  ASSUME NEW in \in Input, NEW t \in 0..MaxTime
  PROVE  NewImportance(in, t) \in EffectiveMin(in)..MaxImportance
<1> USE Numbers
<1>1. EffectiveMin(in) \in Nat /\ EffectiveMin(in) <= MaxImportance /\ MaxImportance \in Nat
  BY DEF EffectiveMin
<1>2. InactiveTime(in, t) \in 0..MaxTime
  <2>1. ReferenceTime(in) \in 0..MaxTime
    <3>1. /\ in.latest \in Int /\ 0 <= in.latest /\ in.latest <= MaxTime
          /\ in.created \in Int /\ 0 <= in.created /\ in.created <= MaxTime
      BY DEF Input
    <3>2. ReferenceTime(in) = IF in.latest >= in.created THEN in.latest ELSE in.created
      BY <3>1, MaxOfTwo DEF ReferenceTime
    <3> QED
      BY <3>1, <3>2
  <2>2. t - ReferenceTime(in) \in Int /\ t - ReferenceTime(in) <= MaxTime
    BY <2>1
  <2> QED
    BY <2>2, MaxOfTwo DEF InactiveTime
<1>3. HalfLifeFor(in) \in {HalfLife, SupersededHalfLife}
  BY MinOfTwo DEF HalfLifeFor
<1>4. Recency[HalfLifeFor(in)][InactiveTime(in, t)] \in Nat
  BY <1>2, <1>3, ConsolidationAssumption
<1>5. EvidenceScore[in.archives] \in Nat
  BY ConsolidationAssumption DEF Input
<1>6. \A a, b \in Nat : a * b \in Nat
  OBVIOUS
<1>7. RawImportance(in, t) \in Int
  <2>1. BaseImportance * Recency[HalfLifeFor(in)][InactiveTime(in, t)] \in Nat
    BY <1>4, <1>6
  <2>2. BonusWeight * EvidenceScore[in.archives] \in Nat
    BY <1>5, <1>6
  <2> QED
    BY <2>1, <2>2 DEF RawImportance
<1>8. \A x, low, high \in Int : low <= high => Clamp(x, low, high) \in low..high
  <2> SUFFICES ASSUME NEW x \in Int, NEW low \in Int, NEW high \in Int, low <= high
               PROVE  Clamp(x, low, high) \in low..high
    OBVIOUS
  <2>1. Min({high, x}) \in Int /\ Min({high, x}) <= high
    BY MinOfTwo
  <2>2. Clamp(x, low, high) = IF low >= Min({high, x}) THEN low ELSE Min({high, x})
    BY <2>1, MaxOfTwo DEF Clamp
  <2> QED
    BY <2>1, <2>2
<1>9. EffectiveMin(in) \in Int /\ MaxImportance \in Int
  BY <1>1
<1> QED
  BY <1>1, <1>7, <1>8, <1>9 DEF NewImportance

-----------------------------------------------------------------------------
(* Type correctness *)

Nodes == Node \cup {NoNode}

\* No memory looks like an absent one.
LEMMA NodeExists ==
  ASSUME NEW node \in Node
  PROVE  node # NoNode
BY DEF Node, NoNode, Status, Live

LEMMA NodesThatExist ==
  ASSUME StoreTypeOK
  PROVE  \A m \in Ids : Exists(m) <=> memory[m] \in Node
BY NodeExists DEF StoreTypeOK, Exists

LEMMA WrittenType ==
  ASSUME StoreTypeOK, NEW rows \in [Ids -> Row], NEW t \in {Null} \cup (0..MaxTime)
  PROVE  Written(rows, t) \in [Ids -> Nodes]
<1> SUFFICES ASSUME NEW m \in Ids, Exists(m)
             PROVE  [memory[m] EXCEPT !.importance = rows[m].importance, !.consolidated = t] \in Node
  BY DEF Written, Nodes, StoreTypeOK
<1>1. memory[m] \in Node /\ rows[m] \in Row
  BY NodesThatExist
<1> QED
  BY <1>1 DEF Node, Row

LEMMA NoJobType == NoJob \in Job
BY DEF NoJob, Job, NoRows, NoRow, Row, NothingDue, Null

\* How a run goes on.
LEMMA AdvancedIs ==
  ASSUME NEW j \in Job, NEW k \in Advanced(j)
  PROVE  /\ k \in Job
         /\ k.time = j.time /\ k.due = j.due /\ k.rows = NoRows
         /\ \/ k.pc = "read" /\ j.more /\ k.users = j.users /\ k.user = j.user /\ k.cursor = j.cursor
               /\ k.ok = j.ok
            \/ k.pc = "read" /\ ~j.more /\ k.user \in j.users /\ k.users = j.users \ {k.user}
               /\ k.cursor = Null /\ k.ok = j.ok
            \/ k.pc = "release" /\ ~j.more /\ j.users = {} /\ k.ok
<1>0. NoRows \in [Ids -> Row]
  BY DEF NoRows, NoRow, Row, Null
<1>1. CASE j.more
  <2>1. k = [j EXCEPT !.pc = "read", !.rows = NoRows]
    BY <1>1 DEF Advanced
  <2>2. k \in Job
    BY <1>0, <2>1 DEF Job
  <2>3. k.pc = "read" /\ k.rows = NoRows
    BY <2>1 DEF Job
  <2>4. /\ k.time = j.time /\ k.due = j.due /\ k.users = j.users /\ k.user = j.user
        /\ k.cursor = j.cursor /\ k.ok = j.ok
    BY <2>1 DEF Job
  <2> QED
    BY <1>1, <2>2, <2>3, <2>4
<1>2. CASE ~j.more /\ j.users = {}
  <2>1. k = [j EXCEPT !.pc = "release", !.rows = NoRows, !.ok = TRUE]
    BY <1>2 DEF Advanced
  <2>2. k \in Job
    BY <1>0, <2>1 DEF Job
  <2>3. k.pc = "release" /\ k.rows = NoRows /\ k.ok
    BY <2>1 DEF Job
  <2>4. k.time = j.time /\ k.due = j.due
    BY <2>1 DEF Job
  <2> QED
    BY <1>2, <2>2, <2>3, <2>4
<1>3. CASE ~j.more /\ j.users # {}
  <2>1. PICK u \in j.users : k = [j EXCEPT !.pc = "read", !.rows = NoRows, !.cursor = Null,
                                           !.user = u, !.users = @ \ {u}]
    BY <1>3 DEF Advanced
  <2>2. u \in Users /\ j.users \ {u} \in SUBSET Users /\ Null \in {Null} \cup Ids
    BY <2>1 DEF Job
  <2>3. k \in Job
    BY <1>0, <2>1, <2>2 DEF Job
  <2>4. k.pc = "read" /\ k.rows = NoRows /\ k.cursor = Null
    BY <2>1 DEF Job
  <2>5. k.user = u /\ k.users = j.users \ {u}
    BY <2>1 DEF Job
  <2>6. k.time = j.time /\ k.due = j.due /\ k.ok = j.ok
    BY <2>1 DEF Job
  <2> QED
    BY <1>3, <2>1, <2>3, <2>4, <2>5, <2>6
<1> QED
  BY <1>1, <1>2, <1>3

\* The instance j of the job with the batch it reads.
ReadOf(j) ==
  LET batch == Batch(j.user, j.time, j.cursor)
  IN [j EXCEPT !.pc = "write", !.rows = ScoredRows(batch, j.time),
               !.cursor = IF batch = {} THEN @ ELSE Max(batch),
               !.more = Cardinality(batch) = BatchSize]

LEMMA ScoredRowsType ==
  ASSUME StoreTypeOK, NEW batch \in SUBSET Memories, NEW t \in 0..MaxTime
  PROVE  ScoredRows(batch, t) \in [Ids -> Row]
<1> SUFFICES ASSUME NEW m \in batch
             PROVE  [version |-> memory[m].version,
                     importance |-> NewImportance(Inputs(memory[m]), t)] \in Row
  BY DEF ScoredRows, NoRow, Row, Null
<1>1. memory[m] \in Node
  BY NodesThatExist DEF Memories
<1>2. NewImportance(Inputs(memory[m]), t) \in Int
  <2>1. Inputs(memory[m]) \in Input
    BY <1>1, InputsType
  <2>2. EffectiveMin(Inputs(memory[m])) \in Int
    BY Numbers DEF EffectiveMin
  <2> QED
    BY <2>1, <2>2, ImportanceInBounds, Numbers
<1> QED
  BY <1>1, <1>2 DEF Row, Node

LEMMA BatchType ==
  ASSUME NEW user, NEW t, NEW cursor
  PROVE  /\ Batch(user, t, cursor) \in SUBSET Memories
         /\ Batch(user, t, cursor) # {} => Max(Batch(user, t, cursor)) \in Ids
<1>1. Batch(user, t, cursor) \in SUBSET Ids /\ Batch(user, t, cursor) \in SUBSET Memories
  BY DEF Batch, Due, Memories
<1>2. Batch(user, t, cursor) \in SUBSET Nat /\ IsFiniteSet(Batch(user, t, cursor))
  BY <1>1, StoreAssumption, FS_Subset
<1> QED
  BY <1>1, <1>2, GreatestNatural

LEMMA ReadOfType ==
  ASSUME StoreTypeOK, NEW j \in Job, j.time \in 0..MaxTime
  PROVE  ReadOf(j) \in Job
<1>1. ScoredRows(Batch(j.user, j.time, j.cursor), j.time) \in [Ids -> Row]
  BY BatchType, ScoredRowsType
<1>2. (Cardinality(Batch(j.user, j.time, j.cursor)) = BatchSize) \in BOOLEAN
  OBVIOUS
<1>3. (IF Batch(j.user, j.time, j.cursor) = {} THEN j.cursor ELSE Max(Batch(j.user, j.time, j.cursor)))
        \in {Null} \cup Ids
  BY BatchType DEF Job
<1> DEFINE batch == Batch(j.user, j.time, j.cursor)
           rows == ScoredRows(batch, j.time)
           cursor == IF batch = {} THEN j.cursor ELSE Max(batch)
           more == Cardinality(batch) = BatchSize
<1>4. PICK k : k = ReadOf(j)
  OBVIOUS
<1> HIDE DEF batch, rows, cursor, more
<1>5. rows \in [Ids -> Row] /\ cursor \in {Null} \cup Ids /\ more \in BOOLEAN
  BY <1>1, <1>2, <1>3 DEF batch, rows, cursor, more
<1>6. k = [j EXCEPT !.pc = "write", !.rows = rows, !.cursor = cursor, !.more = more]
  BY <1>4 DEF ReadOf, batch, rows, cursor, more
<1>7. k \in Job
  BY <1>5, <1>6 DEF Job
<1> QED
  BY <1>4, <1>7

\* What the instances of the job have to do with the clock.
JobTimes(j, t) ==
  /\ j.time <= t
  /\ j.pc \in {"acquire", "list", "read", "write"} => j.time # Null

LEMMA NoJobTimes == \A t \in Nat : JobTimes(NoJob, t)
BY DEF JobTimes, NoJob, Null

\* One instance changes; the others have their type as before.
LEMMA JobChanges ==
  ASSUME job \in [Slots -> Job], \A s \in Slots : JobTimes(job[s], now),
         NEW s \in Slots, NEW j \in Job, JobTimes(j, now),
         job' = [job EXCEPT ![s] = j], now' = now
  PROVE  job' \in [Slots -> Job] /\ \A t \in Slots : JobTimes(job'[t], now')
OBVIOUS

LEMMA TypeStep ==
  ASSUME ConsolidationTypeOK, [ConsolidationNext]_conVars
  PROVE  ConsolidationTypeOK'
<1> USE Numbers
<1> DEFINE Jobs == job \in [Slots -> Job] /\ \A s \in Slots : JobTimes(job[s], now)
<1>0. /\ memory \in [Ids -> Nodes] /\ now \in Nat /\ now \in 0..MaxTime
      /\ held \in BOOLEAN /\ heard \in {Null} \cup (0..now)
      /\ Jobs /\ StoreTypeOK
  BY DEF ConsolidationTypeOK, StoreTypeOK, JobTimes, Nodes
<1>1. SUFFICES /\ memory' \in [Ids -> Nodes] /\ now' \in 0..MaxTime
               /\ held' \in BOOLEAN /\ heard' \in {Null} \cup (0..now')
               /\ Jobs'
  BY <1>1 DEF ConsolidationTypeOK, StoreTypeOK, JobTimes, Nodes
<1>2. ASSUME NEW s \in Slots
      PROVE  /\ job[s] \in Job /\ JobTimes(job[s], now) /\ job[s].rows \in [Ids -> Row]
             /\ job[s].time \in {Null} \cup (0..MaxTime)
             /\ (job[s].pc \in {"list", "read", "write"} => job[s].time \in 0..MaxTime)
  BY <1>0 DEF Job, JobTimes
<1>3. ASSUME NEW s \in Slots, NEW j \in Job, JobTimes(j, now),
             job' = [job EXCEPT ![s] = j], UNCHANGED now
      PROVE  Jobs'
  BY <1>0, <1>3, JobChanges
<1>4. ASSUME NEW s \in Slots, Fire(s)
      PROVE  Jobs' /\ UNCHANGED <<memory, now, held>> /\ heard' = now
  <2>1. CASE heard = Null
    BY <1>0, <1>4, <2>1 DEF Fire
  <2>2. CASE heard # Null
    <3> DEFINE j == [NoJob EXCEPT !.pc = "acquire", !.time = heard]
    <3>1. heard \in 0..now
      BY <1>0, <2>2
    <3>2. heard \in 0..MaxTime /\ heard <= now /\ heard # Null
      BY <1>0, <2>2, <3>1
    <3>3. j \in Job
      BY <3>2, NoJobType DEF Job
    <3>4. j.time = heard
      BY NoJobType DEF Job
    <3>5. JobTimes(j, now)
      BY <3>2, <3>4 DEF JobTimes
    <3> QED
      BY <1>3, <1>4, <2>2, <3>3, <3>5 DEF Fire
  <2> QED
    BY <2>1, <2>2
<1>5. ASSUME NEW s \in Slots, Acquire(s)
      PROVE  Jobs' /\ UNCHANGED <<memory, now, heard>> /\ held' = TRUE
  <2> DEFINE j == IF held THEN NoJob ELSE [job[s] EXCEPT !.pc = "list"]
  <2>1. j \in Job /\ JobTimes(j, now)
    <3>1. CASE held
      BY <1>0, <3>1, NoJobType, NoJobTimes
    <3>2. CASE ~held
      <4>1. j = [job[s] EXCEPT !.pc = "list"] /\ job[s].pc = "acquire"
        BY <1>5, <3>2 DEF Acquire, At
      <4>2. j \in Job
        BY <1>2, <4>1 DEF Job
      <4>3. j.time = job[s].time
        BY <1>2, <4>1 DEF Job
      <4> QED
        BY <1>2, <4>1, <4>2, <4>3 DEF JobTimes
    <3> QED
      BY <3>1, <3>2
  <2>2. job' = [job EXCEPT ![s] = j]
    BY <1>5 DEF Acquire
  <2> QED
    BY <1>3, <1>5, <2>1, <2>2 DEF Acquire
<1>6. ASSUME NEW s \in Slots, ListUsers(s)
      PROVE  Jobs' /\ UNCHANGED <<memory, now, held, heard>>
  <2> DEFINE due == [m \in Ids |-> IF Due(m, job[s].time) THEN memory[m].version ELSE Null]
  <2> DEFINE listed == [job[s] EXCEPT !.users = UsersDue(job[s].time), !.due = due]
  <2>0. \A m \in Ids : Due(m, job[s].time) =>
          memory[m].version \in Nat /\ memory[m].user \in Users
    <3>1. \A m \in Ids : Due(m, job[s].time) => memory[m] \in Node
      BY <1>0, NodesThatExist DEF Due
    <3> QED
      BY <3>1 DEF Node
  <2>1. due \in [Ids -> Nat \cup {Null}]
    BY <2>0
  <2>2. UsersDue(job[s].time) \subseteq Users
    BY <2>0 DEF UsersDue
  <2>3. listed \in Job
    <3> HIDE DEF due
    <3>1. PICK users \in SUBSET Users : users = UsersDue(job[s].time)
      BY <2>2
    <3>2. PICK k \in Job : k = job[s]
      BY <1>2
    <3>3. [k EXCEPT !.users = users, !.due = due] \in Job
      BY <2>1 DEF Job
    <3> QED
      BY <3>1, <3>2, <3>3
  <2>4. PICK j \in Advanced(listed) : job' = [job EXCEPT ![s] = j]
    BY <1>6 DEF ListUsers
  <2>5. j \in Job /\ j.time = job[s].time
    <3>1. listed.time = job[s].time
      BY <1>2 DEF Job
    <3>2. j \in Job /\ j.time = listed.time
      BY <2>3, <2>4, AdvancedIs
    <3> QED
      BY <3>1, <3>2
  <2>6. JobTimes(j, now)
    BY <1>2, <1>6, <2>5 DEF JobTimes, ListUsers, At
  <2> QED
    BY <1>3, <1>6, <2>4, <2>5, <2>6 DEF ListUsers
<1>7. ASSUME NEW s \in Slots, ReadBatch(s)
      PROVE  Jobs' /\ UNCHANGED <<memory, now, held, heard>>
  <2>1. ReadOf(job[s]) \in Job
    BY <1>0, <1>2, <1>7, ReadOfType DEF ReadBatch, At
  <2>2. PICK j \in (IF ReadOf(job[s]).rows = NoRows THEN Advanced(ReadOf(job[s])) ELSE {ReadOf(job[s])}) :
          job' = [job EXCEPT ![s] = j]
    BY <1>7 DEF ReadBatch, ReadOf
  <2>3. j \in Job /\ j.time = job[s].time
    <3>1. ReadOf(job[s]).time = job[s].time
      BY <1>2 DEF ReadOf, Job
    <3> QED
      BY <2>1, <2>2, <3>1, AdvancedIs
  <2>4. JobTimes(j, now)
    BY <1>2, <1>7, <2>3 DEF JobTimes, ReadBatch, At
  <2> QED
    BY <1>3, <1>7, <2>2, <2>3, <2>4 DEF ReadBatch
<1>8. ASSUME NEW s \in Slots, WriteBatch(s)
      PROVE  Jobs' /\ memory' \in [Ids -> Nodes] /\ UNCHANGED <<now, held, heard>>
  <2>1. PICK j \in Advanced(job[s]) : job' = [job EXCEPT ![s] = j]
    BY <1>8 DEF WriteBatch
  <2>2. j \in Job /\ j.time = job[s].time
    BY <1>2, <2>1, AdvancedIs
  <2>3. JobTimes(j, now)
    BY <1>2, <1>8, <2>2 DEF JobTimes, WriteBatch, At
  <2>4. memory' \in [Ids -> Nodes]
    BY <1>0, <1>2, <1>8, WrittenType DEF WriteBatch, At
  <2> QED
    BY <1>3, <1>8, <2>1, <2>2, <2>3, <2>4 DEF WriteBatch
<1>9. ASSUME NEW s \in Slots, FailRun(s)
      PROVE  Jobs' /\ memory' \in [Ids -> Nodes] /\ UNCHANGED <<now, held, heard>>
  <2> DEFINE j == [job[s] EXCEPT !.pc = "release", !.rows = NoRows]
  <2>1. j \in Job /\ JobTimes(j, now)
    <3>1. NoRows \in [Ids -> Row]
      BY NoJobType DEF Job, NoJob
    <3>0. PICK k \in Job : k = job[s]
      BY <1>2
    <3>2. j \in Job
      BY <3>0, <3>1 DEF Job
    <3>3. j.time = job[s].time /\ j.pc = "release"
      BY <3>0 DEF Job
    <3> QED
      BY <1>2, <3>2, <3>3 DEF JobTimes
  <2>2. job' = [job EXCEPT ![s] = j]
    BY <1>0, <1>9 DEF FailRun
  <2>3. memory' \in [Ids -> Nodes]
    BY <1>0, <1>2, <1>9, WrittenType DEF FailRun
  <2> QED
    BY <1>3, <1>9, <2>1, <2>2, <2>3 DEF FailRun
<1>10. ASSUME NEW s \in Slots, Release(s)
       PROVE  Jobs' /\ UNCHANGED <<memory, now, heard>> /\ held' = FALSE
  BY <1>0, <1>3, <1>10, NoJobType, NoJobTimes DEF Release
<1>11. ASSUME Restart
       PROVE  Jobs' /\ memory' \in [Ids -> Nodes] /\ held' = FALSE /\ heard' = Null /\ UNCHANGED now
  <2>1. Jobs'
    BY <1>0, <1>11, NoJobType, NoJobTimes DEF Restart
  <2>2. memory' \in [Ids -> Nodes]
    <3>1. \A s \in Slots : Written(job[s].rows, job[s].time) \in [Ids -> Nodes]
      BY <1>0, <1>2, WrittenType
    <3> QED
      BY <1>0, <1>11, <3>1 DEF Restart
  <2> QED
    BY <1>11, <2>1, <2>2 DEF Restart
<1>12. ASSUME NEW m \in Ids, OtherWriter(m)
       PROVE  Jobs' /\ memory' \in [Ids -> Nodes] /\ UNCHANGED <<now, held, heard>>
  <2>1. PICK node \in (IF Exists(m) THEN ChangedNodes(memory[m]) ELSE NewNodes) :
          memory' = [memory EXCEPT ![m] = node]
    BY <1>12 DEF OtherWriter
  <2>2. CASE Exists(m)
    <3>1. memory[m] \in Node
      BY <1>0, <2>2, NodesThatExist
    <3>2. PICK status \in NextStatus(memory[m]), latest \in SourceTimes \cap 0..now,
               more \in SUBSET Evidence : node = Changed(memory[m], status, latest, more)
      <4>1. node \in ChangedNodes(memory[m])
        BY <2>1, <2>2
      <4> QED
        BY <4>1 DEF ChangedNodes
    <3>3. /\ status \in Status /\ latest \in 0..MaxTime
          /\ memory[m].evidence \cup more \in SUBSET Evidence
          /\ memory[m].version + 1 \in Nat
      BY <1>0, <3>1 DEF Node, Status, Live, NextStatus
    <3>4. node \in Node
      BY <3>1, <3>2, <3>3 DEF Node, Changed
    <3> QED
      BY <1>0, <1>12, <2>1, <3>4 DEF OtherWriter, Nodes
  <2>3. CASE ~Exists(m)
    <3>1. node \in Node
      BY <1>0, <2>1, <2>3 DEF NewNodes, Node, Status, Live, NoLink, Link, Null
    <3> QED
      BY <1>0, <1>12, <2>1, <3>1 DEF OtherWriter, Nodes
  <2> QED
    BY <2>2, <2>3
<1>13. ASSUME Tick
       PROVE  Jobs' /\ UNCHANGED <<memory, held, heard>> /\ now' \in 0..MaxTime
              /\ heard' \in {Null} \cup (0..now')
  <2>1. \A s \in Slots : job[s].time \in Int
    BY <1>2 DEF Null
  <2>2. \A s \in Slots : JobTimes(job[s], now + 1)
    BY <1>0, <2>1 DEF JobTimes
  <2>3. now' = now + 1 /\ now + 1 \in 0..MaxTime
    BY <1>0, <1>13 DEF Tick
  <2> QED
    BY <1>0, <1>13, <2>2, <2>3 DEF Tick
<1>14. CASE UNCHANGED conVars
  BY <1>0, <1>14 DEF conVars
<1> DEFINE Typed == /\ memory \in [Ids -> Nodes] /\ now \in 0..MaxTime
                    /\ held \in BOOLEAN /\ heard \in {Null} \cup (0..now)
                    /\ Jobs
<1>15. ASSUME NEW s \in Slots, Fire(s) \/ RunStep(s) PROVE Typed'
  <2>1. CASE Fire(s)
    BY <1>0, <1>4, <2>1
  <2>2. CASE RunStep(s)
    BY <1>0, <1>5, <1>6, <1>7, <1>8, <1>9, <1>10, <2>2 DEF RunStep
  <2> QED
    BY <1>15, <2>1, <2>2
<1>16. ASSUME Restart PROVE Typed'
  BY <1>0, <1>11, <1>16
<1>17. ASSUME NEW m \in Ids, OtherWriter(m) PROVE Typed'
  BY <1>0, <1>12, <1>17
<1>18. ASSUME Tick PROVE Typed'
  BY <1>0, <1>13, <1>18
<1> QED
  BY <1>0, <1>14, <1>15, <1>16, <1>17, <1>18 DEF ConsolidationNext

LEMMA InitTypeOK == ConsolidationInit => ConsolidationTypeOK
<1> SUFFICES ASSUME ConsolidationInit PROVE ConsolidationTypeOK
  OBVIOUS
<1>1. StoreTypeOK
  BY Numbers, ConsolidationAssumption DEF ConsolidationInit, StoreTypeOK
<1>2. job \in [Slots -> Job] /\ \A s \in Slots : JobTimes(job[s], now)
  BY NoJobType, NoJobTimes DEF ConsolidationInit
<1> QED
  BY <1>1, <1>2 DEF ConsolidationTypeOK, ConsolidationInit, JobTimes

\* Every state of the job and of the memories it works on has its type.
THEOREM TypeCorrect == ConsolidationSpec => []ConsolidationTypeOK
<1>1. ConsolidationInit => ConsolidationTypeOK
  BY InitTypeOK
<1>2. ConsolidationTypeOK /\ [ConsolidationNext]_conVars => ConsolidationTypeOK'
  BY TypeStep
<1> QED
  BY <1>1, <1>2, PTL DEF ConsolidationSpec

-----------------------------------------------------------------------------
(* The mutex *)

\* What every step does to the program counters of the instances, and to the mutex.
LEMMA CounterMoves ==
  ASSUME ConsolidationTypeOK, [ConsolidationNext]_conVars
  PROVE  \/ held' = held /\ \A s \in Slots : Running(s)' => Running(s)
         \/ ~held /\ held' /\ \E s \in Slots : \A t \in Slots \ {s} : Running(t)' => Running(t)
         \/ ~held' /\ \E s \in Slots : Running(s) /\ \A t \in Slots :
                        Running(t)' => t # s /\ Running(t)
         \/ \A s \in Slots : ~Running(s)'
<1> USE DEF Running, At
<1>0. job \in [Slots -> Job]
  BY DEF ConsolidationTypeOK
<1>1. ASSUME NEW s \in Slots, Fire(s)
      PROVE  held' = held /\ \A t \in Slots : Running(t)' => Running(t)
  <2>1. \A j : j = [NoJob EXCEPT !.pc = "acquire", !.time = heard] => j.pc = "acquire"
    BY NoJobType DEF Job
  <2> QED
    BY <1>0, <1>1, <2>1 DEF Fire
<1>2. ASSUME NEW s \in Slots, Acquire(s)
      PROVE  \/ held' = held /\ \A t \in Slots : Running(t)' => Running(t)
             \/ ~held /\ held' /\ \A t \in Slots \ {s} : Running(t)' => Running(t)
  <2>1. CASE held
    <3>1. job' = [job EXCEPT ![s] = NoJob] /\ held' = TRUE
      BY <1>2, <2>1 DEF Acquire
    <3> QED
      BY <1>0, <2>1, <3>1 DEF NoJob, ConsolidationTypeOK
  <2>2. CASE ~held
    BY <1>0, <1>2, <2>2 DEF Acquire
  <2> QED
    BY <2>1, <2>2
<1>3. ASSUME NEW s \in Slots, ListUsers(s) \/ ReadBatch(s) \/ WriteBatch(s) \/ FailRun(s)
      PROVE  held' = held /\ \A t \in Slots : Running(t)' => Running(t)
  <2>1. Running(s) /\ \A t \in Slots \ {s} : job'[t] = job[t]
    <3>1. job[s].pc \in {"list", "read", "write"}
      BY <1>3 DEF ListUsers, ReadBatch, WriteBatch, FailRun, At
    <3>2. \E j : job' = [job EXCEPT ![s] = j]
      <4>1. CASE ListUsers(s)
        BY <4>1 DEF ListUsers
      <4>2. CASE ReadBatch(s)
        BY <4>2 DEF ReadBatch
      <4>3. CASE WriteBatch(s)
        BY <4>3 DEF WriteBatch
      <4>4. CASE FailRun(s)
        BY <4>4 DEF FailRun
      <4> QED
        BY <1>3, <4>1, <4>2, <4>3, <4>4
    <3>3. PICK j : job' = [job EXCEPT ![s] = j]
      BY <3>2
    <3> QED
      BY <1>0, <3>1, <3>3 DEF ConsolidationTypeOK
  <2>2. held' = held
    BY <1>3 DEF ListUsers, ReadBatch, WriteBatch, FailRun
  <2> QED
    BY <2>1, <2>2
<1>4. ASSUME NEW s \in Slots, Release(s)
      PROVE  ~held' /\ Running(s) /\ \A t \in Slots : Running(t)' => t # s /\ Running(t)
  BY <1>0, <1>4 DEF Release, NoJob
<1>5. ASSUME Restart
      PROVE  \A s \in Slots : ~Running(s)'
  BY <1>5 DEF Restart, NoJob
<1>6. CASE (\E m \in Ids : OtherWriter(m)) \/ Tick \/ UNCHANGED conVars
  BY <1>6 DEF OtherWriter, Tick, conVars
<1>7. CASE \E s \in Slots : Fire(s) \/ RunStep(s)
  BY <1>1, <1>2, <1>3, <1>4, <1>7 DEF RunStep
<1> QED
  BY <1>5, <1>6, <1>7 DEF ConsolidationNext

LEMMA MutexStep ==
  ASSUME ConsolidationTypeOK, OneRunAtATime, [ConsolidationNext]_conVars
  PROVE  OneRunAtATime'
BY CounterMoves DEF OneRunAtATime

\* At most one run is under way, and the mutex is held as long as it is.
THEOREM MutualExclusion == ConsolidationSpec => []OneRunAtATime
<1>1. ConsolidationInit => OneRunAtATime
  BY DEF ConsolidationInit, OneRunAtATime, Running, NoJob
<1>2. ConsolidationTypeOK /\ OneRunAtATime /\ [ConsolidationNext]_conVars => OneRunAtATime'
  BY MutexStep
<1> QED
  BY <1>1, <1>2, TypeCorrect, PTL DEF ConsolidationSpec

-----------------------------------------------------------------------------
(* What an instance j knows of the memories M *)

\* A row of the batch in progress that has not become stale carries the importance of the
\* memory as it is, and nobody has consolidated the memory up to the run's time.
RowsCurrent(M, j) ==
  \A m \in Ids : j.rows[m].version # Null =>
    /\ M[m] \in Node
    /\ j.rows[m].version <= M[m].version
    /\ j.rows[m].version = M[m].version =>
         /\ j.rows[m].importance = NewImportance(Inputs(M[m]), j.time)
         /\ M[m].consolidated < j.time

\* What was due when the run started is there and was read no earlier than that.
DueKept(M, j) ==
  \A m \in Ids : j.due[m] # Null =>
    /\ M[m] \in Node
    /\ j.due[m] <= M[m].version
    /\ M[m].created <= j.time
    /\ j.rows[m].version # Null => j.due[m] <= j.rows[m].version

Reached(M, j, m) ==
  M[m].consolidated >= j.time \/ M[m].version # j.due[m]

\* The run still comes to m: with another user, or with another batch of this one.
Ahead(M, j, m) ==
  \/ M[m].user \in j.users
  \/ M[m].user = j.user /\ m > j.cursor /\ (j.pc = "read" \/ j.more)

\* Nothing that was due is lost.
Progress(M, j) ==
  /\ j.pc \in {"read", "write"} =>
       \A m \in Ids : j.due[m] # Null =>
         Reached(M, j, m) \/ Ahead(M, j, m) \/ j.rows[m].version # Null
  /\ j.pc = "release" /\ j.ok =>
       \A m \in Ids : j.due[m] # Null => Reached(M, j, m)

JobInv(M, j) ==
  /\ j.pc # "write" => j.rows = NoRows
  /\ j.ok => j.pc = "release"
  /\ RowsCurrent(M, j)
  /\ DueKept(M, j)
  /\ Progress(M, j)

Evidenced(M) == \A m \in Ids : M[m] \in Node => M[m].evidence # {}

\* The inductive invariant.  RowsCurrent needs the mutex: another run could consolidate a
\* memory between the moment this one reads it and the moment it writes it.
IInv ==
  /\ ConsolidationTypeOK
  /\ OneRunAtATime
  /\ Evidenced(memory)
  /\ \A s \in Slots : JobInv(memory, job[s])

\* What the writers of a node keep.
LEMMA NodeStepKeeps ==
  ASSUME NEW old \in Node, NEW new \in Nodes, NodeStep(old, new)
  PROVE  /\ new \in Node
         /\ new.user = old.user /\ new.created = old.created
         /\ old.version <= new.version
         /\ new.version = old.version => Inputs(new) = Inputs(old)
         /\ old.consolidated <= new.consolidated
         /\ old.evidence # {} => new.evidence # {}
<1>1. old # NoNode /\ old.version \in Nat
  BY NodeExists DEF Node
<1>2. CASE new = old
  BY <1>2 DEF Node, Null
<1>3. CASE new # NoNode /\ Rewritten(old, new)
  <2>1. new \in Node /\ new.version = old.version + 1 /\ old.evidence \subseteq new.evidence
    BY <1>3 DEF Rewritten, Nodes
  <2>2. /\ new.user = old.user /\ new.created = old.created
        /\ new.consolidated = old.consolidated
    BY <1>3 DEF Rewritten, Node
  <2>3. old.consolidated \in Int
    BY DEF Node, Null
  <2> QED
    BY <1>1, <2>1, <2>2, <2>3
<1>4. CASE new # NoNode /\ Scored(old, new)
  <2>1. new \in Node /\ old.consolidated <= new.consolidated
    BY <1>4 DEF Scored, Nodes
  <2>2. /\ new.user = old.user /\ new.created = old.created /\ new.version = old.version
        /\ new.status = old.status /\ new.latest = old.latest /\ new.evidence = old.evidence
    BY <1>4 DEF Scored, Node
  <2>3. Inputs(new) = Inputs(old)
    BY <2>2 DEF Inputs, Archives
  <2> QED
    BY <1>1, <2>1, <2>2, <2>3
<1> QED
  BY <1>1, <1>2, <1>3, <1>4 DEF NodeStep, GraphStep

\* An instance that does not move keeps its invariant, whatever other writers do; while it
\* has a batch to write, nobody else consolidates.
LEMMA OthersKeep ==
  ASSUME NEW M \in [Ids -> Nodes], NEW N \in [Ids -> Nodes],
         \A m \in Ids : NodeStep(M[m], N[m]),
         NEW j \in Job, JobInv(M, j),
         j.pc = "write" => \A m \in Ids : M[m] \in Node => N[m].consolidated = M[m].consolidated
  PROVE  JobInv(N, j)
<1>1. \A m \in Ids : M[m] \in Node =>
        /\ N[m] \in Node
        /\ N[m].user = M[m].user /\ N[m].created = M[m].created
        /\ M[m].version <= N[m].version
        /\ N[m].version = M[m].version => Inputs(N[m]) = Inputs(M[m])
        /\ M[m].consolidated <= N[m].consolidated
  BY NodeStepKeeps
<1>2. ASSUME NEW m \in Ids
      PROVE  /\ j.rows[m].version \in Nat \cup {Null} /\ j.due[m] \in Nat \cup {Null}
             /\ j.time \in Int /\ Null \in Int
  BY DEF Job, Row, Null
<1>3. \A node \in Node : node.version \in Nat /\ node.consolidated \in Int /\ node.created \in Int
  BY DEF Node, Null
<1>4. j.pc # "write" => \A m \in Ids : j.rows[m].version = Null
  BY DEF JobInv, NoRows, NoRow
<1>5. RowsCurrent(N, j)
  <2> SUFFICES ASSUME NEW m \in Ids, j.rows[m].version # Null
               PROVE  /\ N[m] \in Node
                      /\ j.rows[m].version <= N[m].version
                      /\ j.rows[m].version = N[m].version =>
                           /\ j.rows[m].importance = NewImportance(Inputs(N[m]), j.time)
                           /\ N[m].consolidated < j.time
    BY DEF RowsCurrent
  <2>1. /\ M[m] \in Node /\ j.rows[m].version <= M[m].version
        /\ j.rows[m].version = M[m].version =>
             /\ j.rows[m].importance = NewImportance(Inputs(M[m]), j.time)
             /\ M[m].consolidated < j.time
    BY DEF JobInv, RowsCurrent
  <2>2. N[m].consolidated = M[m].consolidated
    BY <1>4, <2>1
  <2> QED
    BY <1>1, <1>2, <1>3, <2>1, <2>2
<1>6. DueKept(N, j)
  <2> SUFFICES ASSUME NEW m \in Ids, j.due[m] # Null
               PROVE  /\ N[m] \in Node /\ j.due[m] <= N[m].version
                      /\ N[m].created <= j.time
                      /\ j.rows[m].version # Null => j.due[m] <= j.rows[m].version
    BY DEF DueKept
  <2>1. /\ M[m] \in Node /\ j.due[m] <= M[m].version /\ M[m].created <= j.time
        /\ j.rows[m].version # Null => j.due[m] <= j.rows[m].version
    BY DEF JobInv, DueKept
  <2> QED
    BY <1>1, <1>2, <1>3, <2>1
<1>7. ASSUME NEW m \in Ids, j.due[m] # Null
      PROVE  /\ Reached(M, j, m) => Reached(N, j, m)
             /\ Ahead(M, j, m) => Ahead(N, j, m)
  <2>1. M[m] \in Node /\ j.due[m] <= M[m].version
    BY <1>7 DEF JobInv, DueKept
  <2>2. /\ N[m] \in Node /\ N[m].user = M[m].user /\ M[m].version <= N[m].version
        /\ M[m].consolidated <= N[m].consolidated
    BY <1>1, <2>1
  <2>3. /\ M[m].version \in Nat /\ N[m].version \in Nat /\ j.due[m] \in Nat
        /\ M[m].consolidated \in Int /\ N[m].consolidated \in Int /\ j.time \in Int
    BY <1>2, <1>3, <1>7, <2>1, <2>2
  <2> QED
    BY <2>1, <2>2, <2>3 DEF Reached, Ahead
<1>8. Progress(N, j)
  BY <1>7 DEF Progress, JobInv
<1> QED
  BY <1>5, <1>6, <1>8 DEF JobInv

-----------------------------------------------------------------------------
(* Steps, seen at the Memory nodes *)

\* What a step may do to a memory: what the store allows, and a new importance only if it
\* is that of the memory as it is.
MemoryMoves(m) ==
  /\ NodeStep(memory[m], memory'[m])
  /\ Exists(m) /\ memory'[m].consolidated # memory[m].consolidated =>
       memory'[m].importance = NewImportance(Inputs(memory[m]), memory'[m].consolidated)

LEMMA WrittenMoves ==
  ASSUME IInv, NEW s \in Slots, memory' = Written(job[s].rows, job[s].time)
  PROVE  \A m \in Ids : MemoryMoves(m)
<1> SUFFICES ASSUME NEW m \in Ids PROVE MemoryMoves(m)
  OBVIOUS
<1>0. StoreTypeOK /\ job[s] \in Job /\ RowsCurrent(memory, job[s])
  BY DEF IInv, ConsolidationTypeOK, JobInv
<1>1. CASE ~(Exists(m) /\ memory[m].version = job[s].rows[m].version)
  <2>1. memory'[m] = memory[m]
    BY <1>1 DEF Written
  <2> QED
    BY <2>1 DEF MemoryMoves, NodeStep, GraphStep
<1>2. CASE Exists(m) /\ memory[m].version = job[s].rows[m].version
  <2> DEFINE new == [memory[m] EXCEPT !.importance = job[s].rows[m].importance,
                                      !.consolidated = job[s].time]
  <2>1. memory'[m] = new
    BY <1>2 DEF Written
  <2>2. memory[m] \in Node /\ memory[m].version \in Nat /\ memory[m] # NoNode
    BY <1>0, <1>2, NodesThatExist DEF Node, Exists
  <2>3. /\ job[s].rows[m].importance = NewImportance(Inputs(memory[m]), job[s].time)
        /\ memory[m].consolidated < job[s].time
    BY <1>0, <1>2, <2>2 DEF RowsCurrent, Null
  <2>4. /\ new.importance = job[s].rows[m].importance /\ new.consolidated = job[s].time
        /\ new = [memory[m] EXCEPT !.importance = new.importance, !.consolidated = new.consolidated]
        /\ new.status = memory[m].status
    BY <2>2 DEF Node
  <2>5. new # NoNode
    BY <2>2, <2>4 DEF Node, NoNode, Status, Live
  <2>6. memory[m].consolidated <= job[s].time
    BY <1>0, <2>2, <2>3 DEF Node, Job, Null
  <2>7. Scored(memory[m], new)
    BY <2>4, <2>6 DEF Scored
  <2> QED
    BY <2>1, <2>2, <2>3, <2>4, <2>5, <2>7 DEF MemoryMoves, NodeStep
<1> QED
  BY <1>1, <1>2

LEMMA OtherWriterMoves ==
  ASSUME IInv, NEW n \in Ids, OtherWriter(n)
  PROVE  /\ \A m \in Ids : MemoryMoves(m)
         /\ \A m \in Ids : Exists(m) => memory'[m].consolidated = memory[m].consolidated
<1>0. StoreTypeOK /\ memory \in [Ids -> Nodes]
  BY DEF IInv, ConsolidationTypeOK, StoreTypeOK, Nodes
<1>1. PICK node \in (IF Exists(n) THEN ChangedNodes(memory[n]) ELSE NewNodes) :
        memory' = [memory EXCEPT ![n] = node]
  BY DEF OtherWriter
<1>2. memory'[n] = node /\ \A m \in Ids \ {n} : memory'[m] = memory[m]
  BY <1>0, <1>1
<1>3. CASE Exists(n)
  <2>1. memory[n] \in Node /\ memory[n] # NoNode
    BY <1>0, <1>3, NodesThatExist DEF Exists
  <2>2. PICK status \in NextStatus(memory[n]), latest \in SourceTimes \cap 0..now,
             more \in SUBSET Evidence : node = Changed(memory[n], status, latest, more)
    <3>1. node \in ChangedNodes(memory[n])
      BY <1>1, <1>3
    <3> QED
      BY <3>1 DEF ChangedNodes
  <2>3. /\ node.version = memory[n].version + 1 /\ node.status = status
        /\ node.evidence = memory[n].evidence \cup more /\ node.latest = latest
        /\ node.consolidated = memory[n].consolidated
        /\ node = [memory[n] EXCEPT !.version = node.version, !.status = node.status,
                                    !.evidence = node.evidence, !.latest = node.latest]
    BY <2>1, <2>2 DEF Changed, Node
  <2>4. memory[n].status = "superseded" => node.status = "superseded"
    BY <2>3 DEF NextStatus
  <2>5. node.status \in Status
    BY <2>1, <2>3 DEF Node, NextStatus, Status, Live
  <2>6. Rewritten(memory[n], node)
    BY <2>3, <2>4 DEF Rewritten
  <2>7. node # NoNode
    BY <2>5 DEF NoNode, Status, Live
  <2> QED
    BY <1>2, <2>1, <2>3, <2>6, <2>7 DEF MemoryMoves, NodeStep, GraphStep
<1>4. CASE ~Exists(n)
  <2>1. Created(node) /\ node # NoNode
    BY <1>1, <1>4 DEF NewNodes, Created, NoNode, Live
  <2> QED
    BY <1>2, <1>4, <2>1 DEF MemoryMoves, NodeStep, GraphStep, Exists
<1> QED
  BY <1>3, <1>4

LEMMA EveryStepMoves ==
  ASSUME IInv, [ConsolidationNext]_conVars
  PROVE  \A m \in Ids : MemoryMoves(m)
<1>1. CASE memory' = memory
  <2>1. \A m \in Ids : memory'[m] = memory[m]
    BY <1>1
  <2> QED
    BY <2>1 DEF MemoryMoves, NodeStep, GraphStep
<1>2. CASE \E s \in Slots : memory' = Written(job[s].rows, job[s].time)
  BY <1>2, WrittenMoves
<1>3. CASE \E n \in Ids : OtherWriter(n)
  BY <1>3, OtherWriterMoves
<1>4. CASE \E s \in Slots : WriteBatch(s) \/ FailRun(s)
  <2>1. memory' = memory \/ \E s \in Slots : memory' = Written(job[s].rows, job[s].time)
    <3>1. PICK s \in Slots : WriteBatch(s) \/ FailRun(s)
      BY <1>4
    <3>2. memory' = memory \/ memory' = Written(job[s].rows, job[s].time)
      BY <3>1, Zenon DEF WriteBatch, FailRun
    <3> QED
      BY <3>2
  <2> QED
    BY <1>1, <1>2, <2>1
<1>5. CASE \E s \in Slots : Fire(s) \/ Acquire(s) \/ ListUsers(s) \/ ReadBatch(s) \/ Release(s)
  <2>1. memory' = memory
    BY <1>5, Zenon DEF Fire, Acquire, ListUsers, ReadBatch, Release
  <2> QED
    BY <1>1, <2>1
<1>6. CASE Restart
  BY <1>1, <1>2, <1>6 DEF Restart
<1>7. CASE Tick \/ UNCHANGED conVars
  BY <1>1, <1>7 DEF Tick, conVars
<1> QED
  BY <1>3, <1>4, <1>5, <1>6, <1>7 DEF ConsolidationNext, RunStep

-----------------------------------------------------------------------------
(* The walk through the memories *)

LEMMA NoJobInv == \A M : JobInv(M, NoJob)
BY DEF JobInv, NoJob, NoRows, NoRow, NothingDue, RowsCurrent, DueKept, Progress

\* When the batch in progress is done with, the run goes on without losing anything.
LEMMA AdvancedKeeps ==
  ASSUME NEW M \in [Ids -> Nodes], NEW j \in Job, NEW k \in Advanced(j),
         ~j.ok, j.pc # "read", DueKept(M, j),
         \A m \in Ids : j.due[m] # Null => Reached(M, j, m) \/ Ahead(M, j, m)
  PROVE  JobInv(M, k)
<1>1. k \in Job /\ k.time = j.time /\ k.due = j.due /\ k.rows = NoRows
  BY AdvancedIs
<1>2. \A m \in Ids : k.rows[m].version = Null
  BY <1>1 DEF NoRows, NoRow
<1>3. RowsCurrent(M, k) /\ DueKept(M, k)
  BY <1>1, <1>2 DEF RowsCurrent, DueKept
<1>4. \A m \in Ids : Reached(M, j, m) => Reached(M, k, m)
  BY <1>1 DEF Reached
<1>5. \A m \in Ids : m > Null
  BY StoreAssumption DEF Null
<1>6. CASE k.pc = "read" /\ j.more /\ k.users = j.users /\ k.user = j.user /\ k.cursor = j.cursor
           /\ k.ok = j.ok
  <2>1. \A m \in Ids : Ahead(M, j, m) => Ahead(M, k, m)
    BY <1>6 DEF Ahead
  <2> QED
    BY <1>1, <1>3, <1>4, <1>6, <2>1 DEF JobInv, Progress
<1>7. CASE k.pc = "read" /\ ~j.more /\ k.user \in j.users /\ k.users = j.users \ {k.user}
           /\ k.cursor = Null /\ k.ok = j.ok
  <2>1. \A m \in Ids : Ahead(M, j, m) => Ahead(M, k, m)
    BY <1>5, <1>7 DEF Ahead
  <2> QED
    BY <1>1, <1>3, <1>4, <1>7, <2>1 DEF JobInv, Progress
<1>8. CASE k.pc = "release" /\ ~j.more /\ j.users = {} /\ k.ok
  <2>1. \A m \in Ids : ~Ahead(M, j, m)
    BY <1>8 DEF Ahead
  <2> QED
    BY <1>1, <1>3, <1>4, <1>8, <2>1 DEF JobInv, Progress
<1> QED
  BY <1>6, <1>7, <1>8, AdvancedIs

\* A read leaves out nothing of the user that is due: it is in the batch, or behind it.
LEMMA ReadKeeps ==
  ASSUME StoreTypeOK, Evidenced(memory), NEW j \in Job, JobInv(memory, j), j.pc = "read",
         j.time \in 0..MaxTime
  PROVE  /\ JobInv(memory, ReadOf(j))
         /\ ReadOf(j).rows = NoRows => \A k \in Advanced(ReadOf(j)) : JobInv(memory, k)
<1> SUFFICES
      ASSUME NEW batch, batch = Batch(j.user, j.time, j.cursor),
             NEW after, after = { m \in Ids : Due(m, j.time) /\ memory[m].user = j.user
                                               /\ m > j.cursor },
             NEW r, r = ReadOf(j)
      PROVE  /\ JobInv(memory, r)
             /\ r.rows = NoRows => \A k \in Advanced(r) : JobInv(memory, k)
  OBVIOUS
<1>1. r \in Job
  BY ReadOfType
<1>2. /\ r.pc = "write" /\ r.rows = ScoredRows(batch, j.time)
      /\ r.cursor = (IF batch = {} THEN j.cursor ELSE Max(batch))
      /\ r.more = (Cardinality(batch) = BatchSize)
      /\ r.users = j.users /\ r.user = j.user /\ r.time = j.time /\ r.due = j.due /\ r.ok = j.ok
  BY DEF ReadOf, Job
<1>3. memory \in [Ids -> Nodes]
  BY DEF StoreTypeOK, Nodes
<1>4. batch \in SUBSET after /\ after \in SUBSET Ids
  BY DEF Batch
<1>5. /\ \A m \in batch, n \in after : n < m => n \in batch
      /\ Cardinality(batch) # BatchSize => batch = after
  <2>1. \A m \in after : m \in batch <=> Cardinality(Earlier(after, m)) < BatchSize
    BY DEF Batch, Earlier
  <2> QED
    BY <1>4, <2>1, BatchIsPrefix
<1>6. ASSUME NEW m \in batch
      PROVE  /\ memory[m] \in Node /\ memory[m].evidence # {}
             /\ memory[m].consolidated < j.time
             /\ r.rows[m].version = memory[m].version /\ memory[m].version \in Nat
             /\ r.rows[m].importance = NewImportance(Inputs(memory[m]), j.time)
  <2>1. m \in Ids /\ Due(m, j.time)
    BY <1>4
  <2>2. memory[m] \in Node /\ memory[m].evidence # {} /\ memory[m].consolidated < j.time
    BY <2>1, NodesThatExist DEF Due, Evidenced
  <2>3. r.rows[m] = [version |-> memory[m].version,
                    importance |-> NewImportance(Inputs(memory[m]), j.time)]
    BY <1>2, <2>1, <2>2 DEF ScoredRows
  <2>4. memory[m].version \in Nat
    BY <2>2 DEF Node
  <2> QED
    BY <2>2, <2>3, <2>4
<1>7. ASSUME NEW m \in Ids, m \notin batch
      PROVE  r.rows[m].version = Null
  BY <1>2, <1>7 DEF ScoredRows, NoRow
<1>8. RowsCurrent(memory, r)
  <2> SUFFICES ASSUME NEW m \in Ids, r.rows[m].version # Null
               PROVE  /\ memory[m] \in Node
                      /\ r.rows[m].version <= memory[m].version
                      /\ r.rows[m].version = memory[m].version =>
                           /\ r.rows[m].importance = NewImportance(Inputs(memory[m]), r.time)
                           /\ memory[m].consolidated < r.time
    BY DEF RowsCurrent
  <2>1. m \in batch
    BY <1>7
  <2> QED
    BY <1>2, <1>6, <2>1
<1>9. DueKept(memory, r)
  <2> SUFFICES ASSUME NEW m \in Ids, r.due[m] # Null
               PROVE  /\ memory[m] \in Node /\ r.due[m] <= memory[m].version
                      /\ memory[m].created <= r.time
                      /\ r.rows[m].version # Null => r.due[m] <= r.rows[m].version
    BY DEF DueKept
  <2>1. /\ memory[m] \in Node /\ r.due[m] <= memory[m].version /\ memory[m].created <= r.time
    BY <1>2 DEF JobInv, DueKept
  <2>2. m \in batch => r.rows[m].version = memory[m].version
    BY <1>6
  <2> QED
    BY <1>7, <2>1, <2>2
<1>10. ASSUME NEW m \in Ids, r.due[m] # Null
       PROVE  Reached(memory, r, m) \/ Ahead(memory, r, m) \/ m \in batch
  <2>1. Reached(memory, j, m) \/ Ahead(memory, j, m)
    <3>1. j.rows[m].version = Null
      BY DEF JobInv, NoRows, NoRow
    <3> QED
      BY <1>2, <1>10, <3>1 DEF JobInv, Progress
  <2>2. CASE Reached(memory, j, m)
    BY <1>2, <2>2 DEF Reached
  <2>3. CASE memory[m].user \in j.users
    BY <1>2, <2>3 DEF Ahead
  <2>4. CASE memory[m].user = j.user /\ m > j.cursor /\ ~Reached(memory, j, m) /\ m \notin batch
    <3>1. m \in after
      <4>1. memory[m] \in Node /\ memory[m].created <= j.time
        BY <1>2, <1>10 DEF JobInv, DueKept
      <4>2. memory[m].consolidated < j.time
        BY <2>4, <4>1 DEF Reached, Node, Null
      <4>3. Exists(m)
        BY <4>1, NodesThatExist
      <4> QED
        BY <2>4, <4>1, <4>2, <4>3 DEF Due
    <3>2. r.more
      BY <1>2, <1>5, <2>4, <3>1
    <3>3. batch # {}
      <4>1. Cardinality(batch) = BatchSize
        BY <1>2, <3>2
      <4>2. BatchSize # 0
        BY Numbers
      <4> QED
        BY <4>1, <4>2, FS_EmptySet
    <3>4. m > Max(batch)
      <4>1. batch \in SUBSET Nat /\ IsFiniteSet(batch) /\ m \in Nat
        BY <1>4, StoreAssumption, FS_Subset
      <4>2. Max(batch) \in batch
        BY <3>3, <4>1, GreatestNatural
      <4>3. ~(m < Max(batch)) /\ m # Max(batch)
        BY <1>5, <2>4, <3>1, <4>2
      <4> QED
        BY <4>1, <4>2, <4>3
    <3> QED
      BY <1>2, <2>4, <3>2, <3>3, <3>4 DEF Ahead
  <2> QED
    BY <2>1, <2>2, <2>3, <2>4 DEF Ahead
<1>11. \A m \in batch : r.rows[m].version # Null
  <2> TAKE m \in batch
  <2>1. r.rows[m].version = memory[m].version /\ memory[m].version \in Nat
    BY <1>6
  <2> QED
    BY <2>1 DEF Null
<1>12. JobInv(memory, r)
  <2>1. Progress(memory, r)
    BY <1>2, <1>10, <1>11 DEF Progress
  <2>2. ~r.ok
    BY <1>2 DEF JobInv
  <2> QED
    BY <1>2, <1>8, <1>9, <2>1, <2>2 DEF JobInv
<1>13. ASSUME r.rows = NoRows, NEW k \in Advanced(r)
       PROVE  JobInv(memory, k)
  <2>1. batch = {}
    BY <1>4, <1>11, <1>13 DEF NoRows, NoRow
  <2>2. ~r.ok
    BY <1>2 DEF JobInv
  <2> QED
    BY <1>1, <1>2, <1>3, <1>9, <1>10, <2>1, <2>2, AdvancedKeeps
<1> QED
  BY <1>12, <1>13

\* An instance that does not move.
LEMMA StillKeeps ==
  ASSUME IInv, [ConsolidationNext]_conVars, ConsolidationTypeOK', NEW t \in Slots, job'[t] = job[t],
         \/ job[t].pc # "write"
         \/ \A m \in Ids : Exists(m) => memory'[m].consolidated = memory[m].consolidated
  PROVE  JobInv(memory', job'[t])
<1>1. memory \in [Ids -> Nodes] /\ memory' \in [Ids -> Nodes]
  BY DEF IInv, ConsolidationTypeOK, StoreTypeOK, Nodes
<1>2. \A m \in Ids : NodeStep(memory[m], memory'[m])
  BY EveryStepMoves DEF MemoryMoves
<1>3. job[t] \in Job /\ JobInv(memory, job[t])
  BY DEF IInv, ConsolidationTypeOK
<1>4. \A m \in Ids : memory[m] \in Node => Exists(m)
  BY NodeExists DEF Exists
<1> QED
  BY <1>1, <1>2, <1>3, <1>4, OthersKeep

LEMMA JobsKeep ==
  ASSUME IInv, [ConsolidationNext]_conVars, ConsolidationTypeOK'
  PROVE  \A t \in Slots : JobInv(memory', job'[t])
<1> DEFINE Kept == \A t \in Slots : JobInv(memory', job'[t])
<1>0. /\ StoreTypeOK /\ memory \in [Ids -> Nodes] /\ memory' \in [Ids -> Nodes]
      /\ job \in [Slots -> Job] /\ Evidenced(memory)
      /\ \A s \in Slots : JobInv(memory, job[s])
      /\ \A s \in Slots : job[s].pc \in {"list", "read", "write"} => job[s].time \in 0..MaxTime
  BY DEF IInv, ConsolidationTypeOK, StoreTypeOK, Nodes, Job
<1>1. ASSUME NEW s \in Slots, NEW j, job' = [job EXCEPT ![s] = j], JobInv(memory', j),
             memory' = memory \/ job[s].pc = "write"
      PROVE  Kept
  <2> SUFFICES ASSUME NEW t \in Slots, t # s PROVE JobInv(memory', job'[t])
    BY <1>0, <1>1
  <2>1. job'[t] = job[t]
    BY <1>0, <1>1
  <2>2. memory' = memory \/ job[t].pc # "write"
    BY <1>1 DEF IInv, OneRunAtATime, Running
  <2> QED
    BY <2>1, <2>2, StillKeeps
<1>2. ASSUME UNCHANGED job, \A m \in Ids : Exists(m) => memory'[m].consolidated = memory[m].consolidated
      PROVE  Kept
  BY <1>2, StillKeeps
<1>3. ASSUME NEW s \in Slots, Fire(s)
      PROVE  Kept
  <2>1. CASE heard = Null
    BY <1>2, <1>3, <2>1 DEF Fire
  <2>2. CASE heard # Null
    <3> DEFINE j == [NoJob EXCEPT !.pc = "acquire", !.time = heard]
    <3>1. JobInv(memory', j)
      BY DEF JobInv, NoJob, NoRows, NoRow, NothingDue, RowsCurrent, DueKept, Progress
    <3> QED
      BY <1>1, <1>3, <2>2, <3>1 DEF Fire
  <2> QED
    BY <2>1, <2>2
<1>4. ASSUME NEW s \in Slots, Acquire(s)
      PROVE  Kept
  <2> DEFINE j == IF held THEN NoJob ELSE [job[s] EXCEPT !.pc = "list"]
  <2>1. JobInv(memory', j)
    <3>1. CASE held
      BY <3>1, NoJobInv
    <3>2. CASE ~held
      <4>1. /\ j.pc = "list" /\ j.rows = job[s].rows /\ j.time = job[s].time
            /\ j.due = job[s].due /\ j.ok = job[s].ok
        BY <1>0, <3>2 DEF Job
      <4>2. job[s].pc = "acquire" /\ JobInv(memory, job[s]) /\ memory' = memory
        BY <1>0, <1>4 DEF Acquire, At
      <4> HIDE DEF j
      <4> QED
        BY <4>1, <4>2 DEF JobInv, RowsCurrent, DueKept, Progress
    <3> QED
      BY <3>1, <3>2
  <2>2. job' = [job EXCEPT ![s] = j]
    BY <1>4 DEF Acquire
  <2> QED
    BY <1>1, <1>4, <2>1, <2>2 DEF Acquire
<1>5. ASSUME NEW s \in Slots, ListUsers(s)
      PROVE  Kept
  <2> DEFINE due == [m \in Ids |-> IF Due(m, job[s].time) THEN memory[m].version ELSE Null]
  <2> DEFINE listed == [job[s] EXCEPT !.users = UsersDue(job[s].time), !.due = due]
  <2>1. PICK j \in Advanced(listed) : job' = [job EXCEPT ![s] = j]
    BY <1>5 DEF ListUsers
  <2>2. /\ job[s].pc = "list" /\ memory' = memory /\ JobInv(memory, job[s])
        /\ job[s].time \in 0..MaxTime /\ job[s] \in Job
    BY <1>0, <1>5 DEF ListUsers, At
  <2>3. /\ listed.pc = "list" /\ listed.time = job[s].time /\ listed.due = due
        /\ listed.rows = job[s].rows /\ listed.ok = job[s].ok
        /\ listed.users = UsersDue(job[s].time)
    BY <2>2 DEF Job
  <2>4. listed \in Job
    <3>1. due \in [Ids -> Nat \cup {Null}]
      BY <1>0, NodesThatExist DEF Due, Node
    <3>2. UsersDue(job[s].time) \subseteq Users
      BY <1>0, NodesThatExist DEF UsersDue, Due, Node
    <3> QED
      BY <2>2, <3>1, <3>2 DEF Job
  <2>5. ASSUME NEW m \in Ids, due[m] # Null
        PROVE  /\ memory[m] \in Node /\ due[m] = memory[m].version /\ memory[m].version \in Nat
               /\ memory[m].created <= job[s].time /\ memory[m].user \in UsersDue(job[s].time)
    <3>1. Due(m, job[s].time)
      BY <2>5
    <3> QED
      BY <1>0, <3>1, NodesThatExist DEF Due, UsersDue, Node
  <2> HIDE DEF due, listed
  <2>6. ~listed.ok /\ listed.rows = NoRows
    BY <2>2, <2>3 DEF JobInv
  <2>7. DueKept(memory, listed)
    <3>1. \A m \in Ids : listed.rows[m].version = Null
      BY <2>6 DEF NoRows, NoRow
    <3> QED
      BY <2>3, <2>5, <3>1 DEF DueKept
  <2>8. \A m \in Ids : listed.due[m] # Null => Ahead(memory, listed, m)
    BY <2>3, <2>5 DEF Ahead
  <2>9. JobInv(memory, j)
    BY <1>0, <2>1, <2>3, <2>4, <2>6, <2>7, <2>8, AdvancedKeeps
  <2> QED
    BY <1>1, <2>1, <2>2, <2>9
<1>6. ASSUME NEW s \in Slots, ReadBatch(s)
      PROVE  Kept
  <2>1. PICK j \in (IF ReadOf(job[s]).rows = NoRows THEN Advanced(ReadOf(job[s])) ELSE {ReadOf(job[s])}) :
          job' = [job EXCEPT ![s] = j]
    BY <1>6 DEF ReadBatch, ReadOf
  <2>2. /\ job[s].pc = "read" /\ memory' = memory /\ JobInv(memory, job[s])
        /\ job[s].time \in 0..MaxTime /\ job[s] \in Job
    BY <1>0, <1>6 DEF ReadBatch, At
  <2>3. JobInv(memory, j)
    BY <1>0, <2>1, <2>2, ReadKeeps
  <2> QED
    BY <1>1, <2>1, <2>2, <2>3
<1>7. ASSUME NEW s \in Slots, WriteBatch(s)
      PROVE  Kept
  <2>1. PICK j \in Advanced(job[s]) : job' = [job EXCEPT ![s] = j]
    BY <1>7 DEF WriteBatch
  <2>2. /\ job[s].pc = "write" /\ JobInv(memory, job[s]) /\ job[s] \in Job
        /\ memory' = Written(job[s].rows, job[s].time)
        /\ job[s].time \in 0..MaxTime
    BY <1>0, <1>7 DEF WriteBatch, At
  <2>3. \A m \in Ids : memory[m] \in Node =>
          /\ memory'[m] \in Node
          /\ memory'[m].user = memory[m].user /\ memory'[m].created = memory[m].created
          /\ memory[m].version <= memory'[m].version
          /\ memory[m].consolidated <= memory'[m].consolidated
    BY <1>0, EveryStepMoves, NodeStepKeeps DEF MemoryMoves
  <2>4. ASSUME NEW m \in Ids, memory[m] \in Node
        PROVE  /\ memory[m].version \in Nat /\ memory'[m].version \in Nat
               /\ memory[m].consolidated \in Int /\ memory'[m].consolidated \in Int
               /\ job[s].due[m] \in Nat \cup {Null} /\ job[s].rows[m].version \in Nat \cup {Null}
    <3>1. memory[m] \in Node /\ memory'[m] \in Node
      BY <2>3, <2>4
    <3>2. \A node \in Node : node.version \in Nat /\ node.consolidated \in Int
      BY DEF Node, Null
    <3>3. job[s].due[m] \in Nat \cup {Null} /\ job[s].rows[m].version \in Nat \cup {Null}
      BY <2>2 DEF Job, Row
    <3> QED
      BY <3>1, <3>2, <3>3
  <2>5. DueKept(memory', job[s])
    <3> SUFFICES ASSUME NEW m \in Ids, job[s].due[m] # Null
                 PROVE  /\ memory'[m] \in Node /\ job[s].due[m] <= memory'[m].version
                        /\ memory'[m].created <= job[s].time
                        /\ job[s].rows[m].version # Null => job[s].due[m] <= job[s].rows[m].version
      BY DEF DueKept
    <3>1. /\ memory[m] \in Node /\ job[s].due[m] <= memory[m].version
          /\ memory[m].created <= job[s].time
          /\ job[s].rows[m].version # Null => job[s].due[m] <= job[s].rows[m].version
      BY <2>2 DEF JobInv, DueKept
    <3> QED
      BY <2>3, <2>4, <3>1
  <2>6. ASSUME NEW m \in Ids, job[s].due[m] # Null
        PROVE  Reached(memory', job[s], m) \/ Ahead(memory', job[s], m)
    <3>1. /\ memory[m] \in Node /\ job[s].due[m] <= memory[m].version
          /\ job[s].rows[m].version # Null => job[s].due[m] <= job[s].rows[m].version
          /\ job[s].rows[m].version # Null => job[s].rows[m].version <= memory[m].version
      BY <2>2, <2>6 DEF JobInv, DueKept, RowsCurrent
    <3>2. \/ Reached(memory, job[s], m) \/ Ahead(memory, job[s], m)
          \/ job[s].rows[m].version # Null
      BY <2>2, <2>6 DEF JobInv, Progress
    <3>3. CASE Reached(memory, job[s], m)
      <4>1. CASE memory[m].consolidated >= job[s].time
        <5>1. memory[m].consolidated <= memory'[m].consolidated
          BY <2>3, <3>1
        <5>2. memory'[m].consolidated >= job[s].time
          BY <2>2, <2>4, <3>1, <4>1, <5>1
        <5> QED
          BY <5>2 DEF Reached
      <4>2. CASE memory[m].version # job[s].due[m]
        <5>1. memory[m].version <= memory'[m].version
          BY <2>3, <3>1
        <5>2. memory'[m].version # job[s].due[m]
          BY <2>4, <2>6, <3>1, <4>2, <5>1
        <5> QED
          BY <5>2 DEF Reached
      <4> QED
        BY <3>3, <4>1, <4>2 DEF Reached
    <3>4. CASE Ahead(memory, job[s], m)
      BY <2>3, <3>1, <3>4 DEF Ahead
    <3>5. CASE job[s].rows[m].version # Null /\ job[s].rows[m].version = memory[m].version
      <4>1. Exists(m)
        BY <1>0, <3>1, NodesThatExist
      <4>2. memory'[m].consolidated = job[s].time
        BY <2>2, <3>1, <3>5, <4>1 DEF Written, Node
      <4> QED
        BY <2>2, <4>2 DEF Reached
    <3>6. CASE job[s].rows[m].version # Null /\ job[s].rows[m].version # memory[m].version
      <4>1. memory'[m].version # job[s].due[m]
        BY <2>3, <2>4, <2>6, <3>1, <3>6
      <4> QED
        BY <4>1 DEF Reached
    <3> QED
      BY <3>2, <3>3, <3>4, <3>5, <3>6
  <2>7. JobInv(memory', j)
    <3>1. ~job[s].ok
      BY <2>2 DEF JobInv
    <3> QED
      BY <1>0, <2>1, <2>2, <2>5, <2>6, <3>1, AdvancedKeeps
  <2> QED
    BY <1>1, <2>1, <2>2, <2>7
<1>8. ASSUME NEW s \in Slots, FailRun(s)
      PROVE  Kept
  <2> DEFINE j == [job[s] EXCEPT !.pc = "release", !.rows = NoRows]
  <2>1. job' = [job EXCEPT ![s] = j]
    BY <1>0, <1>8 DEF FailRun
  <2>2. job[s] \in Job /\ JobInv(memory, job[s]) /\ ~job[s].ok
    BY <1>0, <1>8 DEF JobInv, FailRun
  <2>3. j.pc = "release" /\ j.rows = NoRows /\ j.due = job[s].due /\ j.time = job[s].time /\ ~j.ok
    BY <2>2 DEF Job
  <2>4. DueKept(memory', j)
    <3>1. \A m \in Ids : j.rows[m].version = Null
      BY <2>3 DEF NoRows, NoRow
    <3>2. ASSUME NEW m \in Ids, job[s].due[m] # Null
          PROVE  /\ memory'[m] \in Node /\ job[s].due[m] <= memory'[m].version
                 /\ memory'[m].created <= job[s].time
      <4>1. /\ memory[m] \in Node /\ job[s].due[m] <= memory[m].version
            /\ memory[m].created <= job[s].time
        BY <2>2, <3>2 DEF JobInv, DueKept
      <4>2. /\ memory'[m] \in Node /\ memory'[m].created = memory[m].created
            /\ memory[m].version <= memory'[m].version
        BY <1>0, <4>1, EveryStepMoves, NodeStepKeeps DEF MemoryMoves
      <4>3. memory[m].version \in Nat /\ memory'[m].version \in Nat /\ job[s].due[m] \in Nat
        BY <2>2, <3>2, <4>1, <4>2 DEF Node, Job
      <4> QED
        BY <4>1, <4>2, <4>3
    <3> HIDE DEF j
    <3> QED
      BY <2>3, <3>1, <3>2 DEF DueKept
  <2>5. JobInv(memory', j)
    <3>1. \A m \in Ids : j.rows[m].version = Null
      BY <2>3 DEF NoRows, NoRow
    <3> HIDE DEF j
    <3> QED
      BY <2>3, <2>4, <3>1 DEF JobInv, RowsCurrent, Progress
  <2>6. memory' = memory \/ job[s].pc = "write"
    <3>1. ASSUME job[s].pc # "write" PROVE Written(job[s].rows, job[s].time) = memory
      <4>1. job[s].rows = NoRows
        BY <2>2, <3>1 DEF JobInv
      <4>2. \A m \in Ids : job[s].rows[m].version = Null
        BY <4>1 DEF NoRows, NoRow
      <4>3. \A m \in Ids : Exists(m) => memory[m].version # Null
        BY <1>0, NodesThatExist DEF Node, Null
      <4> QED
        BY <1>0, <4>2, <4>3 DEF Written
    <3> QED
      BY <1>8, <3>1 DEF FailRun
  <2> QED
    BY <1>1, <2>1, <2>5, <2>6
<1>9. ASSUME NEW s \in Slots, Release(s)
      PROVE  Kept
  BY <1>1, <1>9, NoJobInv DEF Release
<1>10. ASSUME Restart
       PROVE  Kept
  BY <1>10, NoJobInv DEF Restart
<1>11. ASSUME NEW m \in Ids, OtherWriter(m)
       PROVE  Kept
  <2>1. UNCHANGED job
    BY <1>11 DEF OtherWriter
  <2> QED
    BY <1>2, <1>11, <2>1, OtherWriterMoves
<1>12. CASE Tick \/ UNCHANGED conVars
  BY <1>2, <1>12 DEF Tick, conVars
<1> QED
  BY <1>3, <1>4, <1>5, <1>6, <1>7, <1>8, <1>9, <1>10, <1>11, <1>12
  DEF ConsolidationNext, RunStep

-----------------------------------------------------------------------------
(* The theorems *)

LEMMA InitIsInductive == ConsolidationInit => IInv
<1> SUFFICES ASSUME ConsolidationInit PROVE IInv
  OBVIOUS
<1>1. ConsolidationTypeOK
  BY InitTypeOK
<1>2. OneRunAtATime
  BY DEF ConsolidationInit, OneRunAtATime, Running, NoJob
<1>3. Evidenced(memory)
  BY NodeExists, ConsolidationAssumption DEF ConsolidationInit, Evidenced, Created
<1>4. \A s \in Slots : JobInv(memory, job[s])
  BY NoJobInv DEF ConsolidationInit
<1> QED
  BY <1>1, <1>2, <1>3, <1>4 DEF IInv

LEMMA StepIsInductive ==
  ASSUME IInv, [ConsolidationNext]_conVars
  PROVE  IInv'
<1>1. ConsolidationTypeOK' /\ OneRunAtATime'
  BY TypeStep, MutexStep DEF IInv
<1>2. Evidenced(memory)'
  <2> SUFFICES ASSUME NEW m \in Ids, memory'[m] \in Node PROVE memory'[m].evidence # {}
    BY DEF Evidenced
  <2>1. NodeStep(memory[m], memory'[m]) /\ memory'[m] # NoNode
    BY EveryStepMoves, NodeExists DEF MemoryMoves
  <2>2. CASE memory[m] \in Node
    BY <2>1, <2>2, NodeStepKeeps DEF IInv, Evidenced, Nodes
  <2>3. CASE memory[m] = NoNode
    BY <2>1, <2>3 DEF NodeStep, GraphStep, Created
  <2> QED
    BY <2>2, <2>3 DEF IInv, ConsolidationTypeOK, StoreTypeOK
<1>3. \A s \in Slots : JobInv(memory', job'[s])
  BY <1>1, JobsKeep
<1> QED
  BY <1>1, <1>2, <1>3 DEF IInv

\* What a run has scanned, what is still ahead of its cursor and what it will write fit the
\* memories as they are now.
THEOREM Inductive == ConsolidationSpec => []IInv
<1>1. IInv /\ [ConsolidationNext]_conVars => IInv'
  BY StepIsInductive
<1> QED
  BY <1>1, InitIsInductive, PTL DEF ConsolidationSpec

\* A run that ends successfully has reached every memory that was due when it started.
THEOREM ScanIsComplete == ConsolidationSpec => []ScanComplete
<1>1. IInv => ScanComplete
  BY DEF IInv, JobInv, Progress, Reached, ScanComplete, At
<1> QED
  BY <1>1, Inductive, PTL

\* The importance a run writes is that of the memory as it is when it is written.
THEOREM WritesCurrentImportance == ConsolidationSpec => ImportanceFromCurrent
<1>1. IInv /\ [ConsolidationNext]_conVars =>
        [\A m \in Memories :
           memory'[m].consolidated # memory[m].consolidated =>
             memory'[m].importance = NewImportance(Inputs(memory[m]), memory'[m].consolidated)]_conVars
  BY EveryStepMoves DEF MemoryMoves, Memories
<1> QED
  BY <1>1, Inductive, PTL DEF ConsolidationSpec, ImportanceFromCurrent

\* To the other users of the Memory nodes the job is one of the writers that MemoryStore
\* describes: it changes no version and does not let a consolidation time go back.
THEOREM ImplementsStore == ConsolidationSpec => StoreSpec
<1>1. ConsolidationInit => StoreInit
  BY ConsolidationAssumption DEF ConsolidationInit, StoreInit, Memories, Exists
<1>2. IInv /\ [ConsolidationNext]_conVars => [StoreStep]_memory
  BY EveryStepMoves DEF MemoryMoves, StoreStep
<1> QED
  BY <1>1, <1>2, Inductive, PTL DEF ConsolidationSpec, StoreSpec
=============================================================================
