----------------------------- MODULE Consolidation -----------------------------
(***************************************************************************)
(* The consolidation worker: a scheduled job that walks through every      *)
(* user's Memory nodes in batches, computes each memory's importance from  *)
(* what it read and writes it back if memory_version has not changed.      *)
(*                                                                         *)
(* The nodes are shared with the extraction workers, of which only what    *)
(* MemoryStore promises is known (MemoryGraph implements it).  Counters    *)
(* and telemetry are left out.                                             *)
(***************************************************************************)
EXTENDS MemoryStore

CONSTANTS
  Initial,            \* Memory nodes at the start
  Slots,              \* instances of the job the scheduler may run at a time
  BatchSize,
  Recency,            \* exponential decay, in hundredths: Recency[h][d] for half-life h
  EvidenceScore,      \* reinforcement, in hundredths, of a number of archives
  BonusWeight,        \* reinforcement_bonus_weight, in hundredths
  HalfLife,           \* of the memory type, in units of time
  SupersededHalfLife,
  MinImportance, ConflictedMinImportance, MaxImportance,
  MaxVersion,         \* bound: the other writers stop at this version
  Touched,            \* bound: the memories they write
  SourceTimes         \* bound: the source times they write

ASSUME ConsolidationAssumption ==
  /\ BatchSize \in Nat \ {0}
  /\ {HalfLife, SupersededHalfLife} \subseteq Nat
  /\ Recency \in [{HalfLife, SupersededHalfLife} -> [0..MaxTime -> Nat]]
  /\ EvidenceScore \in [0..Cardinality(Evidence) -> Nat]
  /\ BonusWeight \in Nat
  /\ {MinImportance, ConflictedMinImportance, MaxImportance} \subseteq Nat
  /\ MinImportance <= MaxImportance /\ ConflictedMinImportance <= MaxImportance
  /\ Initial \in [Ids -> Node \cup {NoNode}]
  /\ \A m \in Ids : Initial[m] # NoNode => Created(Initial[m])

VARIABLES
  held,    \* the process-local mutex
  heard,   \* scheduled time the submission listener has last put in the context variable
  job      \* the running instances of the job

conVars == <<memory, now, held, heard, job>>

-----------------------------------------------------------------------------
(* Importance of a memory *)

Clamp(x, low, high) == Max({low, Min({high, x})})

ReferenceTime(in) == Max({in.latest, in.created})

InactiveTime(in, t) == Max({0, t - ReferenceTime(in)})

HalfLifeFor(in) ==
  IF in.status = "superseded" THEN Min({HalfLife, SupersededHalfLife}) ELSE HalfLife

EffectiveMin(in) == IF in.status = "conflicted" THEN ConflictedMinImportance ELSE MinImportance

RawImportance(in, t) ==
  (BaseImportance * Recency[HalfLifeFor(in)][InactiveTime(in, t)]
     + BonusWeight * EvidenceScore[in.archives]) \div 100

NewImportance(in, t) == Clamp(RawImportance(in, t), EffectiveMin(in), MaxImportance)

-----------------------------------------------------------------------------
(* What a run reads *)

Due(m, t) ==
  /\ Exists(m)
  /\ memory[m].created <= t
  /\ memory[m].consolidated < t

\* list_user_ids
UsersDue(t) == { memory[m].user : m \in { n \in Ids : Due(n, t) } }

\* fetch_candidate_batch: the first memories of the user after the cursor.
Batch(user, t, cursor) ==
  LET after == { m \in Ids : Due(m, t) /\ memory[m].user = user /\ m > cursor }
  IN { m \in after : Cardinality({ n \in after : n < m }) < BatchSize }

Row == [version : Nat \cup {Null}, importance : Int]

NoRow == [version |-> Null, importance |-> Null]
NoRows == [m \in Ids |-> NoRow]

\* process_batch: a memory without evidence is skipped.
ScoredRows(batch, t) ==
  [m \in Ids |->
    IF m \in batch /\ memory[m].evidence # {}
    THEN [version |-> memory[m].version, importance |-> NewImportance(Inputs(memory[m]), t)]
    ELSE NoRow]

\* Mutant: the batch is written whatever has happened since it was read.
WrittenUnconditionally(rows, t) ==
  [m \in Ids |->
    IF rows[m] # NoRow
    THEN [memory[m] EXCEPT !.importance = rows[m].importance, !.consolidated = t]
    ELSE memory[m]]

\* write_importance_batch
Written(rows, t) ==
  [m \in Ids |->
    IF Exists(m) /\ memory[m].version = rows[m].version
    THEN [memory[m] EXCEPT !.importance = rows[m].importance, !.consolidated = t]
    ELSE memory[m]]

-----------------------------------------------------------------------------
(* Runs *)

Job ==
  [pc : {"idle", "acquire", "list", "read", "write", "release"},
   time   : {Null} \cup (0..MaxTime),  \* evaluation time
   users  : SUBSET Users,              \* users still to be visited
   user   : Users \cup {"none"},
   cursor : {Null} \cup Ids,           \* last memory of the batch before
   rows   : [Ids -> Row],
   more   : BOOLEAN,                   \* the batch was full
   due    : [Ids -> Nat \cup {Null}],   \* versions of what was due when the run started
   ok     : BOOLEAN]                   \* the run has visited every user

NothingDue == [m \in Ids |-> Null]

NoJob == [pc |-> "idle", time |-> Null, users |-> {}, user |-> "none", cursor |-> Null,
          rows |-> NoRows, more |-> FALSE, due |-> NothingDue, ok |-> FALSE]

At(s, pc) == job[s].pc = pc

\* Mutant: the listener stores the time of the next fire.
NextFireHeard(s) ==
  /\ At(s, "idle")
  /\ heard < now
  /\ heard' = now + 1
  /\ job' = IF heard = Null
            THEN job
            ELSE [job EXCEPT ![s] = [NoJob EXCEPT !.pc = "acquire", !.time = heard]]
  /\ UNCHANGED <<memory, now, held>>

\* A new task copies the context before the listener of the submission event stores the
\* scheduled time: a run evaluates at the time of the fire before, and the first fire of
\* a process ends with an error.
Fire(s) ==
  /\ At(s, "idle")
  /\ heard < now
  /\ heard' = now
  /\ job' = IF heard = Null
            THEN job
            ELSE [job EXCEPT ![s] = [NoJob EXCEPT !.pc = "acquire", !.time = heard]]
  /\ UNCHANGED <<memory, now, held>>

\* Mutant: the mutex is released by every run that ends, a skipped one included.
ReleaseWhenSkipped(s) ==
  /\ At(s, "acquire")
  /\ IF held
     THEN held' = FALSE /\ job' = [job EXCEPT ![s] = NoJob]
     ELSE held' = TRUE /\ job' = [job EXCEPT ![s].pc = "list"]
  /\ UNCHANGED <<memory, now, heard>>

\* Mutant: nothing keeps two runs apart.
AcquireAnyway(s) ==
  /\ At(s, "acquire")
  /\ held' = TRUE
  /\ job' = [job EXCEPT ![s].pc = "list"]
  /\ UNCHANGED <<memory, now, heard>>

\* A run that finds the mutex held is skipped.
Acquire(s) ==
  /\ At(s, "acquire")
  /\ held' = TRUE
  /\ job' = [job EXCEPT ![s] = IF held THEN NoJob ELSE [@ EXCEPT !.pc = "list"]]
  /\ UNCHANGED <<memory, now, heard>>

\* The run j goes on with another batch of the user, with another user, or ends.
Advanced(j) ==
  IF j.more
  THEN {[j EXCEPT !.pc = "read", !.rows = NoRows]}
  ELSE IF j.users = {}
       THEN {[j EXCEPT !.pc = "release", !.rows = NoRows, !.ok = TRUE]}
       ELSE { [j EXCEPT !.pc = "read", !.rows = NoRows, !.cursor = Null,
                        !.user = u, !.users = @ \ {u}] : u \in j.users }

ListUsers(s) ==
  /\ At(s, "list")
  /\ LET t == job[s].time
         due == [m \in Ids |-> IF Due(m, t) THEN memory[m].version ELSE Null]
     IN \E j \in Advanced([job[s] EXCEPT !.users = UsersDue(t), !.due = due]) :
          job' = [job EXCEPT ![s] = j]
  /\ UNCHANGED <<memory, now, held, heard>>

\* Mutant: a batch is the last one unless it is longer than the batch size.
MoreIfLonger(s) ==
  /\ At(s, "read")
  /\ LET batch == Batch(job[s].user, job[s].time, job[s].cursor)
         read == [job[s] EXCEPT !.pc = "write", !.rows = ScoredRows(batch, job[s].time),
                                !.cursor = IF batch = {} THEN @ ELSE Max(batch),
                                !.more = Cardinality(batch) > BatchSize]
     IN \E j \in (IF read.rows = NoRows THEN Advanced(read) ELSE {read}) :
          job' = [job EXCEPT ![s] = j]
  /\ UNCHANGED <<memory, now, held, heard>>

\* A full batch is followed by another one.
ReadBatch(s) ==
  /\ At(s, "read")
  /\ LET batch == Batch(job[s].user, job[s].time, job[s].cursor)
         read == [job[s] EXCEPT !.pc = "write", !.rows = ScoredRows(batch, job[s].time),
                                !.cursor = IF batch = {} THEN @ ELSE Max(batch),
                                !.more = Cardinality(batch) = BatchSize]
     IN \E j \in (IF read.rows = NoRows THEN Advanced(read) ELSE {read}) :
          job' = [job EXCEPT ![s] = j]
  /\ UNCHANGED <<memory, now, held, heard>>

WriteBatch(s) ==
  /\ At(s, "write")
  /\ memory' = Written(job[s].rows, job[s].time)
  /\ \E j \in Advanced(job[s]) : job' = [job EXCEPT ![s] = j]
  /\ UNCHANGED <<now, held, heard>>

\* Mutant: a run that fails returns without passing the finally clause.
FailHoldingMutex(s) ==
  /\ job[s].pc \in {"list", "read", "write"}
  /\ job' = [job EXCEPT ![s] = NoJob]
  /\ memory' \in {memory, Written(job[s].rows, job[s].time)}
  /\ UNCHANGED <<now, held, heard>>

\* A query fails or times out, a write before or after it was done: the run ends here,
\* with what earlier batches have written.
FailRun(s) ==
  /\ job[s].pc \in {"list", "read", "write"}
  /\ job' = [job EXCEPT ![s].pc = "release", ![s].rows = NoRows]
  /\ memory' \in {memory, Written(job[s].rows, job[s].time)}
  /\ UNCHANGED <<now, held, heard>>

Release(s) ==
  /\ At(s, "release")
  /\ held' = FALSE
  /\ job' = [job EXCEPT ![s] = NoJob]
  /\ UNCHANGED <<memory, now, heard>>

\* The worker is shut down, waiting for a run no longer than its deadline, or dies; a
\* write that is under way may still be done.  A new process starts.
Restart ==
  /\ \E s \in Slots : ~At(s, "idle")
  /\ job' = [s \in Slots |-> NoJob]
  /\ held' = FALSE
  /\ heard' = Null
  /\ memory' \in {memory} \cup { Written(job[s].rows, job[s].time) : s \in Slots }
  /\ UNCHANGED now

-----------------------------------------------------------------------------
(* The rest of the system *)

\* What an extraction worker's transaction may make of a memory.
NewNodes ==
  { [user |-> user, status |-> "active", version |-> 1, subject |-> subject, link |-> NoLink,
     evidence |-> {e}, latest |-> latest, created |-> now, importance |-> BaseImportance,
     consolidated |-> Null] :
    user \in Users, subject \in SubjectIds, e \in Evidence, latest \in SourceTimes \cap 0..now }

\* A merge leaves the status, the others set it; recall finds no superseded memory.
NextStatus(node) ==
  IF node.status = "superseded" THEN {"superseded"} ELSE {node.status, "conflicted", "superseded"}

Changed(node, status, latest, more) ==
  [node EXCEPT !.version = @ + 1, !.status = status, !.latest = latest, !.evidence = @ \cup more]

ChangedNodes(node) ==
  { Changed(node, status, latest, more) :
    status \in NextStatus(node), latest \in SourceTimes \cap 0..now, more \in SUBSET Evidence }

OtherWriter(m) ==
  /\ m \in Touched
  /\ \E node \in IF Exists(m) THEN ChangedNodes(memory[m]) ELSE NewNodes :
       /\ node.version <= MaxVersion
       /\ memory' = [memory EXCEPT ![m] = node]
  /\ UNCHANGED <<now, held, heard, job>>

Tick ==
  /\ now < MaxTime
  /\ now' = now + 1
  /\ UNCHANGED <<memory, held, heard, job>>
-----------------------------------------------------------------------------

ConsolidationInit ==
  /\ memory = Initial
  /\ now = 0
  /\ held = FALSE
  /\ heard = Null
  /\ job = [s \in Slots |-> NoJob]

RunStep(s) ==
  \/ Acquire(s)
  \/ ListUsers(s)
  \/ ReadBatch(s)
  \/ WriteBatch(s)
  \/ FailRun(s)
  \/ Release(s)

ConsolidationNext ==
  \/ \E s \in Slots : Fire(s) \/ RunStep(s)
  \/ Restart
  \/ \E m \in Ids : OtherWriter(m)
  \/ Tick

ConsolidationSpec == ConsolidationInit /\ [][ConsolidationNext]_conVars

\* Every query has a timeout, so that every step of a run ends one way or the other.
ConsolidationFair == ConsolidationSpec /\ \A s \in Slots : WF_conVars(RunStep(s))

-----------------------------------------------------------------------------
(* Properties *)

Running(s) == job[s].pc \in {"list", "read", "write", "release"}

ConsolidationTypeOK ==
  /\ StoreTypeOK
  /\ held \in BOOLEAN
  /\ heard \in {Null} \cup (0..now)
  /\ job \in [Slots -> Job]
  /\ \A s \in Slots :
       /\ job[s].time <= now
       /\ job[s].pc \in {"acquire", "list", "read", "write"} => job[s].time # Null

\* The mutex: at most one run is under way, and the mutex is held as long as it is, also
\* when another run was skipped, failed or was cut off by a shutdown.
OneRunAtATime ==
  /\ \A s, t \in Slots : Running(s) /\ Running(t) => s = t
  /\ \A s \in Slots : Running(s) => held

\* A run that ends successfully has reached every memory that was due when it started:
\* the memory has been consolidated, or another writer has changed it since.  Paging over
\* nodes that change, appear and drop out of the query meanwhile loses none.
ScanComplete ==
  \A s \in Slots : At(s, "release") /\ job[s].ok =>
    \A m \in Ids : job[s].due[m] # Null =>
      memory[m].consolidated >= job[s].time \/ memory[m].version # job[s].due[m]

\* Whenever a memory is consolidated, its new importance is that of the memory as it is
\* at that moment, although it was computed from a row read earlier.
ImportanceFromCurrent ==
  [][\A m \in Memories :
       memory'[m].consolidated # memory[m].consolidated =>
         memory'[m].importance = NewImportance(Inputs(memory[m]), memory'[m].consolidated)]_conVars

\* A run always gives the mutex back.
MutexComesFree == held ~> ~held
=============================================================================
