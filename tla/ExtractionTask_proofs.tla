------------------------- MODULE ExtractionTask_proofs -------------------------
(***************************************************************************)
(* Theorems about ExtractionTask, for any number of archives, workers,     *)
(* admin requests, results and events.                                     *)
(***************************************************************************)
EXTENDS ExtractionTask, TLAPS

-----------------------------------------------------------------------------
(* What a worker's record becomes *)

\* The types of the event log and of the task documents.
StoresOK ==
  /\ log \in Seq(Archives)
  /\ committed \in 0..Len(log)
  /\ owner \in Workers \cup {Nobody}
  /\ task \in [Archives -> Task]
  /\ copies \in [Archives -> [Results -> Nat]]
  /\ indexed \in [Archives -> SUBSET Results]

\* The log only grows and no task document disappears.
Kept ==
  /\ \A i \in 1..Len(log) : i \in 1..Len(log') /\ log'[i] = log[i]
  /\ \A a \in Archives : Status(a) # "absent" => Status(a)' # "absent"

\* And the partition stays where it is.
Growing == Kept /\ owner' = owner

\* A new worker record is a worker record.
LEMMA NewWorkerType ==
  ASSUME NEW pc \in Step, NEW n \in Nat
  PROVE  NewWorker(pc, n) \in Worker
  BY DEF NewWorker, Worker, Result, NoResult, Error

\* The archive of a record in progress is an archive.
LEMMA ArcType ==
  ASSUME TypeOK, NEW w \in Workers, ~Idle(w)
  PROVE  Arc(w) \in Archives /\ wk[w].rec \in 1..Len(log) /\ Status(Arc(w)) # "absent"
  BY DEF TypeOK, Arc, HasRecord

\* The forms in which most actions change a worker's record: the step only,
LEMMA GoTo ==
  ASSUME TypeOK, NEW w \in Workers, NEW pc \in Step, Go(w, pc)
  PROVE  \E k \in Worker : /\ wk' = [wk EXCEPT ![w] = k] /\ k = [wk[w] EXCEPT !.pc = pc]
                           /\ k.pc = pc /\ k.rec = wk[w].rec /\ k.next = wk[w].next
<1> DEFINE k == [wk[w] EXCEPT !.pc = pc]
<1>1. wk \in [Workers -> Worker] /\ wk[w] \in Worker
  BY DEF TypeOK
<1>2. wk' = [wk EXCEPT ![w] = k]
  BY <1>1 DEF Go
<1>3. k \in Worker
  BY <1>1 DEF Worker
<1>4. k.pc = pc /\ k.rec = wk[w].rec /\ k.next = wk[w].next
  BY <1>1 DEF Worker
<1> QED  BY <1>2, <1>3, <1>4

\* the error of a failed stage with it,
LEMMA FailTo ==
  ASSUME TypeOK, NEW w \in Workers, NEW err \in Error, Fail(w, err)
  PROVE  \E k \in Worker : /\ wk' = [wk EXCEPT ![w] = k] /\ k.pc = "fail"
                           /\ k.rec = wk[w].rec /\ k.next = wk[w].next
<1> DEFINE k == [wk[w] EXCEPT !.pc = "fail", !.error = err]
<1>1. wk \in [Workers -> Worker] /\ wk[w] \in Worker
  BY DEF TypeOK
<1>2. wk' = [wk EXCEPT ![w] = k]
  BY <1>1 DEF Fail
<1>3. k \in Worker
  BY <1>1 DEF Worker, Step
<1>4. k.pc = "fail" /\ k.rec = wk[w].rec /\ k.next = wk[w].next
  BY <1>1 DEF Worker
<1> HIDE DEF k
<1> QED  BY <1>2, <1>3, <1>4

\* or the result the pipeline starts with.
LEMMA RunTo ==
  ASSUME TypeOK, NEW w \in Workers, NEW r \in Result, RunPipeline(w, r)
  PROVE  \E k \in Worker : /\ wk' = [wk EXCEPT ![w] = k] /\ k.pc = StageFor(r)
                           /\ k.rec = wk[w].rec /\ k.next = wk[w].next
<1> DEFINE k == [wk[w] EXCEPT !.pc = StageFor(r), !.result = r]
<1>1. wk \in [Workers -> Worker] /\ wk[w] \in Worker
  BY DEF TypeOK
<1>2. wk' = [wk EXCEPT ![w] = k]
  BY <1>1 DEF RunPipeline
<1>3. StageFor(r) \in Step
  BY DEF StageFor, Step
<1>4. k \in Worker
  BY <1>1, <1>3 DEF Worker
<1>5. k.pc = StageFor(r) /\ k.rec = wk[w].rec /\ k.next = wk[w].next
  BY <1>1 DEF Worker
<1> HIDE DEF k
<1> QED  BY <1>2, <1>4, <1>5

\* A worker that goes on with its record, or gives it up, keeps the types of all workers,
\* and of the record in progress: those of the others are where they were.
LEMMA WorkerMoves ==
  ASSUME TypeOK, StoresOK', Kept, UNCHANGED adm,
         NEW w \in Workers, NEW k \in Worker,
         wk' = [wk EXCEPT ![w] = k],
         owner' = w => k.next > 0, owner' \in {owner, w, Nobody},
         k.pc \notin {"down", "poll"} => k.rec = wk[w].rec /\ ~Idle(w)
  PROVE  TypeOK'
<1>1. wk' \in [Workers -> Worker]
  BY DEF TypeOK
<1>2. ASSUME NEW v \in Workers, ~Idle(v)'  PROVE HasRecord(v)'
  <2>1. wk'[v].rec = wk[v].rec /\ ~Idle(v)
    BY <1>2 DEF Idle, TypeOK
  <2>2. HasRecord(v) /\ Arc(v) \in Archives
    BY <2>1, ArcType DEF TypeOK
  <2>3. wk'[v].rec \in 1..Len(log') /\ Arc(v)' = Arc(v)
    BY <2>1, <2>2 DEF HasRecord, Kept, Arc
  <2> QED  BY <2>2, <2>3 DEF HasRecord, Kept, Status
<1>3. ASSUME NEW v \in Workers  PROVE Positioned(v)'
  BY ExtractionAssumption DEF TypeOK, Positioned
<1> QED  BY <1>1, <1>2, <1>3 DEF TypeOK, StoresOK

\* Usually the partition stays where it is and so does the worker's position.
LEMMA WorkerKeeps ==
  ASSUME TypeOK, StoresOK', Growing, UNCHANGED adm,
         NEW w \in Workers, NEW k \in Worker,
         wk' = [wk EXCEPT ![w] = k], k.next = wk[w].next,
         k.pc \notin {"down", "poll"} => k.rec = wk[w].rec /\ ~Idle(w)
  PROVE  TypeOK'
<1>1. owner' = owner /\ Kept /\ owner \in Workers \cup {Nobody} /\ (owner = w => k.next > 0)
  BY DEF Growing, TypeOK, Positioned
<1> QED  BY <1>1, WorkerMoves

\* The forms in which most actions change a worker: on to another step,
LEMMA GoKeeps ==
  ASSUME TypeOK, StoresOK', Growing, UNCHANGED adm,
         NEW w \in Workers, ~Idle(w), NEW pc \in Step, Go(w, pc)
  PROVE  TypeOK'
<1>1. PICK k \in Worker : /\ wk' = [wk EXCEPT ![w] = k]
                         /\ k.rec = wk[w].rec /\ k.next = wk[w].next
  BY GoTo
<1> QED  BY <1>1, WorkerKeeps

\* A stage that fails keeps its record for the terminal write.
LEMMA FailKeeps ==
  ASSUME TypeOK, StoresOK', Growing, UNCHANGED adm,
         NEW w \in Workers, ~Idle(w), NEW err \in Error, Fail(w, err)
  PROVE  TypeOK'
<1>1. PICK k \in Worker : /\ wk' = [wk EXCEPT ![w] = k]
                         /\ k.rec = wk[w].rec /\ k.next = wk[w].next
  BY FailTo
<1> QED  BY <1>1, WorkerKeeps

\* A run that is given up keeps the position.
LEMMA AbandonKeeps ==
  ASSUME TypeOK, StoresOK', Growing, UNCHANGED adm, NEW w \in Workers, Abandon(w)
  PROVE  TypeOK'
<1> DEFINE k == NewWorker("poll", wk[w].next)
<1>1. k \in Worker /\ k.pc = "poll" /\ k.next = wk[w].next
  <2>1. wk[w].next \in Nat  BY DEF TypeOK, Worker
  <2> QED  BY <2>1, NewWorkerType DEF Step, NewWorker
<1>2. wk' = [wk EXCEPT ![w] = k]
  BY DEF Abandon
<1> HIDE DEF k
<1> QED  BY <1>1, <1>2, WorkerKeeps

\* The pipeline starts where the stored result says.
LEMMA RunPipelineKeeps ==
  ASSUME TypeOK, StoresOK', Growing, UNCHANGED adm,
         NEW w \in Workers, ~Idle(w), NEW r \in Result, RunPipeline(w, r)
  PROVE  TypeOK'
<1>1. PICK k \in Worker : /\ wk' = [wk EXCEPT ![w] = k]
                         /\ k.rec = wk[w].rec /\ k.next = wk[w].next
  BY RunTo
<1> QED  BY <1>1, WorkerKeeps

\* A worker that stops leaves the group and forgets its record.
LEMMA StopKeeps ==
  ASSUME TypeOK, NEW w \in Workers, Stop(w), UNCHANGED <<task, graphVars, adm>>
  PROVE  TypeOK'
<1> DEFINE k == NewWorker("down", 0)
<1>1. k \in Worker /\ k.pc = "down"
  BY NewWorkerType DEF Step, NewWorker
<1>2. wk' = [wk EXCEPT ![w] = k]
  BY DEF Stop
<1>3. StoresOK' /\ Kept /\ owner' # w /\ owner' \in {owner, Nobody}
  BY ExtractionAssumption DEF Stop, TypeOK, StoresOK, Kept, Status, graphVars
<1> HIDE DEF k
<1> QED  BY <1>1, <1>2, <1>3, WorkerMoves

-----------------------------------------------------------------------------
(* What happens to the stores *)

\* Most steps leave log, tasks, graph and index alone.
LEMMA StoresStay ==
  ASSUME TypeOK, UNCHANGED <<groupVars, task, graphVars>>
  PROVE  StoresOK' /\ Growing
  BY DEF TypeOK, StoresOK, Growing, Kept, Status, groupVars, graphVars

\* A compare-and-set on the status of an existing task.
LEMMA MoveKeeps ==
  ASSUME TypeOK, NEW a \in Archives,
         NEW to \in {"pending", "processing", "completed", "failed"}, NEW err \in Error,
         Move(a, to, err), UNCHANGED <<groupVars, graphVars>>
  PROVE  StoresOK' /\ Growing
<1>1. task' \in [Archives -> Task]
  BY DEF Move, TypeOK, Task
<1>2. \A b \in Archives : Status(b) # "absent" => Status(b)' # "absent"
  BY DEF Move, TypeOK, Task, Status
<1> QED  BY <1>1, <1>2 DEF TypeOK, StoresOK, Growing, Kept, groupVars, graphVars

\* A document is written as a whole.
LEMMA WriteTaskKeeps ==
  ASSUME TypeOK, NEW a \in Archives, NEW t \in Task, t.status # "absent",
         task' = [task EXCEPT ![a] = t], UNCHANGED <<groupVars, graphVars>>
  PROVE  StoresOK' /\ Growing
<1>1. task' \in [Archives -> Task]
  BY DEF TypeOK
<1>2. \A b \in Archives : Status(b) # "absent" => Status(b)' # "absent"
  BY DEF TypeOK, Status
<1> QED  BY <1>1, <1>2 DEF TypeOK, StoresOK, Growing, Kept, groupVars, graphVars

\* An event is appended.
LEMMA AppendKeeps ==
  ASSUME TypeOK, NEW a \in Archives, log' = Append(log, a),
         UNCHANGED <<committed, owner, task, graphVars>>
  PROVE  StoresOK' /\ Growing
<1>1. log' \in Seq(Archives) /\ Len(log') = Len(log) + 1 /\ Len(log) \in Nat
  BY DEF TypeOK
<1>2. \A i \in 1..Len(log) : log'[i] = log[i]
  BY DEF TypeOK
<1> QED  BY <1>1, <1>2 DEF TypeOK, StoresOK, Growing, Kept, Status, graphVars

\* Workers whose program state stays keep their record.
LEMMA WorkersStay ==
  ASSUME TypeOK, StoresOK', Growing, UNCHANGED wk, adm' \in [Admins -> AdminState]
  PROVE  TypeOK'
<1>1. ASSUME NEW v \in Workers, ~Idle(v)'  PROVE HasRecord(v)'
  <2>1. HasRecord(v) /\ Arc(v) \in Archives
    BY <1>1, ArcType DEF TypeOK, Idle
  <2>2. wk'[v].rec \in 1..Len(log') /\ Arc(v)' = Arc(v)
    BY <2>1 DEF HasRecord, Growing, Kept, Arc
  <2> QED  BY <2>1, <2>2 DEF HasRecord, Growing, Kept, Status
<1>2. \A v \in Workers : Positioned(v)'
  BY DEF TypeOK, Growing, Positioned
<1> QED  BY <1>1, <1>2 DEF TypeOK, StoresOK

-----------------------------------------------------------------------------
(* Type correctness, action by action *)

\* Assignment, restart and crash.
LEMMA GroupKeeps ==
  ASSUME TypeOK, NEW w \in Workers, Group(w) \/ Crash(w)
  PROVE  TypeOK'
<1>1. CASE Assign(w)
  <2> DEFINE k == [wk[w] EXCEPT !.next = committed + 1]
  <2>0. committed + 1 \in Nat
    BY DEF TypeOK
  <2>1. wk' = [wk EXCEPT ![w] = k] /\ k \in Worker /\ k.rec = wk[w].rec /\ k.pc = wk[w].pc
    BY <1>1, <2>0 DEF Assign, TypeOK, Worker
  <2>2. StoresOK' /\ Kept /\ UNCHANGED adm /\ owner' = w
    BY <1>1 DEF Assign, TypeOK, StoresOK, Kept, Status, graphVars
  <2>3. k.next > 0
    BY <2>1 DEF TypeOK, Worker
  <2> HIDE DEF k
  <2> QED  BY <2>1, <2>2, <2>3, WorkerMoves DEF Idle
<1>2. CASE StartWorker(w)
  <2>1. PICK k \in Worker : wk' = [wk EXCEPT ![w] = k] /\ k.pc = "poll" /\ k.next = wk[w].next
    BY <1>2, GoTo DEF StartWorker, Step
  <2>2. StoresOK' /\ Growing /\ UNCHANGED adm
    BY <1>2, StoresStay DEF StartWorker
  <2> QED  BY <2>1, <2>2, WorkerKeeps
<1>3. CASE Crash(w)
  BY <1>3, StopKeeps DEF Crash
<1> QED  BY <1>1, <1>2, <1>3 DEF Group

\* The record Upsert takes is one of the log.
LEMMA NextRecord ==
  ASSUME TypeOK, NEW w \in Workers, Upsert(w)
  PROVE  wk[w].next \in 1..Len(log) /\ wk[w].next \in Nat /\ log[wk[w].next] \in Archives
<1>1. owner = w /\ wk[w].next <= Len(log)
  BY DEF Upsert
<1>2. wk[w] \in Worker
  BY DEF TypeOK
<1>3. PICK n \in Nat : n = wk[w].next
  BY <1>2 DEF Worker
<1>4. n > 0
  BY <1>1, <1>3 DEF TypeOK, Positioned
<1>5. n \in 1..Len(log)
  BY <1>1, <1>3, <1>4 DEF TypeOK
<1>6. log[n] \in Archives
  BY <1>5 DEF TypeOK
<1> QED  BY <1>3, <1>5, <1>6

\* Upsert takes the next record; afterwards its task exists.
LEMMA UpsertKeeps ==
  ASSUME TypeOK, NEW w \in Workers, Upsert(w)
  PROVE  TypeOK'
<1> DEFINE n == wk[w].next
           a == log[n]
           t == IF Status(a) = "absent" THEN NewTask ELSE task[a]
           k == [wk[w] EXCEPT !.pc = AfterUpsert(t.status), !.rec = n, !.next = n + 1]
<1>1. n \in 1..Len(log) /\ UNCHANGED <<groupVars, graphVars, adm>>
  <2>1. UNCHANGED <<groupVars, graphVars, adm>>
    BY Zenon DEF Upsert
  <2> QED  BY <2>1, NextRecord
<1>2. a \in Archives
  BY NextRecord
<1>3. t \in Task /\ t.status # "absent"
  BY <1>2 DEF TypeOK, Task, NewTask, Status, Result, NoResult, EmptyResult, Error
<1>4. task' = [task EXCEPT ![a] = t]
  BY DEF Upsert
<1>5. StoresOK' /\ Growing
  BY <1>1, <1>2, <1>3, <1>4, WriteTaskKeeps
<1>6. AfterUpsert(t.status) \in Step
  BY <1>3 DEF AfterUpsert, Task, Step
<1>7. wk' = [wk EXCEPT ![w] = k] /\ k \in Worker /\ k.rec = n
  <2>1. wk[w] \in Worker /\ n \in Nat /\ n + 1 \in Nat
    BY <1>1 DEF TypeOK
  <2>2. wk' = [wk EXCEPT ![w] = k]
    BY DEF Upsert
  <2> QED  BY <1>6, <2>1, <2>2 DEF Worker
<1>8. wk' \in [Workers -> Worker] /\ wk'[w].rec = n /\ \A v \in Workers \ {w} : wk'[v] = wk[v]
  <2> HIDE DEF k
  <2> QED  BY <1>7 DEF TypeOK
<1>9. task'[a].status # "absent"
  <2> HIDE DEF t
  <2> QED  BY <1>2, <1>3, <1>4 DEF TypeOK
<1>10. ASSUME NEW v \in Workers, ~Idle(v)'  PROVE HasRecord(v)'
  <2>1. log' = log
    BY <1>1 DEF groupVars
  <2>2. CASE v = w
    BY <1>1, <1>8, <1>9, <2>1, <2>2 DEF HasRecord, Arc, Status
  <2>3. CASE v # w
    <3>1. ~Idle(v) /\ wk'[v] = wk[v]
      BY <1>8, <1>10, <2>3 DEF Idle
    <3>2. HasRecord(v) /\ Arc(v) \in Archives
      BY <3>1, ArcType DEF TypeOK
    <3> QED  BY <1>5, <2>1, <3>1, <3>2 DEF HasRecord, Arc, Growing, Kept, Status
  <2> QED  BY <2>2, <2>3
<1>11. \A v \in Workers : Positioned(v)'
  <2>1. n + 1 > 0 /\ wk'[w].next = n + 1 /\ owner' = owner
    BY <1>1, <1>7 DEF TypeOK, groupVars
  <2> QED  BY <1>8, <2>1 DEF Positioned, TypeOK
<1> HIDE DEF k, t
<1> QED  BY <1>1, <1>5, <1>8, <1>10, <1>11 DEF TypeOK, StoresOK

\* A pending task is taken, or has been.
LEMMA StartKeeps ==
  ASSUME TypeOK, NEW w \in Workers, MarkProcessing(w) \/ Reload(w) \/ BumpAttempt(w) \/ ReloadResumed(w)
  PROVE  TypeOK'
<1>1. ~Idle(w)
  BY DEF MarkProcessing, Reload, BumpAttempt, ReloadResumed, At, Idle
<1>2. Arc(w) \in Archives /\ task[Arc(w)].result \in Result /\ wk[w].result \in Result
  BY <1>1, ArcType DEF TypeOK, Task, Worker
<1>3. {"restart", "reresume", "rebump", "commit"} \subseteq Step
  BY DEF Step
<1>4. CASE MarkProcessing(w)
  <2>1. CASE Status(Arc(w)) = "pending"
    <3>1. StoresOK' /\ Growing
      BY <1>2, <1>4, <2>1, MoveKeeps DEF MarkProcessing, Error
    <3> QED  BY <1>1, <1>2, <1>4, <2>1, <3>1, RunPipelineKeeps DEF MarkProcessing
  <2>2. CASE Status(Arc(w)) # "pending"
    BY <1>1, <1>3, <1>4, <2>2, StoresStay, GoKeeps DEF MarkProcessing
  <2> QED  BY <2>1, <2>2
<1>5. CASE Reload(w)
  <2>1. CASE Ended(Arc(w))
    <3>1. Go(w, "commit") /\ UNCHANGED <<groupVars, task, graphVars, adm>>
      BY <1>5, <2>1 DEF Reload, Ended
    <3> QED  BY <1>1, <1>3, <3>1, StoresStay, GoKeeps
  <2>2. CASE Status(Arc(w)) = "processing"
    <3> DEFINE k == [wk[w] EXCEPT !.pc = "rebump", !.result = task[Arc(w)].result]
    <3>1. wk' = [wk EXCEPT ![w] = k] /\ UNCHANGED <<groupVars, task, graphVars, adm>>
      BY <1>5, <2>2 DEF Reload, Ended, TypeOK
    <3>2. k \in Worker /\ k.rec = wk[w].rec /\ k.next = wk[w].next
      BY <1>2, <1>3 DEF TypeOK, Worker
    <3> HIDE DEF k
    <3> QED  BY <1>1, <3>1, <3>2, StoresStay, WorkerKeeps
  <2>3. CASE ~Ended(Arc(w)) /\ Status(Arc(w)) # "processing"
    BY <1>5, <2>3, StopKeeps DEF Reload
  <2> QED  BY <2>1, <2>2, <2>3
<1>6. CASE BumpAttempt(w)
  <2>1. StoresOK' /\ Growing /\ UNCHANGED adm
    BY <1>6, StoresStay DEF BumpAttempt
  <2>2. \/ RunPipeline(w, task[Arc(w)].result)
        \/ RunPipeline(w, wk[w].result)
        \/ Go(w, "reresume")
    BY <1>6 DEF BumpAttempt
  <2> QED  BY <1>1, <1>2, <1>3, <2>1, <2>2, RunPipelineKeeps, GoKeeps
<1>7. CASE ReloadResumed(w)
  <2>1. StoresOK' /\ Growing /\ UNCHANGED adm
    BY <1>7, StoresStay DEF ReloadResumed
  <2>2. Go(w, "commit") \/ RunPipeline(w, task[Arc(w)].result)
    BY <1>7 DEF ReloadResumed
  <2> QED  BY <1>1, <1>2, <1>3, <2>1, <2>2, RunPipelineKeeps, GoKeeps
<1> QED  BY <1>4, <1>5, <1>6, <1>7

\* The stages up to the reconciliation.
LEMMA PlanningKeeps ==
  ASSUME TypeOK, NEW w \in Workers,
         \/ Prepare(w) \/ AskAgain(w) \/ Extract(w) \/ ExtractFails(w)
         \/ Handoff(w) \/ Align(w) \/ Reconcile(w)
  PROVE  TypeOK'
<1>1. ~Idle(w) /\ UNCHANGED <<groupVars, graphVars, adm>>
  BY DEF Prepare, AskAgain, Asked, Extract, ExtractFails, Handoff, Align, Reconcile, At, Idle
<1>2. Arc(w) \in Archives /\ task[Arc(w)] \in Task /\ wk[w] \in Worker
  BY <1>1, ArcType DEF TypeOK
<1>3. CASE Extract(w)
  <2>1. PICK r \in Results \cup {EmptyResult} :
          IF Status(Arc(w)) = "processing"
          THEN /\ task' = [task EXCEPT ![Arc(w)].result = r]
               /\ Go(w, "complete") \/ Go(w, "handoff") \/ Abandon(w)
          ELSE Abandon(w) /\ UNCHANGED task
    BY <1>3 DEF Extract
  <2>2. CASE Status(Arc(w)) = "processing"
    <3> DEFINE t == [task[Arc(w)] EXCEPT !.result = r]
    <3>1. t \in Task /\ t.status # "absent" /\ task' = [task EXCEPT ![Arc(w)] = t]
      BY <1>2, <2>1, <2>2 DEF Task, Result, Status, TypeOK
    <3>2. StoresOK' /\ Growing
      <4> HIDE DEF t
      <4> QED  BY <1>1, <1>2, <3>1, WriteTaskKeeps
    <3>3. "complete" \in Step /\ "handoff" \in Step
      BY DEF Step
    <3> QED  BY <1>1, <2>1, <2>2, <3>2, <3>3, GoKeeps, AbandonKeeps
  <2>3. CASE Status(Arc(w)) # "processing"
    BY <1>1, <2>1, <2>3, StoresStay, AbandonKeeps
  <2> QED  BY <2>2, <2>3
<1>4. ASSUME UNCHANGED task  PROVE StoresOK' /\ Growing
  BY <1>1, <1>4, StoresStay
<1>5. CASE Prepare(w) \/ AskAgain(w) \/ ExtractFails(w)
  <2>1. StoresOK' /\ Growing
    BY <1>4, <1>5 DEF Prepare, AskAgain, ExtractFails
  <2>2. \/ \E pc \in {"llm", "correct"} : Go(w, pc)
        \/ \E err \in {"retry", "permanent"} : Fail(w, err)
        \/ Abandon(w)
    BY <1>5 DEF Prepare, AskAgain, ExtractFails
  <2>3. {"retry", "permanent"} \subseteq Error /\ {"llm", "correct"} \subseteq Step
    BY DEF Error, Step
  <2> QED  BY <1>1, <2>1, <2>2, <2>3, GoKeeps, FailKeeps, AbandonKeeps
<1>6. CASE Handoff(w)
  <2>1. StoresOK' /\ Growing
    BY <1>4, <1>6 DEF Handoff
  <2>2. Abandon(w) \/ RunPipeline(w, task[Arc(w)].result)
    BY <1>6 DEF Handoff
  <2>3. task[Arc(w)].result \in Result
    BY <1>2 DEF Task
  <2> QED  BY <1>1, <2>1, <2>2, <2>3, RunPipelineKeeps, AbandonKeeps
<1>7. CASE Align(w)
  <2> DEFINE k == [wk[w] EXCEPT !.pc = "reconcile", !.aligned = task[Arc(w)].result]
  <2>1. StoresOK' /\ Growing
    BY <1>4, <1>7 DEF Align
  <2>2. wk' = [wk EXCEPT ![w] = k] \/ Fail(w, "retry") \/ Abandon(w)
    BY <1>7 DEF Align, TypeOK
  <2>3. k \in Worker /\ k.rec = wk[w].rec /\ k.next = wk[w].next
    BY <1>2 DEF Worker, Step, Task
  <2>4. "retry" \in Error
    BY DEF Error
  <2> HIDE DEF k
  <2> QED  BY <1>1, <2>1, <2>2, <2>3, <2>4, WorkerKeeps, FailKeeps, AbandonKeeps
<1>8. CASE Reconcile(w)
  <2> DEFINE r == task[Arc(w)].result
             k(p) == [wk[w] EXCEPT !.pc = "graph", !.plan = p]
  <2>1. StoresOK' /\ Growing
    BY <1>4, <1>8 DEF Reconcile
  <2>2. \/ Runs(Arc(w)) /\ \E p \in Planned(Arc(w), r) : wk' = [wk EXCEPT ![w] = k(p)]
        \/ \E err \in {"retry", "conflict"} : Fail(w, err)
        \/ Abandon(w)
    BY <1>8 DEF Reconcile, TypeOK
  <2>3. ASSUME NEW p \in Planned(Arc(w), r), Runs(Arc(w)), wk' = [wk EXCEPT ![w] = k(p)]
        PROVE  TypeOK'
    <3>1. r # NoResult /\ r \in Result
      BY <1>2, <2>3 DEF Runs, Task
    <3>2. p \in Results \cup {NoResult}
      BY <2>3, <3>1 DEF Planned, Result
    <3>3. k(p) \in Worker /\ k(p).rec = wk[w].rec /\ k(p).next = wk[w].next
      BY <1>2, <3>2 DEF Worker, Step
    <3> HIDE DEF k
    <3> QED  BY <1>1, <2>1, <2>3, <3>3, WorkerKeeps
  <2>4. {"retry", "conflict"} \subseteq Error
    BY DEF Error
  <2> HIDE DEF k
  <2> QED  BY <1>1, <2>1, <2>2, <2>3, <2>4, FailKeeps, AbandonKeeps
<1> QED  BY <1>3, <1>5, <1>6, <1>7, <1>8

\* Graph write, repair and index sync.
LEMMA WritingKeeps ==
  ASSUME TypeOK, NEW w \in Workers,
         \/ PrepareWrite(w) \/ WriteGraph(w) \/ WriteFails(w) \/ Repair(w)
         \/ Sync(w) \/ WriteIndex(w) \/ IndexFails(w)
  PROVE  TypeOK'
<1> DEFINE a == Arc(w)
           p == wk[w].plan
           k(x) == [wk[w] EXCEPT !.pc = "sync", !.seeds = x]
<1>1. ~Idle(w) /\ UNCHANGED <<task, adm>>
  BY DEF PrepareWrite, WriteGraph, WriteFails, Repair, Sync, WriteIndex, IndexFails, At, Idle
<1>2. a \in Archives /\ wk[w] \in Worker
  BY <1>1, ArcType DEF TypeOK
<1>3. p \in Results \cup {NoResult} /\ wk[w].seeds \subseteq Results
  BY <1>2 DEF Worker
<1>4. {"write", "repair", "complete", "index", "done", "undo"} \subseteq Step
  BY DEF Step
<1>5. {"retry", "permanent"} \subseteq Error
  BY DEF Error
<1>6. ASSUME NEW x \in SUBSET Results, StoresOK', Growing, wk' = [wk EXCEPT ![w] = k(x)]
      PROVE  TypeOK'
  <2>1. k(x) \in Worker /\ k(x).rec = wk[w].rec /\ k(x).next = wk[w].next
    BY <1>2, <1>6 DEF Worker, Step
  <2> HIDE DEF k
  <2> QED  BY <1>1, <1>6, <2>1, WorkerKeeps
<1>7. ASSUME UNCHANGED <<groupVars, graphVars>>  PROVE StoresOK' /\ Growing
  BY <1>1, <1>7, StoresStay
<1>8. CASE PrepareWrite(w)
  <2>1. \/ Stop(w) /\ UNCHANGED <<task, graphVars, adm>>
        \/ /\ UNCHANGED <<groupVars, graphVars>>
           /\ \/ Abandon(w) \/ Go(w, "write")
              \/ \E err \in {"retry", "permanent"} : Fail(w, err)
              \/ p \in Written(a) /\ wk' = [wk EXCEPT ![w] = k({p})]
    BY <1>8 DEF PrepareWrite, TypeOK
  <2>2. p \in Written(a) => {p} \in SUBSET Results
    BY DEF Written
  <2> HIDE DEF k
  <2> QED  BY <1>1, <1>4, <1>5, <1>6, <1>7, <2>1, <2>2, StopKeeps, AbandonKeeps, GoKeeps, FailKeeps
<1>9. CASE WriteGraph(w)
  <2>1. copies' = Created(a, p) /\ UNCHANGED <<groupVars, task, indexed, adm>>
    BY <1>9 DEF WriteGraph
  <2>2. copies' \in [Archives -> [Results -> Nat]]
    <3>1. CASE p = NoResult
      BY <2>1, <3>1 DEF Created, TypeOK
    <3>2. CASE p # NoResult
      BY <1>2, <1>3, <2>1, <3>2 DEF Created, TypeOK
    <3> QED  BY <3>1, <3>2
  <2>3. StoresOK' /\ Growing
    BY <2>1, <2>2 DEF TypeOK, StoresOK, Growing, Kept, Status, groupVars
  <2>4. \/ Go(w, "repair") \/ Fail(w, "retry")
        \/ p # NoResult /\ wk' = [wk EXCEPT ![w] = k({p})]
    BY <1>9 DEF WriteGraph, Go, TypeOK
  <2>5. p # NoResult => {p} \in SUBSET Results
    BY <1>3
  <2> HIDE DEF k
  <2> QED  BY <1>1, <1>4, <1>5, <1>6, <2>3, <2>4, <2>5, GoKeeps, FailKeeps
<1>10. CASE WriteFails(w)
  BY <1>1, <1>5, <1>7, <1>10, FailKeeps DEF WriteFails
<1>11. CASE Repair(w)
  <2>1. Abandon(w) \/ wk' = [wk EXCEPT ![w] = k(Written(a))]
    BY <1>11 DEF Repair, TypeOK
  <2>2. Written(a) \in SUBSET Results /\ StoresOK' /\ Growing
    BY <1>7, <1>11 DEF Written, Repair
  <2> HIDE DEF k
  <2> QED  BY <1>1, <1>6, <2>1, <2>2, AbandonKeeps
<1>12. CASE Sync(w)
  <2>1. Go(w, "complete") \/ Go(w, "index") \/ Abandon(w)
    BY <1>12 DEF Sync
  <2> QED  BY <1>1, <1>4, <1>7, <1>12, <2>1, GoKeeps, AbandonKeeps DEF Sync
<1>13. CASE WriteIndex(w)
  <2>1. /\ indexed' = [indexed EXCEPT ![a] = @ \cup wk[w].seeds]
        /\ Go(w, "done") /\ UNCHANGED <<groupVars, task, copies, adm>>
    BY <1>13 DEF WriteIndex
  <2>2. indexed' \in [Archives -> SUBSET Results]
    BY <1>2, <1>3, <2>1 DEF TypeOK
  <2>3. StoresOK' /\ Growing
    BY <2>1, <2>2 DEF TypeOK, StoresOK, Growing, Kept, Status, groupVars
  <2> QED  BY <1>1, <1>4, <2>1, <2>3, GoKeeps
<1>14. CASE IndexFails(w)
  BY <1>1, <1>4, <1>7, <1>14, GoKeeps DEF IndexFails
<1> QED  BY <1>8, <1>9, <1>10, <1>11, <1>12, <1>13, <1>14

\* The terminal writes and the commit.
LEMMA EndingKeeps ==
  ASSUME TypeOK, NEW w \in Workers,
         MarkIndexed(w) \/ FailTask(w) \/ CheckEnd(w) \/ MarkEnd(w) \/ Commit(w)
  PROVE  TypeOK'
<1>1. ~Idle(w) /\ UNCHANGED <<graphVars, adm>>
  BY DEF MarkIndexed, FailTask, CheckEnd, MarkEnd, Commit, At, Idle
<1>2. Arc(w) \in Archives /\ wk[w] \in Worker /\ wk[w].rec \in 1..Len(log)
  BY <1>1, ArcType DEF TypeOK
<1>3. {"complete", "undo", "commit", "completing", "failing"} \subseteq Step
  BY DEF Step
<1>4. {"none", "retry"} \subseteq Error /\ wk[w].error \in Error
  BY <1>2 DEF Error, Worker
<1>5. ASSUME UNCHANGED <<groupVars, task>>  PROVE StoresOK' /\ Growing
  BY <1>1, <1>5, StoresStay
<1>6. ASSUME NEW to \in {"completed", "failed"}, NEW err \in Error, Move(Arc(w), to, err),
             UNCHANGED groupVars
      PROVE  StoresOK' /\ Growing
  BY <1>1, <1>2, <1>6, MoveKeeps
<1>7. CASE MarkIndexed(w)
  <2>1. StoresOK' /\ Growing
    <3>1. Move(Arc(w), "completed", "none") \/ UNCHANGED task
      BY <1>7 DEF MarkIndexed
    <3> QED  BY <1>4, <1>5, <1>6, <1>7, <3>1 DEF MarkIndexed
  <2>2. Go(w, "complete") \/ Go(w, "undo")
    BY <1>7 DEF MarkIndexed
  <2> QED  BY <1>1, <1>3, <2>1, <2>2, GoKeeps
<1>8. CASE FailTask(w)
  <2>1. StoresOK' /\ Growing
    BY <1>4, <1>5, <1>6, <1>8 DEF FailTask
  <2>2. Fail(w, "retry") \/ Abandon(w)
    BY <1>8 DEF FailTask
  <2> QED  BY <1>1, <1>4, <2>1, <2>2, FailKeeps, AbandonKeeps
<1>9. CASE CheckEnd(w)
  <2>1. Go(w, "commit") \/ Go(w, "completing") \/ Go(w, "failing")
    BY <1>9 DEF CheckEnd
  <2> QED  BY <1>1, <1>3, <1>5, <1>9, <2>1, GoKeeps DEF CheckEnd
<1>10. CASE MarkEnd(w)
  <2>1. CASE Status(Arc(w)) = "processing"
    <3>1. StoresOK' /\ Growing
      BY <1>4, <1>6, <1>10, <2>1 DEF MarkEnd
    <3> QED  BY <1>1, <1>3, <1>10, <2>1, <3>1, GoKeeps DEF MarkEnd
  <2>2. CASE Status(Arc(w)) # "processing"
    BY <1>1, <1>10, <2>2, StopKeeps DEF MarkEnd
  <2> QED  BY <2>1, <2>2
<1>11. CASE Commit(w)
  <2>1. CASE owner = w
    <3>1. committed' = wk[w].rec /\ Abandon(w) /\ UNCHANGED <<log, owner, task>>
      BY <1>11, <2>1 DEF Commit
    <3>2. StoresOK' /\ Growing
      BY <1>1, <1>2, <3>1 DEF TypeOK, StoresOK, Growing, Kept, Status, graphVars
    <3> QED  BY <1>1, <3>1, <3>2, AbandonKeeps
  <2>2. CASE owner # w
    BY <1>1, <1>11, <2>2, StopKeeps DEF Commit
  <2> QED  BY <2>1, <2>2
<1> QED  BY <1>7, <1>8, <1>9, <1>10, <1>11

\* Events and admin requests.
LEMMA AdminKeeps ==
  ASSUME TypeOK, (\E a \in Archives : Publish(a)) \/ \E x \in Admins : Admin(x)
  PROVE  TypeOK'
<1>1. CASE \E a \in Archives : Publish(a)
  <2>1. PICK a \in Archives : Publish(a)
    BY <1>1
  <2>2. UNCHANGED adm /\ adm \in [Admins -> AdminState]
    BY <2>1 DEF Publish, TypeOK
  <2> QED  BY <2>1, <2>2, AppendKeeps, WorkersStay DEF Publish
<1>2. CASE \E x \in Admins : Admin(x)
  <2> PICK x \in Admins : Admin(x)
    BY <1>2
  <2>1. adm[x] \in AdminState
    BY DEF TypeOK
  <2>2. UNCHANGED <<wk, graphVars>>
    BY DEF Admin, AdminRead, AdminReset, AdminPublish, AdminRevert, AdminCrash
  <2>3. [pc |-> "idle"] \in AdminState
    BY DEF AdminState
  <2>4. adm[x].pc # "idle" => adm[x].archive \in Archives /\ adm[x].clear \in BOOLEAN
    BY <2>1 DEF AdminState
  <2>5. adm[x].pc # "idle" =>
          \A pc \in {"publish", "revert"} : [adm[x] EXCEPT !.pc = pc] \in AdminState
    BY <2>1 DEF AdminState
  <2>6. CASE AdminRead(x)
    <3>1. adm' \in [Admins -> AdminState] /\ UNCHANGED <<groupVars, task>>
      BY <2>6 DEF AdminRead, AdminState, TypeOK
    <3> QED  BY <2>2, <3>1, StoresStay, WorkersStay
  <2>7. CASE AdminReset(x)
    <3>1. adm' \in [Admins -> AdminState] /\ UNCHANGED groupVars
      BY <2>3, <2>5, <2>7 DEF AdminReset, TypeOK
    <3>2. CASE Status(adm[x].archive) = "failed"
      <4> DEFINE a == adm[x].archive
                 t == [NewTask EXCEPT !.result = IF adm[x].clear THEN NoResult ELSE task[a].result]
      <4>1. a \in Archives /\ task' = [task EXCEPT ![a] = t]
        BY <2>4, <2>7, <3>2 DEF AdminReset, Reset
      <4>2. t \in Task /\ t.status # "absent"
        BY <4>1 DEF TypeOK, Task, NewTask, Result, Error
      <4> HIDE DEF t
      <4> QED  BY <2>2, <3>1, <4>1, <4>2, WriteTaskKeeps, WorkersStay
    <3>3. CASE Status(adm[x].archive) # "failed"
      BY <2>2, <2>7, <3>1, <3>3, StoresStay, WorkersStay DEF AdminReset
    <3> QED  BY <3>2, <3>3
  <2>8. CASE AdminPublish(x)
    <3>1. adm' \in [Admins -> AdminState] /\ UNCHANGED <<committed, owner, task, graphVars, wk>>
      BY <2>3, <2>5, <2>8 DEF AdminPublish, TypeOK
    <3>2. log' = Append(log, adm[x].archive) \/ UNCHANGED log
      BY <2>8 DEF AdminPublish
    <3>3. adm[x].archive \in Archives
      BY <2>4, <2>8 DEF AdminPublish
    <3>4. CASE log' = Append(log, adm[x].archive)
      BY <3>1, <3>3, <3>4, AppendKeeps, WorkersStay
    <3>5. CASE UNCHANGED log
      BY <3>1, <3>5, StoresStay, WorkersStay DEF groupVars
    <3> QED  BY <3>2, <3>4, <3>5
  <2>9. CASE AdminRevert(x)
    <3>1. adm' \in [Admins -> AdminState] /\ UNCHANGED groupVars
      BY <2>3, <2>9 DEF AdminRevert, TypeOK
    <3>2. StoresOK' /\ Growing
      <4>1. UNCHANGED task \/ Move(adm[x].archive, "failed", "kafka")
        BY <2>9 DEF AdminRevert, MarkUnpublished
      <4>2. adm[x].archive \in Archives /\ "kafka" \in Error
        BY <2>4, <2>9 DEF AdminRevert, Error
      <4> QED  BY <2>2, <3>1, <4>1, <4>2, StoresStay, MoveKeeps
    <3> QED  BY <2>2, <3>1, <3>2, WorkersStay
  <2>10. CASE AdminCrash(x)
    <3>1. adm' \in [Admins -> AdminState] /\ UNCHANGED <<groupVars, task>>
      BY <2>3, <2>10 DEF AdminCrash, TypeOK
    <3> QED  BY <2>2, <3>1, StoresStay, WorkersStay
  <2> QED  BY <2>6, <2>7, <2>8, <2>9, <2>10 DEF Admin
<1> QED  BY <1>1, <1>2

-----------------------------------------------------------------------------
(* The theorems *)

\* The initial state has the types.
LEMMA InitTypeOK == Init => TypeOK
<1> SUFFICES ASSUME Init  PROVE TypeOK
  OBVIOUS
<1>1. log \in Seq(Archives) /\ committed \in 0..Len(log) /\ owner \in Workers \cup {Nobody}
  BY DEF Init
<1>2. task \in [Archives -> Task]
  BY DEF Init, Task, NoTask, Result, Error
<1>3. copies \in [Archives -> [Results -> Nat]] /\ indexed \in [Archives -> SUBSET Results]
  BY DEF Init
<1>4. wk \in [Workers -> Worker] /\ \A w \in Workers : Idle(w)
  <2>1. NewWorker("poll", 0) \in Worker
    BY NewWorkerType DEF Step
  <2> QED  BY <2>1 DEF Init, Idle, NewWorker
<1>5. \A w \in Workers : Positioned(w)
  BY ExtractionAssumption DEF Init, Positioned
<1>6. adm \in [Admins -> AdminState]
  BY DEF Init, AdminState
<1> QED  BY <1>1, <1>2, <1>3, <1>4, <1>5, <1>6 DEF TypeOK

\* TypeOK is inductive.
LEMMA StepTypeOK == TypeOK /\ [Next]_vars => TypeOK'
<1> SUFFICES ASSUME TypeOK, [Next]_vars  PROVE TypeOK'
  OBVIOUS
<1>1. CASE UNCHANGED vars
  <2>1. StoresOK' /\ Growing /\ adm' \in [Admins -> AdminState] /\ UNCHANGED wk
    BY <1>1, StoresStay DEF vars, TypeOK, groupVars, graphVars
  <2> QED  BY <2>1, WorkersStay
<1>2. CASE \E w \in Workers : Group(w) \/ Crash(w)
  BY <1>2, GroupKeeps
<1>3. ASSUME NEW w \in Workers, Work(w)  PROVE TypeOK'
  BY <1>3, UpsertKeeps, StartKeeps, PlanningKeeps, WritingKeeps, EndingKeeps DEF Work
<1>4. CASE (\E a \in Archives : Publish(a)) \/ \E x \in Admins : Admin(x)
  BY <1>4, AdminKeeps
<1> QED  BY <1>1, <1>2, <1>3, <1>4 DEF Next

\* Type correctness, with what the actions rely on: a worker that is at a record of the
\* log works for a task that exists, and the owner of the partition has a position in it.
THEOREM TypeCorrect == Spec => []TypeOK
<1>1. Init => TypeOK
  BY InitTypeOK
<1>2. TypeOK /\ [Next]_vars => TypeOK'
  BY StepTypeOK
<1> QED  BY <1>1, <1>2, PTL DEF Spec

\* No step changes a completed task.
Final == \A a \in Archives : Status(a) = "completed" => task'[a] = task[a]

\* Each compare-and-set names the statuses it starts from.
LEMMA MoveFinal ==
  ASSUME TypeOK, NEW b \in Archives, Status(b) # "completed",
         NEW to, NEW err, Move(b, to, err)
  PROVE  Final
  BY DEF TypeOK, Move, Final, Status

\* As MoveFinal, for documents written as a whole.
LEMMA WriteTaskFinal ==
  ASSUME TypeOK, NEW b \in Archives, Status(b) # "completed", NEW t,
         task' = [task EXCEPT ![b] = t]
  PROVE  Final
  BY DEF TypeOK, Final, Status

\* No action changes a completed task.
LEMMA StepFinal == TypeOK /\ [Next]_vars => Final
<1> SUFFICES ASSUME TypeOK, [Next]_vars  PROVE Final
  OBVIOUS
<1>1. ASSUME UNCHANGED task  PROVE Final
  BY <1>1 DEF Final
<1>2. ASSUME NEW w \in Workers, Work(w)  PROVE Final
  <2>1. CASE Upsert(w)
    <3> DEFINE a == log[wk[w].next]
    <3>2. a \in Archives
      BY <2>1, NextRecord
    <3>3. task' = [task EXCEPT ![a] = IF Status(a) = "absent" THEN NewTask ELSE task[a]]
      BY <2>1 DEF Upsert
    <3> HIDE DEF a
    <3>4. CASE Status(a) = "absent"
      BY <3>2, <3>3, <3>4, WriteTaskFinal
    <3>5. CASE Status(a) # "absent"
      BY <3>3, <3>5 DEF TypeOK, Final
    <3> QED  BY <3>4, <3>5
  <2>2. CASE MarkProcessing(w) \/ MarkIndexed(w) \/ FailTask(w) \/ MarkEnd(w)
    <3>1. ~Idle(w)
      BY <2>2 DEF MarkProcessing, MarkIndexed, FailTask, MarkEnd, At, Idle
    <3>2. Arc(w) \in Archives
      BY <3>1, ArcType
    <3>3. UNCHANGED task \/ /\ Status(Arc(w)) \in {"pending", "processing"}
                            /\ \E to \in {"processing", "completed", "failed"}, err \in {"none", "retry", wk[w].error} :
                                 Move(Arc(w), to, err)
      BY <2>2 DEF MarkProcessing, MarkIndexed, FailTask, MarkEnd
    <3>4. ASSUME Status(Arc(w)) \in {"pending", "processing"}, NEW to, NEW err, Move(Arc(w), to, err)
          PROVE  Final
      BY <3>2, <3>4, MoveFinal
    <3> QED  BY <1>1, <3>3, <3>4
  <2>3. CASE Extract(w)
    <3>1. Arc(w) \in Archives
      BY <2>3, ArcType DEF Extract, Asked, Idle
    <3>2. UNCHANGED task \/ /\ Status(Arc(w)) = "processing"
                            /\ \E r \in Results \cup {EmptyResult} :
                                 task' = [task EXCEPT ![Arc(w)].result = r]
      BY <2>3 DEF Extract
    <3>3. CASE Status(Arc(w)) = "processing" /\ \E r \in Results \cup {EmptyResult} :
                 task' = [task EXCEPT ![Arc(w)].result = r]
      BY <3>1, <3>3 DEF TypeOK, Final, Status
    <3> QED  BY <1>1, <3>2, <3>3
  <2>4. CASE Reload(w) \/ BumpAttempt(w) \/ ReloadResumed(w) \/ Prepare(w) \/ AskAgain(w)
             \/ ExtractFails(w) \/ Handoff(w) \/ Align(w) \/ Reconcile(w) \/ PrepareWrite(w)
    BY <1>1, <2>4 DEF Reload, BumpAttempt, ReloadResumed, Prepare, AskAgain, ExtractFails, Handoff,
       Align, Reconcile, PrepareWrite
  <2>5. CASE WriteGraph(w) \/ WriteFails(w) \/ Repair(w) \/ Sync(w) \/ WriteIndex(w)
             \/ IndexFails(w) \/ CheckEnd(w) \/ Commit(w)
    BY <1>1, <2>5 DEF WriteGraph, WriteFails, Repair, Sync, WriteIndex, IndexFails, CheckEnd, Commit
  <2> QED  BY <1>2, <2>1, <2>2, <2>3, <2>4, <2>5 DEF Work
<1>3. ASSUME NEW w \in Workers, Group(w) \/ Crash(w)  PROVE Final
  BY <1>1, <1>3 DEF Group, Assign, StartWorker, Crash
<1>4. ASSUME NEW a \in Archives, Publish(a)  PROVE Final
  BY <1>1, <1>4 DEF Publish
<1>5. ASSUME NEW x \in Admins, Admin(x)  PROVE Final
  <2> DEFINE a == adm[x].archive
  <2>1. adm[x].pc # "idle" => a \in Archives
    BY DEF TypeOK, AdminState
  <2>2. CASE AdminReset(x)
    <3> DEFINE t == [NewTask EXCEPT !.result = IF adm[x].clear THEN NoResult ELSE task[a].result]
    <3>1. UNCHANGED task \/ (Status(a) = "failed" /\ task' = [task EXCEPT ![a] = t])
      BY <2>2 DEF AdminReset, Reset
    <3>2. a \in Archives
      BY <2>1, <2>2 DEF AdminReset
    <3> HIDE DEF a, t
    <3>3. CASE Status(a) = "failed" /\ task' = [task EXCEPT ![a] = t]
      BY <3>2, <3>3, WriteTaskFinal
    <3> QED  BY <1>1, <3>1, <3>3
  <2>3. CASE AdminRevert(x)
    <3>1. UNCHANGED task \/ (Status(a) \in {"pending", "failed"} /\ Move(a, "failed", "kafka"))
      BY <2>3 DEF AdminRevert, MarkUnpublished
    <3>2. a \in Archives
      BY <2>1, <2>3 DEF AdminRevert
    <3> HIDE DEF a
    <3>3. CASE Status(a) \in {"pending", "failed"} /\ Move(a, "failed", "kafka")
      BY <3>2, <3>3, MoveFinal
    <3> QED  BY <1>1, <3>1, <3>3
  <2>4. CASE AdminRead(x) \/ AdminPublish(x) \/ AdminCrash(x)
    BY <1>1, <2>4 DEF AdminRead, AdminPublish, AdminCrash
  <2> QED  BY <1>5, <2>2, <2>3, <2>4 DEF Admin
<1>6. CASE UNCHANGED vars
  BY <1>1, <1>6 DEF vars
<1> QED  BY <1>2, <1>3, <1>4, <1>5, <1>6 DEF Next

\* A completed task is never touched again: not by a redelivered event, a worker that
\* lost the partition and is still running, or an admin request.
THEOREM CompletedFinal == Spec => CompletedIsFinal
<1>1. TypeOK /\ [Next]_vars => [Final]_vars
  BY StepFinal
<1>2. [Final]_vars <=> [\A a \in Archives : Status(a) = "completed" => task'[a] = task[a]]_vars
  BY DEF Final
<1> QED  BY <1>1, <1>2, TypeCorrect, PTL DEF Spec, CompletedIsFinal
=============================================================================
