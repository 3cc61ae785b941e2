----------------------- MODULE ExtractionEvents_proofs -----------------------
(***************************************************************************)
(* The events of extraction tasks, the commits of their records and the    *)
(* results they keep.  As long as no admin request dies in the middle, a   *)
(* pending task has an event that is still to be delivered, or an admin    *)
(* who publishes one; and a record is committed only for a task that has   *)
(* ended or will be announced again.  Both hold for any number of          *)
(* archives, workers, admin requests, results and events, and when the     *)
(* group takes a partition from a live worker.  A stored result is given   *)
(* up only by a rebuild, with one worker and one admin request at a time.  *)
(***************************************************************************)
EXTENDS ExtractionSafety_proofs

\* No admin request dies between its reset of a task and the event that tells of it.
AdminsAnswer == "adminCrash" \notin Faults

-----------------------------------------------------------------------------
(* The inductive invariant *)

\* Worker w is about to take the pending task of a.
Taking(w, a) == w \in Workers /\ At(w, "start") /\ Arc(w) = a

\* Every record up to n has been made a task, and every pending task is announced after
\* n, or is the one w is about to take.
Reached(w, n) ==
  /\ n \in 0..Len(log)
  /\ \A a \in Archives : Status(a) = "absent" => \A i \in 1..n : log[i] # a
  /\ \A a \in Archives : Status(a) = "pending" => EventAfter(n, a) \/ Reopening(a) \/ Taking(w, a)

\* Worker w has position n in the partition, or is at record n.
Stands(w, n) == wk[w].next = n + 1 \/ (~Idle(w) /\ wk[w].rec = n)

\* So it is for the committed offset, and for the position and the record of every worker,
\* whoever the partition belongs to by now.
EventsInv ==
  \A n \in Nat :
    /\ committed = n => Reached(Nobody, n)
    /\ \A w \in Workers : Stands(w, n) => Reached(w, n)

-----------------------------------------------------------------------------
(* What a step comes to *)

\* No document disappears or becomes pending.
NoneReopened ==
  \A a \in Archives : Status(a)' = Status(a) \/ Status(a)' \notin {"absent", "pending"}

\* Worker w stays at its record or gives it up; the other workers stay as they are.
Onward(w) ==
  /\ \A v \in Workers \ {w} : wk'[v] = wk[v]
  /\ wk'[w].pc \notin {"down", "poll"} => wk'[w].rec = wk[w].rec /\ ~Idle(w)
  /\ wk'[w].next \in {wk[w].next, 0}
  /\ wk'[w].pc # "start"

\* The log only grows.
LogGrows == \A i \in 1..Len(log) : i \in 1..Len(log') /\ log'[i] = log[i]

\* An event stays where it is in the log.
LEMMA EventStays ==
  ASSUME TypeOK, TypeOK', LogGrows, NEW n \in Nat, NEW a \in Archives, EventAfter(n, a)
  PROVE  EventAfter(n, a)'
<1>1. PICK i \in (n + 1)..Len(log) : log[i] = a
  BY DEF EventAfter
<1>2. i \in 1..Len(log)
  BY <1>1 DEF TypeOK
<1>3. i \in 1..Len(log') /\ log'[i] = a
  BY <1>1, <1>2 DEF LogGrows
<1>4. i \in (n + 1)..Len(log')
  BY <1>1, <1>3 DEF TypeOK
<1> QED  BY <1>3, <1>4 DEF EventAfter

\* A place in the log is in order as long as what is pending is announced again.
LEMMA ReachedStays ==
  ASSUME TypeOK, TypeOK', Kept, NEW w, NEW v, NEW n \in Nat, Reached(w, n),
         \A a \in Archives : Status(a)' = "absent" => Status(a) = "absent",
         \A a \in Archives : Status(a)' = "pending" =>
           \/ Reopening(a)' \/ EventAfter(n, a)'
           \/ /\ Status(a) = "pending"
              /\ Reopening(a) => Reopening(a)'
              /\ Taking(w, a) => Taking(v, a)'
  PROVE  Reached(v, n)'
<1>1. n \in 0..Len(log) /\ n \in 0..Len(log')
  <2>1. Len(log) \in Nat /\ Len(log') \in Nat /\ n \in 0..Len(log)
    BY DEF TypeOK, Reached
  <2>2. Len(log) = 0 \/ Len(log) \in 1..Len(log)
    BY <2>1
  <2> QED  BY <2>1, <2>2 DEF Kept
<1>2. ASSUME NEW a \in Archives, Status(a)' = "absent", NEW i \in 1..n  PROVE log'[i] # a
  <2>1. i \in 1..Len(log) /\ log[i] # a
    BY <1>1, <1>2 DEF Reached, TypeOK
  <2> QED  BY <2>1 DEF Kept
<1>3. ASSUME NEW a \in Archives, Status(a)' = "pending"
      PROVE  EventAfter(n, a)' \/ Reopening(a)' \/ Taking(v, a)'
  <2>1. Status(a) = "pending" => EventAfter(n, a) \/ Reopening(a) \/ Taking(w, a)
    BY DEF Reached
  <2> QED  BY <1>3, <2>1, EventStays DEF Kept, LogGrows
<1> QED  BY <1>1, <1>2, <1>3 DEF Reached

\* A step of w that reopens no task, and after which it is not about to take a pending one.
LEMMA WorkerStep ==
  ASSUME TypeOK, TypeOK', EventsInv, UNCHANGED <<log, adm>>, NEW w \in Workers,
         Onward(w), NoneReopened,
         \A a \in Archives : Taking(w, a) =>
           Status(a)' # "pending" \/ (Idle(w)' /\ wk'[w].next = 0),
         \/ committed' = committed
         \/ ~Idle(w) /\ ~At(w, "start") /\ committed' = wk[w].rec
  PROVE  EventsInv'
<1>1. Kept /\ \A a \in Archives : (Reopening(a) <=> Reopening(a)')
  BY DEF Kept, NoneReopened, TypeOK, Reopening
<1>2. \A a \in Archives : (Status(a)' = "absent" => Status(a) = "absent")
                        /\ (Status(a)' = "pending" => Status(a) = "pending")
  BY DEF NoneReopened
<1>3. \A a : ~Taking(Nobody, a)
  BY ExtractionAssumption DEF Taking
<1>4. ASSUME NEW n \in Nat, committed' = n  PROVE Reached(Nobody, n)'
  <2>1. CASE committed' = committed
    <3>1. Reached(Nobody, n)
      BY <1>4, <2>1 DEF EventsInv
    <3> QED  BY <1>1, <1>2, <1>3, <3>1, ReachedStays
  <2>2. CASE ~Idle(w) /\ ~At(w, "start") /\ committed' = wk[w].rec
    <3>1. Reached(w, n)
      BY <1>4, <2>2 DEF EventsInv, Stands
    <3>2. \A a : ~Taking(w, a)
      BY <2>2 DEF Taking
    <3> QED  BY <1>1, <1>2, <3>1, <3>2, ReachedStays
  <2> QED  BY <2>1, <2>2
<1>5. ASSUME NEW n \in Nat, NEW v \in Workers, Stands(v, n)'  PROVE Reached(v, n)'
  <2>1. CASE v # w
    <3>1. wk'[v] = wk[v]
      BY <2>1 DEF Onward
    <3>2. Stands(v, n)
      BY <1>5, <3>1 DEF Stands, Idle
    <3>3. Reached(v, n)
      BY <3>2 DEF EventsInv
    <3>4. \A a : Taking(v, a) => Taking(v, a)'
      BY <3>1 DEF Taking, At, Arc
    <3> QED  BY <1>1, <1>2, <3>3, <3>4, ReachedStays
  <2>2. CASE v = w
    <3>1. Stands(w, n)
      BY <1>5, <2>2 DEF Stands, Onward, Idle
    <3>2. Reached(w, n)
      BY <3>1 DEF EventsInv
    <3>3. ~(Idle(w)' /\ wk'[w].next = 0)
      BY <1>5, <2>2 DEF Stands
    <3>4. ASSUME NEW a \in Archives, Status(a)' = "pending"  PROVE ~Taking(w, a)
      BY <3>3, <3>4
    <3>5. Reached(w, n)'
      BY <1>1, <1>2, <3>2, <3>4, ReachedStays
    <3> QED  BY <2>2, <3>5
  <2> QED  BY <2>1, <2>2
<1> QED  BY <1>4, <1>5 DEF EventsInv

\* The forms in which a worker goes on or gives up its record.
LEMMA GoesOnward ==
  ASSUME TypeOK, NEW w \in Workers, ~Idle(w),
         \/ \E pc \in Step \ {"start"} : Go(w, pc)
         \/ \E err : Fail(w, err)
         \/ \E r : RunPipeline(w, r)
         \/ Abandon(w)
         \/ Stop(w)
         \/ \E k : /\ wk' = [wk EXCEPT ![w] = k] /\ k.pc # "start"
                   /\ k.rec = wk[w].rec /\ k.next = wk[w].next
  PROVE  Onward(w)
<1>1. wk \in [Workers -> Worker] /\ wk[w] \in Worker
  BY DEF TypeOK
<1>2. ASSUME NEW k, wk' = [wk EXCEPT ![w] = k], k.pc # "start",
             k.rec = wk[w].rec \/ k.pc \in {"down", "poll"},
             k.next \in {wk[w].next, 0}
      PROVE  Onward(w)
  BY <1>1, <1>2 DEF Onward
<1>3. CASE \E pc \in Step \ {"start"} : Go(w, pc)
  <2>1. PICK pc \in Step \ {"start"} : Go(w, pc)
    BY <1>3
  <2> DEFINE k == [wk[w] EXCEPT !.pc = pc]
  <2>2. wk' = [wk EXCEPT ![w] = k] /\ k.pc = pc /\ k.rec = wk[w].rec /\ k.next = wk[w].next
    BY <1>1, <2>1 DEF Go, Worker
  <2> HIDE DEF k
  <2> QED  BY <1>2, <2>1, <2>2
<1>4. CASE \E err : Fail(w, err)
  <2>1. PICK err : Fail(w, err)
    BY <1>4
  <2> DEFINE k == [wk[w] EXCEPT !.pc = "fail", !.error = err]
  <2>2. wk' = [wk EXCEPT ![w] = k] /\ k.pc = "fail" /\ k.rec = wk[w].rec /\ k.next = wk[w].next
    BY <1>1, <2>1 DEF Fail, Worker
  <2> HIDE DEF k
  <2> QED  BY <1>2, <2>2
<1>5. CASE \E r : RunPipeline(w, r)
  <2>1. PICK r : RunPipeline(w, r)
    BY <1>5
  <2> DEFINE k == [wk[w] EXCEPT !.pc = StageFor(r), !.result = r]
  <2>2. wk' = [wk EXCEPT ![w] = k] /\ k.pc = StageFor(r) /\ k.rec = wk[w].rec /\ k.next = wk[w].next
    BY <1>1, <2>1 DEF RunPipeline, Worker
  <2>3. StageFor(r) # "start"
    BY DEF StageFor
  <2> HIDE DEF k
  <2> QED  BY <1>2, <2>2, <2>3
<1>6. CASE Abandon(w)
  <2> DEFINE k == NewWorker("poll", wk[w].next)
  <2>1. wk' = [wk EXCEPT ![w] = k] /\ k.pc = "poll" /\ k.next = wk[w].next
    BY <1>6 DEF Abandon, NewWorker
  <2> HIDE DEF k
  <2> QED  BY <1>2, <2>1
<1>7. CASE Stop(w)
  <2> DEFINE k == NewWorker("down", 0)
  <2>1. wk' = [wk EXCEPT ![w] = k] /\ k.pc = "down" /\ k.next = 0
    BY <1>7 DEF Stop, NewWorker
  <2> HIDE DEF k
  <2> QED  BY <1>2, <2>1
<1>8. CASE \E k : /\ wk' = [wk EXCEPT ![w] = k] /\ k.pc # "start"
                   /\ k.rec = wk[w].rec /\ k.next = wk[w].next
  BY <1>2, <1>8
<1> QED  BY <1>3, <1>4, <1>5, <1>6, <1>7, <1>8

-----------------------------------------------------------------------------
(* The invariant, action by action *)

\* Before and in the pipeline, and when its end is recorded.
LEMMA WorkKeeps ==
  ASSUME TypeOK, TypeOK', EventsInv, NEW w \in Workers, Work(w), ~Upsert(w)
  PROVE  EventsInv'
<1>1. ~Idle(w)
  BY DEF Work, MarkProcessing, Reload, BumpAttempt, ReloadResumed, Prepare, AskAgain, Asked, Extract,
     ExtractFails, Handoff, Align, Reconcile, PrepareWrite, WriteGraph, WriteFails, Repair, Sync,
     WriteIndex, IndexFails, MarkIndexed, FailTask, CheckEnd, MarkEnd, Commit, At, Idle
<1>2. Arc(w) \in Archives /\ task \in [Archives -> Task]
  BY <1>1, ArcType DEF TypeOK
<1>3. ASSUME UNCHANGED task  PROVE NoneReopened
  BY <1>3 DEF NoneReopened, Status
<1>4. ASSUME NEW to \in {"processing", "completed", "failed"}, NEW err, Move(Arc(w), to, err)
      PROVE  NoneReopened /\ task'[Arc(w)].status = to
  BY <1>2, <1>4 DEF NoneReopened, Move, Status, Task
<1>5. CASE MarkProcessing(w)
  <2>1. UNCHANGED <<log, committed, adm>>
    BY <1>5 DEF MarkProcessing, groupVars
  <2>2. Onward(w)
    <3>1. (\E r : RunPipeline(w, r)) \/ Go(w, "restart")
      BY <1>5 DEF MarkProcessing
    <3> QED  BY <1>1, <3>1, GoesOnward DEF Step
  <2>3. NoneReopened /\ \A a \in Archives : Taking(w, a) => Status(a)' # "pending"
    <3>1. CASE Status(Arc(w)) = "pending"
      BY <1>4, <1>5, <3>1 DEF MarkProcessing, Taking, Status
    <3>2. CASE Status(Arc(w)) # "pending"
      BY <1>3, <1>5, <3>2 DEF MarkProcessing, Taking, Status
    <3> QED  BY <3>1, <3>2
  <2> QED  BY <2>1, <2>2, <2>3, WorkerStep
<1>6. ASSUME ~At(w, "start"), UNCHANGED <<log, committed, adm>>, Onward(w), NoneReopened
      PROVE  EventsInv'
  BY <1>6, WorkerStep DEF Taking
<1>7. CASE Reload(w) \/ BumpAttempt(w) \/ ReloadResumed(w)
  <2> DEFINE k == [wk[w] EXCEPT !.pc = "rebump", !.result = task[Arc(w)].result]
  <2>1. ~At(w, "start") /\ UNCHANGED <<log, committed, adm, task>>
    BY <1>7 DEF Reload, BumpAttempt, ReloadResumed, At, groupVars, Stop
  <2>2. \/ \E pc \in {"commit", "reresume"} : Go(w, pc)
        \/ \E r : RunPipeline(w, r)
        \/ Stop(w)
        \/ wk' = [wk EXCEPT ![w] = k]
    <3>1. CASE Reload(w)
      BY <3>1 DEF Reload, TypeOK
    <3> QED  BY <1>7, <3>1 DEF BumpAttempt, ReloadResumed
  <2>3. Onward(w)
    <3>1. k.pc = "rebump" /\ k.rec = wk[w].rec /\ k.next = wk[w].next
      BY DEF TypeOK, Worker
    <3> HIDE DEF k
    <3> QED  BY <1>1, <2>2, <3>1, GoesOnward DEF Step
  <2> QED  BY <1>3, <1>6, <2>1, <2>3
<1>8. CASE Prepare(w) \/ AskAgain(w) \/ ExtractFails(w) \/ Handoff(w) \/ Sync(w) \/ IndexFails(w)
  <2>1. ~At(w, "start") /\ UNCHANGED <<log, committed, adm, task>>
    BY <1>8 DEF Prepare, AskAgain, ExtractFails, Handoff, Sync, IndexFails, Asked, At, groupVars
  <2>2. \/ \E pc \in {"llm", "correct", "complete", "index", "undo"} : Go(w, pc)
        \/ \E err : Fail(w, err)
        \/ \E r : RunPipeline(w, r)
        \/ Abandon(w)
    BY <1>8 DEF Prepare, AskAgain, ExtractFails, Handoff, Sync, IndexFails
  <2>3. Onward(w)
    BY <1>1, <2>2, GoesOnward DEF Step
  <2> QED  BY <1>3, <1>6, <2>1, <2>3
<1>9. CASE Extract(w)
  <2>1. ~At(w, "start") /\ UNCHANGED <<log, committed, adm>>
    BY <1>9 DEF Extract, Asked, At, groupVars
  <2>2. PICK r \in Results \cup {EmptyResult} :
          IF Status(Arc(w)) = "processing"
          THEN /\ task' = [task EXCEPT ![Arc(w)].result = r]
               /\ Go(w, "complete") \/ Go(w, "handoff") \/ Abandon(w)
          ELSE Abandon(w) /\ UNCHANGED task
    BY <1>9 DEF Extract
  <2>3. NoneReopened
    BY <1>2, <2>2 DEF NoneReopened, Status, Task
  <2>4. Onward(w)
    BY <1>1, <2>2, GoesOnward DEF Step
  <2> QED  BY <1>6, <2>1, <2>3, <2>4
<1>10. CASE Align(w) \/ Reconcile(w)
  <2> DEFINE aligned == [wk[w] EXCEPT !.pc = "reconcile", !.aligned = task[Arc(w)].result]
             planned(p) == [wk[w] EXCEPT !.pc = "graph", !.plan = p]
  <2>1. ~At(w, "start") /\ UNCHANGED <<log, committed, adm, task>>
    BY <1>10 DEF Align, Reconcile, At, groupVars
  <2>2. \/ \E err : Fail(w, err)
        \/ Abandon(w)
        \/ wk' = [wk EXCEPT ![w] = aligned]
        \/ \E p : wk' = [wk EXCEPT ![w] = planned(p)]
    <3>1. CASE Align(w)
      BY <3>1 DEF Align, TypeOK
    <3>2. CASE Reconcile(w)
      BY <3>2 DEF Reconcile, TypeOK
    <3> QED  BY <1>10, <3>1, <3>2
  <2>3. aligned.pc # "start" /\ aligned.rec = wk[w].rec /\ aligned.next = wk[w].next
    BY DEF TypeOK, Worker
  <2>4. \A p : planned(p).pc # "start" /\ planned(p).rec = wk[w].rec /\ planned(p).next = wk[w].next
    BY DEF TypeOK, Worker
  <2>5. Onward(w)
    <3> HIDE DEF aligned, planned
    <3> QED  BY <1>1, <2>2, <2>3, <2>4, GoesOnward
  <2> QED  BY <1>3, <1>6, <2>1, <2>5
<1>11. CASE PrepareWrite(w) \/ WriteGraph(w) \/ WriteFails(w) \/ Repair(w) \/ WriteIndex(w)
  <2> DEFINE k(x) == [wk[w] EXCEPT !.pc = "sync", !.seeds = x]
  <2>1. ~At(w, "start") /\ UNCHANGED <<log, committed, adm, task>>
    BY <1>11 DEF PrepareWrite, WriteGraph, WriteFails, Repair, WriteIndex, At, groupVars, Stop
  <2>2. \/ \E pc \in {"write", "repair", "done"} : Go(w, pc)
        \/ \E err : Fail(w, err)
        \/ Abandon(w)
        \/ Stop(w)
        \/ \E x : wk' = [wk EXCEPT ![w] = k(x)]
    <3>1. CASE PrepareWrite(w)
      BY <3>1 DEF PrepareWrite, TypeOK
    <3>2. CASE WriteGraph(w)
      BY <3>2 DEF WriteGraph, TypeOK, Go
    <3>3. CASE WriteFails(w) \/ Repair(w) \/ WriteIndex(w)
      BY <3>3 DEF WriteFails, Repair, WriteIndex, TypeOK
    <3> QED  BY <1>11, <3>1, <3>2, <3>3
  <2>3. \A x : k(x).pc # "start" /\ k(x).rec = wk[w].rec /\ k(x).next = wk[w].next
    BY DEF TypeOK, Worker
  <2>4. Onward(w)
    <3> HIDE DEF k
    <3> QED  BY <1>1, <2>2, <2>3, GoesOnward DEF Step
  <2> QED  BY <1>3, <1>6, <2>1, <2>4
<1>12. CASE MarkIndexed(w) \/ FailTask(w) \/ CheckEnd(w) \/ MarkEnd(w)
  <2>1. ~At(w, "start") /\ UNCHANGED <<log, committed, adm>>
    BY <1>12 DEF MarkIndexed, FailTask, CheckEnd, MarkEnd, At, groupVars, Stop
  <2>2. UNCHANGED task \/ \E to \in {"completed", "failed"} : \E err : Move(Arc(w), to, err)
    BY <1>12 DEF MarkIndexed, FailTask, CheckEnd, MarkEnd
  <2>3. \/ \E pc \in {"complete", "undo", "commit", "completing", "failing"} : Go(w, pc)
        \/ \E err : Fail(w, err)
        \/ Abandon(w)
        \/ Stop(w)
    BY <1>12 DEF MarkIndexed, FailTask, CheckEnd, MarkEnd
  <2>4. Onward(w)
    BY <1>1, <2>3, GoesOnward DEF Step
  <2> QED  BY <1>3, <1>4, <1>6, <2>1, <2>2, <2>4
<1>13. CASE Commit(w)
  <2>1. ~At(w, "start") /\ UNCHANGED <<log, adm, task>> /\ committed' \in {committed, wk[w].rec}
    BY <1>13 DEF Commit, At, Stop
  <2>2. Onward(w)
    BY <1>1, <1>13, GoesOnward DEF Commit
  <2> QED  BY <1>1, <1>3, <2>1, <2>2, WorkerStep DEF Taking
<1> QED  BY <1>5, <1>7, <1>8, <1>9, <1>10, <1>11, <1>12, <1>13 DEF Work

\* The next record becomes a task, or meets the one it has; a new one is about to be taken.
LEMMA UpsertReaches ==
  ASSUME TypeOK, TypeOK', EventsInv, NEW w \in Workers, Upsert(w)
  PROVE  EventsInv'
<1>1. PICK m \in Nat : m = wk[w].next
  BY NextRecord
<1>2. m \in 1..Len(log) /\ UNCHANGED <<log, committed, adm>> /\ At(w, "poll")
  <2>1. At(w, "poll") /\ UNCHANGED <<groupVars, adm>>
    BY Zenon DEF Upsert
  <2>2. m \in 1..Len(log)
    BY <1>1, NextRecord
  <2> QED  BY <2>1, <2>2 DEF groupVars
<1>3. PICK b \in Archives : b = log[m]
  BY <1>2 DEF TypeOK
<1>4. /\ wk'[w].rec = m /\ wk'[w].next = m + 1
      /\ \A v \in Workers \ {w} : wk'[v] = wk[v]
      /\ Status(b) \in {"absent", "pending"} => wk'[w].pc = "start"
      /\ \A a \in Archives \ {b} : task'[a] = task[a]
      /\ task'[b] = IF Status(b) = "absent" THEN NewTask ELSE task[b]
  <2> DEFINE t == IF Status(b) = "absent" THEN NewTask ELSE task[b]
  <2>1. task' = [task EXCEPT ![b] = t]
    BY <1>1, <1>3 DEF Upsert
  <2>2. wk' = [wk EXCEPT ![w] = [wk[w] EXCEPT !.pc = AfterUpsert(t.status), !.rec = m, !.next = m + 1]]
    BY <1>1, <1>3 DEF Upsert
  <2>3. Status(b) \in {"absent", "pending"} => t.status = "pending"
    BY DEF Status, NewTask
  <2>4. AfterUpsert("pending") = "start"
    BY DEF AfterUpsert
  <2> HIDE DEF t
  <2>5. /\ \A v \in Workers \ {w} : wk'[v] = wk[v]
        /\ wk'[w] = [wk[w] EXCEPT !.pc = AfterUpsert(t.status), !.rec = m, !.next = m + 1]
    BY <2>2 DEF TypeOK
  <2>6. wk'[w].pc = AfterUpsert(t.status) /\ wk'[w].rec = m /\ wk'[w].next = m + 1
    BY <2>5 DEF TypeOK, Worker
  <2>7. task'[b] = t /\ \A a \in Archives \ {b} : task'[a] = task[a]
    BY <1>3, <2>1 DEF TypeOK
  <2> QED  BY <2>3, <2>4, <2>5, <2>6, <2>7 DEF t
<1>5. Kept /\ (\A a : Reopening(a)' <=> Reopening(a)) /\ Status(b)' # "absent"
  <2>1. Reopening(b)' <=> Reopening(b)
    BY <1>2 DEF Reopening
  <2>2. Status(b)' # "absent"
    BY <1>4 DEF NewTask, Status
  <2>3. \A a \in Archives : Status(a) # "absent" => Status(a)' # "absent"
    BY <1>4, <2>2 DEF Status
  <2> QED  BY <1>2, <2>2, <2>3 DEF Kept, TypeOK, Reopening
<1>6. \A a \in Archives : /\ Status(a)' = "absent" => Status(a) = "absent"
                          /\ Status(a)' = "pending" /\ a # b => Status(a) = "pending"
                          /\ Status(a) = "pending" => Status(a)' = "pending"
                          /\ Status(b)' = "pending" => Status(b) \in {"absent", "pending"}
  BY <1>4, <1>5 DEF Status
<1>7. log'[m] = b /\ m \in 1..Len(log')
  BY <1>2, <1>3
\* Whoever is not past this record still has it to come.
<1>8. ASSUME NEW n \in Nat, NEW v, Reached(v, n), Status(b) = "absent"  PROVE EventAfter(n, b)'
  <2>1. ~(m \in 1..n)
    BY <1>3, <1>8 DEF Reached
  <2>2. m \in (n + 1)..Len(log')
    BY <1>7, <2>1 DEF TypeOK
  <2> QED  BY <1>7, <2>2 DEF EventAfter
<1>9. ASSUME NEW n \in Nat, NEW v, Reached(v, n), \A a : Taking(v, a) => Taking(v, a)'
      PROVE  Reached(v, n)'
  BY <1>5, <1>6, <1>8, <1>9, ReachedStays
<1>10. ASSUME NEW n \in Nat, committed' = n  PROVE Reached(Nobody, n)'
  <2>1. Reached(Nobody, n)
    BY <1>2, <1>10 DEF EventsInv
  <2>2. \A a : ~Taking(Nobody, a)
    BY ExtractionAssumption DEF Taking
  <2> QED  BY <1>9, <2>1, <2>2
<1>11. ASSUME NEW n \in Nat, NEW v \in Workers, v # w, Stands(v, n)'  PROVE Reached(v, n)'
  <2>1. wk'[v] = wk[v]
    BY <1>4, <1>11
  <2>2. Stands(v, n)
    BY <1>11, <2>1 DEF Stands, Idle
  <2>3. Reached(v, n)
    BY <2>2 DEF EventsInv
  <2>4. \A a : Taking(v, a) => Taking(v, a)'
    BY <1>2, <2>1 DEF Taking, At, Arc
  <2> QED  BY <1>9, <2>3, <2>4
<1>12. Reached(w, m)'
  <2>1. PICK n \in Nat : n = m - 1
    BY <1>2
  <2>2. Reached(w, n)
    BY <1>1, <2>1 DEF EventsInv, Stands
  <2>3. \A a : ~Taking(w, a)
    BY <1>2 DEF Taking, At
  <2>4. m \in 0..Len(log')
    BY <1>7
  <2>5. ASSUME NEW a \in Archives, Status(a)' = "absent", NEW i \in 1..m  PROVE log'[i] # a
    <3>1. Status(a) = "absent" /\ a # b
      BY <1>5, <1>6, <2>5
    <3>2. CASE i = m
      BY <1>7, <3>1, <3>2
    <3>3. CASE i # m
      <4>1. i \in 1..n
        BY <2>1, <3>3
      <4> QED  BY <1>2, <2>2, <3>1, <4>1 DEF Reached
    <3> QED  BY <3>2, <3>3
  <2>6. ASSUME NEW a \in Archives, Status(a)' = "pending"
        PROVE  EventAfter(m, a)' \/ Reopening(a)' \/ Taking(w, a)'
    <3>1. CASE a = b
      <4>1. wk'[w].pc = "start" /\ wk'[w].rec = m
        BY <1>4, <1>6, <2>6, <3>1
      <4> QED  BY <1>7, <3>1, <4>1 DEF Taking, At, Arc
    <3>2. CASE a # b
      <4>1. EventAfter(n, a) \/ Reopening(a)
        BY <1>6, <2>2, <2>3, <2>6, <3>2 DEF Reached
      <4>2. CASE EventAfter(n, a)
        <5>1. PICK i \in (n + 1)..Len(log) : log[i] = a
          BY <4>2 DEF EventAfter
        <5>2. i # m
          BY <1>3, <3>2, <5>1
        <5>3. i \in (m + 1)..Len(log')
          BY <1>2, <2>1, <5>1, <5>2 DEF TypeOK
        <5> QED  BY <1>2, <5>1, <5>3 DEF EventAfter
      <4>3. CASE Reopening(a)
        BY <1>5, <4>3
      <4> QED  BY <4>1, <4>2, <4>3
    <3> QED  BY <3>1, <3>2
  <2> QED  BY <2>4, <2>5, <2>6 DEF Reached
<1>13. ASSUME NEW n \in Nat, Stands(w, n)'  PROVE n = m
  BY <1>4, <1>13 DEF Stands
<1> QED  BY <1>10, <1>11, <1>12, <1>13 DEF EventsInv

\* Assignment, restart and crash; also of a worker that is at work for the partition's old
\* records.
LEMMA GroupReaches ==
  ASSUME TypeOK, TypeOK', EventsInv, NEW w \in Workers, Group(w) \/ Crash(w)
  PROVE  EventsInv'
<1>1. NoneReopened /\ UNCHANGED <<log, committed, adm>>
  BY DEF NoneReopened, Status, Group, Assign, StartWorker, Crash, Stop, groupVars
<1>2. CASE Crash(w)
  <2>1. Onward(w) /\ Idle(w)' /\ wk'[w].next = 0
    BY <1>2 DEF Crash, Stop, Onward, Idle, NewWorker, TypeOK
  <2> QED  BY <1>1, <2>1, WorkerStep
<1>3. CASE StartWorker(w)
  <2>1. Onward(w) /\ ~At(w, "start")
    BY <1>3 DEF StartWorker, Go, At, Onward, TypeOK, Worker
  <2> QED  BY <1>1, <2>1, WorkerStep DEF Taking
<1>4. CASE Assign(w)
  <2>1. Kept /\ \A a : Reopening(a)' <=> Reopening(a)
    BY <1>1, <1>4 DEF Kept, Status, Assign, Reopening, TypeOK
  <2>2. task' = task
    BY <1>4 DEF Assign
  <2>3. /\ wk'[w].next = committed + 1 /\ wk'[w].rec = wk[w].rec /\ wk'[w].pc = wk[w].pc
        /\ \A v \in Workers \ {w} : wk'[v] = wk[v]
    BY <1>4 DEF Assign, TypeOK, Worker
  <2>4. \A v \in Workers, a \in Archives : Taking(v, a) <=> Taking(v, a)'
    <3>1. \A v \in Workers : wk'[v].pc = wk[v].pc /\ wk'[v].rec = wk[v].rec
      BY <2>3
    <3> QED  BY <1>1, <3>1 DEF Taking, At, Arc
  <2>6. \A a : ~Taking(Nobody, a)
    BY ExtractionAssumption DEF Taking
  <2>7. ASSUME NEW n \in Nat, committed' = n  PROVE Reached(Nobody, n)'
    <3>1. Reached(Nobody, n)
      BY <1>1, <2>7 DEF EventsInv
    <3> QED  BY <2>1, <2>2, <2>6, <3>1, ReachedStays DEF Status
  <2>8. ASSUME NEW n \in Nat, NEW v \in Workers, Stands(v, n)'  PROVE Reached(v, n)'
    <3>1. Stands(v, n) \/ committed = n
      <4>1. committed \in Nat
        BY DEF TypeOK
      <4>2. CASE v = w
        BY <2>3, <2>8, <4>1, <4>2 DEF Stands, Idle
      <4>3. CASE v # w
        BY <2>3, <2>8, <4>3 DEF Stands, Idle
      <4> QED  BY <4>2, <4>3
    <3>2. CASE Stands(v, n)
      <4>1. Reached(v, n)
        BY <3>2 DEF EventsInv
      <4> QED  BY <2>1, <2>2, <2>4, <4>1, ReachedStays DEF Status
    <3>3. CASE committed = n
      <4>1. Reached(Nobody, n)
        BY <3>3 DEF EventsInv
      <4> QED  BY <2>1, <2>2, <2>6, <4>1, ReachedStays DEF Status
    <3> QED  BY <3>1, <3>2, <3>3
  <2> QED  BY <2>7, <2>8 DEF EventsInv
<1> QED  BY <1>2, <1>3, <1>4 DEF Group

\* A step of an admin, or an event: workers stay where they are.
LEMMA OthersStep ==
  ASSUME TypeOK, TypeOK', EventsInv, Kept, UNCHANGED <<committed, wk>>,
         \A a \in Archives : Status(a)' = "absent" => Status(a) = "absent",
         \A a \in Archives : Status(a)' = "pending" =>
           \/ Reopening(a)'
           \/ \E i \in (Len(log) + 1)..Len(log') : log'[i] = a
           \/ Status(a) = "pending" /\ (Reopening(a) => Reopening(a)')
  PROVE  EventsInv'
<1>1. ASSUME NEW v \in Workers, ~Idle(v)  PROVE Arc(v)' = Arc(v)
  <2>1. wk[v].rec \in 1..Len(log)
    BY <1>1, ArcType
  <2> QED  BY <2>1 DEF Kept, Arc
<1>2. ASSUME NEW v, NEW a, Taking(v, a)  PROVE Taking(v, a)'
  BY <1>1, <1>2 DEF Taking, At, Idle
<1>3. ASSUME NEW n \in Nat, NEW v, Reached(v, n)  PROVE Reached(v, n)'
  <2>1. n <= Len(log) /\ Len(log) \in Nat /\ Len(log') \in Nat
    BY <1>3 DEF Reached, TypeOK
  <2>2. ASSUME NEW a \in Archives, \E i \in (Len(log) + 1)..Len(log') : log'[i] = a
        PROVE  EventAfter(n, a)'
    <3>1. PICK i \in (Len(log) + 1)..Len(log') : log'[i] = a
      BY <2>2
    <3>2. i \in (n + 1)..Len(log')
      BY <2>1, <3>1
    <3> QED  BY <3>1, <3>2 DEF EventAfter
  <2> QED  BY <1>2, <1>3, <2>2, ReachedStays
<1>4. ASSUME NEW n \in Nat, NEW v \in Workers, Stands(v, n)'  PROVE Stands(v, n)
  BY <1>4 DEF Stands, Idle
<1> QED  BY <1>3, <1>4 DEF EventsInv

\* Appending an event.
LEMMA Appended ==
  ASSUME TypeOK, NEW a \in Archives, log' = Append(log, a), UNCHANGED task
  PROVE  Kept /\ \E i \in (Len(log) + 1)..Len(log') : log'[i] = a
<1>1. Len(log) \in Nat /\ Len(log') = Len(log) + 1 /\ log'[Len(log) + 1] = a
  BY DEF TypeOK
<1>2. \A i \in 1..Len(log) : log'[i] = log[i]
  BY DEF TypeOK
<1> QED  BY <1>1, <1>2 DEF Kept, Status

\* An admin who has reopened a task publishes its event, or fails it again.
LEMMA AdminReaches ==
  ASSUME AdminsAnswer, TypeOK, TypeOK', EventsInv,
         (\E a \in Archives : Publish(a)) \/ \E x \in Admins : Admin(x)
  PROVE  EventsInv'
<1>1. UNCHANGED <<committed, wk>>
  BY DEF Publish, Admin, AdminRead, AdminReset, AdminPublish, AdminRevert, AdminCrash, groupVars
<1>2. ASSUME UNCHANGED log, \A a \in Archives : Status(a) # "absent" => Status(a)' # "absent"
      PROVE  Kept
  BY <1>2 DEF Kept, TypeOK
<1>3. CASE \E a \in Archives : Publish(a)
  <2>1. PICK a \in Archives : Publish(a)
    BY <1>3
  <2>2. Kept /\ UNCHANGED <<task, adm>>
    BY <2>1, Appended DEF Publish
  <2> QED  BY <1>1, <2>2, OthersStep DEF Status, Reopening
<1>4. CASE \E x \in Admins : Admin(x)
  <2> PICK x \in Admins : Admin(x)
    BY <1>4
  <2>1. adm[x] \in AdminState /\ adm \in [Admins -> AdminState]
    BY DEF TypeOK
  <2>2. adm[x].pc # "idle" => adm[x].archive \in Archives
    BY <2>1 DEF AdminState
  <2>3. CASE AdminRead(x)
    <3>1. UNCHANGED <<log, task>> /\ \A a : Reopening(a) => Reopening(a)'
      BY <2>1, <2>3 DEF AdminRead, Reopening, groupVars
    <3> QED  BY <1>1, <1>2, <3>1, OthersStep DEF Status
  <2>4. CASE AdminReset(x)
    <3> DEFINE b == adm[x].archive
    <3>1. UNCHANGED log /\ b \in Archives
      BY <2>2, <2>4 DEF AdminReset, groupVars
    <3>2. CASE Status(b) = "failed"
      <4>1. adm' = [adm EXCEPT ![x].pc = "publish"]
        BY <2>4, <3>2 DEF AdminReset
      <4>2. \A a : Reopening(a) => Reopening(a)'
        BY <2>1, <2>4, <4>1 DEF AdminReset, Reopening
      <4>3. adm'[x].pc = "publish" /\ adm'[x].archive = b
        BY <2>1, <2>4, <4>1 DEF AdminState, AdminReset
      <4>4. \A a \in Archives : a # b => task'[a] = task[a]
        BY <2>4, <3>1, <3>2 DEF AdminReset, Reset, TypeOK
      <4>5. Status(b)' # "absent"
        <5>1. task'[b].status = "pending"
          BY <2>4, <3>1, <3>2 DEF AdminReset, Reset, TypeOK, NewTask
        <5>2. adm'[x].archive = b /\ Status(b)' = task'[adm'[x].archive].status
          BY <4>3 DEF Status
        <5> QED  BY <5>1, <5>2
      <4> QED  BY <1>1, <1>2, <3>1, <4>2, <4>3, <4>4, <4>5, OthersStep DEF Status, Reopening
    <3>3. CASE Status(b) # "failed"
      <4>1. UNCHANGED task /\ adm' = [adm EXCEPT ![x] = [pc |-> "idle"]] /\ adm[x].pc = "reset"
        BY <2>4, <3>3 DEF AdminReset
      <4>2. \A a : Reopening(a) => Reopening(a)'
        BY <2>1, <4>1 DEF Reopening
      <4> QED  BY <1>1, <1>2, <3>1, <4>1, <4>2, OthersStep DEF Status
    <3> QED  BY <3>2, <3>3
  <2>5. CASE AdminPublish(x)
    <3>1. PICK b \in Archives : b = adm[x].archive
      BY <2>2, <2>5 DEF AdminPublish
    <3>2. UNCHANGED task /\ adm[x].pc = "publish"
      BY <2>5 DEF AdminPublish
    <3>3. CASE log' = Append(log, b) /\ adm' = [adm EXCEPT ![x] = [pc |-> "idle"]]
      <4>1. Kept /\ \E i \in (Len(log) + 1)..Len(log') : log'[i] = b
        BY <3>2, <3>3, Appended
      <4>2. \A a : Reopening(a) => Reopening(a)' \/ a = b
        BY <2>1, <3>1, <3>3 DEF Reopening
      <4> QED  BY <1>1, <3>2, <4>1, <4>2, OthersStep DEF Status
    <3>4. CASE log' \in {log, Append(log, b)} /\ adm' = [adm EXCEPT ![x].pc = "revert"]
      <4>1. Kept
        BY <1>2, <3>2, <3>4, Appended DEF Status
      <4>2. \A a : Reopening(a) => Reopening(a)'
        BY <2>1, <3>2, <3>4 DEF Reopening, AdminState
      <4> QED  BY <1>1, <3>2, <4>1, <4>2, OthersStep DEF Status
    <3> QED  BY <2>5, <3>1, <3>3, <3>4 DEF AdminPublish
  <2>6. CASE AdminRevert(x)
    <3>1. PICK b \in Archives : b = adm[x].archive
      BY <2>2, <2>6 DEF AdminRevert
    <3>2. UNCHANGED log /\ adm' = [adm EXCEPT ![x] = [pc |-> "idle"]] /\ adm[x].pc = "revert"
      BY <2>6 DEF AdminRevert, groupVars
    <3>3. \A a : Reopening(a) => Reopening(a)' \/ a = b
      BY <2>1, <3>1, <3>2 DEF Reopening
    <3>4. /\ \A a \in Archives : a # b => task'[a] = task[a]
          /\ task'[b] = task[b] \/ task'[b].status = "failed"
          /\ task'[b].status # "pending"
      BY <2>6, <3>1 DEF AdminRevert, MarkUnpublished, Move, TypeOK, Status, Task
    <3> QED  BY <1>1, <1>2, <3>2, <3>3, <3>4, OthersStep DEF Status
  <2>7. ~AdminCrash(x)
    BY DEF AdminCrash, AdminsAnswer
  <2> QED  BY <2>3, <2>4, <2>5, <2>6, <2>7 DEF Admin
<1> QED  BY <1>3, <1>4

\* At the start nothing has reached anybody.
LEMMA InitReached == Init => EventsInv
<1> SUFFICES ASSUME Init  PROVE EventsInv
  OBVIOUS
<1>1. \A w : Reached(w, 0)
  BY DEF Init, Reached, Status, NoTask
<1>2. \A w \in Workers : wk[w].next = 0 /\ Idle(w)
  BY DEF Init, NewWorker, Idle
<1>3. ASSUME NEW n \in Nat, NEW w \in Workers  PROVE ~Stands(w, n)
  BY <1>2 DEF Stands
<1> QED  BY <1>1, <1>3 DEF Init, EventsInv

\* EventsInv is inductive.
LEMMA StepReached ==
  ASSUME AdminsAnswer
  PROVE  TypeOK /\ EventsInv /\ [Next]_vars => EventsInv'
<1> SUFFICES ASSUME TypeOK, EventsInv, [Next]_vars  PROVE EventsInv'
  OBVIOUS
<1>1. TypeOK'
  BY StepTypeOK
<1>2. CASE UNCHANGED vars
  <2>1. Kept /\ UNCHANGED <<committed, wk, task, adm>>
    BY <1>2 DEF vars, Kept, TypeOK, Status
  <2> QED  BY <1>1, <2>1, OthersStep DEF Status, Reopening
<1>3. ASSUME NEW w \in Workers, Work(w)  PROVE EventsInv'
  BY <1>1, <1>3, WorkKeeps, UpsertReaches
<1>4. CASE \E w \in Workers : Group(w) \/ Crash(w)
  BY <1>1, <1>4, GroupReaches
<1>5. CASE (\E a \in Archives : Publish(a)) \/ \E x \in Admins : Admin(x)
  BY <1>1, <1>5, AdminReaches
<1> QED  BY <1>2, <1>3, <1>4, <1>5 DEF Next

\* Whatever worker the partition is taken from or given to, and whatever of it has been
\* committed: every pending task is announced to all of them.
THEOREM EventsInvariant ==
  ASSUME AdminsAnswer
  PROVE  Spec => []EventsInv
<1>1. Init => EventsInv
  BY InitReached
<1>2. TypeOK /\ EventsInv /\ [Next]_vars => EventsInv'
  BY StepReached
<1> QED  BY <1>1, <1>2, TypeCorrect, PTL DEF Spec

\* A pending task has an event that is not committed, or an admin who is about to publish
\* one or to fail the task: no worker that lost the partition commits past it, and neither
\* a failed publication nor a second admin leaves it without.
THEOREM PendingAnnounced ==
  ASSUME AdminsAnswer
  PROVE  Spec => []PendingIsAnnounced
<1>1. TypeOK /\ EventsInv => PendingIsAnnounced
  <2> SUFFICES ASSUME TypeOK, EventsInv, NEW a \in Archives, Status(a) = "pending"
               PROVE  EventAfter(committed, a) \/ Reopening(a)
    BY DEF PendingIsAnnounced
  <2>1. Reached(Nobody, committed)
    BY DEF EventsInv, TypeOK
  <2>2. ~Taking(Nobody, a)
    BY ExtractionAssumption DEF Taking
  <2> QED  BY <2>1, <2>2 DEF Reached
<1> QED  BY <1>1, EventsInvariant, TypeCorrect, PTL

-----------------------------------------------------------------------------
(* What is committed *)

\* Every publication of an admin request is answered.
PublicationsAnswer == "kafka" \notin Faults

\* No admin has a publication to make up for.
NothingToRevert == \A x \in Admins : adm[x].pc # "revert"

\* The forms in which a worker moves to a step that is not the commit.
LEMMA NotToCommit ==
  ASSUME TypeOK, NEW w \in Workers,
         \/ \E pc \in Step \ {"commit"} : Go(w, pc)
         \/ \E err : Fail(w, err)
         \/ \E r : RunPipeline(w, r)
         \/ Abandon(w)
         \/ Stop(w)
         \/ \E k : wk' = [wk EXCEPT ![w] = k] /\ k.pc # "commit"
  PROVE  wk'[w].pc # "commit" /\ \A v \in Workers \ {w} : wk'[v] = wk[v]
<1>1. wk \in [Workers -> Worker] /\ wk[w] \in Worker
  BY DEF TypeOK
<1>2. \A err, r : (Fail(w, err) => wk'[w].pc = "fail") /\ (RunPipeline(w, r) => wk'[w].pc = StageFor(r))
  BY <1>1 DEF Fail, RunPipeline, Worker
<1>3. (Abandon(w) => wk'[w].pc = "poll") /\ (Stop(w) => wk'[w].pc = "down")
  BY <1>1 DEF Abandon, Stop, NewWorker
<1>4. \A pc : Go(w, pc) => wk'[w].pc = pc
  BY <1>1 DEF Go, Worker
<1>5. \A r : StageFor(r) # "commit"
  BY DEF StageFor
<1>6. wk'[w].pc # "commit"
  BY <1>1, <1>2, <1>3, <1>4, <1>5
<1>7. \A v \in Workers \ {w} : wk'[v] = wk[v]
  BY <1>1 DEF Go, Fail, RunPipeline, Abandon, Stop
<1> QED  BY <1>6, <1>7

\* A worker goes to the commit only when the task has ended, and changes no task that has.
LEMMA WorkCommits ==
  ASSUME TypeOK, NEW w \in Workers, Work(w)
  PROVE  /\ UNCHANGED <<log, adm>>
         /\ \A v \in Workers \ {w} : wk'[v] = wk[v]
         /\ \A a \in Archives : Ended(a) => task'[a] = task[a]
         /\ wk'[w].pc = "commit" => task'[log'[wk'[w].rec]].status \in {"completed", "failed"}
<1>1. UNCHANGED <<log, adm>>
  BY DEF Work, Upsert, MarkProcessing, Reload, BumpAttempt, ReloadResumed, Prepare, AskAgain, Extract,
     ExtractFails, Handoff, Align, Reconcile, PrepareWrite, WriteGraph, WriteFails, Repair, Sync,
     WriteIndex, IndexFails, MarkIndexed, FailTask, CheckEnd, MarkEnd, Commit, groupVars, Stop
<1>2. task \in [Archives -> Task] /\ wk \in [Workers -> Worker] /\ wk[w] \in Worker
  BY DEF TypeOK
<1>3. ASSUME UNCHANGED task  PROVE \A a \in Archives : Ended(a) => task'[a] = task[a]
  BY <1>3 DEF Ended, Status
<1>4. ASSUME ~Idle(w), Status(Arc(w)) \in {"pending", "processing"},
             NEW to, NEW err, Move(Arc(w), to, err)
      PROVE  task'[Arc(w)].status = to /\ \A a \in Archives : Ended(a) => task'[a] = task[a]
  <2>1. Arc(w) \in Archives
    BY <1>4, ArcType
  <2> QED  BY <1>2, <1>4, <2>1 DEF Move, Ended, Status, Task
<1>5. ASSUME NEW pc \in Step, Go(w, pc)
      PROVE  /\ wk'[w].pc = pc /\ wk'[w].rec = wk[w].rec
             /\ \A v \in Workers \ {w} : wk'[v] = wk[v]
  BY <1>2, <1>5 DEF Go, Worker
<1>6. "commit" \in Step
  BY DEF Step
<1>7. CASE Upsert(w)
  <2> DEFINE a == log[wk[w].next]
             t == IF Status(a) = "absent" THEN NewTask ELSE task[a]
  <2>1. wk[w].next \in 1..Len(log)
    BY <1>7, NextRecord
  <2>2. a \in Archives
    BY <2>1 DEF TypeOK
  <2>3. /\ task' = [task EXCEPT ![a] = t]
        /\ wk'[w].pc = AfterUpsert(t.status) /\ wk'[w].rec = wk[w].next
        /\ \A v \in Workers \ {w} : wk'[v] = wk[v]
    BY <1>2, <1>7 DEF Upsert, Worker
  <2>4. t.status \in {"pending", "processing", "completed", "failed"} /\ (Ended(a) => t = task[a])
    BY <1>2, <2>2 DEF Task, NewTask, Status, Ended
  <2>5. AfterUpsert(t.status) = "commit" => t.status \in {"completed", "failed"}
    BY <2>4 DEF AfterUpsert
  <2>6. log'[wk'[w].rec] = a
    BY <1>1, <2>3
  <2> HIDE DEF a, t
  <2>7. task'[a] = t
    BY <1>2, <2>2, <2>3
  <2>8. \A b \in Archives : Ended(b) => task'[b] = task[b]
    BY <1>2, <2>2, <2>3, <2>4 DEF Ended, Status
  <2> QED  BY <1>1, <2>3, <2>5, <2>6, <2>7, <2>8
<1>8. CASE MarkProcessing(w)
  <2>1. ~Idle(w) /\ ((\E r : RunPipeline(w, r)) \/ Go(w, "restart"))
    BY <1>8 DEF MarkProcessing, At, Idle
  <2>2. UNCHANGED task \/ (Status(Arc(w)) = "pending" /\ Move(Arc(w), "processing", "none"))
    BY <1>8 DEF MarkProcessing
  <2> QED  BY <1>1, <1>3, <1>4, <2>1, <2>2, NotToCommit DEF Step
<1>9. CASE Reload(w) \/ ReloadResumed(w) \/ CheckEnd(w)
  <2>1. UNCHANGED task
    BY <1>9 DEF Reload, ReloadResumed, CheckEnd
  <2>2. \/ Ended(Arc(w)) /\ Go(w, "commit")
        \/ \E r : RunPipeline(w, r)
        \/ Stop(w)
        \/ \E pc \in {"completing", "failing"} : Go(w, pc)
        \/ wk' = [wk EXCEPT ![w] = [wk[w] EXCEPT !.pc = "rebump", !.result = task[Arc(w)].result]]
    <3>1. CASE Reload(w)
      BY <1>2, <3>1 DEF Reload
    <3>2. CASE ReloadResumed(w) \/ CheckEnd(w)
      BY <3>2 DEF ReloadResumed, CheckEnd, Ended
    <3> QED  BY <1>9, <3>1, <3>2
  <2>3. CASE Ended(Arc(w)) /\ Go(w, "commit")
    <3>1. wk'[w].pc = "commit" /\ wk'[w].rec = wk[w].rec /\ \A v \in Workers \ {w} : wk'[v] = wk[v]
      BY <1>5, <1>6, <2>3
    <3>2. task'[log'[wk'[w].rec]].status \in {"completed", "failed"}
      BY <1>1, <2>1, <2>3, <3>1 DEF Ended, Status, Arc
    <3> QED  BY <1>1, <1>3, <2>1, <3>1, <3>2
  <2>4. CASE ~(Ended(Arc(w)) /\ Go(w, "commit"))
    <3> DEFINE k == [wk[w] EXCEPT !.pc = "rebump", !.result = task[Arc(w)].result]
    <3>1. k.pc # "commit"
      BY <1>2 DEF Worker
    <3>2. \/ \E r : RunPipeline(w, r)
          \/ Stop(w)
          \/ \E pc \in {"completing", "failing"} : Go(w, pc)
          \/ wk' = [wk EXCEPT ![w] = k]
      BY <2>2, <2>4
    <3> HIDE DEF k
    <3>3. wk'[w].pc # "commit" /\ \A v \in Workers \ {w} : wk'[v] = wk[v]
      BY <3>1, <3>2, NotToCommit DEF Step
    <3> QED  BY <1>1, <1>3, <2>1, <3>3
  <2> QED  BY <2>3, <2>4
<1>10. CASE BumpAttempt(w) \/ Prepare(w) \/ AskAgain(w) \/ ExtractFails(w) \/ Handoff(w) \/ Sync(w)
            \/ IndexFails(w) \/ WriteFails(w) \/ WriteIndex(w) \/ Commit(w)
  <2>1. UNCHANGED task
    BY <1>10 DEF BumpAttempt, Prepare, AskAgain, ExtractFails, Handoff, Sync, IndexFails, WriteFails,
       WriteIndex, Commit
  <2>2. \/ \E pc \in {"reresume", "llm", "correct", "complete", "index", "undo", "done"} : Go(w, pc)
        \/ \E err : Fail(w, err)
        \/ \E r : RunPipeline(w, r)
        \/ Abandon(w)
        \/ Stop(w)
    BY <1>10 DEF BumpAttempt, Prepare, AskAgain, ExtractFails, Handoff, Sync, IndexFails, WriteFails,
       WriteIndex, Commit
  <2> QED  BY <1>1, <1>3, <2>1, <2>2, NotToCommit DEF Step
<1>11. CASE Extract(w)
  <2>1. PICK r \in Results \cup {EmptyResult} :
          IF Status(Arc(w)) = "processing"
          THEN /\ task' = [task EXCEPT ![Arc(w)].result = r]
               /\ Go(w, "complete") \/ Go(w, "handoff") \/ Abandon(w)
          ELSE Abandon(w) /\ UNCHANGED task
    BY <1>11 DEF Extract
  <2>2. \A a \in Archives : Ended(a) => task'[a] = task[a]
    BY <1>2, <2>1 DEF Ended, Status, Task
  <2> QED  BY <1>1, <2>1, <2>2, NotToCommit DEF Step
<1>12. CASE Align(w) \/ Reconcile(w) \/ PrepareWrite(w) \/ WriteGraph(w) \/ Repair(w)
  <2> DEFINE aligned == [wk[w] EXCEPT !.pc = "reconcile", !.aligned = task[Arc(w)].result]
             planned(p) == [wk[w] EXCEPT !.pc = "graph", !.plan = p]
             synced(x) == [wk[w] EXCEPT !.pc = "sync", !.seeds = x]
  <2>1. UNCHANGED task
    <3>1. CASE Align(w) \/ Reconcile(w)
      BY <3>1 DEF Align, Reconcile
    <3>2. CASE PrepareWrite(w)
      BY <3>2 DEF PrepareWrite
    <3>3. CASE WriteGraph(w)
      BY <3>3 DEF WriteGraph
    <3>4. CASE Repair(w)
      BY <3>4 DEF Repair
    <3> QED  BY <1>12, <3>1, <3>2, <3>3, <3>4
  <2>2. \/ \E pc \in {"write", "repair"} : Go(w, pc)
        \/ \E err : Fail(w, err)
        \/ Abandon(w)
        \/ Stop(w)
        \/ wk' = [wk EXCEPT ![w] = aligned]
        \/ \E p : wk' = [wk EXCEPT ![w] = planned(p)]
        \/ \E x : wk' = [wk EXCEPT ![w] = synced(x)]
    <3>1. CASE Align(w) \/ Reconcile(w)
      BY <1>2, <3>1 DEF Align, Reconcile
    <3>2. CASE PrepareWrite(w)
      BY <1>2, <3>2 DEF PrepareWrite
    <3>3. CASE WriteGraph(w)
      BY <1>2, <3>3 DEF WriteGraph, Go
    <3>4. CASE Repair(w)
      BY <1>2, <3>4 DEF Repair
    <3> QED  BY <1>12, <3>1, <3>2, <3>3, <3>4
  <2>3. aligned.pc # "commit" /\ \A x : planned(x).pc # "commit" /\ synced(x).pc # "commit"
    BY <1>2 DEF Worker
  <2>4. wk'[w].pc # "commit" /\ \A v \in Workers \ {w} : wk'[v] = wk[v]
    <3> HIDE DEF aligned, planned, synced
    <3> QED  BY <2>2, <2>3, NotToCommit DEF Step
  <2> QED  BY <1>1, <1>3, <2>1, <2>4
<1>13. CASE MarkIndexed(w) \/ FailTask(w)
  <2>1. ~Idle(w) /\ (UNCHANGED task \/ (Status(Arc(w)) = "processing" /\ \E to, err : Move(Arc(w), to, err)))
    BY <1>13 DEF MarkIndexed, FailTask, At, Idle
  <2>2. (\E pc \in {"complete", "undo"} : Go(w, pc)) \/ (\E err : Fail(w, err)) \/ Abandon(w)
    BY <1>13 DEF MarkIndexed, FailTask
  <2> QED  BY <1>1, <1>3, <1>4, <2>1, <2>2, NotToCommit DEF Step
<1>14. CASE MarkEnd(w)
  <2>1. CASE Status(Arc(w)) = "processing"
    <3>1. ~Idle(w) /\ Go(w, "commit") /\ \E to \in {"completed", "failed"} : \E err : Move(Arc(w), to, err)
      BY <1>14, <2>1 DEF MarkEnd, Idle
    <3>2. task'[Arc(w)].status \in {"completed", "failed"} /\ \A a \in Archives : Ended(a) => task'[a] = task[a]
      BY <1>4, <2>1, <3>1
    <3>3. wk'[w].rec = wk[w].rec /\ \A v \in Workers \ {w} : wk'[v] = wk[v]
      BY <1>5, <1>6, <3>1
    <3> QED  BY <1>1, <3>2, <3>3 DEF Arc
  <2>2. CASE Status(Arc(w)) # "processing"
    BY <1>1, <1>3, <1>14, <2>2, NotToCommit DEF MarkEnd
  <2> QED  BY <2>1, <2>2
<1> QED  BY <1>7, <1>8, <1>9, <1>10, <1>11, <1>12, <1>13, <1>14 DEF Work

\* A task that is open again was reopened by an admin, who still has to publish its event
\* unless the event is there.
LEMMA CommitsStay ==
  ASSUME TypeOK, TypeOK', LogGrows, CommitsOnlyEnded,
         \A w \in Workers : wk'[w].pc = "commit" =>
           \/ wk[w].pc = "commit" /\ wk'[w].rec = wk[w].rec
           \/ task'[log'[wk'[w].rec]].status \in {"completed", "failed"},
         \A a \in Archives : Ended(a) => Ended(a)' \/ Reopening(a)',
         \A a \in Archives : Reopening(a) =>
           Reopening(a)' \/ \E i \in (Len(log) + 1)..Len(log') : log'[i] = a
  PROVE  CommitsOnlyEnded'
<1> SUFFICES ASSUME NEW w \in Workers, At(w, "commit")', ~Ended(Arc(w))'
             PROVE  (EventAfter(wk[w].rec, Arc(w)) \/ Reopening(Arc(w)))'
  BY DEF CommitsOnlyEnded
<1>1. At(w, "commit") /\ wk'[w].rec = wk[w].rec /\ ~Idle(w)
  BY DEF At, Ended, Status, Arc, Idle
<1>2. PICK a \in Archives : a = Arc(w)
  BY <1>1, ArcType
<1>3. PICK n \in Nat : n = wk[w].rec
  BY DEF TypeOK, Worker
<1>4. n \in 1..Len(log) /\ Arc(w)' = a /\ Len(log) \in Nat /\ Len(log') \in Nat
  BY <1>1, <1>2, <1>3, ArcType DEF Arc, LogGrows, TypeOK
<1>5. ~Ended(a)'
  BY <1>4 DEF Ended, Status
<1>6. EventAfter(n, a)' \/ Reopening(a)'
  <2>1. CASE Ended(a)
    BY <1>5, <2>1
  <2>2. CASE ~Ended(a)
    <3>1. EventAfter(n, a) \/ Reopening(a)
      BY <1>1, <1>2, <1>3, <2>2 DEF CommitsOnlyEnded
    <3>2. ASSUME NEW i \in (Len(log) + 1)..Len(log'), log'[i] = a  PROVE EventAfter(n, a)'
      <4>1. i \in (n + 1)..Len(log')
        BY <1>4
      <4> QED  BY <3>2, <4>1 DEF EventAfter
    <3> QED  BY <3>1, <3>2, EventStays
  <2> QED  BY <2>1, <2>2
<1>7. wk'[w].rec = n
  BY <1>1, <1>3
<1> QED  BY <1>4, <1>6, <1>7 DEF EventAfter, Reopening

\* CommitsOnlyEnded is inductive if no admin has a publication to make up for.
LEMMA StepCommits ==
  ASSUME AdminsAnswer, PublicationsAnswer
  PROVE  TypeOK /\ CommitsOnlyEnded /\ NothingToRevert /\ [Next]_vars
           => (CommitsOnlyEnded /\ NothingToRevert)'
<1> SUFFICES ASSUME TypeOK, CommitsOnlyEnded, NothingToRevert, [Next]_vars
             PROVE  CommitsOnlyEnded' /\ NothingToRevert'
  OBVIOUS
<1>1. TypeOK'
  BY StepTypeOK
<1>2. ASSUME UNCHANGED log  PROVE LogGrows
  BY <1>2 DEF LogGrows, TypeOK
<1>3. CASE UNCHANGED vars
  BY <1>1, <1>2, <1>3, CommitsStay DEF vars, NothingToRevert, Ended, Reopening, Status
<1>4. ASSUME NEW w \in Workers, Work(w)  PROVE CommitsOnlyEnded' /\ NothingToRevert'
  <2>1. /\ UNCHANGED <<log, adm>>
        /\ \A v \in Workers \ {w} : wk'[v] = wk[v]
        /\ \A a \in Archives : Ended(a) => task'[a] = task[a]
        /\ wk'[w].pc = "commit" => task'[log'[wk'[w].rec]].status \in {"completed", "failed"}
    BY <1>4, WorkCommits
  <2> QED  BY <1>1, <1>2, <2>1, CommitsStay DEF NothingToRevert, Reopening, Ended, Status
<1>5. ASSUME NEW w \in Workers, Group(w) \/ Crash(w)  PROVE CommitsOnlyEnded' /\ NothingToRevert'
  <2>1. UNCHANGED <<log, adm, task>>
    BY <1>5 DEF Group, Assign, StartWorker, Crash, Stop, groupVars
  <2>2. \A v \in Workers : wk'[v].pc = "commit" => wk[v].pc = "commit" /\ wk'[v].rec = wk[v].rec
    <3>1. wk \in [Workers -> Worker] /\ wk[w] \in Worker
      BY DEF TypeOK
    <3>2. CASE Assign(w)
      BY <3>1, <3>2 DEF Assign, Worker
    <3>3. CASE StartWorker(w)
      BY <3>1, <3>3 DEF StartWorker, Go, Worker
    <3>4. CASE Crash(w)
      BY <3>1, <3>4 DEF Crash, Stop, NewWorker
    <3> QED  BY <1>5, <3>2, <3>3, <3>4 DEF Group
  <2> QED  BY <1>1, <1>2, <2>1, <2>2, CommitsStay DEF NothingToRevert, Reopening, Ended, Status
<1>6. ASSUME NEW a \in Archives, Publish(a)  PROVE CommitsOnlyEnded' /\ NothingToRevert'
  <2>1. UNCHANGED <<task, adm, wk>> /\ LogGrows
    BY <1>6, Appended DEF Publish, Kept, LogGrows
  <2> QED  BY <1>1, <2>1, CommitsStay DEF NothingToRevert, Reopening, Ended, Status
<1>7. ASSUME NEW x \in Admins, Admin(x)  PROVE CommitsOnlyEnded' /\ NothingToRevert'
  <2>1. adm[x] \in AdminState /\ adm \in [Admins -> AdminState] /\ UNCHANGED wk
    BY <1>7 DEF TypeOK, Admin, AdminRead, AdminReset, AdminPublish, AdminRevert, AdminCrash
  <2>2. adm[x].pc # "idle" => adm[x].archive \in Archives
    BY <2>1 DEF AdminState
  <2>3. CASE AdminRead(x)
    <3>1. UNCHANGED <<log, task>> /\ NothingToRevert' /\ \A a : Reopening(a) => Reopening(a)'
      BY <2>1, <2>3 DEF AdminRead, Reopening, NothingToRevert, groupVars
    <3> QED  BY <1>1, <1>2, <2>1, <3>1, CommitsStay DEF Ended, Status
  <2>4. CASE AdminReset(x)
    <3>1. PICK b \in Archives : b = adm[x].archive
      BY <2>2, <2>4 DEF AdminReset
    <3>2. UNCHANGED log /\ adm[x].pc = "reset"
      BY <2>4 DEF AdminReset, groupVars
    <3>3. CASE Status(b) = "failed"
      <4>1. adm' = [adm EXCEPT ![x].pc = "publish"]
        BY <2>4, <3>1, <3>3 DEF AdminReset
      <4>2. NothingToRevert' /\ Reopening(b)' /\ \A a : Reopening(a) => Reopening(a)'
        BY <2>1, <3>1, <3>2, <4>1 DEF NothingToRevert, Reopening, AdminState
      <4>3. (\A a \in Archives : a # b => task'[a] = task[a]) /\ task'[b].status = "pending"
        BY <2>4, <3>1, <3>3 DEF AdminReset, Reset, TypeOK, NewTask
      <4> QED  BY <1>1, <1>2, <2>1, <3>2, <4>2, <4>3, CommitsStay DEF Ended, Status
    <3>4. CASE Status(b) # "failed"
      <4>1. UNCHANGED task /\ adm' = [adm EXCEPT ![x] = [pc |-> "idle"]]
        BY <2>4, <3>1, <3>4 DEF AdminReset
      <4>2. NothingToRevert' /\ \A a : Reopening(a) => Reopening(a)'
        BY <2>1, <3>2, <4>1 DEF NothingToRevert, Reopening
      <4> QED  BY <1>1, <1>2, <2>1, <3>2, <4>1, <4>2, CommitsStay DEF Ended, Status
    <3> QED  BY <3>3, <3>4
  <2>5. CASE AdminPublish(x)
    <3>1. PICK b \in Archives : b = adm[x].archive
      BY <2>2, <2>5 DEF AdminPublish
    <3>2. log' = Append(log, b) /\ adm' = [adm EXCEPT ![x] = [pc |-> "idle"]] /\ UNCHANGED task
      BY <2>5, <3>1 DEF AdminPublish, PublicationsAnswer
    <3>3. LogGrows /\ \E i \in (Len(log) + 1)..Len(log') : log'[i] = b
      BY <3>2, Appended DEF Kept, LogGrows
    <3>4. NothingToRevert' /\ \A a : Reopening(a) => Reopening(a)' \/ a = b
      BY <2>1, <3>1, <3>2 DEF NothingToRevert, Reopening
    <3> QED  BY <1>1, <2>1, <3>2, <3>3, <3>4, CommitsStay DEF Ended, Status
  <2>6. ~AdminRevert(x) /\ ~AdminCrash(x)
    BY DEF AdminRevert, AdminCrash, NothingToRevert, AdminsAnswer
  <2> QED  BY <1>7, <2>3, <2>4, <2>5, <2>6 DEF Admin
<1> QED  BY <1>3, <1>4, <1>5, <1>6, <1>7 DEF Next

\* A record is committed only for a task that has ended, or that an admin has reopened since
\* and announces again: also by a worker the partition was taken from, whose task other
\* workers and admins have meanwhile got hold of.
THEOREM CommitsAreEnded ==
  ASSUME AdminsAnswer, PublicationsAnswer
  PROVE  Spec => []CommitsOnlyEnded
<1>1. Init => CommitsOnlyEnded /\ NothingToRevert
  BY DEF Init, CommitsOnlyEnded, NothingToRevert, At, NewWorker
<1>2. TypeOK /\ CommitsOnlyEnded /\ NothingToRevert /\ [Next]_vars
        => (CommitsOnlyEnded /\ NothingToRevert)'
  BY StepCommits
<1> QED  BY <1>1, <1>2, TypeCorrect, PTL DEF Spec

\* The same with publications that fail, as long as the group takes the partition from no
\* worker that is alive: then nobody else processes a task whose record is being committed.
THEOREM CommitsAreEndedAlone ==
  ASSUME AdminsAnswer, WorkersAlone
  PROVE  Spec => []CommitsOnlyEnded
<1>1. TypeOK /\ SafetyInv /\ EventsInv => CommitsOnlyEnded
  <2> SUFFICES ASSUME TypeOK, SafetyInv, EventsInv,
                      NEW w \in Workers, At(w, "commit"), ~Ended(Arc(w))
               PROVE  EventAfter(wk[w].rec, Arc(w)) \/ Reopening(Arc(w))
    BY DEF CommitsOnlyEnded
  <2>1. ~Idle(w)
    BY DEF At, Idle
  <2>2. Arc(w) \in Archives /\ wk[w].rec \in Nat /\ Status(Arc(w)) # "absent"
    BY <2>1, ArcType DEF TypeOK
  <2>3. Status(Arc(w)) # "processing"
    BY <2>1 DEF SafetyInv, Knows, At, Status
  <2>4. Status(Arc(w)) = "pending"
    BY <2>2, <2>3 DEF TypeOK, Task, Ended, Status
  <2>5. Reached(w, wk[w].rec) /\ ~Taking(w, Arc(w))
    BY <2>1, <2>2 DEF EventsInv, Stands, Taking, At
  <2> QED  BY <2>2, <2>4, <2>5 DEF Reached
<1> QED  BY <1>1, EventsInvariant, SafetyInvariant, PTL

-----------------------------------------------------------------------------
(* Stored results *)

\* Admin requests are made one at a time.
OneAdmin == \A x, y \in Admins : x = y

\* What an admin has read of the task it is about to reset is still true; and a task that
\* does not exist has no result.
ReadsHold ==
  /\ \A x \in Admins : adm[x].pc = "reset" =>
       /\ Status(adm[x].archive) = "failed"
       /\ task[adm[x].archive].error \in (IF adm[x].clear THEN RebuildAllowed ELSE RetryAllowed)
  /\ \A a \in Archives : Status(a) = "absent" => task[a].result = NoResult

\* A worker makes a new task or stores what the LLM answered it; all else it does to a task
\* leaves the result.
LEMMA WorkResults ==
  ASSUME TypeOK, NEW w \in Workers, Work(w)
  PROVE  \A a \in Archives :
           \/ task'[a] = task[a]
           \/ /\ Status(a)' # "absent"
              /\ \/ task'[a].result = task[a].result
                 \/ Status(a) = "absent"
                 \/ a = Arc(w) /\ Asked(w)
<1>1. task \in [Archives -> Task]
  BY DEF TypeOK
<1>2. CASE Upsert(w)
  <2> DEFINE b == log[wk[w].next]
  <2>1. wk[w].next \in 1..Len(log)
    BY <1>2, NextRecord
  <2>2. b \in Archives
    BY <2>1 DEF TypeOK
  <2>3. task' = [task EXCEPT ![b] = IF Status(b) = "absent" THEN NewTask ELSE task[b]]
    BY <1>2 DEF Upsert
  <2> HIDE DEF b
  <2> QED  BY <1>1, <2>2, <2>3 DEF Status, NewTask
<1>3. CASE MarkProcessing(w) \/ MarkIndexed(w) \/ FailTask(w) \/ MarkEnd(w)
  <2>1. UNCHANGED task \/ \E to \in {"processing", "completed", "failed"} : \E err : Move(Arc(w), to, err)
    BY <1>3 DEF MarkProcessing, MarkIndexed, FailTask, MarkEnd
  <2>2. ASSUME NEW to \in {"processing", "completed", "failed"}, NEW err, Move(Arc(w), to, err),
               NEW a \in Archives
        PROVE  task'[a] = task[a] \/ (Status(a)' # "absent" /\ task'[a].result = task[a].result)
    BY <1>1, <2>2 DEF Move, Status, Task
  <2> QED  BY <2>1, <2>2
<1>4. CASE Extract(w)
  <2>1. UNCHANGED task \/ /\ Status(Arc(w)) = "processing"
                          /\ \E r \in Results \cup {EmptyResult} :
                               task' = [task EXCEPT ![Arc(w)].result = r]
    BY <1>4 DEF Extract
  <2> QED  BY <1>1, <1>4, <2>1 DEF Status, Task, Extract
<1>5. CASE Reload(w) \/ BumpAttempt(w) \/ ReloadResumed(w) \/ Prepare(w) \/ AskAgain(w)
           \/ ExtractFails(w) \/ Handoff(w) \/ Align(w) \/ Reconcile(w) \/ PrepareWrite(w)
  BY <1>5 DEF Reload, BumpAttempt, ReloadResumed, Prepare, AskAgain, ExtractFails, Handoff,
     Align, Reconcile, PrepareWrite
<1>6. CASE WriteGraph(w) \/ WriteFails(w) \/ Repair(w) \/ Sync(w) \/ WriteIndex(w)
           \/ IndexFails(w) \/ CheckEnd(w) \/ Commit(w)
  BY <1>6 DEF WriteGraph, WriteFails, Repair, Sync, WriteIndex, IndexFails, CheckEnd, Commit
<1> QED  BY <1>2, <1>3, <1>4, <1>5, <1>6 DEF Work

\* An admin clears the result of a failed task that was to be rebuilt, or leaves it.
LEMMA AdminResults ==
  ASSUME TypeOK, OneAdmin, ReadsHold, NEW x \in Admins, Admin(x)
  PROVE  /\ ReadsHold'
         /\ \A a \in Archives :
              task'[a].result # task[a].result =>
                /\ Status(a) = "failed" /\ task[a].error \in RebuildAllowed
                /\ task'[a] = NewTask
<1>1. adm[x] \in AdminState /\ adm \in [Admins -> AdminState] /\ \A y \in Admins : y = x
  BY DEF TypeOK, OneAdmin
<1>2. adm[x].pc # "idle" => adm[x].archive \in Archives
  BY <1>1 DEF AdminState
<1>3. task \in [Archives -> Task]
  BY DEF TypeOK
<1>4. CASE AdminRead(x)
  <2>1. PICK a \in Archives, clear \in BOOLEAN :
          /\ Status(a) = "failed"
          /\ task[a].error \in (IF clear THEN RebuildAllowed ELSE RetryAllowed)
          /\ adm' = [adm EXCEPT ![x] = [pc |-> "reset", archive |-> a, clear |-> clear]]
    BY <1>4 DEF AdminRead
  <2>2. UNCHANGED task /\ adm'[x] = [pc |-> "reset", archive |-> a, clear |-> clear]
    BY <1>1, <1>4, <2>1 DEF AdminRead
  <2>3. adm'[x].archive = a /\ adm'[x].clear = clear
    BY <2>2
  <2> QED  BY <1>1, <2>1, <2>2, <2>3 DEF ReadsHold, Status
<1>5. CASE AdminReset(x)
  <2>1. PICK b \in Archives : b = adm[x].archive
    BY <1>2, <1>5 DEF AdminReset
  <2>2. adm[x].pc = "reset" /\ adm'[x].pc # "reset"
    BY <1>1, <1>5 DEF AdminReset, AdminState
  <2>3. /\ Status(b) = "failed"
        /\ task[b].error \in (IF adm[x].clear THEN RebuildAllowed ELSE RetryAllowed)
    BY <2>1, <2>2 DEF ReadsHold
  <2>4. task' = [task EXCEPT ![b] = [NewTask EXCEPT !.result = IF adm[x].clear THEN NoResult ELSE task[b].result]]
    BY <1>5, <2>1, <2>3 DEF AdminReset, Reset
  <2>5. /\ \A a \in Archives : a # b => task'[a] = task[a]
        /\ task'[b].status = "pending"
        /\ task'[b].result = IF adm[x].clear THEN NoResult ELSE task[b].result
        /\ adm[x].clear => task'[b] = NewTask
    BY <1>3, <2>4 DEF NewTask
  <2> QED  BY <1>1, <2>2, <2>3, <2>5 DEF ReadsHold, Status
<1>6. CASE AdminRevert(x)
  <2>1. PICK b \in Archives : b = adm[x].archive
    BY <1>2, <1>6 DEF AdminRevert
  <2>2. adm'[x].pc # "reset"
    BY <1>1, <1>6 DEF AdminRevert
  <2>3. UNCHANGED task \/ Move(b, "failed", "kafka")
    BY <1>6, <2>1 DEF AdminRevert, MarkUnpublished
  <2>4. \A a \in Archives : task'[a] = task[a]
                            \/ (task'[a].status = "failed" /\ task'[a].result = task[a].result)
    BY <1>3, <2>3 DEF Move, Task
  <2> QED  BY <1>1, <2>2, <2>4 DEF ReadsHold, Status
<1>7. CASE AdminPublish(x) \/ AdminCrash(x)
  <2>1. UNCHANGED task /\ adm'[x].pc # "reset"
    BY <1>1, <1>7 DEF AdminPublish, AdminCrash, AdminState
  <2> QED  BY <1>1, <2>1 DEF ReadsHold, Status
<1> QED  BY <1>4, <1>5, <1>6, <1>7 DEF Admin

\* A result that was stored for an archive is what every later run works with, whatever
\* crashes, aborts or is redelivered: a worker stores none over it, and only an admin who
\* has the task rebuilt clears it.  Of two admins one may clear what the other's retry
\* has made of the task, since only its status is looked at again.
THEOREM ResultsAreKept ==
  ASSUME WorkersAlone, OneAdmin
  PROVE  Spec => ResultKept
<1> DEFINE Stays == \A a \in Archives :
                      task[a].result # NoResult /\ task'[a].result # task[a].result =>
                        /\ Status(a) = "failed" /\ task[a].error \in RebuildAllowed
                        /\ task'[a] = NewTask
<1>1. Init => ReadsHold
  BY DEF Init, ReadsHold, NoTask, Status
<1>2. ASSUME TypeOK, SafetyInv, ReadsHold, [Next]_vars  PROVE ReadsHold' /\ Stays
  <2>1. ASSUME UNCHANGED <<task, adm>>  PROVE ReadsHold' /\ Stays
    BY <1>2, <2>1 DEF ReadsHold, Status
  <2>2. ASSUME NEW w \in Workers, Work(w)  PROVE ReadsHold' /\ Stays
    <3>1. \A a \in Archives :
            \/ task'[a] = task[a]
            \/ /\ Status(a)' # "absent"
               /\ \/ task'[a].result = task[a].result
                  \/ Status(a) = "absent"
                  \/ a = Arc(w) /\ Asked(w)
      BY <1>2, <2>2, WorkResults
    <3>2. Asked(w) => task[Arc(w)].result = NoResult
      BY <1>2 DEF SafetyInv, Asked, Idle, Knows
    <3>3. Stays
      BY <1>2, <3>1, <3>2 DEF ReadsHold
    <3>4. UNCHANGED adm /\ \A a \in Archives : Ended(a) => task'[a] = task[a]
      BY <1>2, <2>2, WorkCommits
    <3>5. ASSUME NEW x \in Admins, adm[x].pc = "reset"
          PROVE  task'[adm[x].archive] = task[adm[x].archive]
      <4>1. adm[x].archive \in Archives
        BY <1>2, <3>5 DEF TypeOK, AdminState
      <4> QED  BY <1>2, <3>4, <3>5, <4>1 DEF ReadsHold, Ended
    <3>6. \A a \in Archives : Status(a)' = "absent" => task'[a].result = NoResult
      BY <1>2, <3>1 DEF ReadsHold, Status
    <3>7. ReadsHold'
      BY <1>2, <3>4, <3>5, <3>6 DEF ReadsHold, Status
    <3> QED  BY <3>3, <3>7
  <2>3. ASSUME NEW w \in Workers, Group(w) \/ Crash(w)  PROVE ReadsHold' /\ Stays
    BY <2>1, <2>3 DEF Group, Assign, StartWorker, Crash
  <2>4. ASSUME NEW a \in Archives, Publish(a)  PROVE ReadsHold' /\ Stays
    BY <2>1, <2>4 DEF Publish
  <2>5. ASSUME NEW x \in Admins, Admin(x)  PROVE ReadsHold' /\ Stays
    BY <1>2, <2>5, AdminResults
  <2>6. CASE UNCHANGED vars
    BY <2>1, <2>6 DEF vars
  <2> QED  BY <1>2, <2>2, <2>3, <2>4, <2>5, <2>6 DEF Next
<1>3. TypeOK /\ SafetyInv /\ ReadsHold /\ [Next]_vars => ReadsHold'
  BY <1>2
<1>4. TypeOK /\ SafetyInv /\ ReadsHold /\ [Next]_vars => [Stays]_vars
  BY <1>2
<1> QED  BY <1>1, <1>3, <1>4, SafetyInvariant, PTL DEF Spec, ResultKept
=============================================================================
