----------------------- MODULE ExtractionSafety_proofs -----------------------
(***************************************************************************)
(* Safety of the extraction of archives as long as the group does not take *)
(* the partition from a worker that is alive and the reconciliation leaves *)
(* no candidate out: for any number of archives, workers, admin requests,  *)
(* results and events, and with all other faults.                          *)
(***************************************************************************)
EXTENDS ExtractionTask_proofs

\* A worker holds the partition as long as it is alive.
WorkersAlone == {"rebalance", "skip"} \cap Faults = {}

-----------------------------------------------------------------------------
(* The inductive invariant *)

\* The owner is past what is committed, and only the owner has a record in progress.
Alone(w) ==
  /\ owner = w => wk[w].next > committed
  /\ ~Idle(w) => /\ owner = w
                 /\ wk[w].next = wk[w].rec + 1
                 /\ wk[w].rec > committed

\* Steps of a worker that has its task in processing.
Busy == {"resume", "prepare", "llm", "correct", "handoff", "align", "reconcile", "graph",
         "write", "repair", "sync", "index", "done", "completing"}

\* Steps between the LLM's answer and the terminal write.
WithResult == {"handoff", "align", "reconcile", "graph", "write", "repair", "sync", "index", "done"}

\* What a worker k knows of its task t, of how often results of the archive were created
\* (c), and of which are indexed (i).
Knows(k, t, c, i) ==
  /\ k.pc \notin {"rebump", "reresume"}
  /\ k.pc \in Busy => t.status = "processing"
  /\ k.pc \in {"start", "restart", "commit"} => t.status # "processing"
  /\ k.pc = "undo" => t.status \in {"processing", "completed"}
  /\ k.pc = "complete" => t.status = "completed" \/ (t.status = "processing" /\ t.result = EmptyResult)
  /\ k.pc = "completing" => t.result = EmptyResult
  /\ k.pc \in {"prepare", "llm", "correct"} => t.result = NoResult
  /\ k.pc \in WithResult => t.result \in Results
  /\ k.pc = "reconcile" => k.aligned = t.result
  /\ k.pc \in {"graph", "write"} =>
       \/ k.plan = t.result /\ c[t.result] = 0
       \/ k.plan = NoResult /\ c[t.result] > 0
  /\ k.pc \in {"repair", "sync", "index", "done"} => c[t.result] > 0
  /\ k.pc \in {"sync", "index"} => t.result \in k.seeds
  /\ k.pc = "done" => t.result \in i

\* A completed task's memories are in the graph and in the index.
Complete(t, c, i) ==
  t.status = "completed" /\ t.result \in Results => c[t.result] > 0 /\ t.result \in i

\* If no attempt is given up, the owner of the partition still comes to every task that
\* is processing, or is at it.
Comes(w) ==
  "abort" \notin Faults /\ owner = w =>
    \A a \in Archives : Status(a) = "processing" =>
      EventAfter(wk[w].next - 1, a) \/ (~Idle(w) /\ Arc(w) = a)

SafetyInv ==
  /\ \A w \in Workers : Alone(w)
  /\ \A w \in Workers : ~Idle(w) => Knows(wk[w], task[Arc(w)], copies[Arc(w)], indexed[Arc(w)])
  /\ \A w \in Workers : Comes(w)
  /\ \A a \in Archives : Complete(task[a], copies[a], indexed[a])
  /\ OneMemoryPerCandidate
  /\ "abort" \notin Faults => ProcessingIsDelivered

-----------------------------------------------------------------------------
(* What a worker's step comes to *)

\* A task, its counts of creation and its indexed results are in order.
InOrder(t, c, i) == Complete(t, c, i) /\ \A r \in Results : c[r] <= 1

LEMMA AllInOrder ==
  ASSUME SafetyInv
  PROVE  \A a \in Archives : InOrder(task[a], copies[a], indexed[a])
  BY DEF SafetyInv, InOrder, OneMemoryPerCandidate

\* Of all that is not w's, and of the log, nothing changes.
OwnOnly(w, a) ==
  /\ UNCHANGED <<log, committed, owner>>
  /\ \A v \in Workers \ {w} : wk'[v] = wk[v]
  /\ \A b \in Archives \ {a} :
       task'[b] = task[b] /\ copies'[b] = copies[b] /\ indexed'[b] = indexed[b]

\* While w has a record, nobody else has one.
LEMMA OthersIdle ==
  ASSUME SafetyInv, NEW w \in Workers, ~Idle(w)
  PROVE  owner = w /\ \A v \in Workers \ {w} : Idle(v)
  BY DEF SafetyInv, Alone

\* The record of w is still to be committed.
LEMMA RecordIsAhead ==
  ASSUME TypeOK, SafetyInv, NEW w \in Workers, ~Idle(w)
  PROVE  \E i \in (committed + 1)..Len(log) : log[i] = Arc(w)
<1>1. wk[w].rec \in 1..Len(log) /\ wk[w].rec > committed
  BY ArcType DEF SafetyInv, Alone
<1>2. wk[w].rec \in (committed + 1)..Len(log)
  BY <1>1 DEF TypeOK
<1> QED  BY <1>2 DEF Arc

\* The others' archives are in order as they were.
LEMMA OrderKept ==
  ASSUME SafetyInv, NEW w, NEW a, OwnOnly(w, a), InOrder(task'[a], copies'[a], indexed'[a])
  PROVE  \A b \in Archives : InOrder(task'[b], copies'[b], indexed'[b])
<1> TAKE b \in Archives
<1>1. CASE b = a
  BY <1>1
<1>2. CASE b # a
  <2>1. task'[b] = task[b] /\ copies'[b] = copies[b] /\ indexed'[b] = indexed[b]
    BY <1>2, Zenon DEF OwnOnly
  <2>2. InOrder(task[b], copies[b], indexed[b])
    BY AllInOrder
  <2> QED  BY <2>1, <2>2
<1> QED  BY <1>1, <1>2

\* w goes on with its record.
LEMMA GoesOn ==
  ASSUME TypeOK, SafetyInv, NEW w \in Workers, ~Idle(w), NEW a \in Archives, a = Arc(w),
         OwnOnly(w, a), wk'[w].pc \notin {"down", "poll"},
         wk'[w].rec = wk[w].rec, wk'[w].next = wk[w].next,
         Knows(wk'[w], task'[a], copies'[a], indexed'[a]),
         InOrder(task'[a], copies'[a], indexed'[a])
  PROVE  SafetyInv'
<1>0. owner' = w /\ owner = w /\ \A v \in Workers \ {w} : Idle(v)
  BY OthersIdle DEF OwnOnly
<1>1. log'[wk'[w].rec] = a /\ log' = log /\ committed' = committed
  BY DEF OwnOnly, Arc
<1>2. ~Idle(w)' /\ \A v \in Workers \ {w} : Idle(v)'
  BY <1>0 DEF OwnOnly, Idle
<1>3. \A v \in Workers : Alone(v)'
  <2>1. Alone(w)'
    BY <1>0, <1>1 DEF SafetyInv, Alone, Idle
  <2>2. \A v \in Workers \ {w} : Alone(v)'
    BY <1>0, <1>2 DEF Alone
  <2> QED  BY <2>1, <2>2
<1>4. \A v \in Workers : ~Idle(v)' => Knows(wk'[v], task'[log'[wk'[v].rec]],
                                         copies'[log'[wk'[v].rec]], indexed'[log'[wk'[v].rec]])
  BY <1>1, <1>2
<1>5. \A v \in Workers : Comes(v)'
  <2>1. \A v \in Workers \ {w} : Comes(v)'
    BY <1>0 DEF Comes
  <2>2. ASSUME "abort" \notin Faults, NEW b \in Archives, task'[b].status = "processing", b # a
        PROVE  \E i \in (wk[w].next - 1 + 1)..Len(log) : log[i] = b
    <3>1. Status(b) = "processing"
      BY <2>2 DEF OwnOnly, Status
    <3> QED  BY <1>0, <2>2, <3>1 DEF SafetyInv, Comes, EventAfter
  <2>3. Comes(w)'
    BY <1>1, <1>2, <2>2 DEF Comes, EventAfter, Status, Arc
  <2> QED  BY <2>1, <2>3
<1>6. \A b \in Archives : InOrder(task'[b], copies'[b], indexed'[b])
  BY OrderKept
<1>7. "abort" \notin Faults => ProcessingIsDelivered'
  <2>1. ASSUME "abort" \notin Faults, NEW b \in Archives, task'[b].status = "processing"
        PROVE  \E i \in (committed + 1)..Len(log) : log[i] = b
    <3>1. CASE b = a
      BY <3>1, RecordIsAhead
    <3>2. CASE b # a
      <4>1. Status(b) = "processing"
        BY <2>1, <3>2 DEF OwnOnly, Status
      <4> QED  BY <2>1, <4>1 DEF SafetyInv, ProcessingIsDelivered, EventAfter
    <3> QED  BY <3>1, <3>2
  <2> QED  BY <1>1, <2>1 DEF ProcessingIsDelivered, EventAfter, Status
<1> QED
  BY <1>3, <1>4, <1>5, <1>6, <1>7 DEF SafetyInv, InOrder, OneMemoryPerCandidate, Arc

\* w gives its record up; its position stays behind it.
LEMMA GivesUp ==
  ASSUME TypeOK, SafetyInv, NEW w \in Workers, ~Idle(w), NEW a \in Archives, a = Arc(w),
         OwnOnly(w, a), wk'[w] = NewWorker("poll", wk[w].next),
         task'[a].status # "processing" \/ "abort" \in Faults,
         InOrder(task'[a], copies'[a], indexed'[a])
  PROVE  SafetyInv'
<1>0. owner' = w /\ owner = w /\ \A v \in Workers \ {w} : Idle(v)
  BY OthersIdle DEF OwnOnly
<1>1. log' = log /\ committed' = committed /\ wk'[w].next = wk[w].next
  BY DEF OwnOnly, NewWorker
<1>2. \A v \in Workers : Idle(v)'
  BY <1>0 DEF OwnOnly, Idle, NewWorker
<1>3. \A v \in Workers : Alone(v)'
  <2>1. wk'[w].next > committed'
    BY <1>0, <1>1 DEF SafetyInv, Alone
  <2> QED  BY <1>0, <1>2, <2>1 DEF Alone
<1>4. ASSUME "abort" \notin Faults, NEW b \in Archives, task'[b].status = "processing"
      PROVE  /\ \E i \in (wk[w].next - 1 + 1)..Len(log) : log[i] = b
             /\ \E i \in (committed + 1)..Len(log) : log[i] = b
  <2>1. b # a
    BY <1>4
  <2>2. Status(b) = "processing"
    BY <1>4, <2>1 DEF OwnOnly, Status
  <2>3. \E i \in (wk[w].next - 1 + 1)..Len(log) : log[i] = b
    BY <1>0, <1>4, <2>1, <2>2 DEF SafetyInv, Comes, EventAfter
  <2>4. \E i \in (committed + 1)..Len(log) : log[i] = b
    BY <1>4, <2>2 DEF SafetyInv, ProcessingIsDelivered, EventAfter
  <2> QED  BY <2>3, <2>4
<1>5. \A v \in Workers : Comes(v)'
  <2>1. Comes(w)'
    BY <1>1, <1>4 DEF Comes, EventAfter, Status
  <2> QED  BY <1>0, <2>1 DEF Comes
<1>6. "abort" \notin Faults => ProcessingIsDelivered'
  BY <1>1, <1>4 DEF ProcessingIsDelivered, EventAfter, Status
<1>7. \A b \in Archives : InOrder(task'[b], copies'[b], indexed'[b])
  BY OrderKept
<1> QED
  BY <1>2, <1>3, <1>5, <1>6, <1>7 DEF SafetyInv, InOrder, OneMemoryPerCandidate

\* w leaves the group.
LEMMA Stops ==
  ASSUME TypeOK, SafetyInv, NEW w \in Workers, Stop(w), UNCHANGED <<task, graphVars>>
  PROVE  SafetyInv'
<1>1. /\ wk'[w] = NewWorker("down", 0) /\ \A v \in Workers \ {w} : wk'[v] = wk[v]
      /\ owner' = (IF owner = w THEN Nobody ELSE owner)
      /\ UNCHANGED <<log, committed, task, copies, indexed>>
  BY DEF Stop, TypeOK, graphVars
<1>2. Idle(w)' /\ owner' # w
  BY <1>1, ExtractionAssumption DEF Idle, NewWorker
<1>3. \A v \in Workers \ {w} : Idle(v)' <=> Idle(v)
  BY <1>1 DEF Idle
<1>4. \A v \in Workers : Alone(v)'
  BY <1>1, <1>2, <1>3, ExtractionAssumption DEF SafetyInv, Alone
<1>5. \A n, a : EventAfter(n, a)' <=> EventAfter(n, a)
  BY <1>1 DEF EventAfter
<1>6. \A v \in Workers : Comes(v)'
  BY <1>1, <1>2, <1>3, <1>5, ExtractionAssumption DEF SafetyInv, Comes, Status, Arc
<1>7. \A v \in Workers : ~Idle(v)' => Knows(wk[v], task[Arc(v)], copies[Arc(v)], indexed[Arc(v)])'
  BY <1>1, <1>2, <1>3 DEF SafetyInv, Arc
<1>8. \A a \in Archives : InOrder(task'[a], copies'[a], indexed'[a])
  BY <1>1, AllInOrder
<1>9. "abort" \notin Faults => ProcessingIsDelivered'
  BY <1>1, <1>5 DEF SafetyInv, ProcessingIsDelivered, Status
<1> QED
  BY <1>4, <1>6, <1>7, <1>8, <1>9 DEF SafetyInv, InOrder, OneMemoryPerCandidate

\* The forms in which most actions change a worker, the stores left alone: on to another
\* step, to a step that asks nothing of the task, to the start of the pipeline, or away
\* from the record.
LEMMA MovesOn ==
  ASSUME TypeOK, SafetyInv, NEW w \in Workers, ~Idle(w), NEW k \in Worker,
         wk' = [wk EXCEPT ![w] = k], UNCHANGED <<groupVars, task, graphVars>>,
         k.pc \notin {"down", "poll"}, k.rec = wk[w].rec, k.next = wk[w].next,
         Knows(k, task[Arc(w)], copies[Arc(w)], indexed[Arc(w)])
  PROVE  SafetyInv'
<1>1. OwnOnly(w, Arc(w)) /\ wk'[w] = k
  BY DEF OwnOnly, TypeOK, groupVars, graphVars
<1>2. task' = task /\ copies' = copies /\ indexed' = indexed
  BY DEF graphVars
<1>3. InOrder(task[Arc(w)], copies[Arc(w)], indexed[Arc(w)])
  BY ArcType, AllInOrder
<1> QED  BY <1>1, <1>2, <1>3, ArcType, GoesOn

LEMMA GoSafe ==
  ASSUME TypeOK, SafetyInv, NEW w \in Workers, ~Idle(w), NEW pc \in Step \ {"down", "poll"},
         Go(w, pc), UNCHANGED <<groupVars, task, graphVars>>,
         Knows([wk[w] EXCEPT !.pc = pc], task[Arc(w)], copies[Arc(w)], indexed[Arc(w)])
  PROVE  SafetyInv'
<1>1. PICK k \in Worker : /\ wk' = [wk EXCEPT ![w] = k] /\ k = [wk[w] EXCEPT !.pc = pc]
                         /\ k.pc = pc /\ k.rec = wk[w].rec /\ k.next = wk[w].next
  BY GoTo
<1>2. Knows(k, task[Arc(w)], copies[Arc(w)], indexed[Arc(w)])
  BY <1>1
<1> QED  BY <1>1, <1>2, MovesOn

LEMMA FailSafe ==
  ASSUME TypeOK, SafetyInv, NEW w \in Workers, ~Idle(w), NEW err \in Error,
         Fail(w, err), UNCHANGED <<groupVars, task, graphVars>>
  PROVE  SafetyInv'
<1>1. PICK k \in Worker : /\ wk' = [wk EXCEPT ![w] = k] /\ k.pc = "fail"
                         /\ k.rec = wk[w].rec /\ k.next = wk[w].next
  BY FailTo
<1>2. Knows(k, task[Arc(w)], copies[Arc(w)], indexed[Arc(w)])
  BY <1>1 DEF Knows, Busy, WithResult
<1> QED  BY <1>1, <1>2, MovesOn

LEMMA RunPipelineSafe ==
  ASSUME TypeOK, SafetyInv, NEW w \in Workers, ~Idle(w), Status(Arc(w)) = "processing",
         RunPipeline(w, task[Arc(w)].result), UNCHANGED <<groupVars, task, graphVars>>
  PROVE  SafetyInv'
<1> DEFINE r == task[Arc(w)].result
<1>1. r \in Result
  BY ArcType DEF TypeOK, Task
<1>2. PICK k \in Worker : /\ wk' = [wk EXCEPT ![w] = k] /\ k.pc = StageFor(r)
                         /\ k.rec = wk[w].rec /\ k.next = wk[w].next
  BY <1>1, RunTo
<1>3. k.pc \notin {"down", "poll"}
  BY <1>2 DEF StageFor
<1>4. Knows(k, task[Arc(w)], copies[Arc(w)], indexed[Arc(w)])
  BY <1>1, <1>2 DEF Knows, Busy, WithResult, StageFor, Result, Status
<1> QED  BY <1>2, <1>3, <1>4, MovesOn

LEMMA AbandonSafe ==
  ASSUME TypeOK, SafetyInv, NEW w \in Workers, ~Idle(w), Abandon(w),
         UNCHANGED <<groupVars, task, graphVars>>,
         Status(Arc(w)) # "processing" \/ "abort" \in Faults
  PROVE  SafetyInv'
<1>1. OwnOnly(w, Arc(w)) /\ wk'[w] = NewWorker("poll", wk[w].next)
  BY DEF Abandon, OwnOnly, TypeOK, groupVars, graphVars
<1>2. task' = task /\ copies' = copies /\ indexed' = indexed
  BY DEF graphVars
<1>3. InOrder(task[Arc(w)], copies[Arc(w)], indexed[Arc(w)])
  BY ArcType, AllInOrder
<1> QED  BY <1>1, <1>2, <1>3, ArcType, GivesUp DEF Status

\* What w knows, where it has a record.
LEMMA Known ==
  ASSUME TypeOK, SafetyInv, NEW w \in Workers, ~Idle(w)
  PROVE  /\ Knows(wk[w], task[Arc(w)], copies[Arc(w)], indexed[Arc(w)])
         /\ InOrder(task[Arc(w)], copies[Arc(w)], indexed[Arc(w)])
         /\ Arc(w) \in Archives /\ wk[w] \in Worker
         /\ task[Arc(w)] \in Task /\ copies[Arc(w)] \in [Results -> Nat]
         /\ indexed[Arc(w)] \subseteq Results
<1>1. Arc(w) \in Archives
  BY ArcType
<1>2. Knows(wk[w], task[Arc(w)], copies[Arc(w)], indexed[Arc(w)])
  BY DEF SafetyInv
<1>3. InOrder(task[Arc(w)], copies[Arc(w)], indexed[Arc(w)])
  BY <1>1, AllInOrder
<1> QED  BY <1>1, <1>2, <1>3 DEF TypeOK

-----------------------------------------------------------------------------
(* The worker's steps *)

\* From the record to the pipeline.
LEMMA StartSafe ==
  ASSUME TypeOK, SafetyInv, NEW w \in Workers,
         Reload(w) \/ BumpAttempt(w) \/ ReloadResumed(w)
  PROVE  SafetyInv'
<1>1. ~Idle(w)
  BY DEF Reload, BumpAttempt, ReloadResumed, At, Idle
<1>2. /\ wk[w].pc \notin {"rebump", "reresume"}
      /\ wk[w].pc = "resume" => Status(Arc(w)) = "processing"
      /\ wk[w].pc = "restart" => Status(Arc(w)) # "processing"
  BY <1>1, Known DEF Knows, Busy, Status
<1>3. CASE Reload(w)
  <2>1. CASE Ended(Arc(w))
    <3>1. Go(w, "commit") /\ UNCHANGED <<groupVars, task, graphVars>>
      BY <1>3, <2>1 DEF Reload, Ended
    <3>2. Knows([wk[w] EXCEPT !.pc = "commit"], task[Arc(w)], copies[Arc(w)], indexed[Arc(w)])
      BY <1>1, <2>1, Known DEF Knows, Busy, WithResult, Ended, Status, Worker
    <3>3. "commit" \in Step \ {"down", "poll"}
      BY DEF Step
    <3> QED  BY <1>1, <3>1, <3>2, <3>3, GoSafe
  <2>2. CASE ~Ended(Arc(w))
    <3>1. Stop(w) /\ UNCHANGED <<task, graphVars>>
      BY <1>2, <1>3, <2>2 DEF Reload, At
    <3> QED  BY <3>1, Stops
  <2> QED  BY <2>1, <2>2
<1>4. CASE BumpAttempt(w)
  <2>1. Status(Arc(w)) = "processing" /\ RunPipeline(w, task[Arc(w)].result)
    BY <1>2, <1>4 DEF BumpAttempt, At
  <2> QED  BY <1>1, <1>4, <2>1, RunPipelineSafe DEF BumpAttempt
<1>5. CASE ReloadResumed(w)
  BY <1>2, <1>5 DEF ReloadResumed, At
<1> QED  BY <1>3, <1>4, <1>5

\* From the archive to the LLM's answer.
LEMMA AskSafe ==
  ASSUME TypeOK, SafetyInv, NEW w \in Workers,
         Prepare(w) \/ AskAgain(w) \/ ExtractFails(w)
  PROVE  SafetyInv'
<1>1. ~Idle(w) /\ UNCHANGED <<groupVars, task, graphVars>>
  BY DEF Prepare, AskAgain, ExtractFails, Asked, At, Idle
<1>2. wk[w].pc \in {"prepare", "llm", "correct"} /\ Status(Arc(w)) = "processing"
  BY <1>1, Known DEF Prepare, AskAgain, ExtractFails, Asked, At, Knows, Busy, Status
<1>3. ASSUME NEW pc \in {"llm", "correct"}
      PROVE  Knows([wk[w] EXCEPT !.pc = pc], task[Arc(w)], copies[Arc(w)], indexed[Arc(w)])
  BY <1>1, <1>2, Known DEF Knows, Busy, WithResult, Status, Worker
<1>4. {"llm", "correct"} \subseteq Step \ {"down", "poll"} /\ {"permanent", "retry"} \subseteq Error
  BY DEF Step, Error
<1>5. \/ Go(w, "llm") \/ Go(w, "correct")
      \/ Fail(w, "permanent") \/ Fail(w, "retry")
      \/ "abort" \in Faults /\ Abandon(w)
  BY DEF Prepare, AskAgain, ExtractFails
<1> QED  BY <1>1, <1>3, <1>4, <1>5, GoSafe, FailSafe, AbandonSafe

\* A worker that writes its task and goes on: what it knows of the new task t, it knows.
LEMMA WritesTask ==
  ASSUME TypeOK, SafetyInv, NEW w \in Workers, ~Idle(w), NEW k \in Worker, NEW t \in Task,
         wk' = [wk EXCEPT ![w] = k], task' = [task EXCEPT ![Arc(w)] = t],
         UNCHANGED <<groupVars, graphVars>>,
         k.pc \notin {"down", "poll"}, k.rec = wk[w].rec, k.next = wk[w].next,
         Knows(k, t, copies[Arc(w)], indexed[Arc(w)]),
         Complete(t, copies[Arc(w)], indexed[Arc(w)])
  PROVE  SafetyInv'
<1>1. OwnOnly(w, Arc(w)) /\ wk'[w] = k /\ task'[Arc(w)] = t
  BY ArcType DEF OwnOnly, TypeOK, groupVars, graphVars
<1>2. copies' = copies /\ indexed' = indexed
  BY DEF graphVars
<1>3. InOrder(t, copies[Arc(w)], indexed[Arc(w)])
  BY Known DEF InOrder
<1> QED  BY <1>1, <1>2, <1>3, ArcType, GoesOn

\* A pending task is taken.
LEMMA MarkSafe ==
  ASSUME TypeOK, SafetyInv, NEW w \in Workers, MarkProcessing(w)
  PROVE  SafetyInv'
<1>1. ~Idle(w) /\ wk[w].pc = "start"
  BY DEF MarkProcessing, At, Idle
<1>2. CASE Status(Arc(w)) = "pending"
  <2> DEFINE r == task[Arc(w)].result
             t == [task[Arc(w)] EXCEPT !.status = "processing", !.error = "none"]
  <2>1. r \in Result /\ t \in Task /\ t.status = "processing" /\ t.result = r
    <3>1. PICK u \in Task : u = task[Arc(w)]
      BY <1>1, Known
    <3> QED  BY <3>1 DEF Task, Error
  <2>2. task' = [task EXCEPT ![Arc(w)] = t] /\ UNCHANGED <<groupVars, graphVars>>
    BY <1>2, Known DEF MarkProcessing, Move, TypeOK, Task
  <2>3. PICK k \in Worker : /\ wk' = [wk EXCEPT ![w] = k] /\ k.pc = StageFor(r)
                           /\ k.rec = wk[w].rec /\ k.next = wk[w].next
    <3>1. RunPipeline(w, r)
      BY <1>2 DEF MarkProcessing
    <3> QED  BY <2>1, <3>1, RunTo
  <2> HIDE DEF t
  <2>4. k.pc \notin {"down", "poll"}
    BY <2>3 DEF StageFor
  <2>5. Knows(k, t, copies[Arc(w)], indexed[Arc(w)])
    BY <2>1, <2>3 DEF Knows, Busy, WithResult, StageFor, Result
  <2>6. Complete(t, copies[Arc(w)], indexed[Arc(w)])
    BY <2>1 DEF Complete
  <2> QED  BY <1>1, <2>1, <2>2, <2>3, <2>4, <2>5, <2>6, WritesTask
<1>3. CASE Status(Arc(w)) # "pending"
  <2>1. Go(w, "restart") /\ UNCHANGED <<groupVars, task, graphVars>>
    BY <1>3 DEF MarkProcessing
  <2>2. Knows([wk[w] EXCEPT !.pc = "restart"], task[Arc(w)], copies[Arc(w)], indexed[Arc(w)])
    BY <1>1, Known DEF Knows, Busy, WithResult, Worker
  <2>3. "restart" \in Step \ {"down", "poll"}
    BY DEF Step
  <2> QED  BY <1>1, <2>1, <2>2, <2>3, GoSafe
<1> QED  BY <1>2, <1>3

\* The result is stored, by a worker that finds its task in processing.
LEMMA ExtractSafe ==
  ASSUME TypeOK, SafetyInv, NEW w \in Workers, Extract(w)
  PROVE  SafetyInv'
<1>1. ~Idle(w) /\ Status(Arc(w)) = "processing"
  <2>1. wk[w].pc \in {"llm", "correct"}
    BY DEF Extract, Asked
  <2>2. ~Idle(w)
    BY <2>1 DEF Idle
  <2> QED  BY <2>1, <2>2, Known DEF Knows, Busy, Status
<1>2. PICK r \in Results \cup {EmptyResult} :
        /\ task' = [task EXCEPT ![Arc(w)].result = r]
        /\ Go(w, IF r = EmptyResult THEN "complete" ELSE "handoff") \/ ("abort" \in Faults /\ Abandon(w))
  BY <1>1 DEF Extract
<1> DEFINE t == [task[Arc(w)] EXCEPT !.result = r]
           pc == IF r = EmptyResult THEN "complete" ELSE "handoff"
<1>3. /\ t \in Task /\ t.status = "processing" /\ t.result = r
      /\ task' = [task EXCEPT ![Arc(w)] = t] /\ UNCHANGED <<groupVars, graphVars>>
  <2>1. PICK u \in Task : u = task[Arc(w)]
    BY <1>1, Known
  <2>2. u.status = "processing" /\ r \in Result /\ UNCHANGED <<groupVars, graphVars>>
    BY <1>1, <1>2, <2>1 DEF Extract, Result, Status
  <2>3. t \in Task /\ t.status = "processing" /\ t.result = r
    BY <2>1, <2>2 DEF Task
  <2>4. task' = [task EXCEPT ![Arc(w)] = t]
    BY <1>2, Known DEF TypeOK
  <2> QED  BY <2>2, <2>3, <2>4
<1>4. Complete(t, copies[Arc(w)], indexed[Arc(w)])
  BY <1>3 DEF Complete
<1>5. CASE Go(w, pc)
  <2>1. PICK k \in Worker : /\ wk' = [wk EXCEPT ![w] = k] /\ k.pc = pc
                           /\ k.rec = wk[w].rec /\ k.next = wk[w].next
    BY <1>5, GoTo DEF Step
  <2> HIDE DEF t
  <2>2. Knows(k, t, copies[Arc(w)], indexed[Arc(w)])
    BY <1>2, <1>3, <2>1 DEF Knows, Busy, WithResult
  <2> QED  BY <1>1, <1>3, <1>4, <2>1, <2>2, WritesTask
<1>6. CASE "abort" \in Faults /\ Abandon(w)
  <2> HIDE DEF t
  <2>1. OwnOnly(w, Arc(w)) /\ wk'[w] = NewWorker("poll", wk[w].next) /\ task'[Arc(w)] = t
    BY <1>1, <1>3, <1>6, ArcType DEF Abandon, OwnOnly, TypeOK, groupVars, graphVars
  <2>2. copies' = copies /\ indexed' = indexed
    BY <1>3 DEF graphVars
  <2>3. InOrder(t, copies[Arc(w)], indexed[Arc(w)])
    BY <1>1, <1>4, Known DEF InOrder
  <2> QED  BY <1>1, <1>6, <2>1, <2>2, <2>3, ArcType, GivesUp
<1> QED  BY <1>2, <1>5, <1>6

\* From the result to the plan, which is made for the stored result and only of
\* candidates that are not in the graph.
LEMMA PlanSafe ==
  ASSUME WorkersAlone, TypeOK, SafetyInv, NEW w \in Workers,
         Handoff(w) \/ Align(w) \/ Reconcile(w)
  PROVE  SafetyInv'
<1>1. ~Idle(w) /\ UNCHANGED <<groupVars, task, graphVars>>
  BY DEF Handoff, Align, Reconcile, At, Idle
<1> DEFINE r == task[Arc(w)].result
<1>2. /\ Status(Arc(w)) = "processing" /\ r \in Results /\ Runs(Arc(w))
      /\ wk[w].pc = "reconcile" => wk[w].aligned = r
  <2>1. wk[w].pc \in {"handoff", "align", "reconcile"}
    BY DEF Handoff, Align, Reconcile, At
  <2>2. Status(Arc(w)) = "processing" /\ r \in Results /\ (wk[w].pc = "reconcile" => wk[w].aligned = r)
    BY <1>1, <2>1, Known DEF Knows, Busy, WithResult, Status
  <2> QED  BY <2>2, ExtractionAssumption DEF Runs
<1>3. CASE Handoff(w)
  BY <1>1, <1>2, <1>3, RunPipelineSafe, ExtractionAssumption DEF Handoff
<1>4. CASE Align(w)
  <2> DEFINE k == [wk[w] EXCEPT !.pc = "reconcile", !.aligned = r]
  <2>1. CASE Fail(w, "retry")
    BY <1>1, <2>1, FailSafe DEF Error
  <2>2. CASE wk' = [wk EXCEPT ![w].pc = "reconcile", ![w].aligned = r]
    <3>1. /\ wk' = [wk EXCEPT ![w] = k] /\ k \in Worker /\ k.pc = "reconcile" /\ k.aligned = r
          /\ k.rec = wk[w].rec /\ k.next = wk[w].next
      <4>1. wk \in [Workers -> Worker] /\ wk[w] \in Worker
        BY DEF TypeOK
      <4>2. wk' = [wk EXCEPT ![w] = k]
        BY <2>2, <4>1
      <4>3. k \in Worker
        BY <1>2, <4>1 DEF Worker, Step, Result
      <4>4. k.pc = "reconcile" /\ k.aligned = r /\ k.rec = wk[w].rec /\ k.next = wk[w].next
        BY <4>1 DEF Worker
      <4> QED  BY <4>2, <4>3, <4>4
    <3> HIDE DEF k
    <3>2. Knows(k, task[Arc(w)], copies[Arc(w)], indexed[Arc(w)])
      BY <1>2, <3>1 DEF Knows, Busy, WithResult, Status
    <3> QED  BY <1>1, <3>1, <3>2, MovesOn
  <2> QED  BY <1>2, <1>4, <2>1, <2>2 DEF Align
<1>5. CASE Reconcile(w)
  <2>1. wk[w].aligned = r /\ r # EmptyResult
    BY <1>2, <1>5, ExtractionAssumption DEF Reconcile, At
  <2>2. CASE Fail(w, "retry") \/ Fail(w, "conflict")
    BY <1>1, <2>2, FailSafe DEF Error
  <2>3. ASSUME NEW p \in Planned(Arc(w), r), wk' = [wk EXCEPT ![w].pc = "graph", ![w].plan = p]
        PROVE  SafetyInv'
    <3> DEFINE k == [wk[w] EXCEPT !.pc = "graph", !.plan = p]
    <3>1. p = IF r \in Written(Arc(w)) THEN NoResult ELSE r
      BY <2>1, <2>3 DEF Planned, WorkersAlone
    <3>2. /\ wk' = [wk EXCEPT ![w] = k] /\ k \in Worker /\ k.pc = "graph" /\ k.plan = p
          /\ k.rec = wk[w].rec /\ k.next = wk[w].next
      <4>1. wk \in [Workers -> Worker] /\ wk[w] \in Worker
        BY DEF TypeOK
      <4>2. wk' = [wk EXCEPT ![w] = k]
        BY <2>3, <4>1
      <4>3. k \in Worker
        BY <1>2, <3>1, <4>1 DEF Worker, Step
      <4>4. k.pc = "graph" /\ k.plan = p /\ k.rec = wk[w].rec /\ k.next = wk[w].next
        BY <4>1 DEF Worker
      <4> QED  BY <4>2, <4>3, <4>4
    <3> HIDE DEF k
    <3>3. IF p = NoResult THEN copies[Arc(w)][r] > 0 ELSE p = r /\ copies[Arc(w)][r] = 0
      <4>1. copies[Arc(w)][r] \in Nat /\ (r \in Written(Arc(w)) <=> copies[Arc(w)][r] > 0)
        BY <1>1, <1>2, Known DEF Written
      <4> QED  BY <1>2, <3>1, <4>1, ExtractionAssumption
    <3>4. Knows(k, task[Arc(w)], copies[Arc(w)], indexed[Arc(w)])
      BY <1>2, <3>2, <3>3 DEF Knows, Busy, WithResult, Status
    <3> QED  BY <1>1, <3>2, <3>4, MovesOn
  <2> QED  BY <1>2, <1>5, <2>1, <2>2, <2>3 DEF Reconcile
<1> QED  BY <1>3, <1>4, <1>5

\* A worker that writes the graph or the index and goes on.
LEMMA WritesGraph ==
  ASSUME TypeOK, SafetyInv, NEW w \in Workers, ~Idle(w), NEW k \in Worker, NEW c, NEW i,
         wk' = [wk EXCEPT ![w] = k], UNCHANGED <<groupVars, task>>,
         copies'[Arc(w)] = c, indexed'[Arc(w)] = i,
         \A b \in Archives \ {Arc(w)} : copies'[b] = copies[b] /\ indexed'[b] = indexed[b],
         k.pc \notin {"down", "poll"}, k.rec = wk[w].rec, k.next = wk[w].next,
         Knows(k, task[Arc(w)], c, i), InOrder(task[Arc(w)], c, i)
  PROVE  SafetyInv'
<1>1. OwnOnly(w, Arc(w)) /\ wk'[w] = k
  BY DEF OwnOnly, TypeOK, groupVars
<1> QED  BY <1>1, ArcType, GoesOn

\* Before the transaction.
LEMMA PrepareWriteSafe ==
  ASSUME TypeOK, SafetyInv, NEW w \in Workers, PrepareWrite(w)
  PROVE  SafetyInv'
<1>1. ~Idle(w) /\ wk[w].pc = "graph" /\ UNCHANGED <<task, graphVars>>
  BY DEF PrepareWrite, At, Idle
<1> DEFINE r == task[Arc(w)].result
           p == wk[w].plan
<1>2. /\ Status(Arc(w)) = "processing" /\ r \in Results
      /\ (p = r /\ copies[Arc(w)][r] = 0) \/ (p = NoResult /\ copies[Arc(w)][r] > 0)
  BY <1>1, Known DEF Knows, Busy, WithResult, Status
<1>3. p \notin Written(Arc(w)) /\ p \in {NoResult, r}
  BY <1>2, ExtractionAssumption DEF Written
<1>4. UNCHANGED groupVars /\ (Go(w, "write") \/ Fail(w, "retry") \/ Fail(w, "permanent"))
  BY <1>2, <1>3, ExtractionAssumption DEF PrepareWrite, Runs
<1>5. Knows([wk[w] EXCEPT !.pc = "write"], task[Arc(w)], copies[Arc(w)], indexed[Arc(w)])
  <2>1. PICK k : k = [wk[w] EXCEPT !.pc = "write"]
    OBVIOUS
  <2>2. k.pc = "write" /\ k.plan = wk[w].plan
    BY <1>1, <2>1, Known DEF Worker
  <2>3. Knows(k, task[Arc(w)], copies[Arc(w)], indexed[Arc(w)])
    BY <1>2, <2>2 DEF Knows, Busy, WithResult, Status
  <2> QED  BY <2>1, <2>3
<1>6. "write" \in Step \ {"down", "poll"} /\ {"retry", "permanent"} \subseteq Error
  BY DEF Step, Error
<1> QED  BY <1>1, <1>4, <1>5, <1>6, GoSafe, FailSafe

\* The transaction.
LEMMA WriteSafe ==
  ASSUME TypeOK, SafetyInv, NEW w \in Workers, WriteGraph(w)
  PROVE  SafetyInv'
<1>1. ~Idle(w) /\ wk[w].pc = "write" /\ UNCHANGED <<groupVars, task, indexed>>
  BY DEF WriteGraph, At, Idle
<1> DEFINE r == task[Arc(w)].result
           p == wk[w].plan
           c == copies[Arc(w)]
           i == indexed[Arc(w)]
           d == IF p = NoResult THEN c ELSE [c EXCEPT ![r] = 1]
<1>2. /\ Status(Arc(w)) = "processing" /\ r \in Results
      /\ (p = r /\ c[r] = 0) \/ (p = NoResult /\ c[r] > 0)
  BY <1>1, Known DEF Knows, Busy, WithResult, Status
<1>3. /\ copies'[Arc(w)] = d /\ indexed'[Arc(w)] = i
      /\ \A b \in Archives \ {Arc(w)} : copies'[b] = copies[b] /\ indexed'[b] = indexed[b]
  <2>1. copies \in [Archives -> [Results -> Nat]] /\ Arc(w) \in Archives
    BY <1>1, ArcType DEF TypeOK
  <2>2. CASE p = NoResult
    BY <1>1, <2>2 DEF WriteGraph, Created
  <2>3. CASE p # NoResult
    <3>1. copies' = [copies EXCEPT ![Arc(w)][p] = @ + 1]
      BY <2>3 DEF WriteGraph, Created
    <3>2. p = r /\ c[r] + 1 = 1
      BY <1>2, <2>3
    <3> QED  BY <1>1, <2>1, <2>3, <3>1, <3>2
  <2> QED  BY <2>2, <2>3
<1>4. d[r] > 0 /\ \A s \in Results : d[s] <= 1
  <2>1. c \in [Results -> Nat] /\ \A s \in Results : c[s] <= 1
    BY <1>1, Known DEF InOrder
  <2>2. CASE p = NoResult
    BY <1>2, <2>1, <2>2, ExtractionAssumption
  <2>3. CASE p # NoResult
    <3>1. d = [c EXCEPT ![r] = 1]
      BY <2>3
    <3> HIDE DEF d
    <3> QED  BY <1>2, <2>1, <3>1
  <2> QED  BY <2>2, <2>3
<1>5. InOrder(task[Arc(w)], d, i)
  BY <1>2, <1>4 DEF InOrder, Complete, Status
<1> HIDE DEF d
<1>6. CASE Fail(w, "retry")
  <2>1. PICK k \in Worker : /\ wk' = [wk EXCEPT ![w] = k] /\ k.pc = "fail"
                           /\ k.rec = wk[w].rec /\ k.next = wk[w].next
    BY <1>6, FailTo DEF Error
  <2>2. Knows(k, task[Arc(w)], d, i)
    BY <2>1 DEF Knows, Busy, WithResult
  <2> QED  BY <1>1, <1>3, <1>5, <2>1, <2>2, WritesGraph
<1>7. CASE p = NoResult /\ wk' = [wk EXCEPT ![w].pc = "repair"]
  <2>1. PICK k \in Worker : /\ wk' = [wk EXCEPT ![w] = k] /\ k.pc = "repair"
                           /\ k.rec = wk[w].rec /\ k.next = wk[w].next
    <3>1. Go(w, "repair")
      BY <1>7 DEF Go
    <3> QED  BY <3>1, GoTo DEF Step
  <2>2. Knows(k, task[Arc(w)], d, i)
    BY <1>2, <1>4, <2>1 DEF Knows, Busy, WithResult, Status
  <2> QED  BY <1>1, <1>3, <1>5, <2>1, <2>2, WritesGraph
<1>8. CASE p # NoResult /\ wk' = [wk EXCEPT ![w].pc = "sync", ![w].seeds = {p}]
  <2> DEFINE k == [wk[w] EXCEPT !.pc = "sync", !.seeds = {p}]
  <2>1. /\ wk' = [wk EXCEPT ![w] = k] /\ k \in Worker /\ k.pc = "sync" /\ k.seeds = {r}
        /\ k.rec = wk[w].rec /\ k.next = wk[w].next
    <3>1. wk \in [Workers -> Worker] /\ wk[w] \in Worker
      BY DEF TypeOK
    <3>2. wk' = [wk EXCEPT ![w] = k] /\ p = r
      BY <1>2, <1>8, <3>1
    <3>3. k \in Worker
      BY <1>2, <3>1, <3>2 DEF Worker, Step
    <3>4. k.pc = "sync" /\ k.seeds = {r} /\ k.rec = wk[w].rec /\ k.next = wk[w].next
      BY <3>1, <3>2 DEF Worker
    <3> QED  BY <3>2, <3>3, <3>4
  <2> HIDE DEF k
  <2>2. Knows(k, task[Arc(w)], d, i)
    BY <1>2, <1>4, <2>1 DEF Knows, Busy, WithResult, Status
  <2> QED  BY <1>1, <1>3, <1>5, <2>1, <2>2, WritesGraph
<1> QED  BY <1>6, <1>7, <1>8 DEF WriteGraph

\* The replay set, which holds the stored result's memories.
LEMMA RepairSafe ==
  ASSUME TypeOK, SafetyInv, NEW w \in Workers, Repair(w)
  PROVE  SafetyInv'
<1>1. ~Idle(w) /\ wk[w].pc = "repair" /\ UNCHANGED <<groupVars, task, graphVars>>
  BY DEF Repair, At, Idle
<1> DEFINE r == task[Arc(w)].result
<1>2. Status(Arc(w)) = "processing" /\ r \in Results /\ copies[Arc(w)][r] > 0
  BY <1>1, Known DEF Knows, Busy, WithResult, Status
<1>3. r \in Written(Arc(w)) /\ Written(Arc(w)) \subseteq Results
  BY <1>2 DEF Written
<1>4. CASE wk' = [wk EXCEPT ![w].pc = "sync", ![w].seeds = Written(Arc(w))]
  <2> DEFINE k == [wk[w] EXCEPT !.pc = "sync", !.seeds = Written(Arc(w))]
  <2>1. /\ wk' = [wk EXCEPT ![w] = k] /\ k \in Worker /\ k.pc = "sync"
        /\ k.seeds = Written(Arc(w)) /\ k.rec = wk[w].rec /\ k.next = wk[w].next
    <3>1. wk \in [Workers -> Worker] /\ wk[w] \in Worker
      BY DEF TypeOK
    <3>2. wk' = [wk EXCEPT ![w] = k]
      BY <1>4, <3>1
    <3>3. k \in Worker
      BY <1>3, <3>1 DEF Worker, Step
    <3>4. k.pc = "sync" /\ k.seeds = Written(Arc(w)) /\ k.rec = wk[w].rec /\ k.next = wk[w].next
      BY <3>1 DEF Worker
    <3> QED  BY <3>2, <3>3, <3>4
  <2> HIDE DEF k
  <2>2. Knows(k, task[Arc(w)], copies[Arc(w)], indexed[Arc(w)])
    BY <1>2, <1>3, <2>1 DEF Knows, Busy, WithResult, Status
  <2> QED  BY <1>1, <2>1, <2>2, MovesOn
<1>5. CASE "abort" \in Faults /\ Abandon(w)
  BY <1>1, <1>5, AbandonSafe
<1> QED  BY <1>3, <1>4, <1>5 DEF Repair

\* A transaction that fails, the check before the index, and an index write that fails.
LEMMA SyncSafe ==
  ASSUME TypeOK, SafetyInv, NEW w \in Workers, WriteFails(w) \/ Sync(w) \/ IndexFails(w)
  PROVE  SafetyInv'
<1>1. ~Idle(w) /\ wk[w].pc \in {"write", "sync", "index"} /\ UNCHANGED <<groupVars, task, graphVars>>
  BY DEF WriteFails, Sync, IndexFails, At, Idle
<1>2. Status(Arc(w)) = "processing"
  BY <1>1, Known DEF Knows, Busy, Status
<1>3. CASE WriteFails(w)
  BY <1>1, <1>3, FailSafe DEF WriteFails, Error
<1>4. CASE Sync(w)
  <2>1. Go(w, "index") /\ wk[w].pc = "sync"
    BY <1>2, <1>4 DEF Sync, At
  <2>2. Knows([wk[w] EXCEPT !.pc = "index"], task[Arc(w)], copies[Arc(w)], indexed[Arc(w)])
    BY <1>1, <2>1, Known DEF Knows, Busy, WithResult, Worker
  <2> QED  BY <1>1, <2>1, <2>2, GoSafe DEF Step
<1>5. CASE IndexFails(w)
  <2>1. Go(w, "undo") /\ wk[w].pc = "index"
    BY <1>5 DEF IndexFails, At
  <2>2. Knows([wk[w] EXCEPT !.pc = "undo"], task[Arc(w)], copies[Arc(w)], indexed[Arc(w)])
    BY <1>1, <1>2, <2>1, Known DEF Knows, Busy, WithResult, Status, Worker
  <2> QED  BY <1>1, <2>1, <2>2, GoSafe DEF Step
<1> QED  BY <1>3, <1>4, <1>5

\* The seeds' documents are written, those of the stored result among them.
LEMMA IndexSafe ==
  ASSUME TypeOK, SafetyInv, NEW w \in Workers, WriteIndex(w)
  PROVE  SafetyInv'
<1>1. ~Idle(w) /\ wk[w].pc = "index" /\ UNCHANGED <<groupVars, task, copies>>
  BY DEF WriteIndex, At, Idle
<1> DEFINE r == task[Arc(w)].result
           i == indexed[Arc(w)] \cup wk[w].seeds
<1>2. /\ Status(Arc(w)) = "processing" /\ r \in Results
      /\ copies[Arc(w)][r] > 0 /\ r \in wk[w].seeds
  BY <1>1, Known DEF Knows, Busy, WithResult, Status
<1>3. /\ indexed'[Arc(w)] = i /\ copies'[Arc(w)] = copies[Arc(w)]
      /\ \A b \in Archives \ {Arc(w)} : copies'[b] = copies[b] /\ indexed'[b] = indexed[b]
  BY <1>1, ArcType DEF WriteIndex, TypeOK
<1>4. PICK k \in Worker : /\ wk' = [wk EXCEPT ![w] = k] /\ k.pc = "done"
                         /\ k.rec = wk[w].rec /\ k.next = wk[w].next
  BY GoTo DEF WriteIndex, Step
<1>5. Knows(k, task[Arc(w)], copies[Arc(w)], i)
  BY <1>2, <1>4 DEF Knows, Busy, WithResult, Status
<1>6. InOrder(task[Arc(w)], copies[Arc(w)], i)
  BY <1>1, <1>2, Known DEF InOrder, Complete, Status
<1> HIDE DEF i
<1> QED  BY <1>1, <1>3, <1>4, <1>5, <1>6, WritesGraph

\* A worker that sets the status of its task, and its last_error.
LEMMA MovesTask ==
  ASSUME TypeOK, SafetyInv, NEW w \in Workers, ~Idle(w), NEW k \in Worker,
         NEW s \in {"completed", "failed"}, NEW err \in Error,
         wk' = [wk EXCEPT ![w] = k], Move(Arc(w), s, err), UNCHANGED <<groupVars, graphVars>>,
         k.pc \in {"complete", "undo", "fail", "commit"},
         k.pc \in {"complete", "undo"} => s = "completed",
         k.rec = wk[w].rec, k.next = wk[w].next,
         s = "completed" /\ task[Arc(w)].result \in Results =>
           copies[Arc(w)][task[Arc(w)].result] > 0 /\ task[Arc(w)].result \in indexed[Arc(w)]
  PROVE  SafetyInv'
<1> DEFINE t == [task[Arc(w)] EXCEPT !.status = s, !.error = err]
<1>1. t \in Task /\ t.status = s /\ t.result = task[Arc(w)].result
  BY Known DEF Task
<1>2. task' = [task EXCEPT ![Arc(w)] = t]
  BY Known DEF Move, TypeOK, Task
<1> HIDE DEF t
<1>3. Complete(t, copies[Arc(w)], indexed[Arc(w)])
  BY <1>1 DEF Complete
<1>4. Knows(k, t, copies[Arc(w)], indexed[Arc(w)])
  BY <1>1 DEF Knows, Busy, WithResult
<1> QED  BY <1>1, <1>2, <1>3, <1>4, WritesTask

\* A task is marked completed only when its memories are indexed.
LEMMA MarkIndexedSafe ==
  ASSUME TypeOK, SafetyInv, NEW w \in Workers, MarkIndexed(w)
  PROVE  SafetyInv'
<1>1. ~Idle(w) /\ wk[w].pc = "done" /\ UNCHANGED <<groupVars, graphVars>>
  BY DEF MarkIndexed, At, Idle
<1>2. /\ Status(Arc(w)) = "processing" /\ task[Arc(w)].result \in Results
      /\ copies[Arc(w)][task[Arc(w)].result] > 0 /\ task[Arc(w)].result \in indexed[Arc(w)]
  BY <1>1, Known DEF Knows, Busy, WithResult, Status
<1>3. {"complete", "undo"} \subseteq Step \ {"down", "poll"} /\ "none" \in Error
  BY DEF Step, Error
<1>4. CASE Move(Arc(w), "completed", "none") /\ (Go(w, "complete") \/ Go(w, "undo"))
  <2>1. PICK k \in Worker : /\ wk' = [wk EXCEPT ![w] = k] /\ k.pc \in {"complete", "undo"}
                            /\ k.rec = wk[w].rec /\ k.next = wk[w].next
    BY <1>3, <1>4, GoTo
  <2> QED  BY <1>1, <1>2, <1>3, <1>4, <2>1, MovesTask
<1>5. CASE Go(w, "undo") /\ UNCHANGED task
  <2>1. Knows([wk[w] EXCEPT !.pc = "undo"], task[Arc(w)], copies[Arc(w)], indexed[Arc(w)])
    BY <1>1, <1>2, Known DEF Knows, Busy, WithResult, Status, Worker
  <2> QED  BY <1>1, <1>3, <1>5, <2>1, GoSafe
<1> QED  BY <1>4, <1>5 DEF MarkIndexed

\* The failure of a task that is still processing.
LEMMA FailTaskSafe ==
  ASSUME TypeOK, SafetyInv, NEW w \in Workers, FailTask(w)
  PROVE  SafetyInv'
<1>1. ~Idle(w) /\ UNCHANGED <<groupVars, graphVars>>
  BY DEF FailTask, At, Idle
<1>2. CASE Status(Arc(w)) = "processing"
  <2>1. Move(Arc(w), "failed", "retry") /\ Fail(w, "retry") /\ "retry" \in Error
    BY <1>2 DEF FailTask, Error
  <2>2. PICK k \in Worker : /\ wk' = [wk EXCEPT ![w] = k] /\ k.pc = "fail"
                            /\ k.rec = wk[w].rec /\ k.next = wk[w].next
    BY <2>1, FailTo
  <2> QED  BY <1>1, <2>1, <2>2, MovesTask
<1>3. CASE Status(Arc(w)) # "processing"
  BY <1>1, <1>3, AbandonSafe DEF FailTask
<1> QED  BY <1>2, <1>3

\* The consumer looks at the status the pipeline has left.
LEMMA CheckSafe ==
  ASSUME TypeOK, SafetyInv, NEW w \in Workers, CheckEnd(w)
  PROVE  SafetyInv'
<1>1. ~Idle(w) /\ UNCHANGED <<groupVars, task, graphVars>>
  BY DEF CheckEnd, At, Idle
<1>2. PICK pc \in {"commit", "completing", "failing"} :
        /\ Go(w, pc)
        /\ pc = "commit" => Status(Arc(w)) \in {"completed", "failed"}
        /\ pc = "completing" => wk[w].pc = "complete" /\ Status(Arc(w)) # "completed"
  BY DEF CheckEnd, At
<1>3. Knows([wk[w] EXCEPT !.pc = pc], task[Arc(w)], copies[Arc(w)], indexed[Arc(w)])
  BY <1>1, <1>2, Known DEF Knows, Busy, WithResult, Status, Worker
<1>4. pc \in Step \ {"down", "poll"}
  BY <1>2 DEF Step
<1> QED  BY <1>1, <1>2, <1>3, <1>4, GoSafe

\* The consumer's terminal write: completed only of an empty result.
LEMMA MarkEndSafe ==
  ASSUME TypeOK, SafetyInv, NEW w \in Workers, MarkEnd(w)
  PROVE  SafetyInv'
<1>1. ~Idle(w) /\ UNCHANGED graphVars
  BY DEF MarkEnd, Idle
<1>2. CASE Status(Arc(w)) = "processing"
  <2>1. PICK k \in Worker : /\ wk' = [wk EXCEPT ![w] = k] /\ k.pc = "commit"
                            /\ k.rec = wk[w].rec /\ k.next = wk[w].next
    BY <1>2, GoTo DEF MarkEnd, Step
  <2>2. UNCHANGED <<groupVars, graphVars>>
    BY <1>2 DEF MarkEnd
  <2>3. CASE wk[w].pc = "completing"
    <3>1. task[Arc(w)].result = EmptyResult
      BY <1>1, <2>3, Known DEF Knows
    <3>2. Move(Arc(w), "completed", "none") /\ "none" \in Error
      BY <1>2, <2>3 DEF MarkEnd, At, Error
    <3> QED  BY <1>1, <2>1, <2>2, <3>1, <3>2, MovesTask, ExtractionAssumption
  <2>4. CASE wk[w].pc # "completing"
    <3>1. Move(Arc(w), "failed", wk[w].error) /\ wk[w].error \in Error
      BY <1>2, <2>4 DEF MarkEnd, At, TypeOK, Worker
    <3> QED  BY <1>1, <2>1, <2>2, <3>1, MovesTask
  <2> QED  BY <2>3, <2>4
<1>3. CASE Status(Arc(w)) # "processing"
  BY <1>3, Stops DEF MarkEnd
<1> QED  BY <1>2, <1>3

\* The offset of a record is committed when its task is not processing any more.
LEMMA CommitSafe ==
  ASSUME TypeOK, SafetyInv, NEW w \in Workers, Commit(w)
  PROVE  SafetyInv'
<1>1. ~Idle(w) /\ wk[w].pc = "commit" /\ UNCHANGED <<task, graphVars>>
  BY DEF Commit, At, Idle
<1>2. owner = w /\ (\A v \in Workers \ {w} : Idle(v)) /\ Status(Arc(w)) # "processing"
  BY <1>1, OthersIdle, Known DEF Knows, Status
<1>3. /\ committed' = wk[w].rec /\ log' = log /\ owner' = w
      /\ wk'[w] = NewWorker("poll", wk[w].next) /\ \A v \in Workers \ {w} : wk'[v] = wk[v]
      /\ task' = task /\ copies' = copies /\ indexed' = indexed
  BY <1>1, <1>2 DEF Commit, Abandon, TypeOK, graphVars
<1>4. wk[w].rec \in Nat /\ wk[w].next = wk[w].rec + 1 /\ wk'[w].next = wk[w].next
  BY <1>1, <1>3 DEF SafetyInv, Alone, TypeOK, Worker, NewWorker
<1>5. \A v \in Workers : Idle(v)'
  BY <1>2, <1>3 DEF Idle, NewWorker
<1>6. \A v \in Workers : Alone(v)'
  <2>1. wk'[w].next > committed'
    BY <1>3, <1>4
  <2> QED  BY <1>3, <1>5, <2>1 DEF Alone
<1>7. ASSUME "abort" \notin Faults, NEW b \in Archives, task[b].status = "processing"
      PROVE  \E i \in (wk[w].rec + 1)..Len(log) : log[i] = b
  <2>1. b # Arc(w)
    BY <1>2, <1>7 DEF Status
  <2>2. \E i \in (wk[w].next - 1 + 1)..Len(log) : log[i] = b
    BY <1>2, <1>7, <2>1 DEF SafetyInv, Comes, EventAfter, Status
  <2>3. wk[w].next - 1 + 1 = wk[w].rec + 1
    BY <1>4
  <2> QED  BY <2>2, <2>3
<1>8. \A v \in Workers : Comes(v)'
  <2>1. wk'[w].next - 1 + 1 = wk[w].rec + 1
    BY <1>4
  <2>2. Comes(w)'
    BY <1>3, <1>7, <2>1 DEF Comes, EventAfter, Status
  <2> QED  BY <1>3, <2>2 DEF Comes
<1>9. "abort" \notin Faults => ProcessingIsDelivered'
  BY <1>3, <1>7 DEF ProcessingIsDelivered, EventAfter, Status
<1>10. \A b \in Archives : InOrder(task'[b], copies'[b], indexed'[b])
  BY <1>3, AllInOrder
<1> QED
  BY <1>5, <1>6, <1>8, <1>9, <1>10 DEF SafetyInv, InOrder, OneMemoryPerCandidate

\* The owner takes the next record.
LEMMA UpsertSafe ==
  ASSUME TypeOK, TypeOK', SafetyInv, NEW w \in Workers, Upsert(w)
  PROVE  SafetyInv'
<1> DEFINE n == wk[w].next
           a == log[n]
           t == IF Status(a) = "absent" THEN NewTask ELSE task[a]
<1>1. /\ wk[w].pc = "poll" /\ owner = w /\ n \in 1..Len(log) /\ n > committed
      /\ n \in Nat /\ a \in Archives
  <2>1. owner = w /\ wk[w].pc = "poll"
    BY DEF Upsert, At
  <2>2. n > committed
    BY <2>1 DEF SafetyInv, Alone
  <2> QED  BY <2>1, <2>2, NextRecord
<1>2. /\ log' = log /\ committed' = committed /\ owner' = w
      /\ copies' = copies /\ indexed' = indexed
  <2>1. UNCHANGED <<groupVars, graphVars>>
    BY Zenon DEF Upsert
  <2> QED  BY <1>1, <2>1 DEF groupVars, graphVars
<1>3. /\ wk'[w].pc = AfterUpsert(t.status) /\ wk'[w].rec = n /\ wk'[w].next = n + 1
      /\ \A v \in Workers \ {w} : wk'[v] = wk[v]
  BY DEF Upsert, TypeOK, Worker
<1>4. task'[a] = t /\ \A b \in Archives \ {a} : task'[b] = task[b]
  <2>1. task' = [task EXCEPT ![a] = t]
    BY DEF Upsert
  <2> HIDE DEF t
  <2> QED  BY <1>1, <2>1 DEF TypeOK
<1>5. t.status \in {"pending", "processing", "completed", "failed"}
  BY <1>1 DEF TypeOK, Task, NewTask, Status
<1>6. \A b \in Archives : task'[b].status = "processing" => Status(b) = "processing"
  BY <1>1, <1>4 DEF Status, NewTask
<1>7. \A b \in Archives : InOrder(task'[b], copies'[b], indexed'[b])
  <2>1. InOrder(t, copies[a], indexed[a])
    BY <1>1, AllInOrder DEF InOrder, Complete, NewTask
  <2> HIDE DEF t
  <2> QED  BY <1>2, <1>4, <2>1, AllInOrder
<1>8. log'[wk'[w].rec] = a
  BY <1>2, <1>3
<1> HIDE DEF t
<1>9. wk'[w].pc \in {"start", "resume", "commit"}
  BY <1>3, <1>5 DEF AfterUpsert
<1>10. Knows(wk'[w], t, copies'[a], indexed'[a])
  BY <1>3, <1>5, <1>9 DEF Knows, Busy, WithResult, AfterUpsert
<1>11. ~Idle(w)' /\ \A v \in Workers \ {w} : Idle(v) /\ Idle(v)'
  <2>1. \A v \in Workers \ {w} : Idle(v)
    BY <1>1 DEF SafetyInv, Alone
  <2> QED  BY <1>3, <1>9, <2>1 DEF Idle
<1>12. \A v \in Workers : Alone(v)'
  <2>1. n + 1 > committed /\ n \in Nat
    BY <1>1 DEF TypeOK
  <2>2. Alone(w)'
    BY <1>1, <1>2, <1>3, <2>1 DEF Alone
  <2> QED  BY <1>2, <1>11, <2>2 DEF Alone
<1>13. \A v \in Workers : ~Idle(v)' => Knows(wk'[v], task'[log'[wk'[v].rec]],
                                          copies'[log'[wk'[v].rec]], indexed'[log'[wk'[v].rec]])
  BY <1>4, <1>8, <1>10, <1>11
<1>14. \A v \in Workers : Comes(v)'
  <2>1. ASSUME "abort" \notin Faults, NEW b \in Archives, task'[b].status = "processing", b # a
        PROVE  \E i \in (n + 1 - 1 + 1)..Len(log) : log[i] = b
    <3>1. PICK i \in (n - 1 + 1)..Len(log) : log[i] = b
      <4>1. Idle(w) /\ Status(b) = "processing"
        BY <1>1, <1>6, <2>1 DEF Idle
      <4>2. Comes(w)
        BY DEF SafetyInv
      <4> QED  BY <1>1, <2>1, <4>1, <4>2 DEF Comes, EventAfter
    <3>2. i # n
      BY <2>1, <3>1
    <3>3. i \in (n + 1 - 1 + 1)..Len(log)
      BY <1>1, <3>1, <3>2 DEF TypeOK
    <3> QED  BY <3>1, <3>3
  <2>2. Comes(w)'
    <3>1. wk'[w].next - 1 + 1 = n + 1 - 1 + 1
      BY <1>1, <1>3
    <3>2. SUFFICES ASSUME "abort" \notin Faults, NEW b \in Archives, task'[b].status = "processing",
                          log'[wk'[w].rec] # b
                   PROVE  \E i \in (wk'[w].next - 1 + 1)..Len(log') : log'[i] = b
      BY <1>11 DEF Comes, EventAfter, Status, Arc
    <3> QED  BY <1>2, <1>8, <2>1, <3>1, <3>2
  <2> QED  BY <1>2, <2>2 DEF Comes
<1>15. "abort" \notin Faults => ProcessingIsDelivered'
  BY <1>2, <1>6 DEF SafetyInv, ProcessingIsDelivered, EventAfter, Status
<1> QED
  BY <1>7, <1>12, <1>13, <1>14, <1>15 DEF SafetyInv, InOrder, OneMemoryPerCandidate, Arc

-----------------------------------------------------------------------------
(* The group, the publishers and the admin requests *)

\* Nobody has a record when the partition is assigned.
LEMMA AssignSafe ==
  ASSUME WorkersAlone, TypeOK, SafetyInv, NEW w \in Workers, Assign(w)
  PROVE  SafetyInv'
<1>1. /\ owner = Nobody /\ owner' = w /\ log' = log /\ committed' = committed
      /\ task' = task /\ copies' = copies /\ indexed' = indexed
  BY DEF Assign, WorkersAlone, graphVars
<1>2. /\ wk'[w].next = committed + 1 /\ wk'[w].pc = wk[w].pc
      /\ \A v \in Workers \ {w} : wk'[v] = wk[v]
  BY DEF Assign, TypeOK, Worker
<1>3. \A v \in Workers : Idle(v)'
  <2>1. \A v \in Workers : Idle(v)
    BY <1>1, ExtractionAssumption DEF SafetyInv, Alone
  <2> QED  BY <1>2, <2>1 DEF Idle
<1>4. wk'[w].next > committed' /\ wk'[w].next - 1 + 1 = committed + 1
  BY <1>1, <1>2 DEF TypeOK
<1>5. \A v \in Workers : Alone(v)'
  BY <1>1, <1>3, <1>4 DEF Alone
<1>6. \A v \in Workers : Comes(v)'
  <2>1. Comes(w)'
    BY <1>1, <1>4 DEF SafetyInv, Comes, ProcessingIsDelivered, EventAfter, Status
  <2> QED  BY <1>1, <2>1 DEF Comes
<1>7. "abort" \notin Faults => ProcessingIsDelivered'
  BY <1>1 DEF SafetyInv, ProcessingIsDelivered, EventAfter, Status
<1>8. \A b \in Archives : InOrder(task'[b], copies'[b], indexed'[b])
  BY <1>1, AllInOrder
<1> QED
  BY <1>3, <1>5, <1>6, <1>7, <1>8 DEF SafetyInv, InOrder, OneMemoryPerCandidate

\* A worker that starts again does not own the partition.
LEMMA StartWorkerSafe ==
  ASSUME TypeOK, SafetyInv, NEW w \in Workers, StartWorker(w)
  PROVE  SafetyInv'
<1>1. /\ owner' = owner /\ log' = log /\ committed' = committed
      /\ task' = task /\ copies' = copies /\ indexed' = indexed
  BY DEF StartWorker, groupVars, graphVars
<1>2. /\ wk'[w].next = wk[w].next /\ Idle(w) /\ Idle(w)'
      /\ \A v \in Workers \ {w} : wk'[v] = wk[v]
  BY DEF StartWorker, At, Go, Idle, TypeOK, Worker
<1>3. \A v \in Workers : (Idle(v)' <=> Idle(v)) /\ wk'[v].next = wk[v].next
  BY <1>2 DEF Idle
<1>4. \A v \in Workers : ~Idle(v)' => wk'[v] = wk[v]
  BY <1>2
<1>5. \A v \in Workers : Alone(v)'
  BY <1>1, <1>3, <1>4 DEF SafetyInv, Alone
<1>6. \A v \in Workers : Comes(v)'
  BY <1>1, <1>3, <1>4 DEF SafetyInv, Comes, EventAfter, Status, Arc
<1>7. "abort" \notin Faults => ProcessingIsDelivered'
  BY <1>1 DEF SafetyInv, ProcessingIsDelivered, EventAfter, Status
<1>8. \A b \in Archives : InOrder(task'[b], copies'[b], indexed'[b])
  BY <1>1, AllInOrder
<1>9. \A v \in Workers : ~Idle(v)' => Knows(wk[v], task[Arc(v)], copies[Arc(v)], indexed[Arc(v)])'
  BY <1>1, <1>3, <1>4 DEF SafetyInv, Arc
<1> QED
  BY <1>5, <1>6, <1>7, <1>8, <1>9 DEF SafetyInv, InOrder, OneMemoryPerCandidate

\* The log grows; what is published is behind what was in it.
LEMMA GrowSafe ==
  ASSUME TypeOK, SafetyInv, NEW a \in Archives, log' \in {log, Append(log, a)},
         UNCHANGED <<committed, owner, task, graphVars, wk>>
  PROVE  SafetyInv'
<1>1. /\ committed' = committed /\ owner' = owner /\ wk' = wk
      /\ task' = task /\ copies' = copies /\ indexed' = indexed
  BY DEF graphVars
<1>2. Len(log) \in Nat /\ Len(log') \in Nat /\ Len(log) <= Len(log')
  BY DEF TypeOK
<1>3. \A i \in 1..Len(log) : log'[i] = log[i]
  <2>1. CASE log' = log
    BY <2>1
  <2>2. CASE log' = Append(log, a)
    BY <2>2 DEF TypeOK
  <2> QED  BY <2>1, <2>2
<1>4. ASSUME NEW n \in Nat, NEW b, \E i \in (n + 1)..Len(log) : log[i] = b
      PROVE  \E i \in (n + 1)..Len(log') : log'[i] = b
  <2>1. PICK i \in (n + 1)..Len(log) : log[i] = b
    BY <1>4
  <2>2. i \in 1..Len(log) /\ i \in (n + 1)..Len(log')
    BY <1>2, <2>1
  <2> QED  BY <1>3, <2>1, <2>2
<1>5. \A v \in Workers : Idle(v)' <=> Idle(v)
  BY <1>1 DEF Idle
<1>6. \A v \in Workers : ~Idle(v) => Arc(v)' = Arc(v)
  BY <1>1, <1>3, ArcType DEF Arc
<1>7. \A v \in Workers : Alone(v)'
  BY <1>1, <1>5 DEF SafetyInv, Alone
<1>8. \A v \in Workers : Comes(v)'
  <2> SUFFICES ASSUME NEW v \in Workers, "abort" \notin Faults, owner = v, NEW b \in Archives,
                      Status(b) = "processing", ~(~Idle(v) /\ Arc(v) = b)
               PROVE  \E i \in (wk[v].next - 1 + 1)..Len(log') : log'[i] = b
    BY <1>1, <1>5, <1>6 DEF Comes, EventAfter, Status
  <2>1. \E i \in (wk[v].next - 1 + 1)..Len(log) : log[i] = b
    BY DEF SafetyInv, Comes, EventAfter
  <2>2. wk[v].next - 1 \in Nat
    BY DEF TypeOK, Worker, Positioned
  <2> QED  BY <1>4, <2>1, <2>2
<1>9. "abort" \notin Faults => ProcessingIsDelivered'
  <2> SUFFICES ASSUME "abort" \notin Faults, NEW b \in Archives, Status(b) = "processing"
               PROVE  \E i \in (committed + 1)..Len(log') : log'[i] = b
    BY <1>1 DEF ProcessingIsDelivered, EventAfter, Status
  <2>1. \E i \in (committed + 1)..Len(log) : log[i] = b
    BY DEF SafetyInv, ProcessingIsDelivered, EventAfter
  <2>2. committed \in Nat
    BY <1>2 DEF TypeOK
  <2> QED  BY <1>4, <2>1, <2>2
<1>10. \A b \in Archives : InOrder(task'[b], copies'[b], indexed'[b])
  BY <1>1, AllInOrder
<1>11. \A v \in Workers : ~Idle(v)' => Knows(wk'[v], task'[Arc(v)'], copies'[Arc(v)'], indexed'[Arc(v)'])
  BY <1>1, <1>5, <1>6 DEF SafetyInv
<1> QED
  BY <1>7, <1>8, <1>9, <1>10, <1>11 DEF SafetyInv, InOrder, OneMemoryPerCandidate

\* A task that nobody processes is opened, or fails, by an admin request.
LEMMA TouchSafe ==
  ASSUME TypeOK, SafetyInv, NEW a \in Archives, Status(a) \in {"pending", "failed"},
         task'[a].status \in {"pending", "failed"},
         \A b \in Archives \ {a} : task'[b] = task[b],
         UNCHANGED <<groupVars, graphVars, wk>>
  PROVE  SafetyInv'
<1>1. /\ log' = log /\ committed' = committed /\ owner' = owner /\ wk' = wk
      /\ copies' = copies /\ indexed' = indexed
  BY DEF groupVars, graphVars
<1>2. \A v \in Workers : Alone(v)' /\ (Idle(v)' <=> Idle(v)) /\ Arc(v)' = Arc(v)
  BY <1>1 DEF SafetyInv, Alone, Idle, Arc
<1>3. \A b \in Archives : task'[b].status = "processing" => Status(b) = "processing"
  BY DEF Status
<1>4. \A v \in Workers : Comes(v)'
  BY <1>1, <1>2, <1>3 DEF SafetyInv, Comes, EventAfter, Status
<1>5. "abort" \notin Faults => ProcessingIsDelivered'
  BY <1>1, <1>3 DEF SafetyInv, ProcessingIsDelivered, EventAfter, Status
<1>6. \A b \in Archives : InOrder(task'[b], copies'[b], indexed'[b])
  <2> TAKE b \in Archives
  <2>1. CASE b = a
    BY <1>1, <2>1, AllInOrder DEF InOrder, Complete
  <2>2. CASE b # a
    BY <1>1, <2>2, AllInOrder
  <2> QED  BY <2>1, <2>2
<1>7. ASSUME NEW v \in Workers, ~Idle(v)
      PROVE  Knows(wk[v], task'[Arc(v)], copies[Arc(v)], indexed[Arc(v)])
  <2>1. Arc(v) \in Archives /\ Knows(wk[v], task[Arc(v)], copies[Arc(v)], indexed[Arc(v)])
    BY <1>7, Known
  <2>2. CASE Arc(v) = a
    <3>1. /\ wk[v].pc \notin Busy \cup {"rebump", "reresume", "undo", "complete", "completing"}
          /\ wk[v].pc \notin WithResult
      BY <2>1, <2>2 DEF Knows, Busy, WithResult, Status
    <3> QED  BY <2>2, <3>1 DEF Knows, Busy, WithResult
  <2>3. CASE Arc(v) # a
    BY <2>1, <2>3
  <2> QED  BY <2>2, <2>3
<1>8. \A v \in Workers : ~Idle(v)' => Knows(wk'[v], task'[Arc(v)'], copies'[Arc(v)'], indexed'[Arc(v)'])
  BY <1>1, <1>2, <1>7
<1> QED
  BY <1>2, <1>4, <1>5, <1>6, <1>8 DEF SafetyInv, InOrder, OneMemoryPerCandidate

\* Of what the invariant speaks of, nothing changes.
LEMMA StaySafe ==
  ASSUME SafetyInv, UNCHANGED <<groupVars, task, graphVars, wk>>
  PROVE  SafetyInv'
<1>1. /\ log' = log /\ committed' = committed /\ owner' = owner /\ wk' = wk
      /\ task' = task /\ copies' = copies /\ indexed' = indexed
  BY DEF groupVars, graphVars
<1> QED
  BY <1>1 DEF SafetyInv, Alone, Idle, Arc, Comes, EventAfter, Status, OneMemoryPerCandidate,
              ProcessingIsDelivered

LEMMA AdminSafe ==
  ASSUME TypeOK, SafetyInv, NEW x \in Admins, Admin(x)
  PROVE  SafetyInv'
<1>1. CASE AdminRead(x) \/ AdminCrash(x)
  BY <1>1, StaySafe DEF AdminRead, AdminCrash
<1>2. adm[x].pc # "idle" => adm[x].archive \in Archives
  BY DEF TypeOK, AdminState
<1> DEFINE a == adm[x].archive
<1>3. CASE AdminReset(x)
  <2>1. a \in Archives /\ UNCHANGED <<groupVars, graphVars, wk>>
    BY <1>2, <1>3 DEF AdminReset
  <2>2. CASE Status(a) = "failed"
    <3>1. task'[a].status = "pending" /\ \A b \in Archives \ {a} : task'[b] = task[b]
      BY <1>3, <2>1, <2>2 DEF AdminReset, Reset, NewTask, TypeOK
    <3> QED  BY <2>1, <2>2, <3>1, TouchSafe
  <2>3. CASE Status(a) # "failed"
    BY <1>3, <2>1, <2>3, StaySafe DEF AdminReset
  <2> QED  BY <2>2, <2>3
<1>4. CASE AdminPublish(x)
  <2>1. a \in Archives
    BY <1>2, <1>4 DEF AdminPublish
  <2> QED  BY <1>4, <2>1, GrowSafe DEF AdminPublish
<1>5. CASE AdminRevert(x)
  <2>1. a \in Archives /\ UNCHANGED <<groupVars, graphVars, wk>>
    BY <1>2, <1>5 DEF AdminRevert
  <2>2. CASE Status(a) \in {"pending", "failed"}
    <3>1. task'[a].status = "failed" /\ \A b \in Archives \ {a} : task'[b] = task[b]
      BY <1>5, <2>1, <2>2 DEF AdminRevert, MarkUnpublished, Move, TypeOK, Task
    <3> QED  BY <2>1, <2>2, <3>1, TouchSafe
  <2>3. CASE Status(a) \notin {"pending", "failed"}
    BY <1>5, <2>1, <2>3, StaySafe DEF AdminRevert, MarkUnpublished
  <2> QED  BY <2>2, <2>3
<1> QED  BY <1>1, <1>3, <1>4, <1>5 DEF Admin

-----------------------------------------------------------------------------
(* The theorems *)

LEMMA InitSafe == Init => SafetyInv
<1> SUFFICES ASSUME Init  PROVE SafetyInv
  OBVIOUS
<1>1. \A w \in Workers : Idle(w)
  BY DEF Init, Idle, NewWorker
<1>2. \A w \in Workers : Alone(w)
  BY <1>1, ExtractionAssumption DEF Init, Alone
<1>3. \A a \in Archives : Status(a) = "absent"
  BY DEF Init, Status, NoTask
<1>4. (\A w \in Workers : Comes(w)) /\ ProcessingIsDelivered
  BY <1>3 DEF Comes, ProcessingIsDelivered
<1>5. \A a \in Archives : Complete(task[a], copies[a], indexed[a])
  BY <1>3 DEF Complete, Status
<1>6. OneMemoryPerCandidate
  BY DEF Init, OneMemoryPerCandidate
<1> QED  BY <1>1, <1>2, <1>4, <1>5, <1>6 DEF SafetyInv

LEMMA StepSafe ==
  ASSUME WorkersAlone, TypeOK, TypeOK', SafetyInv, [Next]_vars
  PROVE  SafetyInv'
<1>1. CASE UNCHANGED vars
  BY <1>1, StaySafe DEF vars, groupVars, graphVars
<1>2. ASSUME NEW a \in Archives, Publish(a)  PROVE SafetyInv'
  BY <1>2, GrowSafe DEF Publish
<1>3. ASSUME NEW x \in Admins, Admin(x)  PROVE SafetyInv'
  BY <1>3, AdminSafe
<1>4. ASSUME NEW w \in Workers, Group(w) \/ Crash(w)  PROVE SafetyInv'
  BY <1>4, AssignSafe, StartWorkerSafe, Stops DEF Group, Crash
<1>5. ASSUME NEW w \in Workers, Work(w)  PROVE SafetyInv'
  <2>1. CASE Upsert(w) \/ MarkProcessing(w) \/ Reload(w) \/ BumpAttempt(w) \/ ReloadResumed(w)
    BY <2>1, UpsertSafe, MarkSafe, StartSafe
  <2>2. CASE \/ Prepare(w) \/ AskAgain(w) \/ Extract(w) \/ ExtractFails(w)
             \/ Handoff(w) \/ Align(w) \/ Reconcile(w)
    BY <2>2, AskSafe, ExtractSafe, PlanSafe
  <2>3. CASE \/ PrepareWrite(w) \/ WriteGraph(w) \/ WriteFails(w) \/ Repair(w)
             \/ Sync(w) \/ WriteIndex(w) \/ IndexFails(w)
    BY <2>3, PrepareWriteSafe, WriteSafe, RepairSafe, SyncSafe, IndexSafe
  <2>4. CASE MarkIndexed(w) \/ FailTask(w) \/ CheckEnd(w) \/ MarkEnd(w) \/ Commit(w)
    BY <2>4, MarkIndexedSafe, FailTaskSafe, CheckSafe, MarkEndSafe, CommitSafe
  <2> QED  BY <1>5, <2>1, <2>2, <2>3, <2>4 DEF Work
<1> QED  BY <1>1, <1>2, <1>3, <1>4, <1>5 DEF Next

\* What every worker knows of its task holds at all times.
THEOREM SafetyInvariant ==
  ASSUME WorkersAlone
  PROVE  Spec => [](TypeOK /\ SafetyInv)
<1>1. Init => TypeOK /\ SafetyInv
  BY InitTypeOK, InitSafe
<1>2. TypeOK /\ SafetyInv /\ [Next]_vars => (TypeOK /\ SafetyInv)'
  BY StepTypeOK, StepSafe
<1> QED  BY <1>1, <1>2, PTL DEF Spec

\* A task is marked completed only when its memories are in the graph and in the index,
\* whatever fails on the way, however often its event is delivered.
THEOREM CompletedAreIndexed ==
  ASSUME WorkersAlone
  PROVE  Spec => []CompletedIsIndexed
<1>1. TypeOK /\ SafetyInv => CompletedIsIndexed
  BY DEF TypeOK, SafetyInv, Complete, CompletedIsIndexed, Status, Written
<1> QED  BY <1>1, SafetyInvariant, PTL

\* A transaction whose answer is lost, a crash or a failed index write do not make a replay
\* create the memories of a candidate again.
THEOREM MemoriesCreatedOnce ==
  ASSUME WorkersAlone
  PROVE  Spec => []OneMemoryPerCandidate
<1>1. TypeOK /\ SafetyInv => OneMemoryPerCandidate
  BY DEF SafetyInv
<1> QED  BY <1>1, SafetyInvariant, PTL

\* If no attempt is given up, the event of a task in processing is never committed: whoever
\* gets the partition next resumes the task.
THEOREM ProcessingRedelivered ==
  ASSUME WorkersAlone, "abort" \notin Faults
  PROVE  Spec => []ProcessingIsDelivered
<1>1. TypeOK /\ SafetyInv => ProcessingIsDelivered
  BY DEF SafetyInv
<1> QED  BY <1>1, SafetyInvariant, PTL
-----------------------------------------------------------------------------
(* The stores of a task that is not being processed *)

StoresKept == UNCHANGED graphVars

\* Only the graph transaction and the bulk request write to the stores.
LEMMA OthersKeepStores ==
  ASSUME NEW w \in Workers, Work(w), ~WriteGraph(w), ~WriteIndex(w)
  PROVE  StoresKept
<1>1. CASE Upsert(w) \/ MarkProcessing(w) \/ Reload(w) \/ BumpAttempt(w) \/ ReloadResumed(w)
  BY <1>1, Zenon DEF Upsert, MarkProcessing, Reload, BumpAttempt, ReloadResumed, StoresKept
<1>2. CASE Prepare(w) \/ AskAgain(w) \/ Extract(w) \/ ExtractFails(w)
  BY <1>2, Zenon DEF Prepare, AskAgain, Extract, ExtractFails, StoresKept
<1>3. CASE Handoff(w) \/ Align(w) \/ Reconcile(w) \/ PrepareWrite(w)
  BY <1>3, Zenon DEF Handoff, Align, Reconcile, PrepareWrite, StoresKept
<1>4. CASE WriteFails(w) \/ Repair(w) \/ Sync(w) \/ IndexFails(w)
  BY <1>4, Zenon DEF WriteFails, Repair, Sync, IndexFails, StoresKept
<1>5. CASE MarkIndexed(w) \/ FailTask(w) \/ CheckEnd(w) \/ MarkEnd(w) \/ Commit(w)
  BY <1>5, Zenon DEF MarkIndexed, FailTask, CheckEnd, MarkEnd, Commit, StoresKept
<1> QED  BY <1>1, <1>2, <1>3, <1>4, <1>5, Zenon DEF Work

\* Nothing else in the system does either.
LEMMA WritersAlone ==
  ASSUME [Next]_vars, ~StoresKept
  PROVE  \E w \in Workers : WriteGraph(w) \/ WriteIndex(w)
<1>1. CASE UNCHANGED vars
  BY <1>1, Zenon DEF vars, graphVars, StoresKept
<1>2. ASSUME NEW a \in Archives, Publish(a)  PROVE StoresKept
  BY <1>2, Zenon DEF Publish, StoresKept
<1>3. ASSUME NEW w \in Workers, Group(w) \/ Crash(w)  PROVE StoresKept
  BY <1>3, Zenon DEF Group, Assign, StartWorker, Crash, StoresKept
<1>4. ASSUME NEW x \in Admins, Admin(x)  PROVE StoresKept
  BY <1>4, Zenon DEF Admin, AdminRead, AdminReset, AdminPublish, AdminRevert, AdminCrash, StoresKept
<1> QED  BY <1>1, <1>2, <1>3, <1>4, OthersKeepStores, Zenon DEF Next

\* The graph transaction is of a task in processing, and of no other archive.
LEMMA GraphOfProcessing ==
  ASSUME TypeOK, SafetyInv, NEW w \in Workers, WriteGraph(w)
  PROVE  /\ Arc(w) \in Archives /\ Status(Arc(w)) = "processing"
         /\ \A a \in Archives \ {Arc(w)} : copies'[a] = copies[a] /\ indexed'[a] = indexed[a]
<1>1. At(w, "write") /\ copies' = Created(Arc(w), wk[w].plan) /\ indexed' = indexed
  BY DEF WriteGraph
<1>2. ~Idle(w)
  BY <1>1 DEF At, Idle
<1>3. wk[w].pc \in Busy
  BY <1>1 DEF At, Busy
<1>4. Arc(w) \in Archives /\ Status(Arc(w)) = "processing"
  BY <1>2, <1>3, Known DEF Knows, Status
<1>5. \A a \in Archives \ {Arc(w)} : Created(Arc(w), wk[w].plan)[a] = copies[a]
  BY DEF Created, TypeOK
<1> QED  BY <1>1, <1>4, <1>5

\* So is the bulk request.
LEMMA IndexOfProcessing ==
  ASSUME TypeOK, SafetyInv, NEW w \in Workers, WriteIndex(w)
  PROVE  /\ Arc(w) \in Archives /\ Status(Arc(w)) = "processing"
         /\ \A a \in Archives \ {Arc(w)} : copies'[a] = copies[a] /\ indexed'[a] = indexed[a]
<1>1. /\ At(w, "index") /\ copies' = copies
      /\ indexed' = [indexed EXCEPT ![Arc(w)] = @ \cup wk[w].seeds]
  BY DEF WriteIndex
<1>2. ~Idle(w)
  BY <1>1 DEF At, Idle
<1>3. wk[w].pc \in Busy
  BY <1>1 DEF At, Busy
<1>4. Arc(w) \in Archives /\ Status(Arc(w)) = "processing"
  BY <1>2, <1>3, Known DEF Knows, Status
<1>5. \A a \in Archives \ {Arc(w)} : indexed'[a] = indexed[a]
  BY <1>1 DEF TypeOK
<1> QED  BY <1>1, <1>4, <1>5

\* What is stored of an archive changes only while its task is in processing.
StoresFollowTask ==
  \A a \in Archives :
    copies'[a] # copies[a] \/ indexed'[a] # indexed[a] => Status(a) = "processing"

\* Neither a redelivered event nor an admin's reset makes a run write to the graph or the
\* index for a task that has ended or waits to be taken up: the run that writes is that of
\* a task in processing at the time, although write and status are in different stores.
THEOREM WritesOnlyWhileProcessing ==
  ASSUME WorkersAlone
  PROVE  Spec => [][StoresFollowTask]_vars
<1>1. ASSUME TypeOK, SafetyInv, [Next]_vars  PROVE StoresFollowTask
  <2>1. CASE StoresKept
    BY <2>1 DEF StoresKept, graphVars, StoresFollowTask
  <2>2. CASE ~StoresKept
    <3>1. PICK w \in Workers : WriteGraph(w) \/ WriteIndex(w)
      BY <1>1, <2>2, WritersAlone
    <3>2. /\ Arc(w) \in Archives /\ Status(Arc(w)) = "processing"
          /\ \A a \in Archives \ {Arc(w)} : copies'[a] = copies[a] /\ indexed'[a] = indexed[a]
      BY <1>1, <3>1, GraphOfProcessing, IndexOfProcessing
    <3> QED  BY <3>2 DEF StoresFollowTask
  <2> QED  BY <2>1, <2>2
<1> QED  BY <1>1, SafetyInvariant, PTL DEF Spec
=============================================================================
