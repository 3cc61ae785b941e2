---------------------------- MODULE ExtractionTask ----------------------------
(***************************************************************************)
(* The long-term side of one user: the partition of the event log that     *)
(* carries the user's context.archive.created events, the extraction       *)
(* workers of the consumer group, one memory_extraction_task document per  *)
(* archive, the stages of the extraction pipeline, and the admin requests  *)
(* that retry and rebuild failed tasks.                                    *)
(*                                                                         *)
(* An event is the archive it names (event_id is stored nowhere).  What    *)
(* the LLM extracts is one of Results, or nothing.  A result stands for    *)
(* its candidates and their evidence ids, which are computed from archive  *)
(* and candidate: the graph transaction writes all of them or none.        *)
(***************************************************************************)
EXTENDS Naturals, Sequences, FiniteSets

CONSTANTS
  Archives,      \* archives of the user
  Workers,       \* worker processes of the consumer group
  Admins,        \* admin request slots
  Nobody,        \* owner of an unassigned partition
  Results,       \* extraction results with memories the LLM may give
  MaxEvents,     \* bound: events published in all
  Faults         \* which of FaultKinds may happen

FaultKinds ==
  { "crash",       \* a worker dies between two steps
    "rebalance",   \* the group takes the partition from a worker that is alive
    "abort",       \* saving a result or loading the replay set raises: the run aborts
    "ack",         \* the graph transaction or mark_completed raises, done or not
    "kafka",       \* a republication raises, delivered or not
    "adminCrash",  \* the API process dies in the middle of an admin request
    "skip" }       \* the reconciliation LLM discards every candidate

NoResult == "none"    \* extraction_result is null
EmptyResult == "empty"   \* no entities and no memories

ASSUME ExtractionAssumption ==
  /\ Nobody \notin Workers
  /\ NoResult \notin Results /\ EmptyResult \notin Results
  /\ MaxEvents \in Nat
  /\ Faults \subseteq FaultKinds

VARIABLES
  log,        \* events of the partition, in order
  committed,  \* offset of the consumer group: log[1..committed] is done with
  owner,      \* worker the partition is assigned to
  task,       \* memory_extraction_task documents
  copies,     \* copies[a][r]: how often the memories of result r of a were created
  indexed,    \* indexed[a]: results of a whose memories are in the retrieval index
  wk,         \* program state of each worker
  adm         \* program state of each admin request

groupVars == <<log, committed, owner>>
graphVars == <<copies, indexed>>
vars == <<log, committed, owner, task, copies, indexed, wk, adm>>

-----------------------------------------------------------------------------
(* Task documents *)

Result == Results \cup {NoResult, EmptyResult}

\* last_error, by what the admin interface makes of its code: retry (allowed to be
\* retried), conflict (reconciliation_plan_conflict: rebuild only), permanent, kafka
\* (kafka_publish_failed: allowed to be retried).
Error == {"none", "retry", "conflict", "permanent", "kafka"}

Task == [status : {"absent", "pending", "processing", "completed", "failed"},
         result : Result, error : Error]

NoTask == [status |-> "absent", result |-> NoResult, error |-> "none"]
NewTask == [status |-> "pending", result |-> NoResult, error |-> "none"]

Status(a) == task[a].status

Ended(a) == Status(a) \in {"completed", "failed"}

\* Compare-and-set on the status of a task document.
Move(a, to, err) == task' = [task EXCEPT ![a].status = to, ![a].error = err]

\* What load_from_persisted_task of every stage asks of the task.
Runs(a) == Status(a) = "processing" /\ task[a].result # NoResult

\* Mutant: evidence counts as processed only once the memory is indexed.
WrittenIfIndexed(a) == indexed[a]

\* Results of a whose evidence supports memories in the graph.
Written(a) == { r \in Results : copies[a][r] > 0 }

-----------------------------------------------------------------------------
(* Workers *)

\* down      not running             poll       waits for a record
\* start     task was pending        restart    and was not when it was updated
\* resume    task was processing     reresume   and was not when it was updated
\* rebump    attempt of a task found processing by restart
\* prepare, llm, correct, handoff, align, reconcile, graph, write, repair, sync, index, done, undo
\*           stages of the pipeline
\* complete, completing, fail, failing   the consumer's terminal write
\* commit    the record is done with
Step == {"down", "poll", "start", "restart", "resume", "reresume", "rebump",
         "prepare", "llm", "correct", "handoff", "align", "reconcile", "graph", "write", "repair",
         "sync", "index", "done", "undo", "complete", "completing",
         "fail", "failing", "commit"}

Worker == [pc : Step,
           next    : Nat,          \* position: number of the next record
           rec     : Nat,          \* number of the record in progress
           result  : Result,       \* extraction_result of the pipeline's current task
           aligned : Result,       \* result the entity alignment was made for
           plan    : Results \cup {NoResult},  \* result whose memories the plan creates, if any
           seeds   : SUBSET Results,
           error   : Error]        \* last_error of a FAIL decision

NewWorker(pc, next) ==
  [pc |-> pc, next |-> next, rec |-> 0, result |-> NoResult, aligned |-> NoResult,
   plan |-> NoResult, seeds |-> {}, error |-> "none"]

At(w, pc) == wk[w].pc = pc

\* The archive of the record in progress.
Arc(w) == log[wk[w].rec]

Go(w, pc) == wk' = [wk EXCEPT ![w].pc = pc]

Fail(w, err) == wk' = [wk EXCEPT ![w].pc = "fail", ![w].error = err]

\* ABORT_WITHOUT_TERMINAL: nothing is committed and the loop goes on with the next
\* record; the position is not moved back.
Abandon(w) == wk' = [wk EXCEPT ![w] = NewWorker("poll", wk[w].next)]

\* An exception ends the loop and the process; its consumer leaves the group.
Stop(w) ==
  /\ wk' = [wk EXCEPT ![w] = NewWorker("down", 0)]
  /\ owner' = IF owner = w THEN Nobody ELSE owner
  /\ UNCHANGED <<log, committed>>

\* Mutant: a stored result does not keep the LLM from being called again.
StageAlwaysExtracts(r) == IF r = EmptyResult THEN "complete" ELSE "prepare"

\* Where ProductionExtractionPipeline.run starts with a given extraction_result.
StageFor(r) ==
  IF r = NoResult THEN "prepare" ELSE IF r = EmptyResult THEN "complete" ELSE "align"

RunPipeline(w, r) == wk' = [wk EXCEPT ![w].pc = StageFor(r), ![w].result = r]

-----------------------------------------------------------------------------
Init ==
  /\ log = <<>> /\ committed = 0 /\ owner = Nobody
  /\ task = [a \in Archives |-> NoTask]
  /\ copies = [a \in Archives |-> [r \in Results |-> 0]]
  /\ indexed = [a \in Archives |-> {}]
  /\ wk = [w \in Workers |-> NewWorker("poll", 0)]
  /\ adm = [x \in Admins |-> [pc |-> "idle"]]

\* Room in the bounded log, keeping a place for each admin request in progress.
RoomForEvent ==
  Len(log) + Cardinality({ x \in Admins : adm[x].pc \in {"reset", "publish"} }) < MaxEvents

\* Compression and close publish an event per archive, some more than once.
Publish(a) ==
  /\ RoomForEvent
  /\ log' = Append(log, a)
  /\ UNCHANGED <<committed, owner, task, graphVars, wk, adm>>

\* Mutant: auto_offset_reset "latest".
AssignLatest(w) ==
  /\ ~At(w, "down") /\ owner = Nobody
  /\ owner' = w
  /\ wk' = [wk EXCEPT ![w].next = (IF committed = 0 THEN Len(log) ELSE committed) + 1]
  /\ UNCHANGED <<log, committed, task, graphVars, adm>>

\* The group assigns the partition; the consumer starts at the committed offset.
Assign(w) ==
  /\ ~At(w, "down")
  /\ owner = Nobody \/ "rebalance" \in Faults
  /\ owner' = w
  /\ wk' = [wk EXCEPT ![w].next = committed + 1]
  /\ UNCHANGED <<log, committed, task, graphVars, adm>>

Crash(w) ==
  /\ "crash" \in Faults /\ ~At(w, "down")
  /\ Stop(w)
  /\ UNCHANGED <<task, graphVars, adm>>

StartWorker(w) ==
  /\ At(w, "down")
  /\ Go(w, "poll")
  /\ UNCHANGED <<groupVars, task, graphVars, adm>>

-----------------------------------------------------------------------------
(* process_archive_created_event, up to the pipeline *)

\* Mutant: a task in processing is taken for somebody else's work.
AfterUpsertDone(status) == IF status = "pending" THEN "start" ELSE "commit"

\* What the consumer does with a task of the given status.
AfterUpsert(status) ==
  CASE status \in {"completed", "failed"} -> "commit"
    [] status = "pending"                 -> "start"
    [] status = "processing"              -> "resume"

\* getmany moves the position past the record, whatever becomes of it.
Upsert(w) ==
  /\ At(w, "poll") /\ owner = w /\ wk[w].next <= Len(log)
  /\ LET a == log[wk[w].next]
         t == IF Status(a) = "absent" THEN NewTask ELSE task[a]
     IN  /\ task' = [task EXCEPT ![a] = t]
         /\ wk' = [wk EXCEPT ![w].pc = AfterUpsert(t.status),
                             ![w].rec = wk[w].next, ![w].next = @ + 1]
  /\ UNCHANGED <<groupVars, graphVars, adm>>

MarkProcessing(w) ==
  /\ At(w, "start")
  /\ IF Status(Arc(w)) = "pending"
     THEN /\ Move(Arc(w), "processing", "none")
          /\ RunPipeline(w, task[Arc(w)].result)
     ELSE Go(w, "restart") /\ UNCHANGED task
  /\ UNCHANGED <<groupVars, graphVars, adm>>

\* Mutant: after a lost race for pending, the record is left to the winner.
ReloadLeaves(w) ==
  /\ At(w, "restart")
  /\ IF Status(Arc(w)) = "pending" THEN Stop(w)
     ELSE Go(w, "commit") /\ UNCHANGED groupVars
  /\ UNCHANGED <<task, graphVars, adm>>

\* The task has left pending; one that is pending again is a RuntimeError.
Reload(w) ==
  /\ At(w, "restart")
  /\ CASE Ended(Arc(w)) -> Go(w, "commit") /\ UNCHANGED groupVars
       [] Status(Arc(w)) = "processing" ->
            /\ wk' = [wk EXCEPT ![w].pc = "rebump", ![w].result = task[Arc(w)].result]
            /\ UNCHANGED groupVars
       [] OTHER -> Stop(w)
  /\ UNCHANGED <<task, graphVars, adm>>

\* bump_processing_attempt; attempt_count itself is read by nobody.
BumpAttempt(w) ==
  /\ \/ /\ wk[w].pc \in {"resume", "rebump"} /\ Status(Arc(w)) = "processing"
        /\ RunPipeline(w, task[Arc(w)].result)
     \/ /\ At(w, "rebump") /\ Status(Arc(w)) # "processing"
        /\ RunPipeline(w, wk[w].result)
     \/ /\ At(w, "resume") /\ Status(Arc(w)) # "processing"
        /\ Go(w, "reresume")
  /\ UNCHANGED <<groupVars, task, graphVars, adm>>

\* Here the pipeline runs even if the task is pending again.
ReloadResumed(w) ==
  /\ At(w, "reresume")
  /\ IF Ended(Arc(w)) THEN Go(w, "commit") ELSE RunPipeline(w, task[Arc(w)].result)
  /\ UNCHANGED <<groupVars, task, graphVars, adm>>

-----------------------------------------------------------------------------
(* Stages of the pipeline *)

\* The archive is read, checked and redacted.
Prepare(w) ==
  /\ At(w, "prepare")
  /\ \/ Go(w, "llm")
     \/ Fail(w, "permanent")
     \/ "abort" \in Faults /\ Abandon(w)
  /\ UNCHANGED <<groupVars, task, graphVars, adm>>

\* The LLM is asked once, and once more if its first answer is not valid.
Asked(w) == wk[w].pc \in {"llm", "correct"}

AskAgain(w) ==
  /\ At(w, "llm")
  /\ Go(w, "correct")
  /\ UNCHANGED <<groupVars, task, graphVars, adm>>

\* The answer is valid and set_extraction_result applies, or aborts the run.
Extract(w) ==
  /\ Asked(w)
  /\ \E r \in Results \cup {EmptyResult} :
       IF Status(Arc(w)) = "processing"
       THEN /\ task' = [task EXCEPT ![Arc(w)].result = r]
            /\ \/ Go(w, IF r = EmptyResult THEN "complete" ELSE "handoff")
               \/ "abort" \in Faults /\ Abandon(w)
       ELSE Abandon(w) /\ UNCHANGED task
  /\ UNCHANGED <<groupVars, graphVars, adm>>

\* The LLM does not answer, or its second answer is not valid either; or MongoDB fails.
ExtractFails(w) ==
  /\ Asked(w)
  /\ \/ Fail(w, "retry")
     \/ "abort" \in Faults /\ Abandon(w)
  /\ UNCHANGED <<groupVars, task, graphVars, adm>>

Handoff(w) ==
  /\ At(w, "handoff")
  /\ IF task[Arc(w)].result = NoResult THEN Abandon(w)
     ELSE RunPipeline(w, task[Arc(w)].result)
  /\ UNCHANGED <<groupVars, task, graphVars, adm>>

Align(w) ==
  /\ At(w, "align")
  /\ \/ /\ Runs(Arc(w))
        /\ \/ wk' = [wk EXCEPT ![w].pc = "reconcile", ![w].aligned = task[Arc(w)].result]
           \/ Fail(w, "retry")
     \/ ~Runs(Arc(w)) /\ Abandon(w)
  /\ UNCHANGED <<groupVars, task, graphVars, adm>>

\* Memories of the user to reconcile with: recall finds them in the graph.
Recalled == \E b \in Archives : Written(b) # {}

\* What build_reconciliation_plan plans for r: candidates with processed evidence are
\* skipped, so nothing is left of a result that is already in the graph.
Planned(a, r) ==
  IF r \in Written(a) \cup {EmptyResult} THEN {NoResult}
  ELSE {r} \cup (IF "skip" \in Faults /\ Recalled THEN {NoResult} ELSE {})

\* Candidates left to plan may contradict each other (conflict).
\* An alignment made for another result lacks entities of this one, or has others
\* under the same local id.
Reconcile(w) ==
  /\ At(w, "reconcile")
  /\ LET r == task[Arc(w)].result IN
     \/ /\ Runs(Arc(w))
        /\ \E p \in Planned(Arc(w), r) :
             wk' = [wk EXCEPT ![w].pc = "graph", ![w].plan = p]
     \/ /\ Runs(Arc(w)) /\ r # EmptyResult
        /\ \/ Fail(w, "retry")
           \/ r \notin Written(Arc(w)) /\ Fail(w, "conflict")
     \/ /\ ~Runs(Arc(w)) \/ r # wk[w].aligned
        /\ Abandon(w)
  /\ UNCHANGED <<groupVars, task, graphVars, adm>>

\* Before the transaction: the task is loaded again, the evidence of the plan looked up
\* again (all of it there: no write), and rows built from the plan's candidates and
\* the loaded result; if that is another one, a candidate may not exist.
PrepareWrite(w) ==
  /\ At(w, "graph")
  /\ LET a == Arc(w)  p == wk[w].plan  r == task[a].result IN
     \/ /\ ~Runs(a) \/ r = EmptyResult
        /\ Abandon(w) /\ UNCHANGED groupVars
     \/ /\ Runs(a) /\ r # EmptyResult
        /\ \/ /\ IF p \in Written(a)
                 THEN wk' = [wk EXCEPT ![w].pc = "sync", ![w].seeds = {p}]
                 ELSE Go(w, "write")
              /\ UNCHANGED groupVars
           \/ \E err \in {"retry", "permanent"} : Fail(w, err) /\ UNCHANGED groupVars
           \/ p \notin {NoResult, r} /\ Stop(w)
  /\ UNCHANGED <<task, graphVars, adm>>

\* The transaction creates the memories of p under the fresh ids of the plan.
Created(a, p) ==
  IF p = NoResult THEN copies ELSE [copies EXCEPT ![a][p] = @ + 1]

\* One transaction; of an empty plan nothing remains but the search for what an
\* earlier run has written.
WriteGraph(w) ==
  /\ At(w, "write")
  /\ LET p == wk[w].plan IN
     /\ copies' = Created(Arc(w), p)
     /\ \/ wk' = IF p = NoResult THEN [wk EXCEPT ![w].pc = "repair"]
                 ELSE [wk EXCEPT ![w].pc = "sync", ![w].seeds = {p}]
        \/ "ack" \in Faults /\ Fail(w, "retry")
  /\ UNCHANGED <<groupVars, task, indexed, adm>>

WriteFails(w) ==
  /\ At(w, "write")
  /\ Fail(w, "retry")
  /\ UNCHANGED <<groupVars, task, graphVars, adm>>

\* _repair_empty_replay_index_sync_set: the memories the archive's evidence supports;
\* without any the run is aborted.
Repair(w) ==
  /\ At(w, "repair")
  /\ LET found == Written(Arc(w)) IN
     \/ found # {} /\ wk' = [wk EXCEPT ![w].pc = "sync", ![w].seeds = found]
     \/ (found = {} \/ "abort" \in Faults) /\ Abandon(w)
  /\ UNCHANGED <<groupVars, task, graphVars, adm>>

\* Mutant: the task is marked completed before its memories are indexed.
SyncMarksFirst(w) ==
  /\ At(w, "sync") /\ Status(Arc(w)) = "processing"
  /\ Move(Arc(w), "completed", "none")
  /\ Go(w, "index")
  /\ UNCHANGED <<groupVars, graphVars, adm>>

Sync(w) ==
  /\ At(w, "sync")
  /\ CASE Status(Arc(w)) = "completed"  -> Go(w, "complete")
       [] Status(Arc(w)) = "processing" -> Go(w, "index")
       [] OTHER                         -> Abandon(w)
  /\ UNCHANGED <<groupVars, task, graphVars, adm>>

\* bulk_upsert of the documents of the seeds (and of memories linked to them).
WriteIndex(w) ==
  /\ At(w, "index")
  /\ indexed' = [indexed EXCEPT ![Arc(w)] = @ \cup wk[w].seeds]
  /\ Go(w, "done")
  /\ UNCHANGED <<groupVars, task, copies, adm>>

\* Rows missing (a plan whose write was left out names memories nobody created), the
\* embedding service, or the bulk request.
IndexFails(w) ==
  /\ At(w, "index")
  /\ Go(w, "undo")
  /\ UNCHANGED <<groupVars, task, graphVars, adm>>

MarkIndexed(w) ==
  /\ At(w, "done")
  /\ \/ /\ Status(Arc(w)) = "processing"
        /\ Move(Arc(w), "completed", "none")
        /\ Go(w, "complete") \/ ("ack" \in Faults /\ Go(w, "undo"))
     \/ /\ Status(Arc(w)) # "processing" \/ "ack" \in Faults
        /\ Go(w, "undo") /\ UNCHANGED task
  /\ UNCHANGED <<groupVars, graphVars, adm>>

\* Mutant: the failure is recorded whatever the status of the task.
FailTaskAlways(w) ==
  /\ At(w, "undo")
  /\ Move(Arc(w), "failed", "retry") /\ Fail(w, "retry")
  /\ UNCHANGED <<groupVars, graphVars, adm>>

\* _fail_task: whoever is processing the task by now.
FailTask(w) ==
  /\ At(w, "undo")
  /\ IF Status(Arc(w)) = "processing"
     THEN Move(Arc(w), "failed", "retry") /\ Fail(w, "retry")
     ELSE Abandon(w) /\ UNCHANGED task
  /\ UNCHANGED <<groupVars, graphVars, adm>>

-----------------------------------------------------------------------------
(* The consumer's terminal write and the commit of the offset *)

\* Reload: the stage may have written the terminal status itself.
CheckEnd(w) ==
  /\ \/ /\ At(w, "complete")
        /\ Go(w, IF Status(Arc(w)) = "completed" THEN "commit" ELSE "completing")
     \/ /\ At(w, "fail")
        /\ Go(w, IF Status(Arc(w)) = "failed" THEN "commit" ELSE "failing")
  /\ UNCHANGED <<groupVars, task, graphVars, adm>>

\* A task that is not processing is a TerminalPersistError, which ends the worker.
MarkEnd(w) ==
  /\ wk[w].pc \in {"completing", "failing"}
  /\ IF Status(Arc(w)) = "processing"
     THEN /\ IF At(w, "completing") THEN Move(Arc(w), "completed", "none")
             ELSE Move(Arc(w), "failed", wk[w].error)
          /\ Go(w, "commit") /\ UNCHANGED groupVars
     ELSE Stop(w) /\ UNCHANGED task
  /\ UNCHANGED <<graphVars, adm>>

\* Mutants: the offset after the next record; the end of the partition.
CommitBeyond(w) ==
  /\ At(w, "commit") /\ owner = w
  /\ committed' = wk[w].rec + 1 /\ Abandon(w)
  /\ UNCHANGED <<log, owner, task, graphVars, adm>>

CommitEnd(w) ==
  /\ At(w, "commit") /\ owner = w
  /\ committed' = Len(log) /\ Abandon(w)
  /\ UNCHANGED <<log, owner, task, graphVars, adm>>

\* The commit of a partition that was taken away raises and ends the worker.
Commit(w) ==
  /\ At(w, "commit")
  /\ IF owner = w
     THEN committed' = wk[w].rec /\ Abandon(w) /\ UNCHANGED <<log, owner>>
     ELSE Stop(w)
  /\ UNCHANGED <<task, graphVars, adm>>

-----------------------------------------------------------------------------
(* Admin requests: retry and rebuild *)

\* Error codes a failed task may be restarted from; rebuild also clears the result.
RetryAllowed == {"retry", "kafka"}
RebuildAllowed == {"conflict"}

AdminRead(x) ==
  /\ adm[x].pc = "idle" /\ RoomForEvent
  /\ \E a \in Archives, clear \in BOOLEAN :
       /\ Status(a) = "failed"
       /\ task[a].error \in (IF clear THEN RebuildAllowed ELSE RetryAllowed)
       /\ adm' = [adm EXCEPT ![x] = [pc |-> "reset", archive |-> a, clear |-> clear]]
  /\ UNCHANGED <<groupVars, task, graphVars, wk>>

\* admin_reset_failed_to_pending
Reset(a, clear) ==
  task' = [task EXCEPT ![a] = [NewTask EXCEPT !.result = IF clear THEN NoResult ELSE task[a].result]]

\* Only the status is looked at again.
AdminReset(x) ==
  /\ adm[x].pc = "reset"
  /\ IF Status(adm[x].archive) = "failed"
     THEN /\ Reset(adm[x].archive, adm[x].clear)
          /\ adm' = [adm EXCEPT ![x].pc = "publish"]
     ELSE adm' = [adm EXCEPT ![x] = [pc |-> "idle"]] /\ UNCHANGED task
  /\ UNCHANGED <<groupVars, graphVars, wk>>

AdminPublish(x) ==
  /\ adm[x].pc = "publish"
  /\ \/ /\ log' = Append(log, adm[x].archive)
        /\ adm' = [adm EXCEPT ![x] = [pc |-> "idle"]]
     \/ /\ "kafka" \in Faults
        /\ log' \in {log, Append(log, adm[x].archive)}
        /\ adm' = [adm EXCEPT ![x].pc = "revert"]
  /\ UNCHANGED <<committed, owner, task, graphVars, wk>>

\* admin_mark_failed_from_admin_action
MarkUnpublished(a) ==
  IF Status(a) \in {"pending", "failed"} THEN Move(a, "failed", "kafka") ELSE UNCHANGED task

\* The request could not publish the event of the task it has reset.
AdminRevert(x) ==
  /\ adm[x].pc = "revert"
  /\ MarkUnpublished(adm[x].archive)
  /\ adm' = [adm EXCEPT ![x] = [pc |-> "idle"]]
  /\ UNCHANGED <<groupVars, graphVars, wk>>

AdminCrash(x) ==
  /\ "adminCrash" \in Faults /\ adm[x].pc # "idle"
  /\ adm' = [adm EXCEPT ![x] = [pc |-> "idle"]]
  /\ UNCHANGED <<groupVars, task, graphVars, wk>>

-----------------------------------------------------------------------------
Work(w) ==
  \/ Upsert(w) \/ MarkProcessing(w) \/ Reload(w) \/ BumpAttempt(w) \/ ReloadResumed(w)
  \/ Prepare(w) \/ AskAgain(w) \/ Extract(w) \/ ExtractFails(w) \/ Handoff(w) \/ Align(w) \/ Reconcile(w)
  \/ PrepareWrite(w) \/ WriteGraph(w) \/ WriteFails(w) \/ Repair(w)
  \/ Sync(w) \/ WriteIndex(w) \/ IndexFails(w) \/ MarkIndexed(w) \/ FailTask(w)
  \/ CheckEnd(w) \/ MarkEnd(w) \/ Commit(w)

Group(w) == Assign(w) \/ StartWorker(w)

Admin(x) == AdminRead(x) \/ AdminReset(x) \/ AdminPublish(x) \/ AdminRevert(x) \/ AdminCrash(x)

Next ==
  \/ \E a \in Archives : Publish(a)
  \/ \E w \in Workers : Work(w) \/ Group(w) \/ Crash(w)
  \/ \E x \in Admins : Admin(x)

Spec == Init /\ [][Next]_vars

\* Awaited calls answer, the group assigns a free partition to a live worker, and a
\* stopped worker is started again.
FairSpec ==
  /\ Spec
  /\ \A w \in Workers : WF_vars(Work(w)) /\ WF_vars(StartWorker(w))
  /\ WF_vars(\E w \in Workers : owner = Nobody /\ Assign(w))
  /\ \A x \in Admins : WF_vars(AdminReset(x) \/ AdminPublish(x) \/ AdminRevert(x))

-----------------------------------------------------------------------------
(* Properties *)

AdminState ==
  [pc : {"idle"}] \cup
  [pc : {"reset", "publish", "revert"}, archive : Archives, clear : BOOLEAN]

Idle(w) == wk[w].pc \in {"down", "poll"}

\* The record in progress is in the log and its task exists.
HasRecord(w) ==
  /\ wk[w].rec \in 1..Len(log)
  /\ Status(Arc(w)) # "absent"

\* The owner of the partition has a position; a worker just started has none.
Positioned(w) == owner = w => wk[w].next > 0

\* The types, a task for every record in progress and a position for the owner.
TypeOK ==
  /\ log \in Seq(Archives)
  /\ committed \in 0..Len(log)
  /\ owner \in Workers \cup {Nobody}
  /\ task \in [Archives -> Task]
  /\ copies \in [Archives -> [Results -> Nat]]
  /\ indexed \in [Archives -> SUBSET Results]
  /\ wk \in [Workers -> Worker]
  /\ \A w \in Workers : (~Idle(w) => HasRecord(w)) /\ Positioned(w)
  /\ adm \in [Admins -> AdminState]

\* A completed task's memories are in the graph and in the index.
CompletedIsIndexed ==
  \A a \in Archives :
    (Status(a) = "completed" /\ task[a].result \in Results) =>
      task[a].result \in Written(a) \cap indexed[a]

\* Some event after record n names a.
EventAfter(n, a) == \E i \in (n + 1)..Len(log) : log[i] = a

\* An admin request has reopened a and is about to publish its event or to fail it again.
Reopening(a) == \E x \in Admins : adm[x].pc \in {"publish", "revert"} /\ adm[x].archive = a

\* As long as no attempt is given up (neither "abort" nor "skip" in Faults), no offset is
\* committed past a task that is still processing: after a crash, or a call that raises
\* although it took effect, its event is delivered again.  The record of an attempt given
\* up is not delivered again: the consumer does not seek back to it, and the commit of the
\* next record covers it.
ProcessingIsDelivered ==
  \A a \in Archives : Status(a) = "processing" => EventAfter(committed, a)

\* A pending task has an event to come, or an admin who publishes one.
PendingIsAnnounced ==
  \A a \in Archives : Status(a) = "pending" => EventAfter(committed, a) \/ Reopening(a)

\* A record is committed only for a task that has ended: if it is open again, an admin has
\* reopened it and a later event says so.  Also for workers that lost the partition.
CommitsOnlyEnded ==
  \A w \in Workers :
    At(w, "commit") /\ ~Ended(Arc(w)) => EventAfter(wk[w].rec, Arc(w)) \/ Reopening(Arc(w))

\* The candidates of an archive are created once, however often its event is replayed.
OneMemoryPerCandidate == \A a \in Archives, r \in Results : copies[a][r] <= 1

\* A stored extraction result is what later runs work with: it changes only when an
\* admin clears it to have the task rebuilt.
ResultKept ==
  [][ \A a \in Archives :
        task[a].result # NoResult /\ task'[a].result # task[a].result =>
          /\ Status(a) = "failed" /\ task[a].error \in RebuildAllowed
          /\ task'[a] = NewTask ]_vars

\* Whatever workers and admins do, a completed task stays as it is.
CompletedIsFinal ==
  [][ \A a \in Archives : Status(a) = "completed" => task'[a] = task[a] ]_vars

\* A task with an event that is still to be consumed ends.
TaskEnds ==
  \A a \in Archives :
    EventAfter(committed, a) ~> Ended(a)
=============================================================================
