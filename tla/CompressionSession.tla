------------------------- MODULE CompressionSession -------------------------
(***************************************************************************)
(* One session of the short-term memory: the working memory in Redis, the  *)
(* context archives in MongoDB, the context.archive.created events in      *)
(* Kafka, and the API requests that write messages, compress the context   *)
(* and close the session.  Every action is one atomic step of the code: a  *)
(* Redis command or Lua script, a MongoDB insert, a Kafka publication.     *)
(*                                                                         *)
(* Messages are numbered by their position in the order of acceptance.     *)
(* The Redis list is always a suffix of that order, so it is the interval  *)
(* head+1 .. tail, and a batch of consecutive messages is a pair           *)
(* [first, last].  archive_batch_key names the first and the last message  *)
(* of a batch and carries a unique index, hence batch, batch key and       *)
(* archive_id determine one another and the batch stands for the three.    *)
(***************************************************************************)
EXTENDS Integers

CONSTANTS
  Proc,          \* API request slots: each runs one request at a time
  NoProc,        \* value of a compression lock nobody holds
  MaxMessages,   \* bound: messages accepted in the session's life
  Cum,           \* Cum[i]: estimated tokens of messages 1 .. i together
  MaxWorkingMemory, Trigger, Target, Preferred, AbsoluteMin, ArchiveCap,
  MaxRounds,     \* max_compression_rounds_per_request
  SummarySizes,  \* token counts the LLM's summary may have
  Faults         \* which of FaultKinds may happen

FaultKinds ==
  { "crash",     \* a request dies between two steps
    "llm",       \* the compression LLM fails or answers badly
    "kafka",     \* a publication raises
    "mongo",     \* an archive insertion raises and stores nothing
    "mongoAck",  \* an archive insertion raises although it was stored
    "lease" }    \* the lock's TTL runs out under a live owner

\* settings/validators.py: the inequalities checked when the process starts.
ASSUME SettingsAssumption ==
  /\ AbsoluteMin \in Nat \ {0} /\ Preferred \in Nat /\ AbsoluteMin <= Preferred
  /\ Target \in Nat /\ Trigger \in Nat /\ MaxWorkingMemory \in Nat /\ ArchiveCap \in Nat
  /\ Target < Trigger /\ Trigger < MaxWorkingMemory
  /\ SummarySizes \subseteq Nat /\ \A n \in SummarySizes : n < Trigger
  /\ MaxRounds \in Nat \ {0}
  /\ Faults \subseteq FaultKinds
  /\ NoProc \notin Proc

\* Messages are never larger than an archive or than the working memory.
ASSUME MessagesAssumption ==
  /\ MaxMessages \in Nat
  /\ Cum \in [0..MaxMessages -> Nat]
  /\ Cum[0] = 0
  /\ \A i, j \in 0..MaxMessages : i <= j => Cum[i] <= Cum[j]
  /\ \A i \in 1..MaxMessages : /\ Cum[i] - Cum[i-1] <= ArchiveCap
                               /\ Cum[i] - Cum[i-1] < MaxWorkingMemory

VARIABLES
  live, status,                          \* meta hash exists; its status field
  head, tail,                            \* the messages list is head+1 .. tail
  estimated, version, summary, pending,  \* the other fields of the meta hash
  lock,                                  \* owner of the compression lock
  archives,                              \* context_archive documents
  events, missed,                        \* batches published / publication failed
  req                                    \* program state of each request

sessionVars == <<live, status>>
contextVars == <<version, summary, pending>>
storeVars   == <<archives, events, missed>>
vars == <<live, status, head, tail, estimated, contextVars, lock, storeVars, req>>

-----------------------------------------------------------------------------
(* Batches and archives *)

Position == 0..MaxMessages

Batch == [first : 1..(MaxMessages + 1), last : Position]

\* Empty pending fields: "" , "" , 0 , 0.
NoBatch == [first |-> 1, last |-> 0]

Run(i, j) == [first |-> i, last |-> j]

Count(b) == b.last - b.first + 1

TokensOf(b) == Cum[b.last] - Cum[b.first - 1]

Members(b) == b.first .. b.last

Archive == [batch : Batch, base : Nat, origin : {"compress", "close"}]

Archived(b) == \E a \in archives : a.batch = b

\* insert_context_archive: a second document with the same batch key is refused
\* by the unique index and the existing one is reused.
Stored(b, base, origin) ==
  IF Archived(b) THEN archives
  ELSE archives \cup {[batch |-> b, base |-> base, origin |-> origin]}

-----------------------------------------------------------------------------
(* select_archive_prefix: how much of the list a compression round archives *)

\* One candidate per number of recent messages kept, shrunk to the archive cap.
Cuts(from, to, known) ==
  LET Fits(e)   == TokensOf(Run(from, e)) <= ArchiveCap
      Top(keep) == IF keep <= to - from THEN to - keep ELSE from
  IN  { e \in from..(to - AbsoluteMin) :
          /\ Fits(e)
          /\ TokensOf(Run(from, e)) <= known
          /\ \E keep \in AbsoluteMin..Preferred :
               e <= Top(keep) /\ \A f \in (e + 1)..Top(keep) : ~Fits(f) }

\* Distance from the target; anything above the target is worse than all below.
Miss(remaining) ==
  IF remaining <= Target THEN Target - remaining
                         ELSE remaining - Target + 1000000000

\* The cut the selection settles on: nearest to the target, longest on a tie.
BestCut(e, from, to, known) ==
  LET Score(f) == Miss(known - TokensOf(Run(from, f)))
  IN  /\ e \in Cuts(from, to, known)
      /\ \A f \in Cuts(from, to, known) :
           Score(e) < Score(f) \/ (Score(e) = Score(f) /\ f <= e)

\* split_close_suffix_batches: greedy, a batch ends where the next would overflow.
NextCloseBatch(b, rest) ==
  /\ b.first = rest.first
  /\ b.last \in Members(rest)
  /\ TokensOf(b) <= ArchiveCap
  /\ b.last < rest.last => TokensOf(Run(b.first, b.last + 1)) > ArchiveCap

-----------------------------------------------------------------------------
(* Program state of a request *)

CompressSteps == {"check", "meta", "context", "archive", "lock", "pending",
                  "unlock", "publish", "llm", "rewrite"}
CloseSteps    == {"closeEnter", "closeMeta", "closeContext", "closeArchive",
                  "closeRevert", "closeRelease"}

NoContext == [version |-> 0, tokens |-> 0, covers |-> {}]

Idle == [ pc        |-> "idle",
          after     |-> "respond",  \* what follows the coordination
          rounds    |-> 0,          \* completed compression rounds
          seen      |-> NoBatch,    \* pending fields read from the meta hash
          known     |-> 0,          \* estimated_tokens read from the meta hash
          ctx       |-> NoContext,  \* snapshot of the compressed context
          plan      |-> NoBatch,    \* batch to compress; rest to archive on close
          todo      |-> {},         \* archives a close still has to publish
          persisted |-> FALSE ]     \* close_new_archive_persisted

At(p, step) == req[p].pc = step

Become(p, r) == req' = [req EXCEPT ![p] = r]

Goto(p, step) == Become(p, [req[p] EXCEPT !.pc = step])

\* run_compression_coordination returns: the request answers, or repeats a write
\* that had met capacity_exceeded.
EndCoordination(p) ==
  Become(p, IF req[p].after = "rewrite" THEN [Idle EXCEPT !.pc = "rewrite"] ELSE Idle)

Init ==
  /\ live = TRUE /\ status = "active"
  /\ head = 0 /\ tail = 0 /\ estimated = 0
  /\ version = 0 /\ summary = [tokens |-> 0, covers |-> {}] /\ pending = NoBatch
  /\ lock = NoProc
  /\ archives = {} /\ events = {} /\ missed = {}
  /\ req = [p \in Proc |-> Idle]

-----------------------------------------------------------------------------
(* Writing a message: message_write.lua and its caller *)

NextMessageTokens == Cum[tail + 1] - Cum[tail]

HasRoom == estimated + NextMessageTokens <= MaxWorkingMemory

\* Mutant: message_write.lua forgets that the session may be closing.
WritableAnyStatus == live /\ tail < MaxMessages

\* Guards of message_write.lua up to the capacity test.  The tail bound is the
\* model's; a duplicate or refused first write changes nothing and is no step.
Writable == live /\ status = "active" /\ tail < MaxMessages

WriteMessage(p) ==
  /\ At(p, "idle") \/ At(p, "rewrite")
  /\ Writable /\ HasRoom
  /\ tail' = tail + 1
  /\ estimated' = estimated + NextMessageTokens
  /\ Become(p, [Idle EXCEPT !.pc = "check"])
  /\ UNCHANGED <<sessionVars, head, contextVars, lock, storeVars>>

\* capacity_exceeded: compress first, then write again.
WriteOverCapacity(p) ==
  /\ At(p, "idle")
  /\ Writable /\ ~HasRoom
  /\ Become(p, [Idle EXCEPT !.pc = "check", !.after = "rewrite"])
  /\ UNCHANGED <<sessionVars, head, tail, estimated, contextVars, lock, storeVars>>

\* Mutant: a refused second write compresses and writes again, without a limit.
RewriteUntilAccepted(p) ==
  /\ At(p, "rewrite")
  /\ Writable => ~HasRoom
  /\ Become(p, [Idle EXCEPT !.pc = "check", !.after = "rewrite"])
  /\ UNCHANGED <<sessionVars, head, tail, estimated, contextVars, lock, storeVars>>

\* The second write is refused: working_memory_full, session_closing, not found.
RewriteRefused(p) ==
  /\ At(p, "rewrite")
  /\ Writable => ~HasRoom
  /\ Become(p, Idle)
  /\ UNCHANGED <<sessionVars, head, tail, estimated, contextVars, lock, storeVars>>

-----------------------------------------------------------------------------
(* One compression round: run_compression_coordination and                 *)
(* _run_single_compression_round                                           *)

\* Steps that touch only the program state of the request.
RequestOnly == UNCHANGED <<sessionVars, head, tail, estimated, contextVars, lock, storeVars>>

\* The head of the round loop; the read that ends a round is the same test.
CheckTrigger(p) ==
  /\ At(p, "check")
  /\ live /\ estimated >= Trigger
  /\ Goto(p, "meta")
  /\ RequestOnly

BelowTrigger(p) ==
  /\ At(p, "check")
  /\ live => estimated < Trigger
  /\ EndCoordination(p)
  /\ RequestOnly

\* The meta hash is read before the lock is taken ...
ReadMeta(p) ==
  /\ At(p, "meta") /\ live
  /\ Become(p, [req[p] EXCEPT !.pc = "context", !.seen = pending, !.known = estimated])
  /\ RequestOnly

Snapshot == [version |-> version, tokens |-> summary.tokens, covers |-> summary.covers]

\* ... and so is the context.  No pending archive was seen: choose a prefix.
ReadContext(p) ==
  /\ At(p, "context") /\ live
  /\ req[p].seen = NoBatch
  /\ \E last \in head..tail :
       /\ BestCut(last, head + 1, tail, req[p].known)
       /\ Become(p, [req[p] EXCEPT !.pc = "archive", !.ctx = Snapshot, !.known = 0,
                                   !.plan = Run(head + 1, last)])
  /\ RequestOnly

\* A pending archive was seen: load it (archives are immutable) and retry it.
ReadContextForPending(p) ==
  /\ At(p, "context") /\ live
  /\ req[p].seen # NoBatch /\ Archived(req[p].seen)
  /\ Become(p, [req[p] EXCEPT !.pc = "lock", !.ctx = Snapshot, !.known = 0,
                              !.plan = req[p].seen, !.seen = NoBatch])
  /\ RequestOnly

\* insufficient_messages; the session or the pending archive is gone.
NothingToCompress(p) ==
  /\ \/ At(p, "meta") /\ ~live
     \/ At(p, "context") /\ ~live
     \/ /\ At(p, "context")
        /\ IF req[p].seen = NoBatch THEN Cuts(head + 1, tail, req[p].known) = {}
                                    ELSE ~Archived(req[p].seen)
  /\ EndCoordination(p)
  /\ RequestOnly

StoreArchive(p) ==
  /\ At(p, "archive")
  /\ archives' = Stored(req[p].plan, req[p].ctx.version, "compress")
  /\ Goto(p, "lock")
  /\ UNCHANGED <<sessionVars, head, tail, estimated, contextVars, lock, events, missed>>

\* Mutant: the failed insertion is logged and the round goes on.
StoreArchiveFailsUnnoticed(p) ==
  /\ At(p, "archive")
  /\ \/ "mongo" \in Faults /\ archives' = archives
     \/ /\ "mongoAck" \in Faults
        /\ archives' = Stored(req[p].plan, req[p].ctx.version, "compress")
  /\ Goto(p, "lock")
  /\ UNCHANGED <<sessionVars, head, tail, estimated, contextVars, lock, events, missed>>

\* The insertion raises: the request fails, the document is stored or not.
StoreArchiveFails(p) ==
  /\ At(p, "archive")
  /\ \/ "mongo" \in Faults /\ archives' = archives
     \/ /\ "mongoAck" \in Faults
        /\ archives' = Stored(req[p].plan, req[p].ctx.version, "compress")
  /\ Become(p, Idle)
  /\ UNCHANGED <<sessionVars, head, tail, estimated, contextVars, lock, events, missed>>

\* Mutant: SET without NX.
TakeLockByForce(p) ==
  /\ At(p, "lock")
  /\ lock' = p
  /\ Goto(p, "pending")
  /\ UNCHANGED <<sessionVars, head, tail, estimated, contextVars, storeVars>>

TakeLock(p) ==
  /\ At(p, "lock")
  /\ lock = NoProc /\ lock' = p
  /\ Goto(p, "pending")
  /\ UNCHANGED <<sessionVars, head, tail, estimated, contextVars, storeVars>>

\* skipped_lock
LockTaken(p) ==
  /\ At(p, "lock")
  /\ lock # NoProc
  /\ EndCoordination(p)
  /\ RequestOnly

\* Mutant: a pending archive of another batch is overwritten.
PendingOverwritten(p) == live /\ status = "active" /\ lock = p

\* Mutant: the status is not checked.
PendingAnyStatus(p) == live /\ lock = p /\ pending \in {NoBatch, req[p].plan}

\* pending_archive_write.lua: what it checks before it writes the four fields.
PendingAllowed(p) ==
  /\ live /\ status = "active"
  /\ lock = p
  /\ pending \in {NoBatch, req[p].plan}

\* Mutant: pending fields that are there already pass for published.
WritePendingOnce(p) ==
  /\ At(p, "pending")
  /\ PendingAllowed(p)
  /\ pending' = req[p].plan
  /\ Goto(p, IF pending = NoBatch THEN "publish" ELSE "llm")
  /\ UNCHANGED <<sessionVars, head, tail, estimated, version, summary, lock, storeVars>>

WritePending(p) ==
  /\ At(p, "pending")
  /\ PendingAllowed(p)
  /\ pending' = req[p].plan
  /\ Goto(p, "publish")
  /\ UNCHANGED <<sessionVars, head, tail, estimated, version, summary, lock, storeVars>>

PendingRefused(p) ==
  /\ At(p, "pending")
  /\ ~PendingAllowed(p)
  /\ Goto(p, "unlock")
  /\ RequestOnly

\* release_compression_lock: compare and delete.
ReleaseLock(p) == lock' = IF lock = p THEN NoProc ELSE lock

Unlock(p) ==
  /\ At(p, "unlock")
  /\ ReleaseLock(p)
  /\ EndCoordination(p)
  /\ UNCHANGED <<sessionVars, head, tail, estimated, contextVars, storeVars>>

\* A failed publication is logged and the round goes on.
Publish(p) ==
  /\ At(p, "publish")
  /\ \/ events' = events \cup {req[p].plan} /\ missed' = missed
     \/ "kafka" \in Faults /\ missed' = missed \cup {req[p].plan} /\ events' = events
  /\ Goto(p, "llm")
  /\ UNCHANGED <<sessionVars, head, tail, estimated, contextVars, lock, archives>>

\* The LLM gives no usable summary: the round fails and the lock is left to its TTL.
LlmFails(p) ==
  /\ At(p, "llm") /\ "llm" \in Faults
  /\ EndCoordination(p)
  /\ RequestOnly

-----------------------------------------------------------------------------
(* compression_finalize.lua *)

\* Mutant: the list is trimmed by number, its boundary ids are not compared.
LongEnough(b) == Count(b) <= tail - head

\* The list still begins with the messages of the batch: their number, and the
\* ids of the first and the last of them.
AtListHead(b) ==
  /\ Count(b) <= tail - head
  /\ b.first = head + 1
  /\ b.last = head + Count(b)

FinalizeAllowed(p) ==
  /\ live
  /\ status = "closing" => pending # NoBatch
  /\ lock = p
  /\ version = req[p].ctx.version
  /\ pending = req[p].plan
  /\ AtListHead(req[p].plan)

\* Mutant: the tokens of the summary that is replaced stay in the estimate.
ReestimatedKeepingOld(p, tokens) ==
  LET raw == estimated - TokensOf(req[p].plan) + tokens
  IN  IF raw < 0 THEN 0 ELSE raw

\* max(0, current - archived - old summary + new summary)
Reestimated(p, tokens) ==
  LET raw == estimated - TokensOf(req[p].plan) - req[p].ctx.tokens + tokens
  IN  IF raw < 0 THEN 0 ELSE raw

\* Mutant: the prompt leaves out the summary so far.
NewSummaryOfBatch(p, tokens) == [tokens |-> tokens, covers |-> Members(req[p].plan)]

\* What the summary written by p tells of: the summary p read, and its batch.
NewSummary(p, tokens) ==
  [tokens |-> tokens, covers |-> req[p].ctx.covers \cup Members(req[p].plan)]

\* Mutant: the version stays, so a context read before still passes for current.
SameVersion(p) == req[p].ctx.version

NextVersion(p) == req[p].ctx.version + 1

Finalize(p) ==
  /\ At(p, "llm")
  /\ FinalizeAllowed(p)
  /\ \E tokens \in SummarySizes :
       /\ estimated' = Reestimated(p, tokens)
       /\ summary' = NewSummary(p, tokens)
  /\ version' = NextVersion(p)
  /\ head' = head + Count(req[p].plan)
  /\ pending' = NoBatch
  /\ ReleaseLock(p)
  /\ IF req[p].rounds + 1 < MaxRounds
       THEN Become(p, [Idle EXCEPT !.pc = "check", !.after = req[p].after,
                                   !.rounds = req[p].rounds + 1])
       ELSE EndCoordination(p)
  /\ UNCHANGED <<sessionVars, tail, storeVars>>

\* A refused finalize changes nothing and, like a failed LLM, keeps the lock.
FinalizeRefused(p) ==
  /\ At(p, "llm")
  /\ ~FinalizeAllowed(p)
  /\ EndCoordination(p)
  /\ RequestOnly

-----------------------------------------------------------------------------
(* close_session *)

CloseTakeLock(p) ==
  /\ At(p, "idle")
  /\ lock = NoProc /\ lock' = p
  /\ Goto(p, "closeEnter")
  /\ UNCHANGED <<sessionVars, head, tail, estimated, contextVars, storeVars>>

\* session_close_enter.lua: active becomes closing, closing is resumed.
EnterClosing(p) ==
  /\ At(p, "closeEnter") /\ live
  /\ status' = "closing"
  /\ Goto(p, "closeMeta")
  /\ UNCHANGED <<live, head, tail, estimated, contextVars, lock, storeVars>>

CloseReadMeta(p) ==
  /\ At(p, "closeMeta") /\ live
  /\ Become(p, [req[p] EXCEPT !.pc = "closeContext", !.seen = pending,
                              !.ctx.version = version])
  /\ RequestOnly

\* session_not_found at one of the reads: nothing to do but release the lock.
CloseSessionGone(p) ==
  /\ At(p, "closeEnter") \/ At(p, "closeMeta") \/ At(p, "closeContext")
  /\ ~live
  /\ Goto(p, "closeRelease")
  /\ RequestOnly

\* Mutant: the pending count is not compared with the length of the list.
CloseReadAnyContext(p) ==
  /\ At(p, "closeContext") /\ live
  /\ Become(p, [req[p] EXCEPT !.pc   = "closeArchive",
                              !.seen = NoBatch,
                              !.plan = Run(head + Count(req[p].seen) + 1, tail),
                              !.todo = {req[p].seen} \ {NoBatch}])
  /\ RequestOnly

\* build_close_plan: the pending archive stands for the first messages of the
\* list, as many as the pending count says; the rest is archived now.
CloseReadContext(p) ==
  LET covered == Count(req[p].seen)
  IN  /\ At(p, "closeContext") /\ live
      /\ IF covered <= tail - head
           THEN Become(p, [req[p] EXCEPT
                             !.pc   = "closeArchive",
                             !.seen = NoBatch,
                             !.plan = Run(head + covered + 1, tail),
                             !.todo = {req[p].seen} \ {NoBatch}])
           ELSE Goto(p, "closeRevert")
      /\ RequestOnly

RestToArchive(p) == req[p].plan.first <= req[p].plan.last

\* Create or reuse the next archive; a reused one must have the same base version.
CloseArchive(p) ==
  /\ At(p, "closeArchive") /\ RestToArchive(p)
  /\ \E b \in [first : {req[p].plan.first}, last : Members(req[p].plan)] :
       /\ NextCloseBatch(b, req[p].plan)
       /\ \A a \in archives : a.batch = b => a.base = req[p].ctx.version
       /\ archives' = Stored(b, req[p].ctx.version, "close")
       /\ Become(p, [req[p] EXCEPT !.plan.first = b.last + 1,
                                   !.todo = @ \cup {b}, !.persisted = TRUE])
  /\ UNCHANGED <<sessionVars, head, tail, estimated, contextVars, lock, events, missed>>

BaseMismatch(p) ==
  \E a \in archives : /\ NextCloseBatch(a.batch, req[p].plan)
                      /\ a.base # req[p].ctx.version

CloseBaseMismatch(p) ==
  /\ At(p, "closeArchive") /\ RestToArchive(p)
  /\ BaseMismatch(p)
  /\ Goto(p, "closeRelease")
  /\ RequestOnly

\* _maybe_revert_active: only while this close has persisted no archive.
AfterArchiveFailure(p) == IF req[p].persisted THEN "closeRelease" ELSE "closeRevert"

CloseArchiveFails(p) ==
  /\ At(p, "closeArchive") /\ RestToArchive(p)
  /\ \/ "mongo" \in Faults /\ archives' = archives
     \/ /\ "mongoAck" \in Faults
        /\ \E b \in [first : {req[p].plan.first}, last : Members(req[p].plan)] :
             /\ NextCloseBatch(b, req[p].plan)
             /\ archives' = Stored(b, req[p].ctx.version, "close")
  /\ Goto(p, AfterArchiveFailure(p))
  /\ UNCHANGED <<sessionVars, head, tail, estimated, contextVars, lock, events, missed>>

\* session_close_revert_active.lua
CloseRevert(p) ==
  /\ At(p, "closeRevert")
  /\ status' = IF live THEN "active" ELSE status
  /\ Goto(p, "closeRelease")
  /\ UNCHANGED <<live, head, tail, estimated, contextVars, lock, storeVars>>

\* All archives are confirmed: publish one event per archive, failures are logged.
ClosePublish(p) ==
  /\ At(p, "closeArchive") /\ ~RestToArchive(p)
  /\ \E b \in req[p].todo :
       /\ \A c \in req[p].todo : b.first <= c.first
       /\ \/ events' = events \cup {b} /\ missed' = missed
          \/ "kafka" \in Faults /\ missed' = missed \cup {b} /\ events' = events
       /\ Become(p, [req[p] EXCEPT !.todo = @ \ {b}])
  /\ UNCHANGED <<sessionVars, head, tail, estimated, contextVars, lock, archives>>

\* session_close_terminal.lua.  The variables keep the values the keys had.
CloseDelete(p) ==
  /\ At(p, "closeArchive") /\ ~RestToArchive(p) /\ req[p].todo = {}
  /\ live' = IF status = "closing" THEN FALSE ELSE live
  /\ Goto(p, "closeRelease")
  /\ UNCHANGED <<status, head, tail, estimated, contextVars, lock, storeVars>>

\* The finally block.
CloseRelease(p) ==
  /\ At(p, "closeRelease")
  /\ ReleaseLock(p)
  /\ Become(p, Idle)
  /\ UNCHANGED <<sessionVars, head, tail, estimated, contextVars, storeVars>>

-----------------------------------------------------------------------------
(* Failures around the code *)

\* The steps at which a request that owns the lock still counts on it.
LockedSteps == {"pending", "unlock", "publish", "llm"} \cup CloseSteps

Crash(p) ==
  /\ "crash" \in Faults
  /\ ~At(p, "idle")
  /\ Become(p, Idle)
  /\ RequestOnly

\* Mutant: the TTL is renewed, whoever left the lock behind.
LockRenewed ==
  /\ lock # NoProc
  /\ "lease" \in Faults \/ req[lock].pc \notin LockedSteps
  /\ lock' = lock
  /\ UNCHANGED <<sessionVars, head, tail, estimated, contextVars, storeVars, req>>

\* The TTL of SET NX EX.  The validated settings make it outlast a working owner;
\* without that ("lease") it may run out at any time.
LockExpires ==
  /\ lock # NoProc
  /\ "lease" \in Faults \/ req[lock].pc \notin LockedSteps
  /\ lock' = NoProc
  /\ UNCHANGED <<sessionVars, head, tail, estimated, contextVars, storeVars, req>>

WriteStep(p) == WriteMessage(p) \/ WriteOverCapacity(p) \/ RewriteRefused(p)

CompressStep(p) ==
  \/ CheckTrigger(p) \/ BelowTrigger(p)
  \/ ReadMeta(p) \/ ReadContext(p) \/ ReadContextForPending(p) \/ NothingToCompress(p)
  \/ StoreArchive(p) \/ StoreArchiveFails(p)
  \/ TakeLock(p) \/ LockTaken(p)
  \/ WritePending(p) \/ PendingRefused(p) \/ Unlock(p)
  \/ Publish(p) \/ LlmFails(p)
  \/ Finalize(p) \/ FinalizeRefused(p)

CloseStep(p) ==
  \/ CloseTakeLock(p) \/ EnterClosing(p) \/ CloseSessionGone(p)
  \/ CloseReadMeta(p) \/ CloseReadContext(p)
  \/ CloseArchive(p) \/ CloseBaseMismatch(p) \/ CloseArchiveFails(p)
  \/ CloseRevert(p) \/ ClosePublish(p) \/ CloseDelete(p) \/ CloseRelease(p)

Next ==
  \/ \E p \in Proc : WriteStep(p) \/ CompressStep(p) \/ CloseStep(p) \/ Crash(p)
  \/ LockExpires

Spec == Init /\ [][Next]_vars

\* A request in progress goes on (asyncio runs every ready coroutine) and Redis
\* expires keys.  New requests and failures are never forced.
Progress(p) == ~At(p, "idle") /\ (WriteStep(p) \/ CompressStep(p) \/ CloseStep(p))

FairSpec == Spec /\ WF_vars(LockExpires) /\ \A p \in Proc : WF_vars(Progress(p))

-----------------------------------------------------------------------------
(* Properties *)

Context == [version : Nat, tokens : Nat, covers : SUBSET (1..MaxMessages)]

Request ==
  [ pc : {"idle"} \cup CompressSteps \cup CloseSteps, after : {"respond", "rewrite"},
    rounds : Nat, seen : Batch, known : Nat, ctx : Context, plan : Batch,
    todo : SUBSET Batch, persisted : BOOLEAN ]

\* Every variable has its type, the list bounds are ordered, and no counter of the
\* meta hash is ever negative.
TypeOK ==
  /\ live \in BOOLEAN /\ status \in {"active", "closing"}
  /\ tail \in Position /\ head \in 0..tail
  /\ estimated \in Nat /\ version \in Nat
  /\ summary \in [tokens : Nat, covers : SUBSET (1..MaxMessages)]
  /\ pending \in Batch
  /\ lock \in Proc \cup {NoProc}
  /\ archives \subseteq Archive
  /\ events \subseteq Batch /\ missed \subseteq Batch
  /\ req \in [Proc -> Request]

\* The counter the write, trigger and capacity decisions use always equals the tokens
\* of the listed messages plus those of the summary, although finalize computes it
\* from values read by another request, rounds earlier, outside the lock.
TokenAccounting == estimated = Cum[tail] - Cum[head] + summary.tokens

\* The summary tells of exactly the messages that were trimmed: none is lost between
\* list and summary, none is still listed and already summarised.
SummaryComplete == summary.covers = 1..head

\* Trimmed messages are archived, and an event was published for an archive of theirs
\* or its publication failed and was logged for the manual republish tool.
TrimmedIsPublished ==
  \A i \in 1..head :
    \E b \in events \cup missed : i \in Members(b) /\ Archived(b)

\* The extraction worker finds the archive of every event it receives.
EventHasArchive == \A b \in events : Archived(b)

\* The messages of b are accepted ones.
Accepted(b) == 1 <= b.first /\ b.first <= b.last /\ b.last <= tail

\* What a request may rely on at each of its steps, whatever the others have done
\* since it read the shared state.
Sound(r) ==
  /\ r.pc \in {"context", "closeContext"} /\ r.seen # NoBatch =>
       Accepted(r.seen) /\ Archived(r.seen)
  /\ r.pc \in {"archive", "lock", "pending", "publish", "llm"} =>
       /\ Accepted(r.plan)
       /\ r.ctx.version <= version
       /\ r.ctx.version = version =>
            r.ctx.tokens = summary.tokens /\ r.ctx.covers = summary.covers
  /\ r.pc \in {"lock", "pending", "publish", "llm"} => Archived(r.plan)
  /\ r.pc = "llm" => r.plan \in events \cup missed
  /\ r.pc = "closeArchive" => r.plan.last <= tail /\ \A b \in r.todo : Archived(b)

\* A context read before the lock was taken is either refused by its version or is
\* still the context that finalize replaces; what is pending is archived.
ReadsStaySound ==
  /\ pending # NoBatch => Accepted(pending) /\ Archived(pending)
  /\ \A p \in Proc : Sound(req[p])

\* A pending archive is not dropped or replaced: it leaves the meta hash only when
\* exactly its messages are trimmed.
PendingOnlyFolded ==
  [][ pending # NoBatch /\ pending' # pending =>
        /\ pending' = NoBatch
        /\ head = pending.first - 1 /\ head' = pending.last ]_vars

\* At most one request works under the compression lock, if leases outlast owners.
LockExclusive ==
  \A p, q \in Proc :
    (req[p].pc \in LockedSteps /\ req[q].pc \in LockedSteps) => p = q

\* While a session is closing nothing is written to it and no compression moves its
\* list, version or pending archive: the plan of a close, resumed or not, stays valid.
ClosingFreezesContext ==
  [][ status = "closing" => UNCHANGED <<head, tail, version, pending>> ]_vars

\* Nothing is deleted unarchived, provided the pending archive (if any) holds the
\* first messages of the list, as build_close_plan takes for granted.
DeletedIsPublished ==
  (~live /\ (pending = NoBatch \/ AtListHead(pending))) =>
     \A i \in 1..tail : \E b \in events \cup missed : i \in Members(b) /\ Archived(b)

\* A message of a deleted session is in some archive, whatever its pending fields were.
ClosedIsArchived ==
  ~live => \A i \in 1..tail : \E a \in archives : i \in Members(a.batch)

\* Once a close has persisted an archive the session never becomes active again.
ActiveHasNoCloseArchive ==
  (live /\ status = "active") => \A a \in archives : a.origin # "close"

\* Every request answers: rounds, retries and resumed closes all come to an end.
RequestsAnswer == \A p \in Proc : []<>At(p, "idle")

\* A lock left behind by a failed round or a dead request blocks nobody for ever.
LockComesFree == []<>(lock = NoProc)

-----------------------------------------------------------------------------
(* The session implements the abstract log *)

KeptMessages == UNION { Members(a.batch) : a \in archives }

Log == INSTANCE SessionLog WITH
         open <- live, written <- tail, folded <- head,
         told <- summary.covers, kept <- KeptMessages

\* Every step of the code is a step of the abstract log or none at all.
ImplementsLog == Log!LogSpec
=============================================================================
