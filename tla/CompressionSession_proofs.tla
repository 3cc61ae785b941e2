--------------------- MODULE CompressionSession_proofs ---------------------
(***************************************************************************)
(* Proofs about CompressionSession, for every number of requests and       *)
(* messages, all token counts and settings the assumptions admit, and      *)
(* every set of faults.                                                    *)
(***************************************************************************)
EXTENDS CompressionSession, TLAPS

\* The inductive invariant: the safety invariants hold together, each step needs
\* what ReadsStaySound says of the values a request has read before it.
IInv ==
  /\ TypeOK
  /\ TokenAccounting
  /\ SummaryComplete
  /\ TrimmedIsPublished
  /\ EventHasArchive
  /\ ReadsStaySound

-----------------------------------------------------------------------------
(* Facts about the data *)

\* Token counts add up: a longer run of messages never has fewer tokens.
LEMMA CumIsMonotone ==
  /\ MaxMessages \in Nat
  /\ \A i \in Position : Cum[i] \in Nat
  /\ \A i, j \in Position : i <= j => Cum[i] <= Cum[j]
BY MessagesAssumption DEF Position

\* The program state of a finished request has its type.
LEMMA IdleIsRequest == Idle \in Request
BY MessagesAssumption DEF Idle, Request, Batch, NoBatch, NoContext, Context, Position

\* Create or reuse: afterwards the batch is archived, and no archive is lost.
LEMMA StoredArchives ==
  ASSUME NEW b \in Batch, NEW base \in Nat, NEW origin \in {"compress", "close"},
         archives \subseteq Archive
  PROVE  /\ archives \subseteq Stored(b, base, origin)
         /\ Stored(b, base, origin) \subseteq Archive
         /\ \E a \in Stored(b, base, origin) : a.batch = b
<1>1. CASE Archived(b)
  BY <1>1 DEF Stored, Archived
<1>2. CASE ~Archived(b)
  <2>1. [batch |-> b, base |-> base, origin |-> origin] \in Archive
    BY DEF Archive
  <2> QED
    BY <1>2, <2>1 DEF Stored
<1> QED
  BY <1>1, <1>2

\* A program step of p leaves the program state of the other requests alone.
LEMMA BecomeOne ==
  ASSUME req \in [Proc -> Request], NEW p \in Proc, NEW r \in Request, Become(p, r)
  PROVE  /\ req' \in [Proc -> Request]
         /\ req'[p] = r
         /\ \A q \in Proc \ {p} : req'[q] = req[q]
BY DEF Become

\* What every step does to the shared state the requests rely on.
Grows ==
  /\ tail <= tail'
  /\ version <= version'
  /\ version' = version => summary' = summary
  /\ archives \subseteq archives'
  /\ events \cup missed \subseteq events' \cup missed'

\* What the requests that do not move rely on survives a step of one that does.
LEMMA OthersStaySound ==
  ASSUME TypeOK, TypeOK', Grows, NEW p \in Proc,
         \A q \in Proc : Sound(req[q]),
         \A q \in Proc \ {p} : req'[q] = req[q],
         Sound(req[p])'
  PROVE  \A q \in Proc : Sound(req[q])'
<1> SUFFICES ASSUME NEW q \in Proc, q # p
             PROVE  Sound(req[q])'
  OBVIOUS
<1>1. req[q] \in Request /\ req'[q] = req[q]
  BY DEF TypeOK
<1>2. PICK r \in Request : r = req[q]
  BY <1>1
<1>3. Sound(r) /\ r.seen \in Batch /\ r.plan \in Batch /\ r.todo \subseteq Batch
      /\ r.ctx.version \in Nat
  BY <1>2 DEF Request, Context
<1>4. \A b \in Batch : Accepted(b) => Accepted(b)'
  BY DEF Accepted, Grows, TypeOK, Batch, Position
<1>5. \A b \in Batch : Archived(b) => Archived(b)'
  BY DEF Archived, Grows
<1>6. /\ \A n \in Nat : n <= version => n <= version' /\ (n = version' => n = version)
      /\ version' = version => summary' = summary
  BY DEF Grows, TypeOK
<1>7. \A b \in Batch : b.last <= tail => b.last <= tail'
  BY DEF Grows, TypeOK, Batch, Position
<1>8. \A b : b \in events \cup missed => b \in events' \cup missed'
  BY DEF Grows
<1>9. /\ r.pc \in {"archive", "lock", "pending", "publish", "llm"} =>
           /\ r.ctx.version <= version'
           /\ r.ctx.version = version' =>
                r.ctx.tokens = summary'.tokens /\ r.ctx.covers = summary'.covers
  BY <1>3, <1>6 DEF Sound
<1>10. Sound(r)'
  BY <1>3, <1>4, <1>5, <1>7, <1>8, <1>9 DEF Sound
<1> QED
  BY <1>1, <1>2, <1>10

-----------------------------------------------------------------------------
(* Steps that leave the list and its counters alone: they may archive batches and *)
(* publish archived ones, and move the lock, the status and one request.           *)

ContextUntouched ==
  /\ UNCHANGED <<head, tail, estimated, contextVars>>
  /\ archives \subseteq archives' /\ archives' \subseteq Archive
  /\ events \subseteq events' /\ events' \subseteq Batch
  /\ missed \subseteq missed' /\ missed' \subseteq Batch
  /\ \A b \in events' : b \in events \/ Archived(b)
  /\ live' \in BOOLEAN /\ status' \in {"active", "closing"}
  /\ lock' \in Proc \cup {NoProc}

\* A step on a request's own state leaves the stores alone.
LEMMA RequestOnlyTouchesNothing ==
  ASSUME TypeOK, RequestOnly
  PROVE  ContextUntouched
BY DEF TypeOK, RequestOnly, ContextUntouched, sessionVars, contextVars, storeVars

\* Such a step keeps the invariant if the request that makes it stays sound.
LEMMA UntouchedStep ==
  ASSUME IInv, NEW p \in Proc, ContextUntouched,
         NEW r \in Request, Become(p, r), Sound(req[p])'
  PROVE  IInv'
<1> USE DEF ContextUntouched, contextVars
<1>1. /\ req' \in [Proc -> Request]
      /\ \A q \in Proc \ {p} : req'[q] = req[q]
  BY BecomeOne DEF IInv, TypeOK
<1>2. TypeOK'
  BY <1>1 DEF IInv, TypeOK
<1>3. Grows
  BY DEF IInv, TypeOK, Grows, Position
<1>4. \A q \in Proc : Sound(req[q])'
  BY <1>1, <1>2, <1>3, OthersStaySound DEF IInv, ReadsStaySound
<1>5. TokenAccounting' /\ SummaryComplete' /\ TrimmedIsPublished' /\ EventHasArchive'
  BY DEF IInv, TokenAccounting, SummaryComplete, TrimmedIsPublished, EventHasArchive, Archived
<1>6. ReadsStaySound'
  BY <1>4 DEF IInv, ReadsStaySound, Archived, Accepted
<1> QED
  BY <1>2, <1>5, <1>6 DEF IInv

\* At these steps a request holds nothing it has read.
FreeSteps == {"idle", "check", "meta", "unlock", "rewrite",
              "closeEnter", "closeMeta", "closeRevert", "closeRelease"}

\* At a step before which nothing was read there is nothing to rely on.
LEMMA FreeIsSound ==
  ASSUME IInv, NEW p \in Proc, NEW r \in Request, Become(p, r), r.pc \in FreeSteps
  PROVE  Sound(req[p])'
<1>1. req'[p] = r
  BY BecomeOne DEF IInv, TypeOK
<1>2. req'[p].pc \in FreeSteps
  BY <1>1
<1> QED
  BY <1>2 DEF Sound, FreeSteps

\* A request that moves to such a step keeps the invariant.
LEMMA BecomeFree ==
  ASSUME IInv, NEW p \in Proc, ContextUntouched,
         NEW r \in Request, Become(p, r), r.pc \in FreeSteps
  PROVE  IInv'
BY FreeIsSound, UntouchedStep

\* The same for a step that changes only the program counter.
LEMMA GotoFree ==
  ASSUME IInv, NEW p \in Proc, ContextUntouched, NEW step \in FreeSteps, Goto(p, step)
  PROVE  IInv'
<1> DEFINE r == [req[p] EXCEPT !.pc = step]
<1>1. req[p] \in Request
  BY DEF IInv, TypeOK
<1>2. r \in Request /\ r.pc = step
  BY <1>1 DEF Request, FreeSteps, CompressSteps, CloseSteps
<1>3. Become(p, r)
  BY DEF Goto
<1> HIDE DEF r
<1> QED
  BY <1>2, <1>3, BecomeFree

\* A request that ends keeps the invariant.
LEMMA BecomeIdle ==
  ASSUME IInv, NEW p \in Proc, ContextUntouched, Become(p, Idle)
  PROVE  IInv'
<1>1. Idle \in Request /\ Idle.pc \in FreeSteps
  BY IdleIsRequest DEF Idle, FreeSteps
<1> QED
  BY <1>1, BecomeFree

\* The program states a finished coordination may leave are those of no reads.
LEMMA VariantsOfIdle ==
  ASSUME NEW step \in {"check", "rewrite"}, NEW after \in {"respond", "rewrite"}
  PROVE  /\ [Idle EXCEPT !.pc = step] \in Request
         /\ [Idle EXCEPT !.pc = step].pc = step
         /\ [Idle EXCEPT !.pc = step, !.after = after] \in Request
         /\ [Idle EXCEPT !.pc = step, !.after = after].pc = step
         /\ step \in FreeSteps
BY IdleIsRequest DEF Idle, Request, CompressSteps, FreeSteps

\* The end of a coordination keeps the invariant, with or without a write to repeat.
LEMMA EndsSoundly ==
  ASSUME IInv, NEW p \in Proc, ContextUntouched, EndCoordination(p)
  PROVE  IInv'
<1>1. CASE req[p].after = "rewrite"
  <2> DEFINE r == [Idle EXCEPT !.pc = "rewrite"]
  <2>1. r \in Request /\ r.pc \in FreeSteps
    BY VariantsOfIdle
  <2>2. Become(p, r)
    BY <1>1 DEF EndCoordination
  <2> QED
    BY <2>1, <2>2, BecomeFree
<1>2. CASE req[p].after # "rewrite"
  BY <1>2, BecomeIdle DEF EndCoordination
<1> QED
  BY <1>1, <1>2

-----------------------------------------------------------------------------
(* One compression round *)

\* The head of the round loop.
LEMMA CheckTriggerStep ==
  ASSUME IInv, NEW p \in Proc, CheckTrigger(p)
  PROVE  IInv'
BY RequestOnlyTouchesNothing, GotoFree DEF CheckTrigger, IInv, FreeSteps

\* The round loop ends below the trigger.
LEMMA BelowTriggerStep ==
  ASSUME IInv, NEW p \in Proc, BelowTrigger(p)
  PROVE  IInv'
BY RequestOnlyTouchesNothing, EndsSoundly DEF BelowTrigger, IInv

\* The pending fields a request reads name an archived run of accepted messages.
LEMMA ReadMetaStep ==
  ASSUME IInv, NEW p \in Proc, ReadMeta(p)
  PROVE  IInv'
<1> DEFINE r == [req[p] EXCEPT !.pc = "context", !.seen = pending, !.known = estimated]
<1>1. req[p] \in Request
  BY DEF IInv, TypeOK
<1>2. r \in Request /\ r.pc = "context" /\ r.seen = pending
  BY <1>1 DEF Request, CompressSteps, IInv, TypeOK
<1>3. Become(p, r) /\ ContextUntouched
  BY RequestOnlyTouchesNothing DEF ReadMeta, IInv
<1> HIDE DEF r
<1>4. req'[p] = r
  BY <1>1, <1>2, <1>3, BecomeOne DEF IInv, TypeOK
<1>5. Sound(req[p])'
  BY <1>2, <1>3, <1>4
  DEF Sound, IInv, ReadsStaySound, ContextUntouched, contextVars, storeVars, Accepted, Archived
<1> QED
  BY <1>2, <1>3, <1>5, UntouchedStep

\* The prefix a round chooses is a run of listed messages.
LEMMA ReadContextStep ==
  ASSUME IInv, NEW p \in Proc, ReadContext(p)
  PROVE  IInv'
<1>1. PICK last \in head..tail :
        /\ BestCut(last, head + 1, tail, req[p].known)
        /\ Become(p, [req[p] EXCEPT !.pc = "archive", !.ctx = Snapshot, !.known = 0,
                                    !.plan = Run(head + 1, last)])
  BY DEF ReadContext
<1> DEFINE r == [req[p] EXCEPT !.pc = "archive", !.ctx = Snapshot, !.known = 0,
                               !.plan = Run(head + 1, last)]
<1>2. req[p] \in Request
  BY DEF IInv, TypeOK
<1>3. last \in Int /\ head \in Nat /\ tail \in Nat /\ tail <= MaxMessages /\ MaxMessages \in Nat
  BY CumIsMonotone DEF IInv, TypeOK, Position
<1>4. head + 1 <= last /\ last <= tail
  BY <1>1, <1>3 DEF BestCut, Cuts
<1>5. Run(head + 1, last) \in Batch /\ Accepted(Run(head + 1, last))
  BY <1>3, <1>4 DEF Run, Batch, Position, Accepted
<1>6. Snapshot \in Context
  BY DEF Snapshot, Context, IInv, TypeOK
<1>7. /\ r \in Request /\ r.pc = "archive"
      /\ r.plan = Run(head + 1, last) /\ r.ctx = Snapshot
  BY <1>2, <1>5, <1>6 DEF Request, CompressSteps
<1>8. Become(p, r) /\ ContextUntouched
  BY <1>1, RequestOnlyTouchesNothing DEF ReadContext, IInv
<1> HIDE DEF r
<1>9. req'[p] = r
  BY <1>7, <1>8, BecomeOne DEF IInv, TypeOK
<1>10. Accepted(r.plan) /\ tail' = tail /\ version' = version /\ summary' = summary
  BY <1>5, <1>7, <1>8 DEF ContextUntouched, contextVars
<1>11. Sound(req[p])'
  BY <1>7, <1>9, <1>10 DEF Sound, Snapshot, Accepted, IInv, TypeOK
<1> QED
  BY <1>7, <1>8, <1>11, UntouchedStep

\* The batch seen as pending is planned again with a fresh context.
LEMMA ReadContextForPendingStep ==
  ASSUME IInv, NEW p \in Proc, ReadContextForPending(p)
  PROVE  IInv'
<1> DEFINE r == [req[p] EXCEPT !.pc = "lock", !.ctx = Snapshot, !.known = 0,
                               !.plan = req[p].seen, !.seen = NoBatch]
<1>1. req[p] \in Request /\ NoBatch \in Batch
  BY IdleIsRequest DEF IInv, TypeOK, Idle, Request
<1>2. Snapshot \in Context
  BY DEF Snapshot, Context, IInv, TypeOK
<1>3. /\ r \in Request /\ r.pc = "lock"
      /\ r.plan = req[p].seen /\ r.ctx = Snapshot
  BY <1>1, <1>2 DEF Request, CompressSteps
<1>4. Become(p, r) /\ ContextUntouched
  BY RequestOnlyTouchesNothing DEF ReadContextForPending, IInv
<1> HIDE DEF r
<1>5. req'[p] = r
  BY <1>3, <1>4, BecomeOne DEF IInv, TypeOK
<1>6. Accepted(r.plan) /\ Archived(r.plan)
  BY <1>3 DEF IInv, ReadsStaySound, Sound, ReadContextForPending, At
<1>7. tail' = tail /\ version' = version /\ summary' = summary /\ archives \subseteq archives'
  BY <1>4 DEF ContextUntouched, contextVars
<1>8. Sound(req[p])'
  BY <1>3, <1>5, <1>6, <1>7 DEF Sound, Snapshot, Accepted, Archived, IInv, TypeOK
<1> QED
  BY <1>3, <1>4, <1>8, UntouchedStep

\* A round without work.
LEMMA NothingToCompressStep ==
  ASSUME IInv, NEW p \in Proc, NothingToCompress(p)
  PROVE  IInv'
BY RequestOnlyTouchesNothing, EndsSoundly DEF NothingToCompress, IInv

\* A round turned away by the lock.
LEMMA LockTakenStep ==
  ASSUME IInv, NEW p \in Proc, LockTaken(p)
  PROVE  IInv'
BY RequestOnlyTouchesNothing, EndsSoundly DEF LockTaken, IInv

\* A refused pending write.
LEMMA PendingRefusedStep ==
  ASSUME IInv, NEW p \in Proc, PendingRefused(p)
  PROVE  IInv'
BY RequestOnlyTouchesNothing, GotoFree DEF PendingRefused, IInv, FreeSteps

\* A failed LLM call.
LEMMA LlmFailsStep ==
  ASSUME IInv, NEW p \in Proc, LlmFails(p)
  PROVE  IInv'
BY RequestOnlyTouchesNothing, EndsSoundly DEF LlmFails, IInv

\* A refused finalize.
LEMMA FinalizeRefusedStep ==
  ASSUME IInv, NEW p \in Proc, FinalizeRefused(p)
  PROVE  IInv'
BY RequestOnlyTouchesNothing, EndsSoundly DEF FinalizeRefused, IInv

\* Releasing the lock after a refused pending write.
LEMMA UnlockStep ==
  ASSUME IInv, NEW p \in Proc, Unlock(p)
  PROVE  IInv'
<1>1. ContextUntouched
  BY DEF Unlock, ReleaseLock, ContextUntouched, IInv, TypeOK, sessionVars, contextVars, storeVars
<1> QED
  BY <1>1, EndsSoundly DEF Unlock

\* Taking the lock: the request keeps its plan and the context it has read.
LEMMA TakeLockStep ==
  ASSUME IInv, NEW p \in Proc, TakeLock(p)
  PROVE  IInv'
<1> DEFINE r == [req[p] EXCEPT !.pc = "pending"]
<1>1. req[p] \in Request
  BY DEF IInv, TypeOK
<1>2. r \in Request /\ r.pc = "pending" /\ r.plan = req[p].plan /\ r.ctx = req[p].ctx
  BY <1>1 DEF Request, CompressSteps
<1>3. Become(p, r) /\ ContextUntouched
  BY DEF TakeLock, Goto, ContextUntouched, IInv, TypeOK, sessionVars, contextVars, storeVars
<1> HIDE DEF r
<1>4. req'[p] = r
  BY <1>2, <1>3, BecomeOne DEF IInv, TypeOK
<1>5. Sound(req[p]) /\ req[p].pc = "lock"
  BY DEF IInv, ReadsStaySound, TakeLock, At
<1>6. tail' = tail /\ version' = version /\ summary' = summary /\ archives \subseteq archives'
  BY <1>3 DEF ContextUntouched, contextVars
<1>7. Sound(req[p])'
  BY <1>2, <1>4, <1>5, <1>6 DEF Sound, Accepted, Archived
<1> QED
  BY <1>2, <1>3, <1>7, UntouchedStep

\* A round archives its batch: the batch is accepted, so the archive may be kept.
LEMMA StoreArchiveStep ==
  ASSUME IInv, NEW p \in Proc, StoreArchive(p)
  PROVE  IInv'
<1> DEFINE r == [req[p] EXCEPT !.pc = "lock"]
<1>1. req[p] \in Request
  BY DEF IInv, TypeOK
<1>2. r \in Request /\ r.pc = "lock" /\ r.plan = req[p].plan /\ r.ctx = req[p].ctx
  BY <1>1 DEF Request, CompressSteps
<1>3. /\ req[p].plan \in Batch /\ req[p].ctx.version \in Nat
      /\ archives' = Stored(req[p].plan, req[p].ctx.version, "compress")
  BY <1>1 DEF Request, Context, StoreArchive
<1>4. /\ archives \subseteq archives' /\ archives' \subseteq Archive
      /\ \E a \in archives' : a.batch = req[p].plan
  BY <1>3, StoredArchives DEF IInv, TypeOK
<1>5. Become(p, r) /\ ContextUntouched
  BY <1>4 DEF StoreArchive, Goto, ContextUntouched, IInv, TypeOK, sessionVars, contextVars
<1> HIDE DEF r
<1>6. req'[p] = r
  BY <1>2, <1>5, BecomeOne DEF IInv, TypeOK
<1>7. Sound(req[p]) /\ req[p].pc = "archive"
  BY DEF IInv, ReadsStaySound, StoreArchive, At
<1>8. tail' = tail /\ version' = version /\ summary' = summary
  BY <1>5 DEF ContextUntouched, contextVars
<1>9. Sound(req[p])'
  BY <1>2, <1>4, <1>6, <1>7, <1>8 DEF Sound, Accepted, Archived
<1> QED
  BY <1>2, <1>5, <1>9, UntouchedStep

\* A failing insertion ends the request, stored or not.
LEMMA StoreArchiveFailsStep ==
  ASSUME IInv, NEW p \in Proc, StoreArchiveFails(p)
  PROVE  IInv'
<1>1. req[p].plan \in Batch /\ req[p].ctx.version \in Nat
  BY DEF IInv, TypeOK, Request, Context
<1>2. archives \subseteq archives' /\ archives' \subseteq Archive
  BY <1>1, StoredArchives DEF StoreArchiveFails, IInv, TypeOK
<1>3. ContextUntouched
  BY <1>2 DEF StoreArchiveFails, ContextUntouched, IInv, TypeOK, sessionVars, contextVars
<1> QED
  BY <1>3, BecomeIdle DEF StoreArchiveFails

\* The event of an archived batch is published or its failure logged.
LEMMA PublishStep ==
  ASSUME IInv, NEW p \in Proc, Publish(p)
  PROVE  IInv'
<1> DEFINE r == [req[p] EXCEPT !.pc = "llm"]
<1>1. req[p] \in Request /\ Sound(req[p]) /\ req[p].pc = "publish"
  BY DEF IInv, TypeOK, ReadsStaySound, Publish, At
<1>2. r \in Request /\ r.pc = "llm" /\ r.plan = req[p].plan /\ r.ctx = req[p].ctx
  BY <1>1 DEF Request, CompressSteps
<1>3. req[p].plan \in Batch /\ Archived(req[p].plan)
  BY <1>1 DEF Request, Sound
<1>4. ContextUntouched
  BY <1>3 DEF Publish, ContextUntouched, IInv, TypeOK, sessionVars, contextVars
<1>5. Become(p, r)
  BY DEF Publish, Goto
<1> HIDE DEF r
<1>6. req'[p] = r
  BY <1>2, <1>5, BecomeOne DEF IInv, TypeOK
<1>7. /\ tail' = tail /\ version' = version /\ summary' = summary /\ archives' = archives
      /\ req[p].plan \in events' \cup missed'
  BY DEF Publish, contextVars
<1>8. Sound(req[p])'
  BY <1>1, <1>2, <1>6, <1>7 DEF Sound, Accepted, Archived
<1> QED
  BY <1>2, <1>4, <1>5, <1>8, UntouchedStep

\* The pending fields name an archive that exists and holds accepted messages.
LEMMA WritePendingStep ==
  ASSUME IInv, NEW p \in Proc, WritePending(p)
  PROVE  IInv'
<1> USE DEF sessionVars, storeVars
<1> DEFINE r == [req[p] EXCEPT !.pc = "publish"]
<1>1. req[p] \in Request /\ Sound(req[p]) /\ req[p].pc = "pending"
  BY DEF IInv, TypeOK, ReadsStaySound, WritePending, At
<1>2. r \in Request /\ r.pc = "publish" /\ r.plan = req[p].plan /\ r.ctx = req[p].ctx
  BY <1>1 DEF Request, CompressSteps
<1>3. Become(p, r)
  BY DEF WritePending, Goto
<1> HIDE DEF r
<1>4. /\ req' \in [Proc -> Request] /\ req'[p] = r
      /\ \A q \in Proc \ {p} : req'[q] = req[q]
  BY <1>2, <1>3, BecomeOne DEF IInv, TypeOK
<1>5. /\ pending' = req[p].plan
      /\ UNCHANGED <<live, status, head, tail, estimated, version, summary, lock>>
      /\ UNCHANGED <<archives, events, missed>>
  BY DEF WritePending
<1>6. TypeOK'
  BY <1>1, <1>4, <1>5 DEF IInv, TypeOK, Request
<1>7. Grows
  BY <1>5 DEF IInv, TypeOK, Grows, Position
<1>8. Sound(req[p])'
  BY <1>1, <1>2, <1>4, <1>5 DEF Sound, Accepted, Archived
<1>9. \A q \in Proc : Sound(req[q])'
  BY <1>4, <1>6, <1>7, <1>8, OthersStaySound DEF IInv, ReadsStaySound
<1>10. ReadsStaySound'
  BY <1>1, <1>5, <1>9 DEF ReadsStaySound, Sound, Archived, Accepted
<1>11. TokenAccounting' /\ SummaryComplete' /\ TrimmedIsPublished' /\ EventHasArchive'
  BY <1>5
  DEF IInv, TokenAccounting, SummaryComplete, TrimmedIsPublished, EventHasArchive, Archived
<1> QED
  BY <1>6, <1>10, <1>11 DEF IInv

-----------------------------------------------------------------------------
(* Finalizing a round *)

\* What finalize checks, with what the request may rely on, makes its batch the
\* listed messages head+1 .. plan.last and its context the current one.
LEMMA FinalizeMeansCurrent ==
  ASSUME IInv, NEW p \in Proc, At(p, "llm"), FinalizeAllowed(p)
  PROVE  /\ req[p].plan \in Batch
         /\ req[p].plan.first = head + 1
         /\ req[p].plan.last \in Position
         /\ head < req[p].plan.last /\ req[p].plan.last <= tail
         /\ head + Count(req[p].plan) = req[p].plan.last
         /\ req[p].ctx.version = version
         /\ req[p].ctx.tokens = summary.tokens
         /\ req[p].ctx.covers = summary.covers
         /\ Archived(req[p].plan)
         /\ req[p].plan \in events \cup missed
         /\ pending = req[p].plan
<1>1. Sound(req[p]) /\ req[p] \in Request /\ req[p].pc = "llm"
  BY DEF IInv, ReadsStaySound, TypeOK, At
<1>2. req[p].plan \in Batch
  BY <1>1 DEF Request
<1>3. req[p].plan.first \in Nat /\ req[p].plan.last \in Position /\ req[p].plan.last \in Nat
  BY <1>2, CumIsMonotone DEF Batch, Position
<1>4. req[p].plan.first = head + 1 /\ req[p].ctx.version = version /\ pending = req[p].plan
  BY DEF FinalizeAllowed, AtListHead
<1>5. /\ req[p].plan.first <= req[p].plan.last /\ req[p].plan.last <= tail
      /\ req[p].ctx.tokens = summary.tokens /\ req[p].ctx.covers = summary.covers
      /\ Archived(req[p].plan) /\ req[p].plan \in events \cup missed
  BY <1>1, <1>4 DEF Sound, Accepted
<1>6. head \in Nat
  BY DEF IInv, TypeOK
<1>7. head < req[p].plan.last /\ head + Count(req[p].plan) = req[p].plan.last
  BY <1>3, <1>4, <1>5, <1>6 DEF Count
<1> QED
  BY <1>2, <1>3, <1>4, <1>5, <1>7

\* Finalize: list, estimate, summary and version move together.
LEMMA FinalizeStep ==
  ASSUME IInv, NEW p \in Proc, Finalize(p)
  PROVE  IInv'
<1> USE DEF sessionVars, storeVars
<1> DEFINE last == req[p].plan.last
<1>1. At(p, "llm") /\ FinalizeAllowed(p)
  BY DEF Finalize
<1>2. /\ req[p].plan \in Batch /\ req[p].plan.first = head + 1
      /\ last \in Position /\ head < last /\ last <= tail
      /\ head + Count(req[p].plan) = last
      /\ req[p].ctx.version = version
      /\ req[p].ctx.tokens = summary.tokens /\ req[p].ctx.covers = summary.covers
      /\ Archived(req[p].plan) /\ req[p].plan \in events \cup missed
  BY <1>1, FinalizeMeansCurrent
<1>3. PICK tokens \in SummarySizes :
        estimated' = Reestimated(p, tokens) /\ summary' = NewSummary(p, tokens)
  BY DEF Finalize
<1>4. /\ version' = version + 1 /\ head' = last /\ pending' = NoBatch
      /\ UNCHANGED <<live, status, tail, archives, events, missed>>
      /\ lock' \in Proc \cup {NoProc}
  BY <1>2 DEF Finalize, NextVersion, ReleaseLock, IInv, TypeOK
<1>5. /\ head \in Nat /\ tail \in Nat /\ tail \in Position /\ head \in Position
      /\ last \in Nat /\ estimated \in Nat /\ summary.tokens \in Nat /\ tokens \in Nat
      /\ Cum[head] \in Nat /\ Cum[last] \in Nat /\ Cum[tail] \in Nat
      /\ Cum[last] <= Cum[tail]
  BY <1>2, <1>3, CumIsMonotone, SettingsAssumption DEF IInv, TypeOK, Position
<1>6. estimated' = Cum[tail] - Cum[last] + tokens
  <2>1. TokensOf(req[p].plan) = Cum[last] - Cum[head]
    BY <1>2, <1>5 DEF TokensOf
  <2>2. estimated = Cum[tail] - Cum[head] + summary.tokens
    BY DEF IInv, TokenAccounting
  <2> QED
    BY <1>2, <1>3, <1>5, <2>1, <2>2 DEF Reestimated
<1>7. summary' = [tokens |-> tokens, covers |-> 1..last]
  <2>1. Members(req[p].plan) = (head + 1)..last
    BY <1>2 DEF Members
  <2>2. summary.covers \cup (head + 1)..last = 1..last
    BY <1>2, <1>5 DEF IInv, SummaryComplete
  <2> QED
    BY <1>2, <1>3, <2>1, <2>2 DEF NewSummary
<1>8. \E r \in Request : Become(p, r) /\ r.pc \in FreeSteps
  <2>1. req[p].after \in {"respond", "rewrite"} /\ req[p].rounds + 1 \in Nat
    BY DEF IInv, TypeOK, Request
  <2>2. CASE req[p].rounds + 1 < MaxRounds
    <3> DEFINE r == [Idle EXCEPT !.pc = "check", !.after = req[p].after,
                                 !.rounds = req[p].rounds + 1]
    <3>1. r \in Request /\ r.pc = "check"
      BY <2>1, IdleIsRequest DEF Idle, Request, CompressSteps
    <3>2. Become(p, r)
      BY <2>2 DEF Finalize
    <3> HIDE DEF r
    <3> QED
      BY <3>1, <3>2 DEF FreeSteps
  <2>3. CASE ~(req[p].rounds + 1 < MaxRounds)
    <3>1. EndCoordination(p)
      BY <2>3 DEF Finalize
    <3>2. Idle \in Request /\ Idle.pc \in FreeSteps
      BY IdleIsRequest DEF Idle, FreeSteps
    <3> QED
      BY <3>1, <3>2, VariantsOfIdle DEF EndCoordination
  <2> QED
    BY <2>2, <2>3
<1>9. PICK r \in Request : Become(p, r) /\ r.pc \in FreeSteps
  BY <1>8
<1>10. /\ req' \in [Proc -> Request]
       /\ \A q \in Proc \ {p} : req'[q] = req[q]
  BY <1>9, BecomeOne DEF IInv, TypeOK
<1>11. TypeOK'
  <2>1. summary' \in [tokens : Nat, covers : SUBSET (1..MaxMessages)]
    <3>1. 1..last \in SUBSET (1..MaxMessages)
      BY <1>2, <1>5, CumIsMonotone DEF Position
    <3> QED
      BY <1>5, <1>7, <3>1
  <2>2. estimated' \in Nat /\ version' \in Nat /\ head' \in 0..tail'
    BY <1>2, <1>4, <1>5, <1>6 DEF IInv, TypeOK
  <2>3. pending' \in Batch
    BY <1>4, IdleIsRequest DEF Idle, Request
  <2> QED
    BY <1>4, <1>10, <2>1, <2>2, <2>3 DEF IInv, TypeOK
<1>12. Grows
  BY <1>4, <1>5 DEF IInv, TypeOK, Grows
<1>13. Sound(req[p])'
  BY <1>9, FreeIsSound
<1>14. \A q \in Proc : Sound(req[q])'
  BY <1>10, <1>11, <1>12, <1>13, OthersStaySound DEF IInv, ReadsStaySound
<1>15. ReadsStaySound'
  BY <1>4, <1>14 DEF ReadsStaySound, Accepted, Archived
<1>16. TokenAccounting'
  BY <1>4, <1>6, <1>7 DEF TokenAccounting
<1>17. SummaryComplete'
  BY <1>4, <1>7 DEF SummaryComplete
<1>18. TrimmedIsPublished'
  <2> SUFFICES ASSUME NEW i \in 1..last
               PROVE  \E b \in events \cup missed : i \in Members(b) /\ Archived(b)
    BY <1>4 DEF TrimmedIsPublished, Archived
  <2>1. CASE i <= head
    BY <1>5, <2>1 DEF IInv, TrimmedIsPublished
  <2>2. CASE i > head
    BY <1>2, <1>5, <2>2 DEF Members
  <2> QED
    BY <1>5, <2>1, <2>2
<1>19. EventHasArchive'
  BY <1>4 DEF IInv, EventHasArchive, Archived
<1> QED
  BY <1>11, <1>15, <1>16, <1>17, <1>18, <1>19 DEF IInv

-----------------------------------------------------------------------------
(* Writing messages *)

\* A message is appended and counted.
LEMMA WriteMessageStep ==
  ASSUME IInv, NEW p \in Proc, WriteMessage(p)
  PROVE  IInv'
<1> USE DEF sessionVars, contextVars, storeVars
<1> DEFINE r == [Idle EXCEPT !.pc = "check"]
<1>1. r \in Request /\ r.pc \in FreeSteps
  BY VariantsOfIdle
<1>2. Become(p, r)
  BY DEF WriteMessage
<1> HIDE DEF r
<1>3. /\ req' \in [Proc -> Request]
      /\ \A q \in Proc \ {p} : req'[q] = req[q]
  BY <1>1, <1>2, BecomeOne DEF IInv, TypeOK
<1>4. /\ tail < MaxMessages /\ tail' = tail + 1
      /\ estimated' = estimated + (Cum[tail + 1] - Cum[tail])
      /\ UNCHANGED <<live, status, head, version, summary, pending, lock>>
      /\ UNCHANGED <<archives, events, missed>>
  BY DEF WriteMessage, Writable, NextMessageTokens
<1>5. /\ head \in Nat /\ tail \in Nat /\ head <= tail /\ estimated \in Nat
      /\ tail \in Position /\ tail + 1 \in Position
      /\ summary.tokens \in Nat /\ head \in Position
  BY <1>4, CumIsMonotone DEF IInv, TypeOK, Position
<1>6. /\ Cum[head] \in Nat /\ Cum[tail] \in Nat /\ Cum[tail + 1] \in Nat
      /\ Cum[tail] <= Cum[tail + 1]
  BY <1>5, CumIsMonotone
<1>7. TypeOK'
  <2>1. tail' \in Position /\ head' \in 0..tail' /\ estimated' \in Nat
    BY <1>4, <1>5, <1>6
  <2> QED
    BY <1>3, <1>4, <2>1 DEF IInv, TypeOK
<1>8. Grows
  BY <1>4, <1>5 DEF IInv, TypeOK, Grows
<1>9. \A q \in Proc : Sound(req[q])'
  BY <1>1, <1>2, <1>3, <1>7, <1>8, FreeIsSound, OthersStaySound DEF IInv, ReadsStaySound
<1>10. ReadsStaySound'
  BY <1>4, <1>5, <1>9 DEF IInv, TypeOK, ReadsStaySound, Accepted, Archived, Batch, Position
<1>11. TokenAccounting'
  BY <1>4, <1>5, <1>6 DEF IInv, TokenAccounting
<1>12. SummaryComplete' /\ TrimmedIsPublished' /\ EventHasArchive'
  BY <1>4 DEF IInv, SummaryComplete, TrimmedIsPublished, EventHasArchive, Archived
<1> QED
  BY <1>7, <1>10, <1>11, <1>12 DEF IInv

\* A write without room starts a coordination.
LEMMA WriteOverCapacityStep ==
  ASSUME IInv, NEW p \in Proc, WriteOverCapacity(p)
  PROVE  IInv'
<1> DEFINE r == [Idle EXCEPT !.pc = "check", !.after = "rewrite"]
<1>1. r \in Request /\ r.pc \in FreeSteps
  BY VariantsOfIdle
<1>2. Become(p, r) /\ RequestOnly
  BY DEF WriteOverCapacity, RequestOnly
<1> HIDE DEF r
<1> QED
  BY <1>1, <1>2, RequestOnlyTouchesNothing, BecomeFree DEF IInv

\* A refused second write ends the request.
LEMMA RewriteRefusedStep ==
  ASSUME IInv, NEW p \in Proc, RewriteRefused(p)
  PROVE  IInv'
<1>1. RequestOnly
  BY DEF RewriteRefused, RequestOnly
<1> QED
  BY <1>1, RequestOnlyTouchesNothing, BecomeIdle DEF RewriteRefused, IInv

-----------------------------------------------------------------------------
(* Closing the session *)

\* A close takes the lock.
LEMMA CloseTakeLockStep ==
  ASSUME IInv, NEW p \in Proc, CloseTakeLock(p)
  PROVE  IInv'
<1>1. ContextUntouched
  BY DEF CloseTakeLock, ContextUntouched, IInv, TypeOK, sessionVars, contextVars, storeVars
<1> QED
  BY <1>1, GotoFree DEF CloseTakeLock, FreeSteps

\* A close makes the session closing.
LEMMA EnterClosingStep ==
  ASSUME IInv, NEW p \in Proc, EnterClosing(p)
  PROVE  IInv'
<1>1. ContextUntouched
  BY DEF EnterClosing, ContextUntouched, IInv, TypeOK, contextVars, storeVars
<1> QED
  BY <1>1, GotoFree DEF EnterClosing, FreeSteps

\* A close reads the pending fields and the version.
LEMMA CloseReadMetaStep ==
  ASSUME IInv, NEW p \in Proc, CloseReadMeta(p)
  PROVE  IInv'
<1> DEFINE r == [req[p] EXCEPT !.pc = "closeContext", !.seen = pending,
                               !.ctx.version = version]
<1>1. req[p] \in Request /\ pending \in Batch /\ version \in Nat
  BY DEF IInv, TypeOK
<1>2. r \in Request /\ r.pc = "closeContext" /\ r.seen = pending
  BY <1>1 DEF Request, CloseSteps, Context
<1>3. Become(p, r) /\ ContextUntouched
  BY RequestOnlyTouchesNothing DEF CloseReadMeta, IInv
<1> HIDE DEF r
<1>4. req'[p] = r
  BY <1>2, <1>3, BecomeOne DEF IInv, TypeOK
<1>5. Sound(req[p])'
  BY <1>2, <1>3, <1>4
  DEF Sound, IInv, ReadsStaySound, ContextUntouched, contextVars, Accepted, Archived
<1> QED
  BY <1>2, <1>3, <1>5, UntouchedStep

\* A close of a session that is gone.
LEMMA CloseSessionGoneStep ==
  ASSUME IInv, NEW p \in Proc, CloseSessionGone(p)
  PROVE  IInv'
BY RequestOnlyTouchesNothing, GotoFree DEF CloseSessionGone, IInv, FreeSteps

\* A close that finds an archive with another base version.
LEMMA CloseBaseMismatchStep ==
  ASSUME IInv, NEW p \in Proc, CloseBaseMismatch(p)
  PROVE  IInv'
BY RequestOnlyTouchesNothing, GotoFree DEF CloseBaseMismatch, IInv, FreeSteps

\* A failed close makes the session active again.
LEMMA CloseRevertStep ==
  ASSUME IInv, NEW p \in Proc, CloseRevert(p)
  PROVE  IInv'
<1>1. ContextUntouched
  BY DEF CloseRevert, ContextUntouched, IInv, TypeOK, contextVars, storeVars
<1> QED
  BY <1>1, GotoFree DEF CloseRevert, FreeSteps

\* A close deletes the session.
LEMMA CloseDeleteStep ==
  ASSUME IInv, NEW p \in Proc, CloseDelete(p)
  PROVE  IInv'
<1>1. ContextUntouched
  BY DEF CloseDelete, ContextUntouched, IInv, TypeOK, contextVars, storeVars
<1> QED
  BY <1>1, GotoFree DEF CloseDelete, FreeSteps

\* A close releases the lock.
LEMMA CloseReleaseStep ==
  ASSUME IInv, NEW p \in Proc, CloseRelease(p)
  PROVE  IInv'
<1>1. ContextUntouched
  BY DEF CloseRelease, ReleaseLock, ContextUntouched, IInv, TypeOK,
         sessionVars, contextVars, storeVars
<1> QED
  BY <1>1, BecomeIdle DEF CloseRelease

\* The rest a close plans to archive ends where the list ends.
LEMMA CloseReadContextStep ==
  ASSUME IInv, NEW p \in Proc, CloseReadContext(p)
  PROVE  IInv'
<1> DEFINE covered == Count(req[p].seen)
<1> DEFINE r == [req[p] EXCEPT !.pc   = "closeArchive",
                               !.seen = NoBatch,
                               !.plan = Run(head + covered + 1, tail),
                               !.todo = {req[p].seen} \ {NoBatch}]
<1>1. /\ req[p] \in Request /\ NoBatch \in Batch /\ MaxMessages \in Nat
      /\ Sound(req[p]) /\ req[p].pc = "closeContext"
      /\ head \in Nat /\ tail \in Nat /\ tail <= MaxMessages
  BY IdleIsRequest, CumIsMonotone
  DEF IInv, TypeOK, Idle, Request, ReadsStaySound, CloseReadContext, At, Position
<1>2. ContextUntouched
  BY RequestOnlyTouchesNothing DEF CloseReadContext, IInv
<1>3. CASE covered <= tail - head
  <2>1. Become(p, r)
    BY <1>3 DEF CloseReadContext
  <2>2. req[p].seen \in Batch /\ (req[p].seen # NoBatch => Archived(req[p].seen))
    BY <1>1 DEF Request, Sound
  <2>3. covered \in Nat
    BY <1>1, <2>2 DEF Count, Sound, Accepted, Batch, Position, NoBatch
  <2>4. Run(head + covered + 1, tail) \in Batch
    BY <1>1, <1>3, <2>3 DEF Run, Batch, Position
  <2>5. /\ r \in Request /\ r.pc = "closeArchive"
        /\ r.plan.last = tail /\ r.todo = {req[p].seen} \ {NoBatch}
    BY <1>1, <2>2, <2>4 DEF Request, CloseSteps, Run
  <2> HIDE DEF r
  <2>6. req'[p] = r
    BY <2>1, <2>5, BecomeOne DEF IInv, TypeOK
  <2>7. tail' = tail /\ archives \subseteq archives'
    BY <1>2 DEF ContextUntouched
  <2>8. Sound(req[p])'
    BY <1>1, <2>2, <2>5, <2>6, <2>7 DEF Sound, Archived
  <2> QED
    BY <1>2, <2>1, <2>5, <2>8, UntouchedStep
<1>4. CASE ~(covered <= tail - head)
  BY <1>2, <1>4, GotoFree DEF CloseReadContext, FreeSteps
<1> QED
  BY <1>3, <1>4

\* A batch cut off the rest is a run of listed messages.
LEMMA CloseBatchIsRun ==
  ASSUME IInv, NEW p \in Proc, At(p, "closeArchive"), RestToArchive(p),
         NEW b \in [first : {req[p].plan.first}, last : Members(req[p].plan)]
  PROVE  /\ b \in Batch /\ Accepted(b)
         /\ b.last + 1 \in 1..(MaxMessages + 1)
<1>1. req[p] \in Request /\ Sound(req[p]) /\ req[p].pc = "closeArchive"
  BY DEF IInv, TypeOK, ReadsStaySound, At
<1>2. req[p].plan \in Batch /\ req[p].plan.last <= tail
  BY <1>1 DEF Request, Sound
<1>3. tail \in Nat /\ tail <= MaxMessages /\ MaxMessages \in Nat
  BY CumIsMonotone DEF IInv, TypeOK, Position
<1>4. b.first = req[p].plan.first /\ b.last \in req[p].plan.first..req[p].plan.last
  BY DEF Members
<1>5. b = [first |-> b.first, last |-> b.last]
  OBVIOUS
<1>6. b.first \in 1..(MaxMessages + 1) /\ b.last \in 0..MaxMessages
  BY <1>2, <1>3, <1>4 DEF Batch, Position
<1> QED
  BY <1>2, <1>3, <1>4, <1>5, <1>6 DEF Batch, Position, Accepted

\* A close archives the next batch of the rest.
LEMMA CloseArchiveStep ==
  ASSUME IInv, NEW p \in Proc, CloseArchive(p)
  PROVE  IInv'
<1>1. PICK b \in [first : {req[p].plan.first}, last : Members(req[p].plan)] :
        /\ archives' = Stored(b, req[p].ctx.version, "close")
        /\ Become(p, [req[p] EXCEPT !.plan.first = b.last + 1,
                                    !.todo = @ \cup {b}, !.persisted = TRUE])
  BY DEF CloseArchive
<1> DEFINE r == [req[p] EXCEPT !.plan.first = b.last + 1,
                               !.todo = @ \cup {b}, !.persisted = TRUE]
<1>2. b \in Batch /\ b.last + 1 \in 1..(MaxMessages + 1)
  BY CloseBatchIsRun DEF CloseArchive
<1>3. req[p] \in Request /\ Sound(req[p]) /\ req[p].pc = "closeArchive"
  BY DEF IInv, TypeOK, ReadsStaySound, CloseArchive, At
<1>4. /\ r \in Request /\ r.pc = "closeArchive"
      /\ r.plan.last = req[p].plan.last /\ r.todo = req[p].todo \cup {b}
  BY <1>2, <1>3 DEF Request, Batch
<1>5. /\ archives \subseteq archives' /\ archives' \subseteq Archive
      /\ \E a \in archives' : a.batch = b
  <2>1. req[p].ctx.version \in Nat
    BY <1>3 DEF Request, Context
  <2> QED
    BY <1>1, <1>2, <2>1, StoredArchives DEF IInv, TypeOK
<1>6. ContextUntouched
  BY <1>5 DEF CloseArchive, ContextUntouched, IInv, TypeOK, sessionVars, contextVars
<1>7. Become(p, r)
  BY <1>1
<1> HIDE DEF r
<1>8. req'[p] = r
  BY <1>4, <1>7, BecomeOne DEF IInv, TypeOK
<1>9. tail' = tail
  BY <1>6 DEF ContextUntouched
<1>10. Sound(req[p])'
  BY <1>3, <1>4, <1>5, <1>8, <1>9 DEF Sound, Archived
<1> QED
  BY <1>4, <1>6, <1>7, <1>10, UntouchedStep

\* An insertion of a close fails, stored or not.
LEMMA CloseArchiveFailsStep ==
  ASSUME IInv, NEW p \in Proc, CloseArchiveFails(p)
  PROVE  IInv'
<1>1. req[p].ctx.version \in Nat
  BY DEF IInv, TypeOK, Request, Context
<1>2. archives \subseteq archives' /\ archives' \subseteq Archive
  BY <1>1, CloseBatchIsRun, StoredArchives DEF CloseArchiveFails, IInv, TypeOK
<1>3. ContextUntouched
  BY <1>2 DEF CloseArchiveFails, ContextUntouched, IInv, TypeOK, sessionVars, contextVars
<1> QED
  BY <1>3, GotoFree DEF CloseArchiveFails, AfterArchiveFailure, FreeSteps

\* A close publishes the event of a confirmed archive, or logs the failure.
LEMMA ClosePublishStep ==
  ASSUME IInv, NEW p \in Proc, ClosePublish(p)
  PROVE  IInv'
<1>1. PICK b \in req[p].todo :
        /\ \/ events' = events \cup {b} /\ missed' = missed
           \/ missed' = missed \cup {b} /\ events' = events
        /\ Become(p, [req[p] EXCEPT !.todo = @ \ {b}])
  BY DEF ClosePublish
<1> DEFINE r == [req[p] EXCEPT !.todo = @ \ {b}]
<1>2. req[p] \in Request /\ Sound(req[p]) /\ req[p].pc = "closeArchive"
  BY DEF IInv, TypeOK, ReadsStaySound, ClosePublish, At
<1>3. b \in Batch /\ Archived(b)
  BY <1>2 DEF Request, Sound
<1>4. /\ r \in Request /\ r.pc = "closeArchive"
      /\ r.plan = req[p].plan /\ r.todo \subseteq req[p].todo
  BY <1>2 DEF Request
<1>5. ContextUntouched
  BY <1>1, <1>3 DEF ClosePublish, ContextUntouched, IInv, TypeOK, sessionVars, contextVars
<1>6. Become(p, r)
  BY <1>1
<1> HIDE DEF r
<1>7. req'[p] = r
  BY <1>4, <1>6, BecomeOne DEF IInv, TypeOK
<1>8. tail' = tail /\ archives \subseteq archives'
  BY <1>5 DEF ContextUntouched
<1>9. Sound(req[p])'
  BY <1>2, <1>4, <1>7, <1>8 DEF Sound, Archived
<1> QED
  BY <1>4, <1>5, <1>6, <1>9, UntouchedStep

-----------------------------------------------------------------------------
(* Failures *)

\* A request dies: nobody relied on its program state.
LEMMA CrashStep ==
  ASSUME IInv, NEW p \in Proc, Crash(p)
  PROVE  IInv'
BY RequestOnlyTouchesNothing, BecomeIdle DEF Crash, IInv

\* Losing the lock disturbs nobody: no part of the invariant speaks of it.
LEMMA LockExpiresStep ==
  ASSUME IInv, LockExpires
  PROVE  IInv'
<1>1. lock \in Proc
  BY DEF IInv, TypeOK, LockExpires
<1>2. req[lock] \in Request /\ Become(lock, req[lock])
  BY <1>1 DEF IInv, TypeOK, LockExpires, Become
<1>3. ContextUntouched
  BY DEF LockExpires, ContextUntouched, IInv, TypeOK, sessionVars, contextVars, storeVars
<1>4. UNCHANGED <<req, tail, version, summary, archives, events, missed>>
  BY DEF LockExpires, contextVars, storeVars
<1>5. PICK p \in Proc : p = lock
  BY <1>1
<1>6. Sound(req[p])'
  BY <1>4, <1>5 DEF IInv, ReadsStaySound, Sound, Accepted, Archived
<1> QED
  BY <1>2, <1>3, <1>5, <1>6, UntouchedStep

-----------------------------------------------------------------------------
(* The invariant *)

\* The initial states satisfy the invariant.
LEMMA InitIInv == Init => IInv
<1> SUFFICES ASSUME Init PROVE IInv
  OBVIOUS
<1> USE DEF Init
<1>1. Idle \in Request /\ NoBatch \in Batch
  BY IdleIsRequest DEF Idle, Request
<1>2. TypeOK
  BY <1>1, CumIsMonotone DEF TypeOK, Position
<1>3. TokenAccounting
  BY MessagesAssumption DEF TokenAccounting
<1>4. SummaryComplete /\ TrimmedIsPublished /\ EventHasArchive
  BY DEF SummaryComplete, TrimmedIsPublished, EventHasArchive
<1>5. ReadsStaySound
  BY DEF ReadsStaySound, Sound, Idle
<1> QED
  BY <1>2, <1>3, <1>4, <1>5 DEF IInv

\* The steps of a write keep the invariant.
LEMMA WriteStepsKeepIInv ==
  ASSUME IInv, NEW p \in Proc, WriteStep(p)
  PROVE  IInv'
BY WriteMessageStep, WriteOverCapacityStep, RewriteRefusedStep DEF WriteStep

\* The steps of a compression keep the invariant.
LEMMA CompressStepsKeepIInv ==
  ASSUME IInv, NEW p \in Proc, CompressStep(p)
  PROVE  IInv'
BY CheckTriggerStep, BelowTriggerStep, ReadMetaStep, ReadContextStep,
   ReadContextForPendingStep, NothingToCompressStep, StoreArchiveStep,
   StoreArchiveFailsStep, TakeLockStep, LockTakenStep, WritePendingStep,
   PendingRefusedStep, UnlockStep, PublishStep, LlmFailsStep, FinalizeStep,
   FinalizeRefusedStep
DEF CompressStep

\* The steps of a close keep the invariant.
LEMMA CloseStepsKeepIInv ==
  ASSUME IInv, NEW p \in Proc, CloseStep(p)
  PROVE  IInv'
BY CloseTakeLockStep, EnterClosingStep, CloseSessionGoneStep, CloseReadMetaStep,
   CloseReadContextStep, CloseArchiveStep, CloseBaseMismatchStep,
   CloseArchiveFailsStep, CloseRevertStep, ClosePublishStep, CloseDeleteStep,
   CloseReleaseStep
DEF CloseStep

\* Every step keeps the invariant.
LEMMA NextIInv == IInv /\ [Next]_vars => IInv'
<1> SUFFICES ASSUME IInv, [Next]_vars PROVE IInv'
  OBVIOUS
<1>1. CASE \E p \in Proc : WriteStep(p)
  BY <1>1, WriteStepsKeepIInv
<1>2. CASE \E p \in Proc : CompressStep(p)
  BY <1>2, CompressStepsKeepIInv
<1>3. CASE \E p \in Proc : CloseStep(p)
  BY <1>3, CloseStepsKeepIInv
<1>4. CASE \E p \in Proc : Crash(p)
  BY <1>4, CrashStep
<1>5. CASE LockExpires
  BY <1>5, LockExpiresStep
<1>6. CASE UNCHANGED vars
  <2>1. UNCHANGED <<live, status, head, tail, estimated, version, summary, pending, lock,
                    archives, events, missed, req>>
    BY <1>6 DEF vars, contextVars, storeVars
  <2>2. TypeOK'
    BY <2>1 DEF IInv, TypeOK
  <2>3. ReadsStaySound'
    BY <2>1 DEF IInv, ReadsStaySound, Sound, Accepted, Archived
  <2> QED
    BY <2>1, <2>2, <2>3 DEF IInv, TokenAccounting, SummaryComplete, TrimmedIsPublished,
       EventHasArchive, Archived
<1> QED
  BY <1>1, <1>2, <1>3, <1>4, <1>5, <1>6 DEF Next

\* The safety invariants hold together in every reachable state: what a request read
\* before it took the lock is refused or still true when finalize uses it.
THEOREM Invariance == Spec => []IInv
<1> QED
  BY InitIInv, NextIInv, PTL DEF Spec

\* Every variable keeps its type; in particular the token counter of the meta hash and
\* the list bounds never go out of range, whoever finalizes, closes or crashes when.
THEOREM TypeCorrect == Spec => []TypeOK
<1>1. IInv => TypeOK
  BY DEF IInv
<1> QED
  BY <1>1, Invariance, PTL

\* estimated_tokens is exact in every reachable state, although finalize adds and
\* subtracts values read outside the lock.
THEOREM TokensAccounted == Spec => []TokenAccounting
<1>1. IInv => TokenAccounting
  BY DEF IInv
<1> QED
  BY <1>1, Invariance, PTL

\* The summary tells of exactly the messages trimmed from the list, even if leases run
\* out under their owners: versions and boundaries make up for the lock.
THEOREM SummaryAlwaysComplete == Spec => []SummaryComplete
<1>1. IInv => SummaryComplete
  BY DEF IInv
<1> QED
  BY <1>1, Invariance, PTL

\* No message leaves the list without an archive and an event (or a logged failure).
THEOREM TrimmedAlwaysPublished == Spec => []TrimmedIsPublished
<1>1. IInv => TrimmedIsPublished
  BY DEF IInv
<1> QED
  BY <1>1, Invariance, PTL

\* The archive of every published event is in MongoDB before the event is in Kafka.
THEOREM EventsHaveArchives == Spec => []EventHasArchive
<1>1. IInv => EventHasArchive
  BY DEF IInv
<1> QED
  BY <1>1, Invariance, PTL

\* What requests have read outside the lock never misleads them.
THEOREM ReadsAlwaysSound == Spec => []ReadsStaySound
<1>1. IInv => ReadsStaySound
  BY DEF IInv
<1> QED
  BY <1>1, Invariance, PTL

-----------------------------------------------------------------------------
(* The pending archive *)

\* A pending archive leaves the meta hash only when finalize trims its messages: no
\* other round, write or close can drop or replace it, with or without the lock.
THEOREM PendingNeverDropped == Spec => PendingOnlyFolded
<1> DEFINE Folded == pending # NoBatch /\ pending' # pending =>
                       /\ pending' = NoBatch
                       /\ head = pending.first - 1 /\ head' = pending.last
<1>1. ASSUME IInv, [Next]_vars PROVE Folded
  <2>1. CASE pending' = pending
    BY <2>1
  <2>2. ASSUME NEW p \in Proc, WritePending(p) PROVE Folded
    BY <2>2 DEF WritePending, PendingAllowed
  <2>3. ASSUME NEW p \in Proc, Finalize(p) PROVE Folded
    <3>1. At(p, "llm") /\ FinalizeAllowed(p)
      BY <2>3 DEF Finalize
    <3>2. /\ req[p].plan.first = head + 1 /\ head + Count(req[p].plan) = req[p].plan.last
          /\ pending = req[p].plan
      BY <1>1, <3>1, FinalizeMeansCurrent
    <3>3. head \in Nat
      BY <1>1 DEF IInv, TypeOK
    <3> QED
      BY <2>3, <3>2, <3>3 DEF Finalize
  <2>4. ASSUME NEW p \in Proc, WriteStep(p) PROVE pending' = pending
    BY <2>4 DEF WriteStep, WriteMessage, WriteOverCapacity, RewriteRefused, contextVars
  <2>5. ASSUME NEW p \in Proc, CompressStep(p), ~WritePending(p), ~Finalize(p)
        PROVE  pending' = pending
    BY <2>5 DEF CompressStep, CheckTrigger, BelowTrigger, ReadMeta, ReadContext,
       ReadContextForPending, NothingToCompress, StoreArchive, StoreArchiveFails, TakeLock,
       LockTaken, PendingRefused, Unlock, Publish, LlmFails, FinalizeRefused,
       RequestOnly, contextVars
  <2>6. ASSUME NEW p \in Proc, CloseStep(p) PROVE pending' = pending
    BY <2>6 DEF CloseStep, CloseTakeLock, EnterClosing, CloseSessionGone, CloseReadMeta,
       CloseReadContext, CloseArchive, CloseBaseMismatch, CloseArchiveFails, CloseRevert,
       ClosePublish, CloseDelete, CloseRelease, RequestOnly, contextVars
  <2>7. ASSUME NEW p \in Proc, Crash(p) PROVE pending' = pending
    BY <2>7 DEF Crash, RequestOnly, contextVars
  <2>8. CASE LockExpires
    BY <2>8 DEF LockExpires, contextVars
  <2>9. CASE UNCHANGED vars
    BY <2>9 DEF vars, contextVars
  <2> QED
    BY <1>1, <2>1, <2>2, <2>3, <2>4, <2>5, <2>6, <2>7, <2>8, <2>9 DEF Next
<1>2. IInv /\ [Next]_vars => [Folded]_vars
  BY <1>1
<1> QED
  BY <1>2, Invariance, PTL DEF Spec, PendingOnlyFolded

-----------------------------------------------------------------------------
(* Refinement of the abstract log *)

\* Steps the abstract log does not see.
Unseen == UNCHANGED <<live, head, tail, summary, archives>>

\* Steps that leave list, summary and archives alone are invisible to the log.
LEMMA UnseenIsStutter ==
  ASSUME Unseen
  PROVE  UNCHANGED Log!logVars
BY DEF Unseen, Log!logVars, KeptMessages, Members

\* Archiving a run of accepted messages keeps them, or finds them kept.
LEMMA ArchivingIsKeep ==
  ASSUME IInv, NEW b \in Batch, Accepted(b), NEW base \in Nat,
         NEW origin \in {"compress", "close"},
         archives' = Stored(b, base, origin), UNCHANGED <<live, head, tail, summary>>
  PROVE  [Log!LogNext]_(Log!logVars)
<1>1. CASE Archived(b)
  <2>1. Unseen
    BY <1>1 DEF Unseen, Stored
  <2> QED
    BY <2>1, UnseenIsStutter
<1>2. CASE ~Archived(b)
  <2>1. archives' = archives \cup {[batch |-> b, base |-> base, origin |-> origin]}
    BY <1>2 DEF Stored
  <2>2. KeptMessages' = KeptMessages \cup b.first..b.last
    <3> DEFINE n == [batch |-> b, base |-> base, origin |-> origin]
    <3>1. n.batch = b
      OBVIOUS
    <3>2. archives' = archives \cup {n}
      BY <2>1
    <3> HIDE DEF n
    <3>3. \A m : m \in KeptMessages <=> \E a \in archives : m \in a.batch.first..a.batch.last
      BY DEF KeptMessages, Members
    <3>4. \A m : m \in KeptMessages' <=> \E a \in archives' : m \in a.batch.first..a.batch.last
      BY DEF KeptMessages, Members
    <3>5. \A m : m \in KeptMessages' <=> m \in KeptMessages \/ m \in b.first..b.last
      BY <3>1, <3>2, <3>3, <3>4
    <3> QED
      BY <3>5
  <2>3. b.first \in 1..tail /\ b.last \in 1..tail
    BY CumIsMonotone DEF Accepted, Batch, Position, IInv, TypeOK
  <2>4. Log!Keep
    BY <2>2, <2>3 DEF Log!Keep
  <2> QED
    BY <2>4 DEF Log!LogNext
<1> QED
  BY <1>1, <1>2

\* A finalize is a fold of an archived run from the front of the log.
LEMMA FinalizeIsFold ==
  ASSUME IInv, NEW p \in Proc, Finalize(p)
  PROVE  Log!Fold
<1> DEFINE last == req[p].plan.last
<1>1. At(p, "llm") /\ FinalizeAllowed(p)
  BY DEF Finalize
<1>2. /\ req[p].plan.first = head + 1 /\ last \in Position
      /\ head < last /\ last <= tail /\ head + Count(req[p].plan) = last
      /\ req[p].ctx.covers = summary.covers /\ Archived(req[p].plan)
  BY <1>1, FinalizeMeansCurrent
<1>3. Members(req[p].plan) = (head + 1)..last
  BY <1>2 DEF Members
<1>4. live /\ head' = last /\ summary'.covers = summary.covers \cup (head + 1)..last
  BY <1>1, <1>2, <1>3 DEF FinalizeAllowed, Finalize, NewSummary
<1>5. UNCHANGED <<live, tail, archives>>
  BY DEF Finalize, sessionVars, storeVars
<1>6. KeptMessages' = KeptMessages
  BY <1>5 DEF KeptMessages, Members
<1>7. (head + 1)..last \subseteq KeptMessages
  BY <1>2, <1>3 DEF KeptMessages, Archived
<1>8. last \in (head + 1)..tail
  BY <1>2, CumIsMonotone DEF IInv, TypeOK, Position
<1> QED
  BY <1>4, <1>5, <1>6, <1>7, <1>8 DEF Log!Fold

\* Every step of the session is a step of the log or none.
LEMMA StepRefines ==
  ASSUME IInv, [Next]_vars
  PROVE  [Log!LogNext]_(Log!logVars)
<1> USE DEF RequestOnly, sessionVars, contextVars, storeVars
<1>1. ASSUME NEW p \in Proc, WriteStep(p) PROVE [Log!LogNext]_(Log!logVars)
  <2>1. CASE WriteMessage(p)
    <3>1. Log!Append
      BY <2>1 DEF WriteMessage, Writable, Log!Append, KeptMessages, Members
    <3> QED
      BY <3>1 DEF Log!LogNext
  <2>2. CASE WriteOverCapacity(p) \/ RewriteRefused(p)
    <3>1. Unseen
      BY <2>2 DEF WriteOverCapacity, RewriteRefused, Unseen
    <3> QED
      BY <3>1, UnseenIsStutter
  <2> QED
    BY <1>1, <2>1, <2>2 DEF WriteStep
<1>2. ASSUME NEW p \in Proc, CompressStep(p) PROVE [Log!LogNext]_(Log!logVars)
  <2>1. CASE StoreArchive(p) \/ StoreArchiveFails(p)
    <3>1. /\ req[p] \in Request /\ Sound(req[p]) /\ req[p].pc = "archive"
          /\ UNCHANGED <<live, head, tail, summary>>
      BY <2>1 DEF IInv, TypeOK, ReadsStaySound, StoreArchive, StoreArchiveFails, At
    <3>2. req[p].plan \in Batch /\ Accepted(req[p].plan) /\ req[p].ctx.version \in Nat
      BY <3>1 DEF Request, Context, Sound
    <3>3. CASE archives' = Stored(req[p].plan, req[p].ctx.version, "compress")
      BY <3>1, <3>2, <3>3, ArchivingIsKeep
    <3>4. CASE archives' = archives
      BY <3>1, <3>4, UnseenIsStutter DEF Unseen
    <3> QED
      BY <2>1, <3>3, <3>4 DEF StoreArchive, StoreArchiveFails
  <2>2. CASE Finalize(p)
    BY <2>2, FinalizeIsFold DEF Log!LogNext
  <2>3. CASE ~(StoreArchive(p) \/ StoreArchiveFails(p)) /\ ~Finalize(p)
    <3>1. Unseen
      BY <1>2, <2>3 DEF CompressStep, CheckTrigger, BelowTrigger, ReadMeta, ReadContext,
         ReadContextForPending, NothingToCompress, TakeLock, LockTaken, WritePending,
         PendingRefused, Unlock, Publish, LlmFails, FinalizeRefused, Unseen
    <3> QED
      BY <3>1, UnseenIsStutter
  <2> QED
    BY <2>1, <2>2, <2>3
<1>3. ASSUME NEW p \in Proc, CloseStep(p) PROVE [Log!LogNext]_(Log!logVars)
  <2>1. CASE CloseArchive(p) \/ CloseArchiveFails(p)
    <3>1. /\ At(p, "closeArchive") /\ RestToArchive(p)
          /\ UNCHANGED <<live, head, tail, summary>>
      BY <2>1 DEF CloseArchive, CloseArchiveFails
    <3>2. req[p].ctx.version \in Nat
      BY DEF IInv, TypeOK, Request, Context
    <3>3. CASE archives' = archives
      BY <3>1, <3>3, UnseenIsStutter DEF Unseen
    <3>4. ASSUME NEW b \in [first : {req[p].plan.first}, last : Members(req[p].plan)],
                 archives' = Stored(b, req[p].ctx.version, "close")
          PROVE  [Log!LogNext]_(Log!logVars)
      <4>1. b \in Batch /\ Accepted(b)
        BY <3>1, CloseBatchIsRun
      <4> QED
        BY <3>1, <3>2, <3>4, <4>1, ArchivingIsKeep
    <3> QED
      BY <2>1, <3>3, <3>4 DEF CloseArchive, CloseArchiveFails
  <2>2. CASE CloseDelete(p)
    <3>1. CASE live' = live
      BY <2>2, <3>1, UnseenIsStutter DEF CloseDelete, Unseen
    <3>2. CASE live' # live
      <4>1. live = TRUE /\ live' = FALSE
        BY <2>2, <3>2 DEF CloseDelete, IInv, TypeOK
      <4>2. Log!Close
        BY <2>2, <4>1 DEF CloseDelete, Log!Close, KeptMessages, Members
      <4> QED
        BY <4>2 DEF Log!LogNext
    <3> QED
      BY <3>1, <3>2
  <2>3. CASE ~(CloseArchive(p) \/ CloseArchiveFails(p)) /\ ~CloseDelete(p)
    <3>1. Unseen
      BY <1>3, <2>3 DEF CloseStep, CloseTakeLock, EnterClosing, CloseSessionGone,
         CloseReadMeta, CloseReadContext, CloseBaseMismatch, CloseRevert, ClosePublish,
         CloseRelease, Unseen
    <3> QED
      BY <3>1, UnseenIsStutter
  <2> QED
    BY <2>1, <2>2, <2>3
<1>4. ASSUME NEW p \in Proc, Crash(p) PROVE [Log!LogNext]_(Log!logVars)
  BY <1>4, UnseenIsStutter DEF Crash, Unseen
<1>5. CASE LockExpires
  BY <1>5, UnseenIsStutter DEF LockExpires, Unseen
<1>6. CASE UNCHANGED vars
  BY <1>6, UnseenIsStutter DEF vars, Unseen
<1> QED
  BY <1>1, <1>2, <1>3, <1>4, <1>5, <1>6 DEF Next

\* A fresh session is an empty log.
LEMMA InitRefines == Init => Log!LogInit
BY DEF Init, Log!LogInit, KeptMessages

\* The Redis, MongoDB and lock steps together implement the abstract log: a message
\* leaves it only by a fold of an archived run, and the summary tells of all folds.
THEOREM Refinement == Spec => ImplementsLog
<1>1. IInv /\ [Next]_vars => [Log!LogNext]_(Log!logVars)
  BY StepRefines
<1> QED
  BY <1>1, InitRefines, Invariance, PTL DEF Spec, ImplementsLog, Log!LogSpec

-----------------------------------------------------------------------------
(* Mutual exclusion, when leases outlast their owners *)

\* A request at a locked step owns the lock, and a session with a compression between
\* its pending fields and its finalize is not closing.
Owned ==
  \A p \in Proc :
    /\ req[p].pc \in LockedSteps => lock = p
    /\ req[p].pc \in {"publish", "llm"} => status = "active"

\* A step of p keeps this if p takes only a free lock, gives back only its own, and
\* closes the session only as its owner.
LEMMA OwnedStep ==
  ASSUME Owned, NEW p \in Proc,
         \A q \in Proc \ {p} : req'[q] = req[q],
         req'[p].pc \in LockedSteps => lock' = p,
         req'[p].pc \in {"publish", "llm"} => status' = "active",
         lock' = lock \/ lock \in {NoProc, p},
         status' = status \/ status' = "active" \/ req[p].pc \in LockedSteps
  PROVE  Owned'
<1> SUFFICES ASSUME NEW q \in Proc, q # p
             PROVE  /\ req[q].pc \in LockedSteps => lock' = q
                    /\ req[q].pc \in {"publish", "llm"} => status' = "active"
  BY DEF Owned, LockedSteps, CloseSteps
<1>1. q # NoProc
  BY SettingsAssumption
<1>2. {"publish", "llm"} \subseteq LockedSteps
  BY DEF LockedSteps
<1> QED
  BY <1>1, <1>2 DEF Owned

\* Where a request stands after the steps of its program.
LEMMA StepOf ==
  ASSUME IInv, NEW p \in Proc
  PROVE  /\ req[p] \in Request
         /\ \A r : Become(p, r) => req'[p] = r /\ \A q \in Proc \ {p} : req'[q] = req[q]
         /\ \A step : Goto(p, step) =>
              req'[p].pc = step /\ \A q \in Proc \ {p} : req'[q] = req[q]
         /\ EndCoordination(p) =>
              req'[p].pc \in {"idle", "rewrite"} /\ \A q \in Proc \ {p} : req'[q] = req[q]
<1>1. req \in [Proc -> Request] /\ req[p] \in Request
  BY DEF IInv, TypeOK
<1>2. \A r : Become(p, r) => req'[p] = r /\ \A q \in Proc \ {p} : req'[q] = req[q]
  BY <1>1 DEF Become
<1>3. ASSUME NEW step, Goto(p, step)
      PROVE  req'[p].pc = step /\ \A q \in Proc \ {p} : req'[q] = req[q]
  BY <1>1, <1>3 DEF Goto, Become, Request
<1>4. ASSUME EndCoordination(p)
      PROVE  req'[p].pc \in {"idle", "rewrite"} /\ \A q \in Proc \ {p} : req'[q] = req[q]
  <2>1. CASE req[p].after = "rewrite"
    <3>1. Become(p, [Idle EXCEPT !.pc = "rewrite"])
      BY <1>4, <2>1 DEF EndCoordination
    <3> QED
      BY <1>2, <3>1, VariantsOfIdle
  <2>2. CASE req[p].after # "rewrite"
    <3>1. Become(p, Idle)
      BY <1>4, <2>2 DEF EndCoordination
    <3> QED
      BY <1>2, <3>1 DEF Idle
  <2> QED
    BY <2>1, <2>2
<1> QED
  BY <1>1, <1>2, <1>3, <1>4

\* The steps of a write do not disturb who owns the lock.
LEMMA OwnedWrite ==
  ASSUME IInv, Owned, NEW p \in Proc, WriteStep(p) \/ Crash(p)
  PROVE  Owned'
<1>1. UNCHANGED <<lock, status>>
  BY DEF WriteStep, WriteMessage, WriteOverCapacity, RewriteRefused, Crash, RequestOnly,
     sessionVars
<1>2. PICK r : Become(p, r) /\ r.pc \in {"idle", "check"}
  <2>1. CASE WriteMessage(p)
    BY <2>1, VariantsOfIdle DEF WriteMessage
  <2>2. CASE WriteOverCapacity(p)
    BY <2>2, VariantsOfIdle DEF WriteOverCapacity
  <2>3. CASE RewriteRefused(p) \/ Crash(p)
    <3>1. Become(p, Idle)
      BY <2>3 DEF RewriteRefused, Crash
    <3>2. Idle.pc = "idle"
      BY DEF Idle
    <3> QED
      BY <3>1, <3>2
  <2> QED
    BY <2>1, <2>2, <2>3 DEF WriteStep
<1>3. /\ \A q \in Proc \ {p} : req'[q] = req[q]
      /\ req'[p].pc \in {"idle", "check"}
  BY <1>2, StepOf
<1> QED
  BY <1>1, <1>3, OwnedStep DEF LockedSteps, CloseSteps

\* The steps of a compression work under the lock only as its owner.
LEMMA OwnedCompress ==
  ASSUME IInv, Owned, NEW p \in Proc, CompressStep(p)
  PROVE  Owned'
<1> USE DEF RequestOnly, sessionVars
<1>1. req[p] \in Request
  BY StepOf
<1>3. CASE \/ CheckTrigger(p) \/ BelowTrigger(p) \/ NothingToCompress(p) \/ StoreArchive(p)
           \/ LockTaken(p) \/ LlmFails(p) \/ FinalizeRefused(p)
  <2>1. /\ \A q \in Proc \ {p} : req'[q] = req[q]
        /\ req'[p].pc \in {"idle", "rewrite", "meta", "lock"}
        /\ UNCHANGED <<lock, status>>
    BY <1>3, StepOf DEF CheckTrigger, BelowTrigger, NothingToCompress, StoreArchive, LockTaken,
       LlmFails, FinalizeRefused
  <2> QED
    BY <2>1, OwnedStep DEF LockedSteps, CloseSteps
<1>4. CASE \/ ReadMeta(p) \/ ReadContext(p) \/ ReadContextForPending(p) \/ StoreArchiveFails(p)
  <2>1. UNCHANGED <<lock, status>>
    BY <1>4 DEF ReadMeta, ReadContext, ReadContextForPending, StoreArchiveFails
  <2>2. PICK r : Become(p, r) /\ r.pc \in {"context", "archive", "lock", "idle"}
    <3>1. CASE ReadMeta(p)
      <4> DEFINE r == [req[p] EXCEPT !.pc = "context", !.seen = pending, !.known = estimated]
      <4>1. r.pc = "context" /\ Become(p, r)
        BY <1>1, <3>1 DEF ReadMeta, Request
      <4> QED
        BY <4>1
    <3>2. CASE ReadContext(p)
      <4>1. PICK last \in head..tail :
              Become(p, [req[p] EXCEPT !.pc = "archive", !.ctx = Snapshot, !.known = 0,
                                       !.plan = Run(head + 1, last)])
        BY <3>2 DEF ReadContext
      <4> DEFINE r == [req[p] EXCEPT !.pc = "archive", !.ctx = Snapshot, !.known = 0,
                                     !.plan = Run(head + 1, last)]
      <4>2. r.pc = "archive" /\ Become(p, r)
        BY <1>1, <4>1 DEF Request
      <4> QED
        BY <4>2
    <3>3. CASE ReadContextForPending(p)
      <4> DEFINE r == [req[p] EXCEPT !.pc = "lock", !.ctx = Snapshot, !.known = 0,
                                     !.plan = req[p].seen, !.seen = NoBatch]
      <4>1. r.pc = "lock" /\ Become(p, r)
        BY <1>1, <3>3 DEF ReadContextForPending, Request
      <4> QED
        BY <4>1
    <3>4. CASE StoreArchiveFails(p)
      BY <3>4 DEF StoreArchiveFails, Idle
    <3> QED
      BY <1>4, <3>1, <3>2, <3>3, <3>4
  <2>3. /\ \A q \in Proc \ {p} : req'[q] = req[q]
        /\ req'[p].pc \in {"context", "archive", "lock", "idle"}
    BY <2>2, StepOf
  <2> QED
    BY <2>1, <2>3, OwnedStep DEF LockedSteps, CloseSteps
<1>5. CASE TakeLock(p)
  <2>1. /\ \A q \in Proc \ {p} : req'[q] = req[q]
        /\ req'[p].pc = "pending" /\ lock = NoProc /\ lock' = p /\ status' = status
    BY <1>5, StepOf DEF TakeLock
  <2> QED
    BY <2>1, OwnedStep
<1>6. CASE WritePending(p) \/ PendingRefused(p) \/ Publish(p)
  <2>1. /\ \A q \in Proc \ {p} : req'[q] = req[q]
        /\ req[p].pc \in {"pending", "publish"} /\ UNCHANGED <<lock, status>>
        /\ \/ req'[p].pc = "publish" /\ status = "active"
           \/ req'[p].pc = "unlock"
           \/ req'[p].pc = "llm" /\ req[p].pc = "publish"
    BY <1>6, StepOf DEF WritePending, PendingRefused, Publish, PendingAllowed, At
  <2>2. lock = p /\ (req[p].pc = "publish" => status = "active")
    BY <2>1 DEF Owned, LockedSteps
  <2> QED
    BY <2>1, <2>2, OwnedStep
<1>7. CASE Unlock(p) \/ Finalize(p)
  <2>1. (lock' = IF lock = p THEN NoProc ELSE lock) /\ status' = status
    BY <1>7 DEF Unlock, Finalize, ReleaseLock
  <2>2. \/ EndCoordination(p)
        \/ Become(p, [Idle EXCEPT !.pc = "check", !.after = req[p].after,
                                  !.rounds = req[p].rounds + 1])
    BY <1>7 DEF Unlock, Finalize
  <2>3. /\ \A q \in Proc \ {p} : req'[q] = req[q]
        /\ req'[p].pc \in {"idle", "rewrite", "check"}
    <3> DEFINE r == [Idle EXCEPT !.pc = "check", !.after = req[p].after,
                                 !.rounds = req[p].rounds + 1]
    <3>1. r.pc = "check"
      BY DEF Idle
    <3>2. EndCoordination(p) \/ Become(p, r)
      BY <2>2
    <3> HIDE DEF r
    <3> QED
      BY <3>1, <3>2, StepOf
  <2> QED
    BY <2>1, <2>3, OwnedStep DEF LockedSteps, CloseSteps
<1> QED
  BY <1>3, <1>4, <1>5, <1>6, <1>7 DEF CompressStep

\* The steps of a close work under the lock only as its owner.
LEMMA OwnedClose ==
  ASSUME IInv, Owned, NEW p \in Proc, CloseStep(p)
  PROVE  Owned'
<1> USE DEF RequestOnly, sessionVars
<1>1. req[p] \in Request
  BY StepOf
<1>3. CASE CloseTakeLock(p)
  <2>1. /\ \A q \in Proc \ {p} : req'[q] = req[q]
        /\ req'[p].pc = "closeEnter" /\ lock = NoProc /\ lock' = p /\ status' = status
    BY <1>3, StepOf DEF CloseTakeLock
  <2> QED
    BY <2>1, OwnedStep
<1>4. CASE CloseRelease(p)
  <2>1. /\ \A q \in Proc \ {p} : req'[q] = req[q]
        /\ req'[p].pc = "idle"
        /\ lock' = IF lock = p THEN NoProc ELSE lock
        /\ status' = status
    BY <1>4, StepOf DEF CloseRelease, ReleaseLock, Idle
  <2> QED
    BY <2>1, OwnedStep DEF LockedSteps, CloseSteps
<1>5. CASE ~CloseTakeLock(p) /\ ~CloseRelease(p)
  <2>1. req[p].pc \in CloseSteps /\ lock' = lock
    BY <1>5 DEF CloseStep, EnterClosing, CloseSessionGone, CloseReadMeta, CloseReadContext,
       CloseArchive, CloseBaseMismatch, CloseArchiveFails, CloseRevert, ClosePublish,
       CloseDelete, At, CloseSteps
  <2>2. lock = p
    BY <2>1 DEF Owned, LockedSteps
  <2>3. /\ \A q \in Proc \ {p} : req'[q] = req[q]
        /\ req'[p].pc \in CloseSteps
    <3>1. CASE EnterClosing(p) \/ CloseSessionGone(p) \/ CloseBaseMismatch(p)
      BY <3>1, StepOf DEF EnterClosing, CloseSessionGone, CloseBaseMismatch, CloseSteps
    <3>2. CASE CloseArchiveFails(p) \/ CloseRevert(p) \/ CloseDelete(p)
      BY <3>2, StepOf DEF CloseArchiveFails, AfterArchiveFailure, CloseRevert, CloseDelete,
         CloseSteps
    <3>3. CASE CloseReadMeta(p) \/ CloseReadContext(p)
      <4> DEFINE read    == [req[p] EXCEPT !.pc = "closeContext", !.seen = pending,
                                           !.ctx.version = version]
      <4> DEFINE covered == Count(req[p].seen)
      <4> DEFINE planned == [req[p] EXCEPT !.pc   = "closeArchive",
                                           !.seen = NoBatch,
                                           !.plan = Run(head + covered + 1, tail),
                                           !.todo = {req[p].seen} \ {NoBatch}]
      <4>1. Goto(p, "closeRevert") \/ Become(p, read) \/ Become(p, planned)
        BY <3>3 DEF CloseReadMeta, CloseReadContext
      <4>2. read.pc = "closeContext" /\ planned.pc = "closeArchive"
        BY <1>1 DEF Request
      <4> HIDE DEF read, planned
      <4> QED
        BY <4>1, <4>2, StepOf DEF CloseSteps
    <3>4. CASE CloseArchive(p)
      <4>1. PICK b \in [first : {req[p].plan.first}, last : Members(req[p].plan)] :
              Become(p, [req[p] EXCEPT !.plan.first = b.last + 1,
                                       !.todo = @ \cup {b}, !.persisted = TRUE])
        BY <3>4 DEF CloseArchive
      <4> DEFINE r == [req[p] EXCEPT !.plan.first = b.last + 1,
                                     !.todo = @ \cup {b}, !.persisted = TRUE]
      <4>2. r.pc = req[p].pc /\ Become(p, r)
        BY <1>1, <4>1 DEF Request
      <4> HIDE DEF r
      <4> QED
        BY <2>1, <4>2, StepOf
    <3>5. CASE ClosePublish(p)
      <4>1. PICK b \in req[p].todo : Become(p, [req[p] EXCEPT !.todo = @ \ {b}])
        BY <3>5 DEF ClosePublish
      <4> DEFINE r == [req[p] EXCEPT !.todo = @ \ {b}]
      <4>2. r.pc = req[p].pc /\ Become(p, r)
        BY <1>1, <4>1 DEF Request
      <4> HIDE DEF r
      <4> QED
        BY <2>1, <4>2, StepOf
    <3> QED
      BY <1>5, <3>1, <3>2, <3>3, <3>4, <3>5 DEF CloseStep
  <2>4. req'[p].pc \notin {"publish", "llm"} /\ req[p].pc \in LockedSteps
    BY <2>1, <2>3 DEF CloseSteps, LockedSteps
  <2> QED
    BY <2>1, <2>2, <2>3, <2>4, OwnedStep
<1> QED
  BY <1>3, <1>4, <1>5

\* If leases outlast their owners, the locked parts are entered only with the lock.
LEMMA OwnedInvariance ==
  ASSUME "lease" \notin Faults
  PROVE  Spec => []Owned
<1>1. Init => Owned
  <2>1. Idle.pc = "idle"
    BY DEF Idle
  <2> QED
    BY <2>1 DEF Init, Owned, LockedSteps, CloseSteps
<1>2. IInv /\ Owned /\ [Next]_vars => Owned'
  <2> SUFFICES ASSUME IInv, Owned, [Next]_vars PROVE Owned'
    OBVIOUS
  <2>1. CASE \E p \in Proc : WriteStep(p) \/ CompressStep(p) \/ CloseStep(p) \/ Crash(p)
    BY <2>1, OwnedWrite, OwnedCompress, OwnedClose
  <2>2. CASE LockExpires
    <3>1. req[lock].pc \notin LockedSteps /\ UNCHANGED <<req, status>>
      BY <2>2 DEF LockExpires, sessionVars
    <3> QED
      BY <3>1 DEF Owned
  <2>3. CASE UNCHANGED vars
    BY <2>3 DEF vars, sessionVars, Owned
  <2> QED
    BY <2>1, <2>2, <2>3 DEF Next
<1> QED
  BY <1>1, <1>2, Invariance, PTL DEF Spec

\* With a lock TTL that outlasts its owner, which validate_context enforces, no two
\* requests are ever inside the locked part of a compression or of a close.
THEOREM MutualExclusion ==
  ASSUME "lease" \notin Faults
  PROVE  Spec => []LockExclusive
<1>1. Owned => LockExclusive
  BY DEF Owned, LockExclusive
<1> QED
  BY <1>1, OwnedInvariance, PTL

\* No step moves the context of a session that is closing.
LEMMA FrozenStep ==
  ASSUME Owned, [Next]_vars, status = "closing"
  PROVE  UNCHANGED <<head, tail, version, pending>>
<1> DEFINE Frozen == UNCHANGED <<head, tail, version, pending>>
<1> USE DEF RequestOnly, contextVars
<1>1. ASSUME NEW p \in Proc, WriteStep(p) PROVE Frozen
  BY <1>1 DEF WriteStep, WriteMessage, Writable, WriteOverCapacity, RewriteRefused
<1>2. ASSUME NEW p \in Proc, CompressStep(p) PROVE Frozen
  <2>1. CASE Finalize(p)
    BY <2>1 DEF Finalize, At, Owned
  <2>2. CASE WritePending(p)
    BY <2>2 DEF WritePending, PendingAllowed
  <2>3. CASE ~Finalize(p) /\ ~WritePending(p)
    BY <1>2, <2>3 DEF CompressStep, CheckTrigger, BelowTrigger, ReadMeta, ReadContext,
       ReadContextForPending, NothingToCompress, StoreArchive, StoreArchiveFails, TakeLock,
       LockTaken, PendingRefused, Unlock, Publish, LlmFails, FinalizeRefused
  <2> QED
    BY <2>1, <2>2, <2>3
<1>3. ASSUME NEW p \in Proc, CloseStep(p) PROVE Frozen
  BY <1>3 DEF CloseStep, CloseTakeLock, EnterClosing, CloseSessionGone, CloseReadMeta,
     CloseReadContext, CloseArchive, CloseBaseMismatch, CloseArchiveFails, CloseRevert,
     ClosePublish, CloseDelete, CloseRelease
<1>4. ASSUME NEW p \in Proc, Crash(p) PROVE Frozen
  BY <1>4 DEF Crash
<1>5. CASE LockExpires
  BY <1>5 DEF LockExpires
<1>6. CASE UNCHANGED vars
  BY <1>6 DEF vars
<1> QED
  BY <1>1, <1>2, <1>3, <1>4, <1>5, <1>6 DEF Next

\* Then nothing moves the context of a session that is closing, not even a compression
\* that was running when the close began: the plan of a resumed close stays valid.
THEOREM ClosingFreezes ==
  ASSUME "lease" \notin Faults
  PROVE  Spec => ClosingFreezesContext
<1> DEFINE Frozen == status = "closing" => UNCHANGED <<head, tail, version, pending>>
<1>1. Owned /\ [Next]_vars => [Frozen]_vars
  BY FrozenStep
<1> QED
  BY <1>1, OwnedInvariance, PTL DEF Spec, ClosingFreezesContext

-----------------------------------------------------------------------------
(* What a deleted session leaves, when leases outlast their owners *)

\* Batches that are published, or that the close r still publishes.
Told(r) == r.todo \cup events \cup missed

\* What a close has read stays true until it deletes the session: the session is closing,
\* the pending fields are those it has seen, the rest it archives ends where the list
\* ends, and the messages before the rest are told of or stand for pending ones.
PlanHolds(r) ==
  /\ r.pc \in {"closeMeta", "closeContext", "closeArchive"} => status = "closing"
  /\ r.pc = "closeContext" => r.seen = pending
  /\ r.pc = "closeArchive" =>
       /\ r.plan.last = tail
       /\ pending # NoBatch => pending \in Told(r)
       /\ \A i \in (head + 1)..(r.plan.first - 1) :
            \/ i <= head + Count(pending)
            \/ \E b \in Told(r) : i \in Members(b) /\ Archived(b)

PlansHold == \A p \in Proc : PlanHolds(req[p])

\* Archives and published batches are never lost, and a deleted session never moves.
LEMMA StoresGrow ==
  ASSUME IInv, [Next]_vars
  PROVE  /\ archives \subseteq archives'
         /\ events \cup missed \subseteq events' \cup missed'
         /\ ~live => ~live' /\ UNCHANGED <<head, tail, pending>>
<1> DEFINE Grown == /\ archives \subseteq archives'
                    /\ events \cup missed \subseteq events' \cup missed'
                    /\ ~live => ~live' /\ UNCHANGED <<head, tail, pending>>
<1> USE DEF RequestOnly, sessionVars, contextVars, storeVars
<1>1. ASSUME NEW b, NEW base, NEW origin  PROVE archives \subseteq Stored(b, base, origin)
  BY DEF Stored
<1>2. ASSUME NEW p \in Proc, WriteStep(p) \/ Crash(p)  PROVE Grown
  BY <1>2 DEF WriteStep, WriteMessage, Writable, WriteOverCapacity, RewriteRefused, Crash
<1>3. ASSUME NEW p \in Proc, CompressStep(p)  PROVE Grown
  <2>1. CASE StoreArchive(p) \/ StoreArchiveFails(p)
    BY <1>1, <2>1 DEF StoreArchive, StoreArchiveFails
  <2>2. CASE Finalize(p) \/ WritePending(p)
    BY <2>2 DEF Finalize, FinalizeAllowed, WritePending, PendingAllowed
  <2>3. CASE \/ CheckTrigger(p) \/ BelowTrigger(p) \/ ReadMeta(p) \/ ReadContext(p)
             \/ ReadContextForPending(p) \/ NothingToCompress(p) \/ TakeLock(p) \/ LockTaken(p)
             \/ PendingRefused(p) \/ Unlock(p) \/ LlmFails(p) \/ FinalizeRefused(p)
    <3>1. UNCHANGED <<live, head, tail, pending, archives, events, missed>>
      BY <2>3 DEF CheckTrigger, BelowTrigger, ReadMeta, ReadContext, ReadContextForPending,
         NothingToCompress, TakeLock, LockTaken, PendingRefused, Unlock, LlmFails,
         FinalizeRefused
    <3> QED
      BY <3>1
  <2>4. CASE Publish(p)
    BY <2>4 DEF Publish
  <2> QED
    BY <1>3, <2>1, <2>2, <2>3, <2>4 DEF CompressStep
<1>4. ASSUME NEW p \in Proc, CloseStep(p)  PROVE Grown
  <2>1. CASE CloseArchive(p)
    <3>1. \E b : archives' = Stored(b, req[p].ctx.version, "close")
      BY <2>1 DEF CloseArchive
    <3>2. UNCHANGED <<live, head, tail, pending, events, missed>>
      BY <2>1 DEF CloseArchive
    <3> QED
      BY <1>1, <3>1, <3>2
  <2>2. CASE CloseArchiveFails(p)
    <3>1. archives' = archives \/ \E b : archives' = Stored(b, req[p].ctx.version, "close")
      BY <2>2 DEF CloseArchiveFails
    <3>2. UNCHANGED <<live, head, tail, pending, events, missed>>
      BY <2>2 DEF CloseArchiveFails
    <3> QED
      BY <1>1, <3>1, <3>2
  <2>3. CASE ClosePublish(p)
    BY <2>3 DEF ClosePublish
  <2>4. CASE CloseDelete(p) \/ CloseRevert(p)
    <3>1. ~live => ~live'
      BY <2>4, Zenon DEF CloseDelete, CloseRevert
    <3>2. UNCHANGED <<head, tail, pending, archives, events, missed>>
      BY <2>4 DEF CloseDelete, CloseRevert
    <3> QED
      BY <3>1, <3>2
  <2>5. CASE \/ CloseTakeLock(p) \/ EnterClosing(p) \/ CloseSessionGone(p) \/ CloseReadMeta(p)
             \/ CloseReadContext(p) \/ CloseBaseMismatch(p) \/ CloseRelease(p)
    BY <2>5 DEF CloseTakeLock, EnterClosing, CloseSessionGone, CloseReadMeta, CloseReadContext,
       CloseBaseMismatch, CloseRelease
  <2> QED
    BY <1>4, <2>1, <2>2, <2>3, <2>4, <2>5 DEF CloseStep
<1>5. CASE LockExpires \/ UNCHANGED vars
  BY <1>5 DEF LockExpires, vars
<1> QED
  BY <1>2, <1>3, <1>4, <1>5 DEF Next

\* The others do not disturb what a close relies on: it owns the lock.
LEMMA PlanStays ==
  ASSUME IInv, Owned, [Next]_vars, NEW q \in Proc, PlanHolds(req[q]), req'[q] = req[q]
  PROVE  PlanHolds(req[q])'
<1>1. CASE req[q].pc \in {"closeMeta", "closeContext", "closeArchive"}
  <2>1. status = "closing" /\ lock = q
    BY <1>1 DEF PlanHolds, Owned, LockedSteps, CloseSteps
  <2>2. UNCHANGED <<head, tail, pending>>
    BY <2>1, FrozenStep
  <2>3. status' = "closing"
    <3>1. CASE \E p \in Proc : CloseRevert(p)
      <4>1. PICK p \in Proc : CloseRevert(p)
        BY <3>1
      <4>2. lock = p /\ req[p].pc = "closeRevert"
        BY <4>1 DEF CloseRevert, At, Owned, LockedSteps, CloseSteps
      <4> QED
        BY <1>1, <2>1, <4>2
    <3>2. CASE ~\E p \in Proc : CloseRevert(p)
      <4> USE DEF RequestOnly, sessionVars
      <4>1. ASSUME NEW p \in Proc, WriteStep(p) \/ CompressStep(p) \/ Crash(p)
            PROVE  status' = status
        BY <4>1 DEF WriteStep, WriteMessage, WriteOverCapacity, RewriteRefused, Crash, CompressStep,
           CheckTrigger, BelowTrigger, ReadMeta, ReadContext, ReadContextForPending,
           NothingToCompress, StoreArchive, StoreArchiveFails, TakeLock, LockTaken, WritePending,
           PendingRefused, Unlock, Publish, LlmFails, Finalize, FinalizeRefused
      <4>2. ASSUME NEW p \in Proc, CloseStep(p)
            PROVE  status' \in {status, "closing"}
        BY <3>2, <4>2 DEF CloseStep, CloseTakeLock, EnterClosing, CloseSessionGone, CloseReadMeta,
           CloseReadContext, CloseArchive, CloseBaseMismatch, CloseArchiveFails, ClosePublish,
           CloseDelete, CloseRelease
      <4>3. CASE LockExpires \/ UNCHANGED vars
        BY <2>1, <4>3 DEF LockExpires, vars
      <4> QED
        BY <2>1, <4>1, <4>2, <4>3 DEF Next
    <3> QED
      BY <3>1, <3>2
  <2>4. Told(req[q]) \subseteq Told(req[q])' /\ \A b : Archived(b) => Archived(b)'
    BY StoresGrow DEF Told, Archived
  <2> QED
    BY <2>2, <2>3, <2>4 DEF PlanHolds
<1>2. CASE req[q].pc \notin {"closeMeta", "closeContext", "closeArchive"}
  BY <1>2 DEF PlanHolds
<1> QED
  BY <1>1, <1>2

\* A close that enters, reads or archives keeps its own plan.
LEMMA PlanStep ==
  ASSUME IInv, Owned, PlansHold, NEW p \in Proc,
         WriteStep(p) \/ CompressStep(p) \/ CloseStep(p) \/ Crash(p)
  PROVE  PlanHolds(req[p])'
<1> DEFINE Close == {"closeMeta", "closeContext", "closeArchive"}
<1> USE DEF RequestOnly, sessionVars, contextVars
<1>1. /\ req[p] \in Request /\ Sound(req[p]) /\ PlanHolds(req[p])
      /\ head \in Nat /\ tail \in Nat /\ pending \in Batch
      /\ archives \subseteq archives' /\ events \cup missed \subseteq events' \cup missed'
  <2>1. archives \subseteq archives' /\ events \cup missed \subseteq events' \cup missed'
    BY StoresGrow DEF Next
  <2> QED
    BY <2>1 DEF IInv, TypeOK, ReadsStaySound, PlansHold, Position
<1>2. ASSUME req'[p].pc \notin Close  PROVE PlanHolds(req[p])'
  BY <1>2 DEF PlanHolds
<1>3. CASE WriteStep(p) \/ Crash(p)
  <2>1. PICK r : Become(p, r) /\ r.pc \in {"idle", "check"}
    <3>1. Idle.pc = "idle"
      BY DEF Idle
    <3> QED
      BY <1>3, <3>1, VariantsOfIdle DEF WriteStep, WriteMessage, WriteOverCapacity, RewriteRefused,
         Crash
  <2> QED
    BY <1>2, <2>1, StepOf
<1>4. CASE CompressStep(p)
  <2>1. req'[p].pc \notin Close
    <3>1. CASE \/ CheckTrigger(p) \/ BelowTrigger(p) \/ NothingToCompress(p) \/ StoreArchive(p)
               \/ LockTaken(p) \/ LlmFails(p) \/ FinalizeRefused(p) \/ TakeLock(p)
               \/ WritePending(p) \/ PendingRefused(p) \/ Publish(p) \/ Unlock(p)
      BY <3>1, StepOf DEF CheckTrigger, BelowTrigger, NothingToCompress, StoreArchive, LockTaken,
         LlmFails, FinalizeRefused, TakeLock, WritePending, PendingRefused, Publish, Unlock
    <3>2. CASE ReadMeta(p)
      <4> DEFINE r == [req[p] EXCEPT !.pc = "context", !.seen = pending, !.known = estimated]
      <4>1. r.pc = "context" /\ Become(p, r)
        BY <1>1, <3>2 DEF ReadMeta, Request
      <4> HIDE DEF r
      <4> QED
        BY <4>1, StepOf
    <3>3. CASE ReadContext(p)
      <4>1. PICK last \in head..tail :
              Become(p, [req[p] EXCEPT !.pc = "archive", !.ctx = Snapshot, !.known = 0,
                                       !.plan = Run(head + 1, last)])
        BY <3>3 DEF ReadContext
      <4> DEFINE r == [req[p] EXCEPT !.pc = "archive", !.ctx = Snapshot, !.known = 0,
                                     !.plan = Run(head + 1, last)]
      <4>2. r.pc = "archive" /\ Become(p, r)
        BY <1>1, <4>1 DEF Request
      <4> HIDE DEF r
      <4> QED
        BY <4>2, StepOf
    <3>4. CASE ReadContextForPending(p)
      <4> DEFINE r == [req[p] EXCEPT !.pc = "lock", !.ctx = Snapshot, !.known = 0,
                                     !.plan = req[p].seen, !.seen = NoBatch]
      <4>1. r.pc = "lock" /\ Become(p, r)
        BY <1>1, <3>4 DEF ReadContextForPending, Request
      <4> HIDE DEF r
      <4> QED
        BY <4>1, StepOf
    <3>5. CASE StoreArchiveFails(p)
      BY <3>5, StepOf DEF StoreArchiveFails, Idle
    <3>6. CASE Finalize(p)
      <4> DEFINE r == [Idle EXCEPT !.pc = "check", !.after = req[p].after,
                                   !.rounds = req[p].rounds + 1]
      <4>1. r.pc = "check" /\ (EndCoordination(p) \/ Become(p, r))
        BY <3>6 DEF Idle, Finalize
      <4> HIDE DEF r
      <4> QED
        BY <4>1, StepOf
    <3> QED
      BY <1>4, <3>1, <3>2, <3>3, <3>4, <3>5, <3>6 DEF CompressStep
  <2> QED
    BY <1>2, <2>1
<1>5. CASE EnterClosing(p)
  BY <1>5, StepOf DEF EnterClosing, PlanHolds
<1>6. CASE CloseReadMeta(p)
  <2> DEFINE r == [req[p] EXCEPT !.pc = "closeContext", !.seen = pending, !.ctx.version = version]
  <2>1. r.pc = "closeContext" /\ r.seen = pending /\ Become(p, r)
    BY <1>1, <1>6 DEF CloseReadMeta, Request
  <2> HIDE DEF r
  <2>2. req'[p] = r /\ status = "closing" /\ UNCHANGED <<status, pending>>
    BY <1>1, <1>6, <2>1, StepOf DEF CloseReadMeta, PlanHolds, At
  <2> QED
    BY <2>1, <2>2 DEF PlanHolds
<1>7. CASE CloseReadContext(p)
  <2> DEFINE r == [req[p] EXCEPT !.pc   = "closeArchive",
                                 !.seen = NoBatch,
                                 !.plan = Run(head + Count(req[p].seen) + 1, tail),
                                 !.todo = {req[p].seen} \ {NoBatch}]
  <2>1. req[p].seen = pending /\ status = "closing" /\ UNCHANGED <<status, pending, head, tail>>
    BY <1>1, <1>7 DEF CloseReadContext, PlanHolds, At
  <2>2. CASE Become(p, r)
    <3>1. /\ r.pc = "closeArchive" /\ r.plan.last = tail
          /\ r.plan.first = head + Count(pending) + 1 /\ r.todo = {pending} \ {NoBatch}
      BY <1>1, <2>1 DEF Request, Run
    <3> HIDE DEF r
    <3>2. req'[p] = r
      BY <2>2, StepOf
    <3>3. Count(pending) \in Int
      BY <1>1, MessagesAssumption DEF Count, Batch, Position
    <3>4. \A i \in (head + 1)..(r.plan.first - 1) : i <= head + Count(pending)
      BY <1>1, <3>1, <3>3
    <3>5. pending # NoBatch => pending \in Told(req[p])'
      BY <3>1, <3>2 DEF Told
    <3> QED
      BY <2>1, <3>1, <3>2, <3>4, <3>5 DEF PlanHolds, Told
  <2>3. CASE Goto(p, "closeRevert")
    BY <1>2, <2>3, StepOf
  <2> QED
    BY <1>7, <2>2, <2>3 DEF CloseReadContext
<1>8. CASE CloseArchive(p)
  <2>1. PICK b \in [first : {req[p].plan.first}, last : Members(req[p].plan)] :
          /\ archives' = Stored(b, req[p].ctx.version, "close")
          /\ Become(p, [req[p] EXCEPT !.plan.first = b.last + 1,
                                      !.todo = @ \cup {b}, !.persisted = TRUE])
    BY <1>8 DEF CloseArchive
  <2> DEFINE r == [req[p] EXCEPT !.plan.first = b.last + 1,
                                 !.todo = @ \cup {b}, !.persisted = TRUE]
  <2>2. b \in Batch /\ b.first = req[p].plan.first
    BY <1>8, CloseBatchIsRun DEF CloseArchive
  <2>3. /\ r.pc = "closeArchive" /\ r.plan.last = req[p].plan.last
        /\ r.plan.first = b.last + 1 /\ r.todo = req[p].todo \cup {b}
    BY <1>1, <1>8 DEF CloseArchive, At, Request, Batch
  <2>4. Become(p, r)
    BY <2>1
  <2> HIDE DEF r
  <2>5. req'[p] = r /\ UNCHANGED <<status, pending, head, tail, events, missed>>
    BY <1>8, <2>4, StepOf DEF CloseArchive
  <2>6. \A c : Archived(c) => Archived(c)'
    BY <1>1 DEF Archived
  <2>7. Archived(b)'
    <3>1. req[p].ctx.version \in Nat
      BY <1>1 DEF Request, Context
    <3>2. \E a \in archives' : a.batch = b
      BY <2>1, <2>2, <3>1, StoredArchives DEF IInv, TypeOK
    <3> QED
      BY <3>2 DEF Archived
  <2>8. status = "closing" /\ req[p].plan.last = tail /\ (pending # NoBatch => pending \in Told(req[p]))
    BY <1>1, <1>8 DEF CloseArchive, PlanHolds, At
  <2>9. Told(req[p])' = Told(req[p]) \cup {b}
    BY <2>3, <2>5 DEF Told
  <2>10. ASSUME NEW i \in (head + 1)..(r.plan.first - 1)
         PROVE  i <= head + Count(pending) \/ \E c \in Told(req[p])' : i \in Members(c) /\ Archived(c)'
    <3>1. i \in Int /\ b.first \in Int /\ b.last \in Int
      <4>1. b.first \in 1..(MaxMessages + 1) /\ b.last \in 0..MaxMessages
        BY <2>2 DEF Batch, Position
      <4>2. b.first \in Int /\ b.last \in Int
        BY <4>1, MessagesAssumption
      <4> QED
        BY <1>1, <2>3, <2>10, <4>2
    <3>2. CASE i <= req[p].plan.first - 1
      <4>1. i \in (head + 1)..(req[p].plan.first - 1)
        BY <1>1, <2>2, <3>1, <3>2, <2>10
      <4>2. i <= head + Count(pending) \/ \E c \in Told(req[p]) : i \in Members(c) /\ Archived(c)
        BY <1>1, <1>8, <4>1 DEF CloseArchive, PlanHolds, At
      <4> QED
        BY <2>6, <2>9, <4>2
    <3>3. CASE ~(i <= req[p].plan.first - 1)
      <4>1. i \in Members(b)
        BY <1>1, <2>2, <2>3, <3>1, <3>3, <2>10 DEF Members
      <4> QED
        BY <2>7, <2>9, <4>1
    <3> QED
      BY <3>2, <3>3
  <2> QED
    BY <2>3, <2>5, <2>8, <2>9, <2>10 DEF PlanHolds, Told
<1>9. CASE ClosePublish(p)
  <2>1. PICK b \in req[p].todo :
          /\ \/ events' = events \cup {b} /\ missed' = missed
             \/ missed' = missed \cup {b} /\ events' = events
          /\ Become(p, [req[p] EXCEPT !.todo = @ \ {b}])
    BY <1>9 DEF ClosePublish
  <2> DEFINE r == [req[p] EXCEPT !.todo = @ \ {b}]
  <2>2. /\ r.pc = "closeArchive" /\ r.plan = req[p].plan /\ r.todo = req[p].todo \ {b}
        /\ Become(p, r)
    BY <1>1, <1>9, <2>1 DEF ClosePublish, At, Request
  <2> HIDE DEF r
  <2>3. req'[p] = r /\ UNCHANGED <<status, pending, head, tail, archives>>
    BY <1>9, <2>2, StepOf DEF ClosePublish
  <2>4. Told(req[p]) \subseteq Told(req[p])'
    BY <2>1, <2>2, <2>3 DEF Told
  <2>5. /\ status = "closing" /\ req[p].plan.last = tail
        /\ pending # NoBatch => pending \in Told(req[p])
        /\ \A i \in (head + 1)..(req[p].plan.first - 1) :
             \/ i <= head + Count(pending)
             \/ \E c \in Told(req[p]) : i \in Members(c) /\ Archived(c)
    BY <1>1, <1>9 DEF ClosePublish, PlanHolds, At
  <2> QED
    BY <2>2, <2>3, <2>4, <2>5 DEF PlanHolds, Told, Archived
<1>10. CASE \/ CloseTakeLock(p) \/ CloseSessionGone(p) \/ CloseBaseMismatch(p)
            \/ CloseArchiveFails(p) \/ CloseRevert(p) \/ CloseDelete(p)
  <2>1. req'[p].pc \notin Close
    <3>1. CASE CloseArchiveFails(p)
      BY <3>1, StepOf DEF CloseArchiveFails, AfterArchiveFailure
    <3>2. CASE CloseTakeLock(p) \/ CloseSessionGone(p) \/ CloseBaseMismatch(p)
      BY <3>2, StepOf DEF CloseTakeLock, CloseSessionGone, CloseBaseMismatch
    <3>3. CASE CloseRevert(p) \/ CloseDelete(p)
      <4>1. Goto(p, "closeRelease")
        BY <3>3, Zenon DEF CloseRevert, CloseDelete
      <4> QED
        BY <4>1, StepOf
    <3> QED
      BY <1>10, <3>1, <3>2, <3>3
  <2> QED
    BY <1>2, <2>1
<1>11. CASE CloseRelease(p)
  <2>1. req'[p].pc \notin Close
    BY <1>11, StepOf DEF CloseRelease, Idle
  <2> QED
    BY <1>2, <2>1
<1> QED
  BY <1>3, <1>4, <1>5, <1>6, <1>7, <1>8, <1>9, <1>10, <1>11 DEF CloseStep

\* Only a close deletes the session, and it has told of everything before.
LEMMA DeletedStep ==
  ASSUME IInv, PlansHold, DeletedIsPublished, [Next]_vars
  PROVE  DeletedIsPublished'
<1> USE DEF RequestOnly, sessionVars
<1>1. CASE ~live
  <2>1. UNCHANGED <<head, tail, pending>> /\ events \cup missed \subseteq events' \cup missed'
    BY <1>1, StoresGrow
  <2>2. \A b : Archived(b) => Archived(b)'
    BY StoresGrow DEF Archived
  <2> QED
    BY <1>1, <2>1, <2>2 DEF DeletedIsPublished, AtListHead
<1>2. CASE live' <=> live
  BY <1>1, <1>2 DEF DeletedIsPublished
<1>3. CASE \E p \in Proc : CloseDelete(p)
  <2>1. PICK p \in Proc : CloseDelete(p)
    BY <1>3
  <2>2. /\ UNCHANGED <<head, tail, pending, archives, events, missed>>
        /\ req[p].pc = "closeArchive" /\ ~RestToArchive(p) /\ req[p].todo = {}
    BY <2>1 DEF CloseDelete, At, contextVars, storeVars
  <2>3. /\ head \in Nat /\ tail \in Nat /\ pending \in Batch /\ req[p].plan \in Batch
        /\ TrimmedIsPublished /\ (pending # NoBatch => Archived(pending))
    BY DEF IInv, TypeOK, Position, Request, ReadsStaySound
  <2>4. /\ req[p].plan.last = tail
        /\ pending # NoBatch => pending \in events \cup missed
        /\ \A i \in (head + 1)..(req[p].plan.first - 1) :
             \/ i <= head + Count(pending)
             \/ \E b \in events \cup missed : i \in Members(b) /\ Archived(b)
    BY <2>2 DEF PlansHold, PlanHolds, Told
  <2>5. pending.first \in Int /\ pending.last \in Int /\ req[p].plan.first \in Int
    <3>1. pending.first \in 1..(MaxMessages + 1) /\ pending.last \in 0..MaxMessages
          /\ req[p].plan.first \in 1..(MaxMessages + 1)
      BY <2>3 DEF Batch, Position
    <3> QED
      BY <3>1, MessagesAssumption
  <2>6. req[p].plan.first > tail
    BY <2>2, <2>3, <2>4, <2>5 DEF RestToArchive
  <2>7. ASSUME pending = NoBatch \/ AtListHead(pending), NEW i \in 1..tail
        PROVE  \E b \in events \cup missed : i \in Members(b) /\ Archived(b)
    <3>1. i \in Int
      BY <2>3
    <3>2. CASE i <= head
      BY <2>3, <2>7, <3>1, <3>2 DEF TrimmedIsPublished
    <3>3. CASE i > head /\ i <= head + Count(pending)
      <4>1. pending # NoBatch
        <5>1. Count(NoBatch) = 0
          BY DEF Count, NoBatch
        <5> QED
          BY <2>3, <3>1, <3>3, <5>1
      <4>2. pending.first = head + 1 /\ pending.last = head + Count(pending)
        BY <2>7, <4>1 DEF AtListHead
      <4>3. i \in Members(pending)
        BY <2>3, <2>5, <3>1, <3>3, <4>2 DEF Members
      <4> QED
        BY <2>3, <2>4, <4>1, <4>3
    <3>4. CASE i > head /\ ~(i <= head + Count(pending))
      <4>1. i \in (head + 1)..(req[p].plan.first - 1)
        BY <2>3, <2>5, <2>6, <2>7, <3>1, <3>4
      <4> QED
        BY <2>4, <3>4, <4>1
    <3> QED
      BY <2>3, <3>1, <3>2, <3>3, <3>4
  <2> QED
    BY <2>2, <2>7 DEF DeletedIsPublished, AtListHead, Archived
<1>4. ASSUME live, ~\E p \in Proc : CloseDelete(p)  PROVE live' <=> live
  <2>1. ASSUME NEW p \in Proc, WriteStep(p) \/ CompressStep(p) \/ Crash(p)  PROVE UNCHANGED live
    BY <2>1 DEF WriteStep, WriteMessage, WriteOverCapacity, RewriteRefused, Crash, CompressStep,
       CheckTrigger, BelowTrigger, ReadMeta, ReadContext, ReadContextForPending,
       NothingToCompress, StoreArchive, StoreArchiveFails, TakeLock, LockTaken, WritePending,
       PendingRefused, Unlock, Publish, LlmFails, Finalize, FinalizeRefused
  <2>2. ASSUME NEW p \in Proc, CloseStep(p)  PROVE UNCHANGED live
    BY <1>4, <2>2 DEF CloseStep, CloseTakeLock, EnterClosing, CloseSessionGone, CloseReadMeta,
       CloseReadContext, CloseArchive, CloseBaseMismatch, CloseArchiveFails, CloseRevert,
       ClosePublish, CloseRelease
  <2>3. CASE LockExpires \/ UNCHANGED vars
    BY <2>3 DEF LockExpires, vars
  <2> QED
    BY <2>1, <2>2, <2>3 DEF Next
<1> QED
  BY <1>1, <1>2, <1>3, <1>4

\* A step moves one request.
LEMMA OnlyOneMoves ==
  ASSUME IInv, [Next]_vars, NEW q \in Proc, req'[q] # req[q]
  PROVE  WriteStep(q) \/ CompressStep(q) \/ CloseStep(q) \/ Crash(q)
<1>1. ASSUME NEW p \in Proc, (\E r : Become(p, r)) \/ (\E step : Goto(p, step)) \/ EndCoordination(p)
      PROVE  p = q
  BY <1>1, StepOf
<1>2. ASSUME NEW p \in Proc, WriteStep(p) \/ Crash(p)  PROVE p = q
  <2>1. \E r : Become(p, r)
    BY <1>2 DEF WriteStep, WriteMessage, WriteOverCapacity, RewriteRefused, Crash
  <2> QED
    BY <1>1, <2>1
<1>3. ASSUME NEW p \in Proc, CompressStep(p)  PROVE p = q
  <2>1. (\E r : Become(p, r)) \/ (\E step : Goto(p, step)) \/ EndCoordination(p)
    BY <1>3 DEF CompressStep,
       CheckTrigger, BelowTrigger, ReadMeta, ReadContext, ReadContextForPending,
       NothingToCompress, StoreArchive, StoreArchiveFails, TakeLock, LockTaken, WritePending,
       PendingRefused, Unlock, Publish, LlmFails, Finalize, FinalizeRefused
  <2> QED
    BY <1>1, <2>1
<1>4. ASSUME NEW p \in Proc, CloseStep(p)  PROVE p = q
  <2>1. (\E r : Become(p, r)) \/ (\E step : Goto(p, step))
    BY <1>4, Zenon DEF CloseStep, CloseTakeLock, EnterClosing, CloseSessionGone, CloseReadMeta,
       CloseReadContext, CloseArchive, CloseBaseMismatch, CloseArchiveFails, CloseRevert,
       ClosePublish, CloseDelete, CloseRelease
  <2> QED
    BY <1>1, <2>1
<1>5. ~LockExpires /\ ~UNCHANGED vars
  BY DEF LockExpires, vars
<1> QED
  BY <1>2, <1>3, <1>4, <1>5 DEF Next

\* A session is deleted only when an event of an archive of each of its messages has been
\* published, or its failure was logged: whatever compressions ran before the close, whatever
\* died or failed in earlier attempts to close, as long as the pending archive, if there is
\* one, holds the first messages of the list.
THEOREM DeletedArePublished ==
  ASSUME "lease" \notin Faults
  PROVE  Spec => []DeletedIsPublished
<1>1. Init => PlansHold /\ DeletedIsPublished
  BY DEF Init, PlansHold, PlanHolds, DeletedIsPublished, Idle
<1>2. IInv /\ Owned /\ PlansHold /\ DeletedIsPublished /\ [Next]_vars
        => PlansHold' /\ DeletedIsPublished'
  <2> SUFFICES ASSUME IInv, Owned, PlansHold, DeletedIsPublished, [Next]_vars
               PROVE  PlansHold'
    BY DeletedStep
  <2> SUFFICES ASSUME NEW q \in Proc  PROVE PlanHolds(req[q])'
    BY DEF PlansHold
  <2>1. CASE req'[q] = req[q]
    BY <2>1, PlanStays DEF PlansHold
  <2>2. CASE req'[q] # req[q]
    <3>1. WriteStep(q) \/ CompressStep(q) \/ CloseStep(q) \/ Crash(q)
      BY <2>2, OnlyOneMoves
    <3> QED
      BY <3>1, PlanStep
  <2> QED
    BY <2>1, <2>2
<1> QED
  BY <1>1, <1>2, OwnedInvariance, Invariance, PTL DEF Spec
=============================================================================
