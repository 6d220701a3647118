------------------------ MODULE ExecutionEntryProofs ------------------------
(***************************************************************************)
(* Safety of an execution entry for any number of DoGet, CancelExecution   *)
(* and DoPut calls, stops and seals, and frames, and the refinement of     *)
(* Lifecycle.                                                              *)
(***************************************************************************)
EXTENDS ExecutionEntry, FiniteSetTheorems, TLAPS

\* The engine runs, or has returned and finish has not run yet.
Active == {"run", "publish", "await", "unwind", "sealing", "fatal"}

\* Handlers that active_handlers_ counts.
Counted == {"uploading", "failing", "failed", "throwing", "detaching"}
CountedHandlers == {h \in Uploads : handler[h] \in Counted}

\* The DoGet that has claimed the entry.
Owner(r) == reader[r] \in {"starting", "reading", "sending", "closing", "closed"}

Settled == \A h \in Uploads : inputs[h] # "open"

\* The flags of the entry: terminal, quiesced, notified and forgotten, in this order.
FlagInv ==
  /\ terminal <=> status # "none"
  /\ status = "succeeded" => quiesced
  /\ quiesced => terminal /\ worker \notin Active
  /\ worker \in {"settleOk", "settleFailed", "leaving", "ended"} => quiesced
  /\ worker = "unwind" => terminal
  /\ terminal_notified => quiesced
  /\ ~registered => quiesced

\* What a thread inside cancel, fail_gpu_unavailable or their tail relies on.
CallInv ==
  \A t \in Threads :
    /\ call[t] \in {"interruptUnstarted", "quiesce"} => terminal /\ worker = "none"
    /\ call[t] = "remove" => quiesced

\* Once an entry is quiesced, whoever quiesced it has settled the inputs or is about to.
SettleInv ==
  /\ \A t \in Threads : call[t] = "quiesce" => Settled
  /\ quiesced /\ worker \in {"none", "leaving", "ended"} => Settled

\* One DoGet owns the entry; only it starts the worker, once.
ClaimInv ==
  /\ \A r, q \in Readers : Owner(r) /\ Owner(q) => r = q
  /\ \A r \in Readers : Owner(r) => claimed
  /\ \A r \in Readers : reader[r] = "starting" => worker = "none"
  /\ worker # "none" => claimed

\* The slot is full only while the worker waits for the frame in it to be taken, and what
\* was taken are the frames up to it.
FrameInv ==
  /\ frame # NoFrame => worker = "await" /\ ~terminal /\ frame = sequence
  /\ \A i \in 1..Len(received) : received[i] = i
  /\ ~terminal /\ worker \in {"none", "run"} => Len(received) = sequence
  /\ ~terminal /\ worker = "publish" => Len(received) + 1 = sequence
  /\ ~terminal /\ worker = "await" =>
       Len(received) + (IF frame = NoFrame THEN 0 ELSE 1) = sequence
  /\ status = "succeeded" => Len(received) = sequence
  /\ \A r \in Readers : answer[r] = "succeeded" => status = "succeeded"

\* A CancelExecution that waits for the worker, or has answered, found the entry quiesced.
AnswerInv ==
  \A c \in Cancellers :
    /\ canceller[c] \in {"joining", "quiesced"} => quiesced
    /\ canceller[c] = "quiesced" => worker \in {"none", "ended"}

\* active_handlers_ counts the handlers.
CountInv == active_handlers = Cardinality(CountedHandlers)

IInv ==
  TypeOK /\ FlagInv /\ CallInv /\ SettleInv /\ ClaimInv /\ FrameInv /\ AnswerInv /\ CountInv

USE DEF stateVars, inputVars, registryVars, workerVars, readerVars, otherVars, NoFrame

-----------------------------------------------------------------------------
(* Types.  Each kind of thread keeps them. *)

\* A counted handler makes the counter positive.
LEMMA Counting == ASSUME CountInv
                  PROVE  /\ IsFiniteSet(CountedHandlers) /\ active_handlers \in Nat
                         /\ CountedHandlers # {} => active_handlers - 1 \in Nat
<1>1. CountedHandlers \subseteq Uploads
  BY DEF CountedHandlers
<1>2. IsFiniteSet(CountedHandlers) /\ Cardinality(CountedHandlers) \in Nat
  BY <1>1, UploadsAssumption, FS_Subset, FS_CardinalityType
<1>3. CountedHandlers # {} => Cardinality(CountedHandlers) # 0
  BY <1>2, FS_EmptySet
<1> QED BY <1>2, <1>3 DEF CountInv

LEMMA ThreadKinds == /\ Readers \subseteq Threads /\ Cancellers \subseteq Threads /\ Uploads \subseteq Threads
                     /\ Stoppers \subseteq Threads /\ "worker" \in Threads /\ "reaper" \in Threads
BY DEF Threads

\* The first critical section of a cancellation, by whichever thread.
LEMMA EnterCancelType ==
  ASSUME TypeOK, NEW t \in Threads, NEW why \in Statuses, EnterCancel(t, why)
  PROVE  terminal' \in BOOLEAN /\ status' \in Statuses /\ frame' \in 0..MaxFrames /\ call' \in [Threads -> CallStates]
<1>1. terminal' \in BOOLEAN /\ status' \in Statuses
  BY DEF TypeOK, EnterCancel, SetTerminal
<1>2. frame' \in 0..MaxFrames
  BY MaxFramesAssumption DEF TypeOK, EnterCancel
<1>3. call' \in [Threads -> CallStates]
  BY DEF TypeOK, EnterCancel, CallStates
<1> QED BY <1>1, <1>2, <1>3

LEMMA CallType == ASSUME TypeOK, NEW t \in Threads, InCall(t) PROVE TypeOK'
<1> USE DEF CallStates
<1>1. CASE Interrupt(t)
  BY <1>1 DEF TypeOK, Interrupt, CancelAll
<1>2. CASE Quiesce(t)
  BY <1>2 DEF TypeOK, Quiesce
<1>3. CASE NotifyTerminal(t)
  BY <1>3 DEF TypeOK, NotifyTerminal
<1>4. CASE Remove(t)
  BY <1>4 DEF TypeOK, Remove
<1> QED BY <1>1, <1>2, <1>3, <1>4 DEF InCall

LEMMA ReaderType == ASSUME TypeOK, NEW r \in Readers, Reader(r) PROVE TypeOK'
<1> USE DEF ReaderGoes, ReaderStates
<1>1. CASE LookupToClaim(r) \/ Start(r) \/ ReadEnd(r) \/ Send(r)
  BY <1>1 DEF TypeOK, LookupToClaim, Start, ReadEnd, Send, WorkerStates
<1>2. CASE Claim(r)
  BY <1>2 DEF TypeOK, Claim
<1>3. CASE ReadCancelled(r)
  BY <1>3, ThreadKinds, EnterCancelType DEF TypeOK, ReadCancelled, Statuses
<1>4. CASE Close(r)
  BY <1>4, ThreadKinds, EnterCancelType DEF TypeOK, Close, Statuses
<1>5. CASE ReadFrame(r)
  <2>1. frame \in 1..MaxFrames /\ Append(received, frame) \in Seq(1..MaxFrames)
    BY <1>5, MaxFramesAssumption DEF TypeOK, ReadFrame
  <2>2. received' \in Seq(1..MaxFrames) /\ frame' \in 0..MaxFrames
    BY <1>5, <2>1, MaxFramesAssumption DEF ReadFrame
  <2>3. reader' \in [Readers -> ReaderStates] /\ asleep' \in BOOLEAN
    BY <1>5 DEF TypeOK, ReadFrame
  <2> QED BY <1>5, <2>2, <2>3 DEF TypeOK, ReadFrame
<1> QED BY <1>1, <1>2, <1>3, <1>4, <1>5 DEF Reader

LEMMA WorkerType == ASSUME TypeOK, Worker PROVE TypeOK'
<1> USE DEF WorkerGoes, WorkerStates
<1>1. CASE Produce
  BY <1>1, MaxFramesAssumption DEF TypeOK, Produce
<1>2. CASE ProduceExpired
  BY <1>2, ThreadKinds, EnterCancelType DEF TypeOK, ProduceExpired, Statuses
<1>3. CASE PublishSleep
  BY <1>3 DEF TypeOK, PublishSleep
<1>4. CASE PublishReturn \/ WorkerExit
  BY <1>4 DEF TypeOK, PublishReturn, WorkerExit
<1>5. CASE WorkerFatal
  BY <1>5 DEF TypeOK, WorkerFatal
<1>6. CASE PublishFrame
  BY <1>6 DEF TypeOK, PublishFrame
<1>7. ASSUME NEW h \in Uploads, DrainInput(h) PROVE TypeOK'
  BY <1>7 DEF TypeOK, DrainInput
<1>8. CASE WorkerSeals
  BY <1>8, ThreadKinds, EnterCancelType DEF TypeOK, WorkerSeals, Statuses
<1>9. CASE WorkerFinish
  <2>1. worker' \in WorkerStates
    BY <1>9 DEF WorkerFinish
  <2>2. ASSUME NEW outcome \in Statuses, Finish(outcome) PROVE TypeOK'
    <3>1. terminal' \in BOOLEAN /\ quiesced' \in BOOLEAN /\ status' \in Statuses
      BY <2>2 DEF TypeOK, Finish, SetTerminal
    <3> QED BY <2>1, <2>2, <3>1 DEF TypeOK, Finish
  <2> QED BY <1>9, <2>2 DEF WorkerFinish, Statuses
<1>10. CASE WorkerSettle
  BY <1>10, ThreadKinds DEF TypeOK, WorkerSettle, MarkAllNotNeeded, CancelAll, CallStates
<1> QED BY <1>1, <1>2, <1>3, <1>4, <1>5, <1>6, <1>7, <1>8, <1>9, <1>10 DEF Worker

LEMMA CancellerType == ASSUME TypeOK, NEW c \in Cancellers, Canceller(c) PROVE TypeOK'
<1> USE DEF CancellerGoes, CancellerStates
<1>1. CASE LookupToCancel(c) \/ WaitOver(c) \/ Join(c)
  BY <1>1 DEF TypeOK, LookupToCancel, WaitOver, Join
<1>2. CASE CancelAndWait(c)
  BY <1>2, ThreadKinds, EnterCancelType DEF TypeOK, CancelAndWait, Statuses
<1> QED BY <1>1, <1>2 DEF Canceller

LEMMA HandlerType == ASSUME TypeOK, CountInv, NEW h \in Uploads, Handler(h) PROVE TypeOK'
<1> USE DEF HandlerGoes, HandlerStates
<1>1. CASE LookupToUpload(h) \/ AttachInput(h) \/ UploadEnds(h)
  BY <1>1 DEF TypeOK, LookupToUpload, AttachInput, UploadEnds
<1>2. CASE CountHandler(h)
  BY <1>2 DEF TypeOK, CountHandler
<1>3. CASE FailInputs(h)
  BY <1>3 DEF TypeOK, FailInputs, CancelAll
<1>4. CASE FailExecution(h)
  BY <1>4, ThreadKinds, EnterCancelType DEF TypeOK, FailExecution, Statuses
<1>5. CASE DetachInput(h)
  <2>1. h \in CountedHandlers
    BY <1>5 DEF DetachInput, CountedHandlers, Counted
  <2>2. active_handlers' \in Nat
    BY <1>5, <2>1, Counting DEF DetachInput
  <2> QED BY <1>5, <2>2, ThreadKinds DEF TypeOK, DetachInput, CallStates
<1> QED BY <1>1, <1>2, <1>3, <1>4, <1>5 DEF Handler

LEMMA RegistryType == ASSUME TypeOK, Registry PROVE TypeOK'
<1>1. CASE Expire \/ ReaperCollects
  BY <1>1, ZenonT(60) DEF TypeOK, Expire, ReaperCollects
<1>2. CASE ReaperCancels
  BY <1>2, ThreadKinds, EnterCancelType DEF TypeOK, ReaperCancels, Statuses
<1>3. ASSUME NEW s \in Stoppers, StopperCollects(s) PROVE TypeOK'
  BY <1>3, ZenonT(60) DEF TypeOK, StopperCollects, StopperGoes
<1>4. ASSUME NEW s \in Stoppers, StopperEnds(s) PROVE TypeOK'
  BY <1>4, ThreadKinds, EnterCancelType DEF TypeOK, StopperEnds, StopperGoes, Statuses
<1> QED BY <1>1, <1>2, <1>3, <1>4 DEF Registry

-----------------------------------------------------------------------------
(* Steps that are alike. *)

\* The other threads are not at a place that the invariant speaks of, or stay there.
OthersStay ==
  /\ \A r \in Readers : Owner(r)' <=> Owner(r)
  /\ \A r \in Readers : reader'[r] = "starting" => reader[r] = "starting"
  /\ \A c \in Cancellers : canceller'[c] \in {"joining", "quiesced"} => canceller'[c] = canceller[c]
  /\ CountedHandlers' = CountedHandlers

\* A step that only moves a thread.
Quiet ==
  /\ OthersStay
  /\ UNCHANGED <<stateVars, inputVars, registered, worker, received, answer, call>>

LEMMA QuietKeeps == ASSUME IInv, TypeOK', Quiet PROVE IInv'
<1> USE DEF Quiet, OthersStay, IInv
<1>1. FlagInv' /\ CallInv'
  BY DEF FlagInv, CallInv
<1>2. SettleInv'
  BY DEF SettleInv, Settled
<1>3. ClaimInv'
  BY DEF ClaimInv
<1>4. FrameInv'
  BY DEF FrameInv
<1>5. AnswerInv' /\ CountInv'
  BY DEF AnswerInv, CountInv
<1> QED BY <1>1, <1>2, <1>3, <1>4, <1>5

\* A step that enters cancel or fail_gpu_unavailable, with the worker where it was or on
\* its way to finish.
Cancelling(t, why) ==
  /\ EnterCancel(t, why)
  /\ OthersStay
  /\ worker' = worker \/ (worker \in Active /\ worker' \in {"unwind", "fatal"})
  /\ UNCHANGED <<claimed, sequence, quiesced, terminal_notified, inputVars, registered, received, answer>>

Reasons == {"cancelled", "expired", "unavailable"}

LEMMA CancellingKeeps ==
  ASSUME IInv, TypeOK', NEW t \in Threads, NEW why \in Reasons, Cancelling(t, why)
  PROVE  IInv'
<1> USE DEF Cancelling, Active, Reasons
<1>1. /\ terminal' = TRUE /\ status' # "none"
      /\ terminal => status' = status /\ frame' = frame
      /\ ~terminal => status' # "succeeded" /\ frame' = NoFrame
  BY DEF IInv, TypeOK, FlagInv, EnterCancel, SetTerminal
<1>2. /\ \A u \in Threads : call'[u] # call[u] => call'[u] \in {"interrupt", "interruptUnstarted"}
      /\ \A u \in Threads : call'[u] # call[u] /\ call'[u] = "interruptUnstarted" => worker = "none"
  BY DEF IInv, TypeOK, EnterCancel
<1>3. FlagInv'
  BY <1>1 DEF IInv, FlagInv
<1>4. CallInv'
  BY <1>1, <1>2 DEF IInv, CallInv
<1>5. SettleInv'
  BY <1>2 DEF IInv, FlagInv, SettleInv, Settled
<1>6. ClaimInv'
  BY DEF IInv, OthersStay, ClaimInv
<1>7. FrameInv'
  BY <1>1 DEF IInv, FlagInv, FrameInv
<1>8. AnswerInv' /\ CountInv'
  BY DEF IInv, OthersStay, FlagInv, AnswerInv, CountInv
<1> QED BY <1>3, <1>4, <1>5, <1>6, <1>7, <1>8 DEF IInv

-----------------------------------------------------------------------------
(* Each action keeps the invariant. *)

\* What a step does that moves no thread but the one inside a call, or the worker.
LEMMA OnlyCall == ASSUME UNCHANGED <<reader, canceller, handler>> PROVE OthersStay
BY DEF OthersStay, Owner, CountedHandlers

LEMMA CallKeeps == ASSUME IInv, NEW t \in Threads, InCall(t) PROVE IInv'
<1>1. TypeOK'
  BY CallType DEF IInv
<1>2. OthersStay
  BY OnlyCall DEF InCall, Interrupt, Quiesce, NotifyTerminal, Remove
<1>3. UNCHANGED <<claimed, worker, frame, sequence, terminal, status, received, answer, reader, canceller, handler, active_handlers>>
  BY DEF InCall, Interrupt, Quiesce, NotifyTerminal, Remove
<1>4. ClaimInv' /\ FrameInv'
  BY <1>3 DEF IInv, ClaimInv, FrameInv, Owner
<1>5. CountInv'
  BY <1>2, <1>3 DEF IInv, OthersStay, CountInv
<1>6. CASE Interrupt(t)
  <2>1. Settled'
    BY <1>6 DEF Interrupt, CancelAll, Settled
  <2>2. FlagInv' /\ CallInv' /\ AnswerInv'
    BY <1>6 DEF IInv, TypeOK, FlagInv, CallInv, AnswerInv, Interrupt
  <2>3. SettleInv'
    BY <2>1 DEF SettleInv
  <2> QED BY <1>1, <1>4, <1>5, <2>2, <2>3 DEF IInv
<1>7. CASE Quiesce(t)
  <2>1. terminal /\ worker = "none" /\ Settled
    BY <1>7 DEF IInv, CallInv, SettleInv, Quiesce
  <2>2. FlagInv' /\ CallInv' /\ AnswerInv'
    BY <1>7, <2>1 DEF IInv, TypeOK, FlagInv, CallInv, AnswerInv, Quiesce, Active
  <2>3. SettleInv'
    BY <1>7, <2>1 DEF SettleInv, Settled, Quiesce
  <2> QED BY <1>1, <1>4, <1>5, <2>2, <2>3 DEF IInv
<1>8. CASE NotifyTerminal(t)
  <2>1. FlagInv' /\ CallInv'
    BY <1>8 DEF IInv, TypeOK, FlagInv, CallInv, NotifyTerminal, LastOneOut
  <2>2. AnswerInv' /\ SettleInv'
    BY <1>8 DEF IInv, TypeOK, AnswerInv, SettleInv, Settled, NotifyTerminal
  <2> QED BY <1>1, <1>4, <1>5, <2>1, <2>2 DEF IInv
<1>9. CASE Remove(t)
  <2>1. FlagInv' /\ CallInv'
    BY <1>9 DEF IInv, TypeOK, FlagInv, CallInv, Remove
  <2>2. AnswerInv' /\ SettleInv'
    BY <1>9 DEF IInv, TypeOK, AnswerInv, SettleInv, Settled, Remove
  <2> QED BY <1>1, <1>4, <1>5, <2>1, <2>2 DEF IInv
<1> QED BY <1>6, <1>7, <1>8, <1>9 DEF InCall

LEMMA ReaderKeeps == ASSUME IInv, NEW r \in Readers, Reader(r) PROVE IInv'
<1> USE DEF ReaderGoes
<1>1. TypeOK'
  BY ReaderType DEF IInv
<1>2. UNCHANGED <<canceller, handler, active_handlers>>
  BY DEF Reader, LookupToClaim, Claim, Start, ReadCancelled, ReadFrame, ReadEnd, Send, Close
<1>3. CountInv' /\ CountedHandlers' = CountedHandlers
  BY <1>2 DEF IInv, CountInv, CountedHandlers
<1>4. CASE LookupToClaim(r)
  <2>1. Quiet
    BY <1>3, <1>4 DEF IInv, TypeOK, LookupToClaim, Quiet, OthersStay, Owner
  <2> QED BY <1>1, <2>1, QuietKeeps
<1>5. CASE Claim(r)
  <2>1. FlagInv' /\ CallInv' /\ SettleInv' /\ AnswerInv' /\ FrameInv'
    BY <1>5 DEF IInv, FlagInv, CallInv, SettleInv, Settled, AnswerInv, FrameInv, Claim
  <2>2. ClaimInv'
    BY <1>5, ZenonT(60) DEF IInv, TypeOK, ClaimInv, Owner, Claim
  <2> QED BY <1>1, <1>3, <2>1, <2>2 DEF IInv
<1>6. CASE Start(r)
  <2>1. worker = "none" /\ (worker' = "run" \/ worker' = "none") /\ (worker' = "run" => ~terminal)
    BY <1>6 DEF IInv, ClaimInv, Start
  <2>2. FlagInv' /\ CallInv' /\ AnswerInv'
    BY <1>6, <2>1 DEF IInv, FlagInv, CallInv, AnswerInv, Start
  <2>3. SettleInv' /\ FrameInv'
    BY <1>6, <2>1 DEF IInv, FlagInv, SettleInv, Settled, FrameInv, Start
  <2>4. ClaimInv'
    BY <1>6, <2>1 DEF IInv, TypeOK, ClaimInv, Owner, Start
  <2> QED BY <1>1, <1>3, <2>2, <2>3, <2>4 DEF IInv
<1>7. CASE ReadCancelled(r)
  <2>1. Cancelling(r, "cancelled") \/ Cancelling(r, "expired")
    BY <1>3, <1>7 DEF IInv, TypeOK, ReadCancelled, Cancelling, OthersStay, Owner
  <2> QED BY <1>1, <2>1, CancellingKeeps, ThreadKinds DEF Reasons
<1>8. CASE ReadFrame(r)
  <2>1. /\ worker = "await" /\ ~terminal /\ frame = sequence /\ frame # NoFrame
        /\ Len(received) + 1 = sequence
    BY <1>8 DEF IInv, FrameInv, ReadFrame
  <2>2. Len(received') = sequence /\ \A i \in 1..Len(received') : received'[i] = i
    BY <1>8, <2>1 DEF IInv, TypeOK, FrameInv, ReadFrame
  <2>3. FrameInv'
    BY <1>8, <2>1, <2>2 DEF IInv, FrameInv, ReadFrame
  <2>4. FlagInv' /\ CallInv' /\ SettleInv' /\ AnswerInv'
    BY <1>8 DEF IInv, FlagInv, CallInv, SettleInv, Settled, AnswerInv, ReadFrame
  <2>5. ClaimInv'
    BY <1>8 DEF IInv, TypeOK, ClaimInv, Owner, ReadFrame
  <2> QED BY <1>1, <1>3, <2>3, <2>4, <2>5 DEF IInv
<1>9. CASE ReadEnd(r)
  <2>1. FlagInv' /\ CallInv' /\ SettleInv' /\ AnswerInv'
    BY <1>9 DEF IInv, FlagInv, CallInv, SettleInv, Settled, AnswerInv, ReadEnd
  <2>2. FrameInv'
    BY <1>9 DEF IInv, TypeOK, FrameInv, ReadEnd
  <2>3. ClaimInv'
    BY <1>9 DEF IInv, TypeOK, ClaimInv, Owner, ReadEnd
  <2> QED BY <1>1, <1>3, <2>1, <2>2, <2>3 DEF IInv
<1>10. CASE Send(r)
  <2>1. Quiet
    BY <1>3, <1>10 DEF IInv, TypeOK, Send, Quiet, OthersStay, Owner
  <2> QED BY <1>1, <2>1, QuietKeeps
<1>11. CASE Close(r)
  <2>1. Cancelling(r, "cancelled")
    BY <1>3, <1>11 DEF IInv, TypeOK, Close, Cancelling, OthersStay, Owner
  <2> QED BY <1>1, <2>1, CancellingKeeps, ThreadKinds DEF Reasons
<1> QED BY <1>4, <1>5, <1>6, <1>7, <1>8, <1>9, <1>10, <1>11 DEF Reader

LEMMA WorkerKeeps == ASSUME IInv, Worker PROVE IInv'
<1> USE DEF WorkerGoes
<1>1. TypeOK'
  BY WorkerType DEF IInv
<1>2. UNCHANGED <<reader, canceller, handler, active_handlers, received, answer, claimed, terminal_notified, registered>>
  BY DEF Worker, Produce, ProduceExpired, PublishSleep, PublishFrame, PublishReturn, DrainInput, WorkerFatal,
         WorkerSeals, WorkerFinish, Finish, WorkerSettle, WorkerExit
<1>3. OthersStay /\ CountInv'
  BY <1>2, OnlyCall DEF IInv, OthersStay, CountInv
<1>4. CASE Produce
  <2>1. FlagInv' /\ CallInv' /\ SettleInv' /\ AnswerInv'
    BY <1>2, <1>4 DEF IInv, FlagInv, CallInv, SettleInv, Settled, AnswerInv, Produce, Active
  <2>2. ClaimInv'
    BY <1>2, <1>4 DEF IInv, ClaimInv, Owner, Produce
  <2>3. FrameInv'
    BY <1>2, <1>4, MaxFramesAssumption DEF IInv, TypeOK, FlagInv, FrameInv, Produce, Active
  <2> QED BY <1>1, <1>3, <2>1, <2>2, <2>3 DEF IInv
<1>5. CASE ProduceExpired
  <2>1. Cancelling("worker", "expired")
    BY <1>3, <1>5 DEF ProduceExpired, Cancelling, Active
  <2> QED BY <1>1, <2>1, CancellingKeeps, ThreadKinds DEF Reasons
<1>6. CASE PublishSleep
  <2>1. Quiet
    BY <1>3, <1>6 DEF PublishSleep, Quiet
  <2> QED BY <1>1, <2>1, QuietKeeps
<1>7. CASE PublishFrame
  <2>1. FlagInv' /\ CallInv' /\ SettleInv' /\ AnswerInv'
    BY <1>2, <1>7 DEF IInv, FlagInv, CallInv, SettleInv, Settled, AnswerInv, PublishFrame, Active
  <2>2. ClaimInv'
    BY <1>2, <1>7 DEF IInv, ClaimInv, Owner, PublishFrame
  <2>3. FrameInv'
    BY <1>2, <1>7 DEF IInv, TypeOK, FlagInv, FrameInv, PublishFrame, SlotFree
  <2> QED BY <1>1, <1>3, <2>1, <2>2, <2>3 DEF IInv
<1>8. CASE PublishReturn
  <2>1. FlagInv' /\ CallInv' /\ SettleInv' /\ AnswerInv'
    BY <1>2, <1>8 DEF IInv, FlagInv, CallInv, SettleInv, Settled, AnswerInv, PublishReturn, Active
  <2>2. ClaimInv'
    BY <1>2, <1>8 DEF IInv, ClaimInv, Owner, PublishReturn
  <2>3. FrameInv'
    BY <1>2, <1>8 DEF IInv, TypeOK, FlagInv, FrameInv, PublishReturn, SlotFree
  <2> QED BY <1>1, <1>3, <2>1, <2>2, <2>3 DEF IInv
<1>9. ASSUME NEW h \in Uploads, DrainInput(h) PROVE IInv'
  <2>1. FlagInv' /\ CallInv' /\ FrameInv' /\ AnswerInv'
    BY <1>9 DEF IInv, FlagInv, CallInv, FrameInv, AnswerInv, DrainInput
  <2>2. Settled => Settled'
    BY <1>9 DEF DrainInput, IInv, TypeOK, Settled
  <2>3. SettleInv' /\ ClaimInv'
    BY <1>9, <2>2 DEF IInv, SettleInv, ClaimInv, Owner, DrainInput
  <2> QED BY <1>1, <1>3, <2>1, <2>3 DEF IInv
<1>10. CASE WorkerFatal
  <2>1. worker \in {"run", "unwind"} /\ worker' \in {"sealing", "fatal"}
    BY <1>10 DEF WorkerFatal
  <2>2. UNCHANGED <<stateVars, inputVars, call>>
    BY <1>10 DEF WorkerFatal
  <2>3. FlagInv' /\ CallInv' /\ SettleInv' /\ AnswerInv'
    BY <1>2, <2>1, <2>2 DEF IInv, FlagInv, CallInv, SettleInv, Settled, AnswerInv, Active
  <2>4. ClaimInv' /\ FrameInv'
    BY <1>2, <2>1, <2>2 DEF IInv, ClaimInv, Owner, FrameInv
  <2> QED BY <1>1, <1>3, <2>3, <2>4 DEF IInv
<1>11. CASE WorkerSeals
  <2>1. Cancelling("worker", "unavailable")
    BY <1>3, <1>11 DEF WorkerSeals, Cancelling, Active
  <2> QED BY <1>1, <2>1, CancellingKeeps, ThreadKinds DEF Reasons
<1>12. CASE WorkerFinish
  <2>1. /\ worker \in {"run", "unwind", "fatal"} /\ worker' \in {"settleOk", "settleFailed"}
        /\ UNCHANGED <<frame, sequence, inputVars, call>>
    BY <1>12 DEF WorkerFinish, Finish
  <2>2. /\ terminal' = TRUE /\ quiesced' = TRUE /\ status' # "none"
        /\ terminal => status' = status
        /\ ~terminal /\ status' = "succeeded" => worker = "run"
    BY <1>12 DEF IInv, FlagInv, WorkerFinish, Finish, SetTerminal
  <2>3. FlagInv' /\ CallInv' /\ SettleInv' /\ AnswerInv'
    BY <1>2, <2>1, <2>2 DEF IInv, FlagInv, CallInv, SettleInv, Settled, AnswerInv, Active
  <2>4. ClaimInv' /\ FrameInv'
    BY <1>2, <2>1, <2>2 DEF IInv, FlagInv, ClaimInv, Owner, FrameInv
  <2> QED BY <1>1, <1>3, <2>3, <2>4 DEF IInv
<1>13. CASE WorkerSettle
  <2>1. Settled'
    BY <1>13 DEF WorkerSettle, CancelAll, MarkAllNotNeeded, Settled
  <2>2. /\ worker \in {"settleOk", "settleFailed"} /\ worker' = "leaving" /\ UNCHANGED stateVars
        /\ \A t \in Threads : call'[t] # call[t] => call'[t] = "notify"
    BY <1>13 DEF IInv, TypeOK, WorkerSettle
  <2>3. FlagInv' /\ CallInv' /\ AnswerInv'
    BY <1>2, <2>2 DEF IInv, FlagInv, CallInv, AnswerInv, Active
  <2>4. SettleInv'
    BY <2>1 DEF SettleInv
  <2>5. ClaimInv' /\ FrameInv'
    BY <1>2, <2>2 DEF IInv, ClaimInv, Owner, FrameInv
  <2> QED BY <1>1, <1>3, <2>3, <2>4, <2>5 DEF IInv
<1>14. CASE WorkerExit
  <2>1. FlagInv' /\ CallInv' /\ SettleInv' /\ AnswerInv'
    BY <1>2, <1>14 DEF IInv, FlagInv, CallInv, SettleInv, Settled, AnswerInv, WorkerExit, Active
  <2>2. ClaimInv' /\ FrameInv'
    BY <1>2, <1>14 DEF IInv, ClaimInv, Owner, FrameInv, WorkerExit
  <2> QED BY <1>1, <1>3, <2>1, <2>2 DEF IInv
<1> QED BY <1>4, <1>5, <1>6, <1>7, <1>8, <1>9, <1>10, <1>11, <1>12, <1>13, <1>14 DEF Worker

LEMMA CancellerKeeps == ASSUME IInv, NEW c \in Cancellers, Canceller(c) PROVE IInv'
<1> USE DEF CancellerGoes
<1>1. TypeOK'
  BY CancellerType DEF IInv
<1>2. UNCHANGED <<reader, handler, active_handlers>>
  BY DEF Canceller, LookupToCancel, CancelAndWait, WaitOver, Join
<1>3. /\ \A r \in Readers : Owner(r)' <=> Owner(r)
      /\ CountedHandlers' = CountedHandlers
  BY <1>2 DEF Owner, CountedHandlers
<1>4. CASE LookupToCancel(c)
  <2>1. Quiet
    BY <1>2, <1>3, <1>4 DEF IInv, TypeOK, LookupToCancel, Quiet, OthersStay
  <2> QED BY <1>1, <2>1, QuietKeeps
<1>5. CASE CancelAndWait(c)
  <2>1. Cancelling(c, "cancelled")
    BY <1>2, <1>3, <1>5 DEF IInv, TypeOK, CancelAndWait, Cancelling, OthersStay
  <2> QED BY <1>1, <2>1, CancellingKeeps, ThreadKinds DEF Reasons
<1>6. CASE WaitOver(c) \/ Join(c)
  <2>1. AnswerInv'
    BY <1>6 DEF IInv, TypeOK, AnswerInv, WaitOver, Join, Drained, Joinable
  <2>2. FlagInv' /\ CallInv' /\ SettleInv'
    BY <1>6 DEF IInv, FlagInv, CallInv, SettleInv, Settled, WaitOver, Join
  <2>3. ClaimInv' /\ FrameInv'
    BY <1>6 DEF IInv, ClaimInv, Owner, FrameInv, WaitOver, Join
  <2> QED BY <1>1, <1>2, <1>3, <2>1, <2>2, <2>3 DEF IInv, CountInv
<1> QED BY <1>4, <1>5, <1>6 DEF Canceller

LEMMA HandlerKeeps == ASSUME IInv, NEW h \in Uploads, Handler(h) PROVE IInv'
<1> USE DEF HandlerGoes
<1>1. TypeOK'
  BY HandlerType DEF IInv
<1>2. UNCHANGED <<reader, canceller>>
  BY DEF Handler, LookupToUpload, AttachInput, CountHandler, UploadEnds, FailInputs, FailExecution, DetachInput
<1>3. (CountedHandlers' = CountedHandlers) => OthersStay
  BY <1>2 DEF OthersStay, Owner
<1>4. CASE LookupToUpload(h) \/ AttachInput(h) \/ UploadEnds(h)
  <2>1. CountedHandlers' = CountedHandlers
    BY <1>4 DEF IInv, TypeOK, CountedHandlers, Counted, LookupToUpload, AttachInput, UploadEnds
  <2>2. Quiet
    BY <1>3, <1>4, <2>1 DEF LookupToUpload, AttachInput, UploadEnds, Quiet
  <2> QED BY <1>1, <2>2, QuietKeeps
<1>5. CASE CountHandler(h)
  <2>1. CountedHandlers' = CountedHandlers \cup {h} /\ h \notin CountedHandlers
    BY <1>5 DEF IInv, TypeOK, CountedHandlers, Counted, CountHandler
  <2>2. CountInv'
    BY <1>5, <2>1, Counting, FS_AddElement DEF IInv, CountInv, CountHandler
  <2>3. FlagInv' /\ CallInv' /\ SettleInv' /\ AnswerInv'
    BY <1>2, <1>5 DEF IInv, FlagInv, CallInv, SettleInv, Settled, AnswerInv, CountHandler
  <2>4. ClaimInv' /\ FrameInv'
    BY <1>2, <1>5 DEF IInv, ClaimInv, Owner, FrameInv, CountHandler
  <2> QED BY <1>1, <2>2, <2>3, <2>4 DEF IInv
<1>6. CASE FailInputs(h)
  <2>1. CountedHandlers' = CountedHandlers /\ active_handlers' = active_handlers
    BY <1>6 DEF IInv, TypeOK, CountedHandlers, Counted, FailInputs
  <2>2. Settled'
    BY <1>6 DEF FailInputs, CancelAll, Settled
  <2>3. FlagInv' /\ CallInv' /\ AnswerInv'
    BY <1>2, <1>6 DEF IInv, FlagInv, CallInv, AnswerInv, FailInputs
  <2>4. ClaimInv' /\ FrameInv'
    BY <1>2, <1>6 DEF IInv, ClaimInv, Owner, FrameInv, FailInputs
  <2> QED BY <1>1, <2>1, <2>2, <2>3, <2>4 DEF IInv, SettleInv, CountInv
<1>7. CASE FailExecution(h)
  <2>1. CountedHandlers' = CountedHandlers
    BY <1>7 DEF IInv, TypeOK, CountedHandlers, Counted, FailExecution
  <2>2. Cancelling(h, "cancelled")
    BY <1>3, <1>7, <2>1 DEF FailExecution, Cancelling
  <2> QED BY <1>1, <2>2, CancellingKeeps, ThreadKinds DEF Reasons
<1>8. CASE DetachInput(h)
  <2>1. CountedHandlers' = CountedHandlers \ {h} /\ h \in CountedHandlers
    BY <1>8 DEF IInv, TypeOK, CountedHandlers, Counted, DetachInput
  <2>2. CountInv'
    BY <1>8, <2>1, Counting, FS_RemoveElement DEF IInv, CountInv, DetachInput
  <2>3. \A t \in Threads : call'[t] # call[t] => call'[t] = "notify"
    BY <1>8 DEF IInv, TypeOK, DetachInput
  <2>4. FlagInv' /\ CallInv' /\ SettleInv' /\ AnswerInv'
    BY <1>2, <1>8, <2>3 DEF IInv, FlagInv, CallInv, SettleInv, Settled, AnswerInv, DetachInput
  <2>5. ClaimInv' /\ FrameInv'
    BY <1>2, <1>8 DEF IInv, ClaimInv, Owner, FrameInv, DetachInput
  <2> QED BY <1>1, <2>2, <2>4, <2>5 DEF IInv
<1> QED BY <1>4, <1>5, <1>6, <1>7, <1>8 DEF Handler

LEMMA RegistryKeeps == ASSUME IInv, Registry PROVE IInv'
<1>1. TypeOK'
  BY RegistryType DEF IInv
<1>2. OthersStay
  BY OnlyCall DEF Registry, Expire, ReaperCollects, ReaperCancels, StopperCollects, StopperEnds
<1>3. CASE Expire \/ ReaperCollects
  <2>1. Quiet
    BY <1>2, <1>3 DEF Expire, ReaperCollects, Quiet
  <2> QED BY <1>1, <2>1, QuietKeeps
<1>4. CASE ReaperCancels
  <2>1. Cancelling("reaper", "expired")
    BY <1>2, <1>4 DEF ReaperCancels, Cancelling
  <2> QED BY <1>1, <2>1, CancellingKeeps, ThreadKinds DEF Reasons
<1>5. ASSUME NEW s \in Stoppers, StopperCollects(s) PROVE IInv'
  <2>1. Quiet
    BY <1>2, <1>5 DEF StopperCollects, Quiet
  <2> QED BY <1>1, <2>1, QuietKeeps
<1>6. ASSUME NEW s \in Stoppers, StopperEnds(s) PROVE IInv'
  <2>1. Cancelling(s, "unavailable") \/ Cancelling(s, "cancelled")
    BY <1>2, <1>6 DEF StopperEnds, Cancelling
  <2> QED BY <1>1, <2>1, CancellingKeeps, ThreadKinds DEF Reasons
<1> QED BY <1>3, <1>4, <1>5, <1>6 DEF Registry

-----------------------------------------------------------------------------
LEMMA InvInit == Init => IInv
<1> SUFFICES ASSUME Init PROVE IInv
  OBVIOUS
<1>1. TypeOK
  <2>1. frame \in 0..MaxFrames /\ sequence \in 0..MaxFrames /\ active_handlers \in Nat /\ received \in Seq(1..MaxFrames)
    BY MaxFramesAssumption DEF Init
  <2>2. /\ reader \in [Readers -> ReaderStates] /\ answer \in [Readers -> Statuses]
        /\ canceller \in [Cancellers -> CancellerStates] /\ handler \in [Uploads -> HandlerStates]
        /\ call \in [Threads -> CallStates]
    BY DEF Init, ReaderStates, Statuses, CancellerStates, HandlerStates, CallStates
  <2>3. /\ inputs \in [Uploads -> {"open", "drained", "not_needed", "cancelled"}]
        /\ stopper \in [Stoppers -> {"idle", "sealing", "stopping", "done"}]
    BY DEF Init
  <2> QED BY <2>1, <2>2, <2>3 DEF Init, TypeOK, Statuses, WorkerStates
<1>2. CountedHandlers = {}
  BY DEF Init, CountedHandlers, Counted
<1>3. CountInv
  BY <1>2, FS_EmptySet DEF Init, CountInv
<1>4. FlagInv /\ CallInv /\ SettleInv /\ ClaimInv /\ FrameInv /\ AnswerInv
  BY DEF Init, FlagInv, CallInv, SettleInv, ClaimInv, FrameInv, AnswerInv, Owner, Active
<1> QED BY <1>1, <1>3, <1>4 DEF IInv

LEMMA InvNext == IInv /\ [Next]_vars => IInv'
<1> SUFFICES ASSUME IInv, [Next]_vars PROVE IInv'
  OBVIOUS
<1>1. CASE Next
  BY <1>1, CallKeeps, ReaderKeeps, WorkerKeeps, CancellerKeeps, HandlerKeeps, RegistryKeeps DEF Next
<1>2. CASE UNCHANGED vars
  <2>1. TypeOK' /\ Quiet
    BY <1>2, OnlyCall DEF IInv, TypeOK, vars, Quiet
  <2> QED BY <2>1, QuietKeeps
<1> QED BY <1>1, <1>2

LEMMA Invariant == Spec => []IInv
BY InvInit, InvNext, PTL DEF Spec

-----------------------------------------------------------------------------
\* Every reachable state has its type; in particular active_handlers_ never drops below zero.
THEOREM TypeCorrect == Spec => []TypeOK
<1>1. IInv => TypeOK
  BY DEF IInv
<1> QED BY <1>1, Invariant, PTL

\* A quiesced execution has no engine running, however many threads race to start and to end it.
THEOREM QuiescedStays == Spec => []QuiescedMeansStopped
<1>1. IInv => QuiescedMeansStopped
  BY DEF IInv, FlagInv, Active, QuiescedMeansStopped
<1> QED BY <1>1, Invariant, PTL

\* A result stream that ends without an error was complete, for any number of frames.
THEOREM SuccessIsComplete == Spec => []ResultComplete
<1>1. ASSUME IInv, NEW r \in Readers, answer[r] = "succeeded"
      PROVE  received = [i \in 1..sequence |-> i]
  <2>1. received \in Seq(1..MaxFrames) /\ Len(received) = sequence /\ \A i \in 1..sequence : received[i] = i
    BY <1>1 DEF IInv, TypeOK, FrameInv
  <2> QED BY <2>1
<1>2. IInv => ResultComplete
  BY <1>1 DEF ResultComplete
<1> QED BY <1>2, Invariant, PTL

\* No input is left open when the last thread that could settle it has gone.
THEOREM NoInputLeftOpen == Spec => []InputsSettled
<1>1. IInv => InputsSettled
  BY DEF IInv, SettleInv, Settled, InputsSettled
<1> QED BY <1>1, Invariant, PTL

\* The registry never forgets a ticket whose query runs or may still be started.
THEOREM ForgottenIsStopped == Spec => []RemovedOnlyStopped
<1>1. IInv => RemovedOnlyStopped
  BY DEF IInv, TypeOK, FlagInv, Active, WorkerStates, RemovedOnlyStopped
<1> QED BY <1>1, Invariant, PTL

\* CancelExecution answers "quiesced" only when the worker has ended and no frame is left.
THEOREM QuiescedIsTrue == Spec => []QuiescedAnswer
<1>1. IInv => QuiescedAnswer
  BY DEF IInv, FlagInv, FrameInv, AnswerInv, QuiescedAnswer
<1> QED BY <1>1, Invariant, PTL

\* The entry implements Lifecycle: claimed once and never after the end, one terminal state that
\* nothing overwrites, no success without a claim.
THEOREM ImplementsLifecycle == Spec => LifecycleSpec
<1> DEFINE ended == IF status = "unavailable" THEN "failed" ELSE status
           life == IF terminal THEN ended ELSE IF claimed THEN "running" ELSE "prepared"
<1>1. Init => Life!Init
  BY DEF Init, Life!Init
<1>2. IInv /\ [Next]_vars => [Life!Next]_life
  <2> SUFFICES ASSUME IInv, [Next]_vars PROVE Life!Next \/ life' = life
    OBVIOUS
  <2> USE DEF Life!Next, Life!Claim, Life!End, Life!Terminal
  <2>1. ASSUME UNCHANGED <<claimed, terminal, status>> PROVE life' = life
    BY <2>1
  <2>2. ASSUME NEW t \in Threads, NEW why \in Reasons, EnterCancel(t, why), UNCHANGED claimed
        PROVE  Life!Next \/ life' = life
    BY <2>2 DEF IInv, TypeOK, EnterCancel, SetTerminal, Reasons
  <2>3. ASSUME NEW outcome \in {"succeeded", "failed", "unavailable"}, Finish(outcome), worker # "none"
        PROVE  Life!Next \/ life' = life
    BY <2>3 DEF IInv, TypeOK, ClaimInv, Finish, SetTerminal
  <2>4. ASSUME NEW t \in Threads, InCall(t) PROVE life' = life
    BY <2>1, <2>4 DEF InCall, Interrupt, Quiesce, NotifyTerminal, Remove
  <2>5. ASSUME NEW r \in Readers, Reader(r) PROVE Life!Next \/ life' = life
    <3>1. CASE Claim(r)
      BY <3>1 DEF IInv, TypeOK, Claim
    <3>2. CASE ReadCancelled(r) \/ Close(r)
      BY <2>2, <3>2, ThreadKinds DEF ReadCancelled, Close, Reasons
    <3>3. CASE LookupToClaim(r) \/ Start(r) \/ ReadFrame(r) \/ ReadEnd(r) \/ Send(r)
      BY <2>1, <3>3 DEF LookupToClaim, Start, ReadFrame, ReadEnd, Send
    <3> QED BY <2>5, <3>1, <3>2, <3>3 DEF Reader
  <2>6. CASE Worker
    <3>1. CASE ProduceExpired \/ WorkerSeals
      BY <2>2, <3>1, ThreadKinds DEF ProduceExpired, WorkerSeals, Reasons
    <3>2. CASE WorkerFinish
      BY <2>3, <3>2 DEF WorkerFinish, WorkerGoes
    <3>3. ASSUME Worker, ~ProduceExpired, ~WorkerSeals, ~WorkerFinish PROVE life' = life
      BY <2>1, <3>3 DEF Worker, Produce, PublishSleep, PublishFrame, PublishReturn, DrainInput, WorkerFatal,
         WorkerSettle, WorkerExit
    <3> QED BY <2>6, <3>1, <3>2, <3>3
  <2>7. ASSUME NEW c \in Cancellers, Canceller(c) PROVE Life!Next \/ life' = life
    <3>1. CASE CancelAndWait(c)
      BY <2>2, <3>1, ThreadKinds DEF CancelAndWait, Reasons
    <3>2. CASE LookupToCancel(c) \/ WaitOver(c) \/ Join(c)
      BY <2>1, <3>2 DEF LookupToCancel, WaitOver, Join
    <3> QED BY <2>7, <3>1, <3>2 DEF Canceller
  <2>8. ASSUME NEW h \in Uploads, Handler(h) PROVE Life!Next \/ life' = life
    <3>1. CASE FailExecution(h)
      BY <2>2, <3>1, ThreadKinds DEF FailExecution, Reasons
    <3>2. ASSUME ~FailExecution(h) PROVE life' = life
      BY <2>1, <2>8, <3>2 DEF Handler, LookupToUpload, AttachInput, CountHandler, UploadEnds, FailInputs, DetachInput
    <3> QED BY <3>1, <3>2
  <2>9. CASE Registry
    <3>1. CASE ReaperCancels
      BY <2>2, <3>1, ThreadKinds DEF ReaperCancels, Reasons
    <3>2. ASSUME NEW s \in Stoppers, StopperEnds(s) PROVE Life!Next \/ life' = life
      BY <2>2, <3>2, ThreadKinds DEF StopperEnds, Reasons
    <3>3. CASE Expire \/ ReaperCollects \/ \E s \in Stoppers : StopperCollects(s)
      BY <2>1, <3>3 DEF Expire, ReaperCollects, StopperCollects
    <3> QED BY <2>9, <3>1, <3>2, <3>3 DEF Registry
  <2>10. CASE UNCHANGED vars
    BY <2>1, <2>10 DEF vars
  <2> QED BY <2>4, <2>5, <2>6, <2>7, <2>8, <2>9, <2>10 DEF Next
<1> QED BY <1>1, <1>2, Invariant, PTL DEF Spec, LifecycleSpec, Life!Spec
=============================================================================
