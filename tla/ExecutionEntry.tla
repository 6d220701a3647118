--------------------------- MODULE ExecutionEntry ---------------------------
(***************************************************************************)
(* One execution_entry of flight_runtime.cpp after it has been published   *)
(* in the registry, and every thread that touches it: the DoGet reader,    *)
(* the worker that runs the query, CancelExecution handlers, the reaper,   *)
(* a GPU seal or a shutdown, and the DoPut handlers of its inputs.         *)
(*                                                                         *)
(* An action is one critical section of the entry's mutex (or of the       *)
(* registry's) with the code up to the next one.  cancel() and             *)
(* fail_gpu_unavailable() release the mutex several times: call[t] says    *)
(* how far thread t is inside one of them, or inside the tail that every   *)
(* path shares (notify_all, maybe_notify_terminal, the registry's remove). *)
(***************************************************************************)
EXTENDS Naturals, Sequences, FiniteSets

CONSTANTS
  Readers,      \* DoGet calls with this ticket
  Cancellers,   \* CancelExecution calls with this ticket
  Uploads,      \* DoPut calls, one for each StreamRead input
  Stoppers,     \* GPU seals by other executions and shutdowns of the runtime
  MaxFrames     \* bound on the result frames the query produces

ASSUME MaxFramesAssumption == MaxFrames \in Nat

\* A plan has finitely many inputs.
ASSUME UploadsAssumption == IsFiniteSet(Uploads)

VARIABLES
  \* fields of execution_entry
  claimed, terminal, status, frame, sequence, quiesced, terminal_notified,
  inputs,            \* stream_inputs_: the verdict of each input
  active_handlers,   \* stream_inputs_.active_handlers_
  \* the registry, as far as it concerns this entry
  registered,        \* the ticket is in entries_
  stopped, gpu_unavailable,
  expired,           \* the deadline has passed
  \* threads
  worker, asleep,    \* the worker, and whether it sleeps in publish's untimed wait
  reader, received, answer,
  canceller, handler,
  reaper, stopper,
  call

registryVars == <<registered, stopped, gpu_unavailable, expired>>
stateVars  == <<claimed, terminal, status, frame, sequence, quiesced, terminal_notified>>
inputVars  == <<inputs, active_handlers>>
workerVars == <<worker, asleep>>
readerVars == <<reader, received, answer>>
otherVars  == <<canceller, handler, reaper, stopper>>
vars == <<stateVars, inputVars, registryVars, workerVars, readerVars, otherVars, call>>

NoFrame == 0
Threads == Readers \cup Cancellers \cup Uploads \cup Stoppers \cup {"worker", "reaper"}

\* status_: what read_next reports once the entry is terminal.
Statuses == {"none", "succeeded", "failed", "cancelled", "expired", "unavailable"}

Init ==
  /\ claimed = FALSE /\ terminal = FALSE /\ status = "none"
  /\ frame = NoFrame /\ sequence = 0
  /\ quiesced = FALSE /\ terminal_notified = FALSE
  /\ inputs = [h \in Uploads |-> "open"] /\ active_handlers = 0
  /\ registered = TRUE /\ stopped = FALSE /\ gpu_unavailable = FALSE /\ expired = FALSE
  /\ worker = "none" /\ asleep = FALSE
  /\ reader = [r \in Readers |-> "new"] /\ received = <<>> /\ answer = [r \in Readers |-> "none"]
  /\ canceller = [c \in Cancellers |-> "new"]
  /\ handler = [h \in Uploads |-> "new"]
  /\ reaper = "idle" /\ stopper = [s \in Stoppers |-> "idle"]
  /\ call = [t \in Threads |-> "no"]

-----------------------------------------------------------------------------
(* cancel(), fail_gpu_unavailable() and maybe_notify_terminal(). *)

\* cancel_all: a not-needed input ignores it.
CancelAll == [h \in Uploads |-> IF inputs[h] = "not_needed" THEN "not_needed" ELSE "cancelled"]

\* mark_all_not_needed: a cancelled or drained input ignores it.
MarkAllNotNeeded_Skipped == inputs
MarkAllNotNeeded == [h \in Uploads |-> IF inputs[h] = "open" THEN "not_needed" ELSE inputs[h]]

\* The first terminal state wins.
SetTerminal_LastWins(why) == terminal' = TRUE /\ status' = why
SetTerminal(why) ==
  /\ terminal' = TRUE
  /\ status' = IF terminal THEN status ELSE why

\* First critical section of cancel and fail_gpu_unavailable, entered by t.
EnterCancel(t, why) ==
  /\ call[t] = "no"
  /\ IF quiesced
     THEN UNCHANGED <<terminal, status, frame, call>>
     ELSE /\ SetTerminal(why)
          /\ frame' = IF terminal THEN frame ELSE NoFrame
          /\ call' = [call EXCEPT ![t] = IF worker = "none" THEN "interruptUnstarted" ELSE "interrupt"]

\* The inputs are cancelled and the engine interrupted, outside the mutex.
Interrupt(t) ==
  /\ call[t] \in {"interrupt", "interruptUnstarted"}
  /\ inputs' = CancelAll
  /\ call' = [call EXCEPT ![t] = IF @ = "interruptUnstarted" THEN "quiesce" ELSE "notify"]
  /\ UNCHANGED <<stateVars, active_handlers, registryVars, workerVars, readerVars, otherVars>>

\* Nobody else will quiesce an execution that had no worker.
Quiesce(t) ==
  /\ call[t] = "quiesce"
  /\ quiesced' = TRUE
  /\ call' = [call EXCEPT ![t] = "notify"]
  /\ UNCHANGED <<claimed, terminal, status, frame, sequence, terminal_notified, inputVars,
                 registryVars, workerVars, readerVars, otherVars>>

\* condition_.notify_all() and maybe_notify_terminal().
LastOneOut_Terminal == terminal /\ active_handlers = 0 /\ ~terminal_notified
LastOneOut == quiesced /\ active_handlers = 0 /\ ~terminal_notified

NotifyTerminal_Silent(t) ==
  /\ call[t] = "notify"
  /\ terminal_notified' = (terminal_notified \/ LastOneOut)
  /\ call' = [call EXCEPT ![t] = IF LastOneOut THEN "remove" ELSE "no"]
  /\ UNCHANGED <<claimed, terminal, status, frame, sequence, quiesced, inputVars,
                 registryVars, workerVars, readerVars, otherVars>>
NotifyTerminal(t) ==
  /\ call[t] = "notify"
  /\ asleep' = FALSE
  /\ terminal_notified' = (terminal_notified \/ LastOneOut)
  /\ call' = [call EXCEPT ![t] = IF LastOneOut THEN "remove" ELSE "no"]
  /\ UNCHANGED <<claimed, terminal, status, frame, sequence, quiesced, inputVars,
                 registryVars, worker, readerVars, otherVars>>

\* on_terminal_: ticket_registry::remove.
Remove(t) ==
  /\ call[t] = "remove"
  /\ registered' = FALSE
  /\ call' = [call EXCEPT ![t] = "no"]
  /\ UNCHANGED <<stateVars, inputVars, stopped, gpu_unavailable, expired, workerVars, readerVars, otherVars>>

InCall(t) == Interrupt(t) \/ Quiesce(t) \/ NotifyTerminal(t) \/ Remove(t)

-----------------------------------------------------------------------------
(* DoGet: claim, start, read_next and Close of native_result_stream. *)

ReaderGoes(r, from, to) ==
  /\ reader[r] = from
  /\ call[r] = "no"
  /\ reader' = [reader EXCEPT ![r] = to]

\* ticket_registry::claim finds the entry, then asks it.
LookupToClaim(r) ==
  /\ ReaderGoes(r, "new", IF registered /\ ~stopped THEN "claiming" ELSE "refused")
  /\ UNCHANGED <<stateVars, inputVars, registryVars, workerVars, received, answer, otherVars, call>>

Claim(r) ==
  /\ ReaderGoes(r, "claiming", IF claimed \/ terminal THEN "refused" ELSE "starting")
  /\ claimed' = (claimed \/ ~terminal)
  /\ UNCHANGED <<terminal, status, frame, sequence, quiesced, terminal_notified, inputVars,
                 registryVars, workerVars, received, answer, otherVars, call>>

Start_Unchecked(r) ==
  /\ ReaderGoes(r, "starting", "reading")
  /\ worker' = "run"
  /\ UNCHANGED <<stateVars, inputVars, registryVars, asleep, received, answer, otherVars, call>>
Start(r) ==
  /\ ReaderGoes(r, "starting", "reading")
  /\ worker' = IF terminal THEN worker ELSE "run"
  /\ UNCHANGED <<stateVars, inputVars, registryVars, asleep, received, answer, otherVars, call>>

\* read_next finds its client gone, or finds nothing by the deadline.
ReadCancelled(r) ==
  /\ ReaderGoes(r, "reading", "reading")
  /\ ~terminal
  /\ \/ EnterCancel(r, "cancelled")
     \/ expired /\ frame = NoFrame /\ EnterCancel(r, "expired")
  /\ UNCHANGED <<claimed, sequence, quiesced, terminal_notified, inputVars, registryVars,
                 workerVars, received, answer, otherVars>>

ReadFrame(r) ==
  /\ ReaderGoes(r, "reading", "sending")
  /\ frame # NoFrame
  /\ received' = Append(received, frame)
  /\ frame' = NoFrame
  /\ asleep' = FALSE
  /\ UNCHANGED <<claimed, terminal, status, sequence, quiesced, terminal_notified, inputVars,
                 registryVars, worker, answer, otherVars, call>>

ReadEnd(r) ==
  /\ ReaderGoes(r, "reading", "closing")
  /\ frame = NoFrame /\ terminal
  /\ answer' = [answer EXCEPT ![r] = status]
  /\ UNCHANGED <<stateVars, inputVars, registryVars, workerVars, received, otherVars, call>>

\* Flight writes the frame and asks for the next one, or gives up the stream.
Send(r) ==
  /\ \/ ReaderGoes(r, "sending", "reading")
     \/ ReaderGoes(r, "sending", "closing")
  /\ UNCHANGED <<stateVars, inputVars, registryVars, workerVars, received, answer, otherVars, call>>

Close(r) ==
  /\ ReaderGoes(r, "closing", "closed")
  /\ EnterCancel(r, "cancelled")
  /\ UNCHANGED <<claimed, sequence, quiesced, terminal_notified, inputVars, registryVars,
                 workerVars, received, answer, otherVars>>

Reader(r) ==
  \/ LookupToClaim(r) \/ Claim(r) \/ Start(r)
  \/ ReadCancelled(r) \/ ReadFrame(r) \/ ReadEnd(r) \/ Send(r) \/ Close(r)

-----------------------------------------------------------------------------
(* The worker thread: run, consume_batch, publish and finish. *)

WorkerGoes(from, to) ==
  /\ worker = from
  /\ call["worker"] = "no"
  /\ worker' = to

\* The engine delivers rows and publish numbers the frame.  Only the first
\* frame of a split batch is preceded by the check of the deadline.
Produce ==
  /\ WorkerGoes("run", "publish")
  /\ sequence < MaxFrames
  /\ sequence' = sequence + 1
  /\ UNCHANGED <<claimed, terminal, status, frame, quiesced, terminal_notified, inputVars,
                 registryVars, asleep, readerVars, otherVars, call>>

\* consume_batch finds the deadline passed and cancels its own execution.
ProduceExpired ==
  /\ WorkerGoes("run", "unwind")
  /\ expired
  /\ EnterCancel("worker", "expired")
  /\ UNCHANGED <<claimed, sequence, quiesced, terminal_notified, inputVars, registryVars,
                 asleep, readerVars, otherVars>>

\* The predicate of publish's two waits.
SlotFree_Always == TRUE
SlotFree == frame = NoFrame \/ terminal

PublishSleep ==
  /\ worker \in {"publish", "await"} /\ ~asleep
  /\ ~SlotFree
  /\ asleep' = TRUE
  /\ UNCHANGED <<stateVars, inputVars, registryVars, worker, readerVars, otherVars, call>>

PublishFrame ==
  /\ ~asleep /\ SlotFree
  /\ WorkerGoes("publish", IF terminal THEN "unwind" ELSE "await")
  /\ frame' = IF terminal THEN frame ELSE sequence
  /\ UNCHANGED <<claimed, terminal, status, sequence, quiesced, terminal_notified, inputVars,
                 registryVars, asleep, readerVars, otherVars, call>>

PublishReturn ==
  /\ ~asleep /\ SlotFree
  /\ WorkerGoes("await", IF terminal THEN "unwind" ELSE "run")
  /\ UNCHANGED <<stateVars, inputVars, registryVars, asleep, readerVars, otherVars, call>>

\* The query reads an input to its end.
DrainInput(h) ==
  /\ worker = "run" /\ call["worker"] = "no"
  /\ handler[h] = "uploading" /\ inputs[h] = "open"
  /\ inputs' = [inputs EXCEPT ![h] = "drained"]
  /\ UNCHANGED <<stateVars, active_handlers, registryVars, workerVars, readerVars, otherVars, call>>

\* run_batches reports a lost GPU: on_fatal_ seals the registry, unless it is sealed ...
WorkerFatal ==
  /\ worker \in {"run", "unwind"} /\ call["worker"] = "no"
  /\ worker' = IF gpu_unavailable THEN "fatal" ELSE "sealing"
  /\ gpu_unavailable' = TRUE /\ stopped' = TRUE
  /\ UNCHANGED <<stateVars, inputVars, registered, expired, asleep, readerVars, otherVars, call>>

\* ... and fails every entry, this one included, before finish runs.
WorkerSeals ==
  /\ WorkerGoes("sealing", "fatal")
  /\ EnterCancel("worker", "unavailable")
  /\ UNCHANGED <<claimed, sequence, quiesced, terminal_notified, inputVars, registryVars,
                 asleep, readerVars, otherVars>>

\* What finish does under the mutex.
Finish(outcome) ==
  /\ SetTerminal(outcome)
  /\ quiesced' = TRUE
  /\ UNCHANGED <<claimed, frame, sequence, terminal_notified, inputVars, registryVars,
                 asleep, readerVars, otherVars, call>>

\* run_batches returns, or throws.  After a callback asked it to cancel it may do either.
WorkerFinish ==
  \/ WorkerGoes("run", "settleOk") /\ Finish("succeeded")
  \/ WorkerGoes("unwind", "settleOk") /\ Finish("succeeded")
  \/ WorkerGoes("run", "settleFailed") /\ Finish("failed")
  \/ WorkerGoes("unwind", "settleFailed") /\ Finish("failed")
  \/ WorkerGoes("fatal", "settleFailed") /\ Finish("unavailable")

\* finish settles the inputs and goes on to the shared tail.
WorkerSettle ==
  /\ worker \in {"settleOk", "settleFailed"}
  /\ inputs' = IF worker = "settleOk" THEN MarkAllNotNeeded ELSE CancelAll
  /\ worker' = "leaving"
  /\ call' = [call EXCEPT !["worker"] = "notify"]
  /\ UNCHANGED <<stateVars, active_handlers, registryVars, asleep, readerVars, otherVars>>

\* The thread ends and drops its reference to the entry.
WorkerExit ==
  /\ WorkerGoes("leaving", "ended")
  /\ UNCHANGED <<stateVars, inputVars, registryVars, asleep, readerVars, otherVars, call>>

Worker ==
  \/ Produce \/ ProduceExpired \/ PublishSleep \/ PublishFrame \/ PublishReturn
  \/ (\E h \in Uploads : DrainInput(h))
  \/ WorkerFatal \/ WorkerSeals \/ WorkerFinish \/ WorkerSettle \/ WorkerExit

-----------------------------------------------------------------------------
(* CancelExecution by ticket: cancel_and_join. *)

CancellerGoes(c, from, to) ==
  /\ canceller[c] = from
  /\ call[c] = "no"
  /\ canceller' = [canceller EXCEPT ![c] = to]

LookupToCancel(c) ==
  /\ CancellerGoes(c, "new", IF registered THEN "cancelling" ELSE "not_found")
  /\ UNCHANGED <<stateVars, inputVars, registryVars, workerVars, readerVars, handler, reaper, stopper, call>>

CancelAndWait(c) ==
  /\ CancellerGoes(c, "cancelling", "waiting")
  /\ EnterCancel(c, "cancelled")
  /\ UNCHANGED <<claimed, sequence, quiesced, terminal_notified, inputVars, registryVars,
                 workerVars, readerVars, handler, reaper, stopper>>

\* The condition cancel_and_join waits for.
Drained == quiesced /\ active_handlers = 0

WaitOver(c) ==
  /\ \/ Drained /\ CancellerGoes(c, "waiting", "joining")
     \/ ~Drained /\ CancellerGoes(c, "waiting", "gave_up")
  /\ UNCHANGED <<stateVars, inputVars, registryVars, workerVars, readerVars, handler, reaper, stopper, call>>

\* join() waits for a thread that was started.  Another canceller waits for worker_mutex_
\* meanwhile and finds the thread joined: either way it goes on when the thread has ended.
Joinable_Never == FALSE
Joinable_OneJoins == worker # "none" /\ \A c, d \in Cancellers : {canceller[c], canceller[d]} = {"joining"} => c = d
Joinable == worker # "none"

Join(c) ==
  /\ Joinable => worker = "ended"
  /\ CancellerGoes(c, "joining", "quiesced")
  /\ UNCHANGED <<stateVars, inputVars, registryVars, workerVars, readerVars, handler, reaper, stopper, call>>

Canceller(c) == LookupToCancel(c) \/ CancelAndWait(c) \/ WaitOver(c) \/ Join(c)

-----------------------------------------------------------------------------
(* DoPut: attach_input, the upload itself (see StreamInput), fail_input and  *)
(* detach_input.                                                             *)

HandlerGoes(h, from, to) ==
  /\ handler[h] = from
  /\ call[h] = "no"
  /\ handler' = [handler EXCEPT ![h] = to]

LookupToUpload(h) ==
  /\ HandlerGoes(h, "new", IF registered /\ ~stopped THEN "attaching" ELSE "refused")
  /\ UNCHANGED <<stateVars, inputVars, registryVars, workerVars, readerVars, canceller, reaper, stopper, call>>

\* stream_input::attach refuses a cancelled input.
AttachInput(h) ==
  /\ HandlerGoes(h, "attaching", IF inputs[h] = "cancelled" THEN "refused" ELSE "attached")
  /\ UNCHANGED <<stateVars, inputVars, registryVars, workerVars, readerVars, canceller, reaper, stopper, call>>

\* handler_attached() is a step of its own: an attached handler is not yet counted.
CountHandler_Missing(h) ==
  /\ HandlerGoes(h, "attached", "uploading")
  /\ UNCHANGED <<stateVars, inputVars, registryVars, workerVars, readerVars, canceller, reaper, stopper, call>>
CountHandler(h) ==
  /\ HandlerGoes(h, "attached", "uploading")
  /\ active_handlers' = active_handlers + 1
  /\ UNCHANGED <<stateVars, inputs, registryVars, workerVars, readerVars, canceller, reaper, stopper, call>>

\* The upload ends: acknowledged as complete, with an error, or with an exception.
UploadEnds(h) ==
  /\ \/ inputs[h] \in {"drained", "not_needed"} /\ HandlerGoes(h, "uploading", "detaching")
     \/ HandlerGoes(h, "uploading", "failing")
     \/ HandlerGoes(h, "uploading", "throwing")
  /\ UNCHANGED <<stateVars, inputVars, registryVars, workerVars, readerVars, canceller, reaper, stopper, call>>

\* fail_input cancels every input of the execution, then the execution.
FailInputs(h) ==
  /\ \/ HandlerGoes(h, "failing", "failed")
     \/ HandlerGoes(h, "thrown", "caught")
  /\ inputs' = CancelAll
  /\ UNCHANGED <<stateVars, active_handlers, registryVars, workerVars, readerVars, canceller, reaper, stopper, call>>

FailExecution(h) ==
  /\ \/ HandlerGoes(h, "failed", "detaching")
     \/ HandlerGoes(h, "caught", "left")
  /\ EnterCancel(h, "cancelled")
  /\ UNCHANGED <<claimed, sequence, quiesced, terminal_notified, inputVars, registryVars,
                 workerVars, readerVars, canceller, reaper, stopper>>

\* detach_input, from ~input_handler_guard; an exception runs it before the
\* catch clause calls fail_input.
DetachInput_Silent(h) ==
  /\ \/ HandlerGoes(h, "detaching", "left")
     \/ HandlerGoes(h, "throwing", "thrown")
  /\ active_handlers' = active_handlers - 1
  /\ UNCHANGED <<stateVars, inputs, registryVars, workerVars, readerVars, canceller, reaper, stopper, call>>
DetachInput(h) ==
  /\ \/ HandlerGoes(h, "detaching", "left")
     \/ HandlerGoes(h, "throwing", "thrown")
  /\ active_handlers' = active_handlers - 1
  /\ call' = [call EXCEPT ![h] = "notify"]
  /\ UNCHANGED <<stateVars, inputs, registryVars, workerVars, readerVars, canceller, reaper, stopper>>

Handler(h) ==
  \/ LookupToUpload(h) \/ AttachInput(h) \/ CountHandler(h) \/ UploadEnds(h)
  \/ FailInputs(h) \/ FailExecution(h) \/ DetachInput(h)

-----------------------------------------------------------------------------
(* The deadline, the reaper, and the end of the registry. *)

Expire ==
  /\ ~expired
  /\ expired' = TRUE
  /\ UNCHANGED <<stateVars, inputVars, registered, stopped, gpu_unavailable, workerVars,
                 readerVars, otherVars, call>>

\* reap() collects expired entries under the registry's mutex and cancels them after it.
ReaperCollects ==
  /\ reaper = "idle" /\ call["reaper"] = "no"
  /\ expired /\ registered /\ ~stopped
  /\ reaper' = "holding"
  /\ UNCHANGED <<stateVars, inputVars, registryVars, workerVars, readerVars, canceller, handler, stopper, call>>

ReaperCancels ==
  /\ reaper = "holding"
  /\ reaper' = "idle"
  /\ EnterCancel("reaper", "expired")
  /\ UNCHANGED <<claimed, sequence, quiesced, terminal_notified, inputVars, registryVars,
                 workerVars, readerVars, canceller, handler, stopper>>

\* Another execution lost the GPU (seal_gpu_unavailable), or the runtime is
\* stopping (stop_admission_and_cancel): both collect the entries under the
\* registry's mutex and end them afterwards.
StopperGoes(s, from, to) ==
  /\ stopper[s] = from
  /\ stopper' = [stopper EXCEPT ![s] = to]

StopperCollects(s) ==
  /\ \/ /\ ~gpu_unavailable /\ gpu_unavailable' = TRUE
        /\ StopperGoes(s, "idle", IF registered THEN "sealing" ELSE "done")
     \/ /\ UNCHANGED gpu_unavailable
        /\ StopperGoes(s, "idle", IF registered THEN "stopping" ELSE "done")
  /\ stopped' = TRUE
  /\ UNCHANGED <<stateVars, inputVars, registered, expired, workerVars, readerVars,
                 canceller, handler, reaper, call>>

StopperEnds(s) ==
  /\ \/ StopperGoes(s, "sealing", "done") /\ EnterCancel(s, "unavailable")
     \/ /\ reaper = "idle" /\ call["reaper"] = "no"   \* reaper_.join()
        /\ StopperGoes(s, "stopping", "done") /\ EnterCancel(s, "cancelled")
  /\ UNCHANGED <<claimed, sequence, quiesced, terminal_notified, inputVars, registryVars,
                 workerVars, readerVars, canceller, handler, reaper>>

Registry ==
  \/ Expire \/ ReaperCollects \/ ReaperCancels
  \/ \E s \in Stoppers : StopperCollects(s) \/ StopperEnds(s)

Next ==
  \/ \E t \in Threads : InCall(t)
  \/ \E r \in Readers : Reader(r)
  \/ Worker
  \/ \E c \in Cancellers : Canceller(c)
  \/ \E h \in Uploads : Handler(h)
  \/ Registry

Spec == Init /\ [][Next]_vars

(***************************************************************************)
(* Fairness.  Threads of the server that are neither waiting for a client  *)
(* nor for the query run on: the tail of a cancellation, the reader's      *)
(* polls, the worker outside the engine, the reaper, a stop.  An engine    *)
(* that has been interrupted, or whose inputs are closed, returns (that is *)
(* what execution_->cancel() and Interrupt() are for; external).  Time     *)
(* passes.  Nothing is assumed of a client: neither Send, nor the end of   *)
(* an upload, nor that anybody claims or cancels.                          *)
(***************************************************************************)
EngineReturns == terminal /\ WorkerFinish

ServerFairness ==
  /\ \A t \in Threads : WF_vars(InCall(t))
  /\ \A r \in Readers : WF_vars(Claim(r) \/ Start(r) \/ ReadFrame(r) \/ ReadEnd(r) \/ Close(r))
  /\ WF_vars(PublishFrame \/ PublishReturn \/ WorkerSeals \/ WorkerSettle \/ WorkerExit)
  /\ WF_vars(EngineReturns)
  /\ \A c \in Cancellers : WF_vars(CancelAndWait(c) \/ Join(c))
  /\ \A h \in Uploads : WF_vars(AttachInput(h) \/ CountHandler(h) \/ FailInputs(h) \/ FailExecution(h) \/ DetachInput(h))
  /\ WF_vars(Expire) /\ WF_vars(ReaperCollects) /\ WF_vars(ReaperCancels)
  /\ \A s \in Stoppers : WF_vars(StopperEnds(s))

FairSpec == Spec /\ ServerFairness

-----------------------------------------------------------------------------
(* Properties. *)

CallStates == {"no", "interrupt", "interruptUnstarted", "quiesce", "notify", "remove"}
WorkerStates ==
  {"none", "run", "publish", "await", "unwind", "sealing", "fatal", "settleOk", "settleFailed",
   "leaving", "ended"}
ReaderStates == {"new", "refused", "claiming", "starting", "reading", "sending", "closing", "closed"}
CancellerStates == {"new", "not_found", "cancelling", "waiting", "gave_up", "joining", "quiesced"}
HandlerStates ==
  {"new", "refused", "attaching", "attached", "uploading", "failing", "failed", "throwing",
   "thrown", "caught", "detaching", "left"}

\* Type correctness; active_handlers_ never drops below zero.
TypeOK ==
  /\ claimed \in BOOLEAN /\ terminal \in BOOLEAN /\ quiesced \in BOOLEAN /\ terminal_notified \in BOOLEAN
  /\ status \in Statuses
  /\ frame \in 0..MaxFrames /\ sequence \in 0..MaxFrames
  /\ inputs \in [Uploads -> {"open", "drained", "not_needed", "cancelled"}]
  /\ active_handlers \in Nat
  /\ registered \in BOOLEAN /\ stopped \in BOOLEAN /\ gpu_unavailable \in BOOLEAN /\ expired \in BOOLEAN
  /\ worker \in WorkerStates /\ asleep \in BOOLEAN
  /\ reader \in [Readers -> ReaderStates]
  /\ received \in Seq(1..MaxFrames)
  /\ answer \in [Readers -> Statuses]
  /\ canceller \in [Cancellers -> CancellerStates]
  /\ handler \in [Uploads -> HandlerStates]
  /\ reaper \in {"idle", "holding"} /\ stopper \in [Stoppers -> {"idle", "sealing", "stopping", "done"}]
  /\ call \in [Threads -> CallStates]

\* A quiesced execution has no engine running and never gets one: a worker is
\* not started after a cancellation has quiesced the unstarted entry (the
\* terminal_ test in start() against joinable() in cancel()).
QuiescedMeansStopped ==
  quiesced => worker \notin {"run", "publish", "await", "unwind", "sealing", "fatal"}

\* A client that sees its result stream end without an error has received every
\* frame the query produced, once and in order, although a cancellation, the
\* deadline or a lost GPU may have raced with the last frame (publish waits
\* for the frame to be taken before the worker can finish).
ResultComplete ==
  \A r \in Readers : answer[r] = "succeeded" => received = [i \in 1..sequence |-> i]

\* When the last thread that could settle them has gone, no input is left open: a
\* handler waiting in publish or finish_upload on one would wait for ever (order
\* of finish's and cancel's steps, for a started and for an unstarted entry).
InputsSettled ==
  quiesced /\ worker \in {"none", "leaving", "ended"} => \A h \in Uploads : inputs[h] # "open"

\* The registry never forgets a ticket whose query runs or may still be started by
\* the DoGet that claimed it: a forgotten ticket can no longer be cancelled, and
\* its key is free for a second execution (maybe_notify_terminal and remove).
RemovedOnlyStopped ==
  ~registered => /\ worker \in {"none", "settleOk", "settleFailed", "leaving", "ended"}
                 /\ \A r \in Readers : reader[r] = "starting" => terminal

\* CancelExecution answers "quiesced" only when no thread runs this query any
\* more and no further result frame can appear (cancel_and_join and join).
QuiescedAnswer ==
  (\E c \in Cancellers : canceller[c] = "quiesced") => worker \in {"none", "ended"} /\ quiesced /\ frame = NoFrame

\* A started execution whose DoGet stream is there: the native_result_stream keeps a shared_ptr
\* to the entry while Next runs, while Flight sends the frame it returned, and until Close.
\* The resolution tokens are released by the destructor, when the last reference goes.
HeldByStream == worker # "none" /\ \E r \in Readers : reader[r] \in {"reading", "sending", "closing"}

\* "A quiesced result is returned only after the worker has stopped and released its
\* query-local TAE resolutions" (README): once CancelExecution has answered quiesced
\* no result stream keeps the entry, and with it the resolutions, alive.
QuiescedReleased == (\E c \in Cancellers : canceller[c] = "quiesced") => ~HeldByStream

\* The entry implements the lifecycle of the README.
Life == INSTANCE Lifecycle WITH
  state <- IF terminal THEN (IF status = "unavailable" THEN "failed" ELSE status)
           ELSE IF claimed THEN "running" ELSE "prepared"

\* The refinement: claimed once, never after the end, one terminal state that
\* nothing overwrites, and no success without a claim (cancel,
\* fail_gpu_unavailable, finish and claim on each other's flags).
LifecycleSpec == Life!Spec

\* The deadline ends the execution whatever its clients do: an expired entry
\* quiesces even if nobody reads its results, its uploads hang or its worker
\* sleeps in publish (reap, cancel and the notification of publish's wait).
DeadlineQuiesces == expired ~> quiesced

\* If no client stalls for ever in the middle of an upload, a quiesced entry leaves
\* the registry: one of the racing threads (worker, canceller, last handler to
\* detach) sees that it is the last one out (finish, detach_input and
\* maybe_notify_terminal).
QuiescedRemoved ==
  (<>[](\A h \in Uploads : handler[h] # "uploading")) => (quiesced ~> ~registered)

=============================================================================
