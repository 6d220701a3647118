---------------------------- MODULE StreamInput ----------------------------
(***************************************************************************)
(* One stream_input: the one-slot rendezvous between the DoPut handler     *)
(* that uploads MO-native batches and the mo_stream_scan of the query that *)
(* reads them (stream_input.cpp), with the part of DoPut that drives it    *)
(* (flight_runtime.cpp).                                                   *)
(*                                                                         *)
(* Every action below "Handler steps" and "Scan steps" is one critical     *)
(* section of stream_input::mutex_ together with the code up to the next   *)
(* one.  The producer's waits poll every 100 ms and are modelled by their  *)
(* exit condition.  The scan's wait in next_batch has no timeout, so the   *)
(* notification it depends on is modelled by the variable asleep.          *)
(***************************************************************************)
EXTENDS Naturals

CONSTANTS
  Uploads,      \* DoPut calls that name this input
  MaxBatches,   \* bound on the sequence number a client sends
  Chunks        \* DataChunks needed to emit one batch

ASSUME MaxBatchesAssumption == MaxBatches \in Nat \ {0}
ASSUME ChunksAssumption == Chunks \in Nat \ {0}

Batches == 1..MaxBatches

VARIABLES
  \* fields of stream_input
  batch,                \* batch_: the sequence number in the slot, 0 if null
  acknowledged_batches,
  attached, detached, producer_eof, consumer_eof, not_needed, cancelled,
  \* the DoPut handlers
  upload,               \* where each handler is
  frame,                \* sequence number of the frame a handler has read
  ack,                  \* the last acknowledgement publish or finish_upload returned
  \* the scan and the worker that runs the query
  scan, held, offset, asleep, worker,
  \* history
  placed,               \* highest batch that has been put in the slot
  emitted               \* chunks of each batch given to the query

slotVars    == <<batch, acknowledged_batches, placed>>
flagVars    == <<attached, detached, producer_eof, consumer_eof>>
verdictVars == <<not_needed, cancelled>>
uploadVars  == <<upload, frame, ack>>
scanVars    == <<scan, held, offset, asleep, worker, emitted>>
vars == <<slotVars, flagVars, verdictVars, uploadVars, scanVars>>

NoBatch == 0
Acks == [batches : 0..MaxBatches, complete : BOOLEAN, not_needed : BOOLEAN]
UploadStates ==
  {"new", "rejected", "ready", "reading", "publishing", "consume", "replying",
   "finishing", "eof", "lastReply", "failing", "throwing", "thrown", "closing", "done"}
ScanStates == {"idle", "wait", "emit", "eof", "failed", "stopped"}

Init ==
  /\ batch = NoBatch /\ acknowledged_batches = 0 /\ placed = 0
  /\ attached = FALSE /\ detached = FALSE /\ producer_eof = FALSE /\ consumer_eof = FALSE
  /\ not_needed = FALSE /\ cancelled = FALSE
  /\ upload = [u \in Uploads |-> "new"]
  /\ frame = [u \in Uploads |-> NoBatch]
  /\ ack = [u \in Uploads |-> [batches |-> 0, complete |-> FALSE, not_needed |-> FALSE]]
  /\ scan = "idle" /\ held = NoBatch /\ offset = 0 /\ asleep = FALSE /\ worker = "running"
  /\ emitted = [b \in Batches |-> 0]

-----------------------------------------------------------------------------
(* The conditions the code tests. *)

\* The loop condition of both waits in publish.
Blocked == batch # NoBatch /\ ~cancelled /\ ~not_needed

\* What finish_upload waits for.
UploadSettled_NoWait == producer_eof
UploadSettled == consumer_eof \/ cancelled \/ not_needed

\* The predicate of the condition wait in next_batch.
InputReady == batch # NoBatch \/ producer_eof \/ cancelled \/ not_needed

\* The two early returns at the head of publish.
Writable == attached /\ ~detached /\ ~producer_eof
Contiguous_Unchecked(u) == frame[u] # NoBatch
Contiguous(u) == frame[u] = acknowledged_batches + 1

\* The batch held by the scan has been emitted to its last row.
BatchUsedUp_Early == offset + 1 >= Chunks
BatchUsedUp_Late  == offset > Chunks
BatchUsedUp == offset = Chunks

\* condition_.notify_all()
NotifyAll_Lost == UNCHANGED asleep
NotifyAll == asleep' = FALSE

Go(u, from, to) ==
  /\ upload[u] = from
  /\ upload' = [upload EXCEPT ![u] = to]

\* cancel(): ignored once the input is not needed, otherwise it sticks.
CancelInput_Anytime ==
  /\ cancelled' = TRUE /\ batch' = NoBatch
  /\ NotifyAll
  /\ UNCHANGED <<not_needed, acknowledged_batches, placed>>
CancelInput ==
  /\ IF ~cancelled /\ ~not_needed
     THEN cancelled' = TRUE /\ batch' = NoBatch
     ELSE UNCHANGED <<cancelled, batch>>
  /\ NotifyAll
  /\ UNCHANGED <<not_needed, acknowledged_batches, placed>>

\* mark_not_needed(): ignored once the input is cancelled or drained.
MarkNotNeeded ==
  /\ IF ~cancelled /\ ~consumer_eof
     THEN not_needed' = TRUE /\ batch' = NoBatch
     ELSE UNCHANGED <<not_needed, batch>>
  /\ NotifyAll
  /\ UNCHANGED <<cancelled, acknowledged_batches, placed>>

\* The acknowledgement built under the lock when publish or finish_upload returns.
AckNow(complete) ==
  [batches |-> acknowledged_batches, complete |-> complete, not_needed |-> not_needed]

-----------------------------------------------------------------------------
(* Handler steps: DoPut over attach, publish, finish_upload and detach. *)

Attach(u) ==
  /\ IF attached \/ cancelled
     THEN Go(u, "new", "rejected") /\ UNCHANGED <<attached, detached>>
     ELSE Go(u, "new", "ready") /\ attached' = TRUE /\ detached' = FALSE
  /\ UNCHANGED <<slotVars, producer_eof, consumer_eof, verdictVars, frame, ack, scanVars>>

\* The ready acknowledgement; a failed write fails the input.
WriteReady(u) ==
  /\ \/ Go(u, "ready", "reading")
     \/ Go(u, "ready", "failing")
  /\ UNCHANGED <<slotVars, flagVars, verdictVars, frame, ack, scanVars>>

\* reader->Next() returned a frame.  The client is free to repeat, skip or
\* reorder sequence numbers.
ReadFrame(u) ==
  /\ Go(u, "reading", "publishing")
  /\ \E b \in Batches : frame' = [frame EXCEPT ![u] = b]
  /\ UNCHANGED <<slotVars, flagVars, verdictVars, ack, scanVars>>

\* reader->Next() returned the end of the upload, an error or something that
\* is not an acceptable metadata frame; "throwing" is a frame whose decoding
\* throws inside publish.
ReadOther(u) ==
  /\ \/ Go(u, "reading", "finishing")
     \/ Go(u, "reading", "failing")
     \/ Go(u, "reading", "throwing")
  /\ UNCHANGED <<slotVars, flagVars, verdictVars, frame, ack, scanVars>>

PublishRejected(u) ==
  /\ ~Writable \/ ~Contiguous(u)
  /\ Go(u, "publishing", "failing")
  /\ UNCHANGED <<slotVars, flagVars, verdictVars, frame, ack, scanVars>>

\* The input already has a verdict: publish does not touch the slot.
PublishClosed(u) ==
  /\ Writable /\ Contiguous(u) /\ ~Blocked
  /\ IF cancelled
     THEN Go(u, "publishing", "failing") /\ UNCHANGED ack
     ELSE /\ not_needed
          /\ Go(u, "publishing", "replying")
          /\ ack' = [ack EXCEPT ![u] = AckNow(TRUE)]
  /\ UNCHANGED <<slotVars, flagVars, verdictVars, frame, scanVars>>

PublishPlace(u) ==
  /\ Writable /\ Contiguous(u) /\ ~Blocked
  /\ ~cancelled /\ ~not_needed
  /\ Go(u, "publishing", "consume")
  /\ batch' = frame[u]
  /\ placed' = frame[u]
  /\ NotifyAll
  /\ UNCHANGED <<acknowledged_batches, flagVars, verdictVars, frame, ack,
                 scan, held, offset, worker, emitted>>

PublishReturn(u) ==
  /\ ~Blocked
  /\ IF cancelled
     THEN Go(u, "consume", "failing") /\ UNCHANGED ack
     ELSE /\ Go(u, "consume", "replying")
          /\ ack' = [ack EXCEPT ![u] = AckNow(not_needed)]
  /\ UNCHANGED <<slotVars, flagVars, verdictVars, frame, scanVars>>

\* The acknowledgement of a batch is written; the upload ends if it says complete.
Reply(u) ==
  /\ \/ Go(u, "replying", IF ack[u].complete THEN "closing" ELSE "reading")
     \/ Go(u, "replying", "failing")
  /\ UNCHANGED <<slotVars, flagVars, verdictVars, frame, ack, scanVars>>

FinishUpload(u) ==
  /\ Go(u, "finishing", "eof")
  /\ producer_eof' = TRUE
  /\ NotifyAll
  /\ UNCHANGED <<slotVars, attached, detached, consumer_eof, verdictVars, frame, ack,
                 scan, held, offset, worker, emitted>>

FinishReturn(u) ==
  /\ UploadSettled
  /\ IF cancelled
     THEN Go(u, "eof", "failing") /\ UNCHANGED ack
     ELSE /\ Go(u, "eof", "lastReply")
          /\ ack' = [ack EXCEPT ![u] = AckNow(TRUE)]
  /\ UNCHANGED <<slotVars, flagVars, verdictVars, frame, scanVars>>

\* The last acknowledgement; DoPut returns the status of the write either way.
LastReply(u) ==
  /\ Go(u, "lastReply", "closing")
  /\ UNCHANGED <<slotVars, flagVars, verdictVars, frame, ack, scanVars>>

\* A poll of context.is_cancelled() ends one of the waits.  The batch stays in the
\* slot.  (The wait at the head of publish is passed at once: one handler attaches
\* per input, and its previous batch has left the slot when it publishes again.)
CallerStopped(u) ==
  /\ \/ Blocked /\ Go(u, "consume", "failing")
     \/ ~UploadSettled /\ Go(u, "eof", "failing")
  /\ UNCHANGED <<slotVars, flagVars, verdictVars, frame, ack, scanVars>>

\* fail_input, before the guard runs, or after it on the exception path.
FailInput(u) ==
  /\ \/ Go(u, "failing", "closing")
     \/ Go(u, "thrown", "done")
  /\ CancelInput
  /\ UNCHANGED <<flagVars, frame, ack, scan, held, offset, worker, emitted>>

\* ~input_handler_guard; an exception unwinds it before the catch clause.
Detach_EndsInput(u) ==
  /\ \/ Go(u, "closing", "done")
     \/ Go(u, "throwing", "thrown")
  /\ detached' = TRUE
  /\ producer_eof' = TRUE
  /\ NotifyAll
  /\ UNCHANGED <<slotVars, attached, consumer_eof, verdictVars, frame, ack,
                 scan, held, offset, worker, emitted>>
Detach(u) ==
  /\ \/ Go(u, "closing", "done")
     \/ Go(u, "throwing", "thrown")
  /\ detached' = TRUE
  /\ NotifyAll
  /\ UNCHANGED <<slotVars, attached, producer_eof, consumer_eof, verdictVars, frame, ack,
                 scan, held, offset, worker, emitted>>

-----------------------------------------------------------------------------
(* Scan steps: mo_stream_scan pulled by the query, and the worker that ends it. *)

StartScan ==
  /\ scan = "idle"
  /\ scan' = "wait"
  /\ UNCHANGED <<slotVars, flagVars, verdictVars, uploadVars, held, offset, asleep, worker, emitted>>

\* next_batch goes to sleep on the condition variable.
NextBatchSleep ==
  /\ scan = "wait" /\ ~asleep
  /\ ~InputReady
  /\ asleep' = TRUE
  /\ UNCHANGED <<slotVars, flagVars, verdictVars, uploadVars, scan, held, offset, worker, emitted>>

\* next_batch throws, or returns null: to the query both end the scan, but
\* only the second one looks like the end of the data.
NextBatchEnd ==
  /\ scan = "wait" /\ ~asleep
  /\ InputReady
  /\ cancelled \/ not_needed \/ batch = NoBatch
  /\ scan' = IF cancelled THEN "failed" ELSE "eof"
  /\ consumer_eof' = (consumer_eof \/ (~cancelled /\ ~not_needed))
  /\ UNCHANGED <<slotVars, attached, detached, producer_eof, verdictVars, uploadVars,
                 held, offset, asleep, worker, emitted>>

NextBatchTake ==
  /\ scan = "wait" /\ ~asleep
  /\ batch # NoBatch /\ ~cancelled /\ ~not_needed
  /\ scan' = "emit"
  /\ held' = batch
  /\ offset' = 0
  /\ UNCHANGED <<slotVars, flagVars, verdictVars, uploadVars, asleep, worker, emitted>>

\* One call of scan_stream that fills a DataChunk from the batch it holds.
EmitChunk ==
  /\ scan = "emit" /\ ~BatchUsedUp
  /\ offset' = offset + 1
  /\ emitted' = [emitted EXCEPT ![held] = @ + 1]
  /\ UNCHANGED <<slotVars, flagVars, verdictVars, uploadVars, scan, held, asleep, worker>>

\* The next call finds the batch used up: mark_consumed, then next_batch.
\* mark_consumed does nothing when the slot has been cleared meanwhile.
MarkConsumed ==
  /\ scan = "emit" /\ BatchUsedUp
  /\ IF batch = held
     THEN acknowledged_batches' = acknowledged_batches + 1 /\ batch' = NoBatch
     ELSE UNCHANGED <<acknowledged_batches, batch>>
  /\ scan' = "wait"
  /\ held' = NoBatch
  /\ offset' = 0
  /\ UNCHANGED <<placed, flagVars, verdictVars, uploadVars, asleep, worker, emitted>>

\* The query stops pulling: a LIMIT is satisfied, it is interrupted or it fails.
StopScan ==
  /\ scan \in {"idle", "emit"}
  /\ scan' = "stopped"
  /\ held' = NoBatch
  /\ offset' = 0
  /\ UNCHANGED <<slotVars, flagVars, verdictVars, uploadVars, asleep, worker, emitted>>

\* execution_entry::finish: a query whose scan threw cannot have succeeded.
WorkerFinish ==
  /\ worker = "running"
  /\ scan \in {"eof", "stopped", "failed"}
  /\ worker' = "done"
  /\ \/ scan # "failed" /\ MarkNotNeeded
     \/ CancelInput
  /\ UNCHANGED <<flagVars, uploadVars, scan, held, offset, emitted>>

\* Everything else that cancels the inputs of the execution: CancelExecution,
\* the deadline, a closed result stream, the failed upload of another input.
CancelExecution ==
  /\ CancelInput
  /\ UNCHANGED <<flagVars, uploadVars, scan, held, offset, worker, emitted>>

-----------------------------------------------------------------------------
Handler(u) ==
  \/ Attach(u) \/ WriteReady(u) \/ ReadFrame(u) \/ ReadOther(u)
  \/ PublishRejected(u) \/ PublishClosed(u) \/ PublishPlace(u) \/ PublishReturn(u)
  \/ Reply(u) \/ FinishUpload(u) \/ FinishReturn(u) \/ LastReply(u)
  \/ CallerStopped(u) \/ FailInput(u) \/ Detach(u)

Scan ==
  \/ StartScan \/ NextBatchSleep \/ NextBatchEnd \/ NextBatchTake
  \/ EmitChunk \/ MarkConsumed \/ StopScan

Next ==
  \/ \E u \in Uploads : Handler(u)
  \/ Scan
  \/ WorkerFinish
  \/ CancelExecution

Spec == Init /\ [][Next]_vars

(***************************************************************************)
(* Fairness.  The handler's steps out of its two waits happen because the  *)
(* waits poll, and a scan that is awake inside next_batch returns from it. *)
(* Nothing is assumed of the client that uploads, nor that the query pulls *)
(* its scan or ends: its worker may wait without a timeout in              *)
(* execution_entry::publish until the DoGet client reads a frame.          *)
(***************************************************************************)
Fairness ==
  /\ \A u \in Uploads : WF_vars(PublishReturn(u)) /\ WF_vars(FinishReturn(u))
  /\ WF_vars(NextBatchEnd \/ NextBatchTake)

FairSpec == Spec /\ Fairness

-----------------------------------------------------------------------------
(* Properties. *)

\* Type correctness; every counter stays within the bounds of the model.
TypeOK ==
  /\ batch \in 0..MaxBatches /\ acknowledged_batches \in 0..MaxBatches /\ placed \in 0..MaxBatches
  /\ attached \in BOOLEAN /\ detached \in BOOLEAN
  /\ producer_eof \in BOOLEAN /\ consumer_eof \in BOOLEAN
  /\ not_needed \in BOOLEAN /\ cancelled \in BOOLEAN /\ asleep \in BOOLEAN
  /\ upload \in [Uploads -> UploadStates]
  /\ frame \in [Uploads -> 0..MaxBatches]
  /\ ack \in [Uploads -> Acks]
  /\ scan \in ScanStates /\ held \in 0..MaxBatches /\ offset \in 0..Chunks
  /\ worker \in {"running", "done"}
  /\ emitted \in [Batches -> Nat]

\* Whatever sequence numbers a client sends, and however its upload, the scan
\* and a cancellation interleave, the query sees each batch at most once and
\* only after all of every earlier batch (publish's contiguity check together
\* with the one-slot handshake of mark_consumed).
InOrderExactlyOnce ==
  \A b \in Batches :
    /\ emitted[b] <= Chunks
    /\ emitted[b] > 0 => \A a \in 1..(b - 1) : emitted[a] = Chunks

\* An acknowledgement that publish or finish_upload returns to the client only
\* counts batches whose last row has reached the query (scan_stream calls
\* mark_consumed on the call after the last chunk).
AckedFullyEmitted ==
  \A u \in Uploads : \A b \in 1..ack[u].batches : emitted[b] = Chunks

\* An upload acknowledged as complete, and not as no longer needed, was read to
\* its end: every batch that entered the slot is counted in it and the scan has
\* seen the end of the input (finish_upload waits for consumer_eof_).
CompleteAckDrained ==
  \A u \in Uploads :
    ack[u].complete /\ ~ack[u].not_needed => consumer_eof /\ ack[u].batches = placed

\* The scan reports the end of the data only for an input the client has ended:
\* never for one whose upload is still going or has failed, although a failing
\* handler that unwinds an exception detaches before it cancels (DoPut's guard).
CleanEof ==
  consumer_eof =>
    /\ \A b \in 1..placed : emitted[b] = Chunks
    /\ \A u \in Uploads :
         upload[u] \notin {"reading", "publishing", "consume", "replying", "throwing", "thrown"}

\* The input implements the abstract delivery contract.
Delivery == INSTANCE InputDelivery WITH
  offered  <- placed,
  accepted <- acknowledged_batches,
  verdict  <- IF cancelled THEN "aborted"
              ELSE IF not_needed THEN "unneeded"
              ELSE IF consumer_eof THEN "drained" ELSE "open"

\* The refinement: one offered batch at a time, one verdict, a drained input
\* that was accepted to its last batch (publish, mark_consumed, next_batch,
\* mark_not_needed and cancel against each other's flags).
DeliverySpec == Delivery!Spec

\* The query runs on: its result is read, so that a started scan is pulled until it ends and
\* the worker reaches finish().
QueryRunsOn == WF_vars(EmitChunk \/ MarkConsumed) /\ WF_vars(WorkerFinish)

\* Somebody ends the execution: the reaper does at its deadline.
ExecutionExpires == WF_vars(CancelExecution)

Waiting(u) == upload[u] \in {"consume", "eof"}

\* If the query runs on, a handler waiting in publish or finish_upload on a started scan is
\* released without a cancellation: the batch is consumed, the end is seen or finish() settles
\* the input, and no notification of next_batch's untimed wait is lost.  If the query is stuck
\* behind a client that does not read its result, or never started, the deadline releases the
\* handler, and a scan that sleeps in next_batch as well.
HandlerReleased ==
  /\ QueryRunsOn => \A u \in Uploads : (Waiting(u) /\ scan # "idle") ~> ~Waiting(u)
  /\ ExecutionExpires =>
       /\ \A u \in Uploads : Waiting(u) ~> ~Waiting(u)
       /\ (scan = "wait") ~> (scan # "wait")
=============================================================================
