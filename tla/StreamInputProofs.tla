------------------------- MODULE StreamInputProofs -------------------------
(***************************************************************************)
(* Proofs about StreamInput for any number of DoPut calls, batches and     *)
(* chunks: type correctness, the four safety invariants and the refinement *)
(* of InputDelivery.                                                       *)
(***************************************************************************)
EXTENDS StreamInput, TLAPS

Open == ~cancelled /\ ~not_needed

\* The handler has attached the input.
Owner(u) == upload[u] \notin {"new", "rejected"}

\* Handler states in which the slot may be full.
MayFill == {"consume", "failing"}

\* Handler states that follow the end of the upload.
PastEnd == {"new", "rejected", "eof", "lastReply", "failing", "closing", "done"}

\* Only one handler ever owns the input, and it fills the slot only while it
\* is inside publish (or gives up on the batch it has placed).
OwnerInv ==
  /\ \A u, v \in Uploads : Owner(u) /\ Owner(v) => u = v
  /\ \A u \in Uploads : Owner(u) => attached
  /\ batch # NoBatch => attached
  /\ \A u \in Uploads : Owner(u) /\ upload[u] \notin MayFill => batch = NoBatch

\* The slot, the count of acknowledged batches and the verdict.
SlotInv ==
  /\ ~(cancelled /\ not_needed)
  /\ batch # NoBatch => Open /\ batch = acknowledged_batches + 1
  /\ acknowledged_batches <= placed /\ placed <= acknowledged_batches + 1
  /\ Open => placed = IF batch = NoBatch THEN acknowledged_batches ELSE acknowledged_batches + 1

\* What the scan holds and what it has emitted.
EmitInv ==
  /\ scan = "emit" <=> held # NoBatch
  /\ held # NoBatch => /\ held = acknowledged_batches + 1
                       /\ emitted[held] = offset
                       /\ Open => batch = held
  /\ \A b \in Batches :
       /\ b <= acknowledged_batches => emitted[b] = Chunks
       /\ b > acknowledged_batches + 1 => emitted[b] = 0
       /\ emitted[b] <= Chunks
       /\ b = acknowledged_batches + 1 /\ Open /\ scan \in {"idle", "wait"} => emitted[b] = 0

\* Both ends of the stream.
EofInv ==
  /\ producer_eof => batch = NoBatch /\ attached /\ \A u \in Uploads : upload[u] \in PastEnd
  /\ consumer_eof => /\ producer_eof /\ ~not_needed
                     /\ scan = "eof"
                     /\ placed = acknowledged_batches

\* The acknowledgements handed out.
AckInv ==
  \A u \in Uploads :
    /\ ack[u].batches <= acknowledged_batches
    /\ ack[u].complete /\ ~ack[u].not_needed =>
         consumer_eof /\ ack[u].batches = acknowledged_batches

IInv == TypeOK /\ OwnerInv /\ SlotInv /\ EmitInv /\ EofInv /\ AckInv

-----------------------------------------------------------------------------
(* Effects of the operators the actions are built from. *)

\* A handler step moves one handler and leaves the others where they are.
OthersStay(u) == \A v \in Uploads : v # u => upload'[v] = upload[v]

\* A step of the owner keeps it the only owner: the slot must be empty unless
\* the owner is now in a state that may leave it full (publish's two exits).
LEMMA OwnerStep ==
  ASSUME OwnerInv, NEW u \in Uploads, Owner(u), Owner(u)', OthersStay(u),
         attached' = attached, upload'[u] \notin MayFill => batch' = NoBatch
  PROVE  OwnerInv'
<1>1. \A v \in Uploads : Owner(v)' => v = u
  BY DEF OwnerInv, Owner, OthersStay
<1>2. attached'
  BY DEF OwnerInv
<1> QED
  BY <1>1, <1>2 DEF OwnerInv, Owner

\* cancel() always leaves the slot empty and the input closed, whether or not
\* it is the call that cancels it.
LEMMA CancelInputEffect ==
  ASSUME TypeOK, SlotInv, CancelInput
  PROVE  /\ cancelled' \in BOOLEAN /\ not_needed' = not_needed /\ asleep' \in BOOLEAN
         /\ batch' = NoBatch /\ ~Open'
         /\ acknowledged_batches' = acknowledged_batches /\ placed' = placed
         /\ ~(cancelled' /\ not_needed')
<1>1. CASE Open
  BY <1>1 DEF CancelInput, NotifyAll, Open, TypeOK
<1>2. CASE ~Open
  BY <1>2 DEF CancelInput, NotifyAll, Open, TypeOK, SlotInv
<1> QED
  BY <1>1, <1>2

\* mark_not_needed() never marks a drained or cancelled input, and leaves the
\* slot empty in every case.
LEMMA MarkNotNeededEffect ==
  ASSUME TypeOK, SlotInv, EofInv, MarkNotNeeded
  PROVE  /\ not_needed' \in BOOLEAN /\ cancelled' = cancelled /\ asleep' \in BOOLEAN
         /\ batch' = NoBatch /\ (Open' => Open /\ consumer_eof)
         /\ acknowledged_batches' = acknowledged_batches /\ placed' = placed
         /\ ~(cancelled' /\ not_needed')
         /\ consumer_eof => not_needed' = not_needed
<1>1. CASE ~cancelled /\ ~consumer_eof
  BY <1>1 DEF MarkNotNeeded, NotifyAll, Open, TypeOK
<1>2. CASE ~(~cancelled /\ ~consumer_eof)
  BY <1>2 DEF MarkNotNeeded, NotifyAll, Open, TypeOK, SlotInv, EofInv
<1> QED
  BY <1>1, <1>2

\* The acknowledgement built when publish or finish_upload returns is well
\* formed; it counts no batch that is not acknowledged.
LEMMA AckNowType ==
  ASSUME TypeOK, NEW c \in BOOLEAN
  PROVE  /\ AckNow(c) \in Acks
         /\ AckNow(c).batches = acknowledged_batches
         /\ AckNow(c).complete = c /\ AckNow(c).not_needed = not_needed
  BY DEF TypeOK, AckNow, Acks

-----------------------------------------------------------------------------
(* The inductive invariant. *)

\* Init establishes the invariant.
LEMMA InvInit == Init => IInv
<1> SUFFICES ASSUME Init PROVE IInv
  OBVIOUS
<1> USE MaxBatchesAssumption, ChunksAssumption DEF Init, NoBatch, Batches
<1>1. TypeOK
  <2>1. ack \in [Uploads -> Acks]
    BY DEF Acks
  <2>2. emitted \in [Batches -> Nat] /\ upload \in [Uploads -> UploadStates]
    BY DEF UploadStates
  <2>3. frame \in [Uploads -> 0..MaxBatches]
    OBVIOUS
  <2>4. /\ attached \in BOOLEAN /\ detached \in BOOLEAN /\ producer_eof \in BOOLEAN
        /\ consumer_eof \in BOOLEAN /\ not_needed \in BOOLEAN /\ cancelled \in BOOLEAN
        /\ asleep \in BOOLEAN
    BY Zenon
  <2>5. /\ {batch, acknowledged_batches, placed, held} \subseteq 0..MaxBatches
        /\ offset \in 0..Chunks
    OBVIOUS
  <2>6. scan \in ScanStates /\ worker \in {"running", "done"}
    BY DEF ScanStates
  <2> QED
    BY <2>1, <2>2, <2>3, <2>4, <2>5, <2>6, Zenon DEF TypeOK
<1>2. OwnerInv /\ SlotInv /\ EmitInv
  BY DEF OwnerInv, SlotInv, EmitInv, Open, Owner
<1>3. EofInv /\ AckInv
  BY DEF EofInv, AckInv
<1> QED
  BY <1>1, <1>2, <1>3 DEF IInv

\* Every step of a DoPut handler preserves it.
LEMMA InvHandler ==
  ASSUME IInv, NEW u \in Uploads, Handler(u)
  PROVE  IInv'
<1> USE MaxBatchesAssumption, ChunksAssumption
    DEF IInv, NoBatch, Batches, slotVars, flagVars, verdictVars, uploadVars, scanVars
<1>1. CASE Attach(u)
  <2>1. CASE attached \/ cancelled
    <3>1. OthersStay(u) /\ upload'[u] = "rejected" /\ upload' \in [Uploads -> UploadStates]
      BY <1>1, <2>1 DEF Attach, Go, OthersStay, TypeOK, UploadStates
    <3>2. UNCHANGED <<attached, detached>>
      BY <1>1, <2>1 DEF Attach
    <3>3. TypeOK'
      BY <1>1, <3>1, <3>2 DEF Attach, TypeOK
    <3>4. OwnerInv'
      BY <1>1, <3>1, <3>2 DEF Attach, OwnerInv, Owner, OthersStay
    <3>5. SlotInv' /\ EmitInv' /\ AckInv'
      BY <1>1 DEF Attach, SlotInv, EmitInv, AckInv, Open
    <3>6. EofInv'
      BY <1>1, <3>1, <3>2 DEF Attach, EofInv, PastEnd, OthersStay
    <3> QED
      BY <3>3, <3>4, <3>5, <3>6
  <2>2. CASE ~attached /\ ~cancelled
    <3>1. OthersStay(u) /\ upload'[u] = "ready" /\ upload' \in [Uploads -> UploadStates]
      BY <1>1, <2>2 DEF Attach, Go, OthersStay, TypeOK, UploadStates
    <3>2. attached' = TRUE /\ detached' = FALSE
      BY <1>1, <2>2 DEF Attach
    <3>3. TypeOK'
      BY <1>1, <3>1, <3>2 DEF Attach, TypeOK
    <3>4. OwnerInv'
      BY <1>1, <2>2, <3>1, <3>2 DEF Attach, OwnerInv, Owner, OthersStay
    <3>5. SlotInv' /\ EmitInv' /\ AckInv'
      BY <1>1 DEF Attach, SlotInv, EmitInv, AckInv, Open
    <3>6. EofInv'
      BY <1>1, <2>2, <3>2 DEF Attach, EofInv
    <3> QED
      BY <3>3, <3>4, <3>5, <3>6
  <2> QED
    BY <2>1, <2>2
<1>2. CASE WriteReady(u)
  <2>1. OthersStay(u) /\ Owner(u) /\ Owner(u)' /\ upload' \in [Uploads -> UploadStates]
    BY <1>2 DEF WriteReady, Go, OthersStay, Owner, TypeOK, UploadStates
  <2>2. TypeOK'
    BY <1>2, <2>1 DEF WriteReady, TypeOK
  <2>3. OwnerInv'
    BY <1>2, <2>1, OwnerStep DEF WriteReady, Go, OwnerInv, MayFill, TypeOK
  <2>4. SlotInv' /\ EmitInv'
    BY <1>2 DEF WriteReady, TypeOK, SlotInv, EmitInv, Open
  <2>5. EofInv' /\ AckInv'
    BY <1>2, <2>1 DEF WriteReady, Go, TypeOK, EofInv, AckInv, OwnerInv, Owner, OthersStay, PastEnd, MayFill
  <2> QED
    BY <2>2, <2>3, <2>4, <2>5
<1>3. CASE ReadFrame(u)
  <2>1. OthersStay(u) /\ Owner(u) /\ Owner(u)' /\ upload' \in [Uploads -> UploadStates]
    BY <1>3 DEF ReadFrame, Go, OthersStay, Owner, TypeOK, UploadStates
  <2>2. TypeOK'
    <3>1. frame' \in [Uploads -> 0..MaxBatches]
      BY <1>3 DEF ReadFrame, TypeOK
    <3> QED
      BY <1>3, <2>1, <3>1 DEF ReadFrame, TypeOK
  <2>3. OwnerInv'
    BY <1>3, <2>1, OwnerStep DEF ReadFrame, Go, OwnerInv, MayFill, TypeOK
  <2>4. SlotInv' /\ EmitInv'
    BY <1>3 DEF ReadFrame, TypeOK, SlotInv, EmitInv, Open
  <2>5. EofInv' /\ AckInv'
    BY <1>3, <2>1 DEF ReadFrame, Go, TypeOK, EofInv, AckInv, OwnerInv, Owner, OthersStay, PastEnd, MayFill
  <2> QED
    BY <2>2, <2>3, <2>4, <2>5
<1>4. CASE ReadOther(u)
  <2>1. OthersStay(u) /\ Owner(u) /\ Owner(u)' /\ upload' \in [Uploads -> UploadStates]
    BY <1>4 DEF ReadOther, Go, OthersStay, Owner, TypeOK, UploadStates
  <2>2. TypeOK'
    BY <1>4, <2>1 DEF ReadOther, TypeOK
  <2>3. OwnerInv'
    BY <1>4, <2>1, OwnerStep DEF ReadOther, Go, OwnerInv, MayFill, TypeOK
  <2>4. SlotInv' /\ EmitInv'
    BY <1>4 DEF ReadOther, TypeOK, SlotInv, EmitInv, Open
  <2>5. EofInv' /\ AckInv'
    BY <1>4, <2>1 DEF ReadOther, Go, TypeOK, EofInv, AckInv, OwnerInv, Owner, OthersStay, PastEnd, MayFill
  <2> QED
    BY <2>2, <2>3, <2>4, <2>5
<1>5. CASE PublishRejected(u)
  <2>1. OthersStay(u) /\ Owner(u) /\ Owner(u)' /\ upload' \in [Uploads -> UploadStates]
    BY <1>5 DEF PublishRejected, Go, OthersStay, Owner, TypeOK, UploadStates
  <2>2. TypeOK'
    BY <1>5, <2>1 DEF PublishRejected, TypeOK
  <2>3. OwnerInv'
    BY <1>5, <2>1, OwnerStep DEF PublishRejected, Go, OwnerInv, MayFill, TypeOK
  <2>4. SlotInv' /\ EmitInv'
    BY <1>5 DEF PublishRejected, TypeOK, SlotInv, EmitInv, Open
  <2>5. EofInv' /\ AckInv'
    BY <1>5, <2>1 DEF PublishRejected, Go, TypeOK, EofInv, AckInv, OwnerInv, Owner, OthersStay, PastEnd, MayFill
  <2> QED
    BY <2>2, <2>3, <2>4, <2>5
<1>6. CASE PublishPlace(u)
  <2>1. OthersStay(u) /\ Owner(u) /\ Owner(u)' /\ upload' \in [Uploads -> UploadStates]
    BY <1>6 DEF PublishPlace, Go, OthersStay, Owner, TypeOK, UploadStates
  <2>2. TypeOK'
    BY <1>6, <2>1 DEF PublishPlace, TypeOK, Writable, Contiguous, Blocked, NotifyAll
  <2>3. OwnerInv'
    BY <1>6, <2>1, OwnerStep DEF PublishPlace, Go, OwnerInv, MayFill, TypeOK
  <2>4. SlotInv' /\ EmitInv'
    BY <1>6 DEF PublishPlace, TypeOK, SlotInv, EmitInv, Open, Writable, Contiguous, Blocked, NotifyAll
  <2>5. EofInv' /\ AckInv'
    BY <1>6, <2>1 DEF PublishPlace, Go, TypeOK, EofInv, AckInv, OwnerInv, Owner, OthersStay, PastEnd, MayFill, Writable, Contiguous, Blocked, NotifyAll
  <2> QED
    BY <2>2, <2>3, <2>4, <2>5
<1>7. CASE Reply(u)
  <2>1. OthersStay(u) /\ Owner(u) /\ Owner(u)' /\ upload' \in [Uploads -> UploadStates]
    BY <1>7 DEF Reply, Go, OthersStay, Owner, TypeOK, UploadStates
  <2>2. TypeOK'
    BY <1>7, <2>1 DEF Reply, TypeOK
  <2>3. OwnerInv'
    BY <1>7, <2>1, OwnerStep DEF Reply, Go, OwnerInv, MayFill, TypeOK
  <2>4. SlotInv' /\ EmitInv'
    BY <1>7 DEF Reply, TypeOK, SlotInv, EmitInv, Open
  <2>5. EofInv' /\ AckInv'
    BY <1>7, <2>1 DEF Reply, Go, TypeOK, EofInv, AckInv, OwnerInv, Owner, OthersStay, PastEnd, MayFill
  <2> QED
    BY <2>2, <2>3, <2>4, <2>5
<1>8. CASE FinishUpload(u)
  <2>1. OthersStay(u) /\ Owner(u) /\ Owner(u)' /\ upload' \in [Uploads -> UploadStates]
    BY <1>8 DEF FinishUpload, Go, OthersStay, Owner, TypeOK, UploadStates
  <2>2. TypeOK'
    BY <1>8, <2>1 DEF FinishUpload, TypeOK, NotifyAll
  <2>3. OwnerInv'
    BY <1>8, <2>1, OwnerStep DEF FinishUpload, Go, OwnerInv, MayFill, TypeOK
  <2>4. SlotInv' /\ EmitInv'
    BY <1>8 DEF FinishUpload, TypeOK, SlotInv, EmitInv, Open, NotifyAll
  <2>5. EofInv' /\ AckInv'
    BY <1>8, <2>1 DEF FinishUpload, Go, TypeOK, EofInv, AckInv, OwnerInv, Owner, OthersStay, PastEnd, MayFill, NotifyAll
  <2> QED
    BY <2>2, <2>3, <2>4, <2>5
<1>9. CASE LastReply(u)
  <2>1. OthersStay(u) /\ Owner(u) /\ Owner(u)' /\ upload' \in [Uploads -> UploadStates]
    BY <1>9 DEF LastReply, Go, OthersStay, Owner, TypeOK, UploadStates
  <2>2. TypeOK'
    BY <1>9, <2>1 DEF LastReply, TypeOK
  <2>3. OwnerInv'
    BY <1>9, <2>1, OwnerStep DEF LastReply, Go, OwnerInv, MayFill, TypeOK
  <2>4. SlotInv' /\ EmitInv'
    BY <1>9 DEF LastReply, TypeOK, SlotInv, EmitInv, Open
  <2>5. EofInv' /\ AckInv'
    BY <1>9, <2>1 DEF LastReply, Go, TypeOK, EofInv, AckInv, OwnerInv, Owner, OthersStay, PastEnd, MayFill
  <2> QED
    BY <2>2, <2>3, <2>4, <2>5
<1>10. CASE CallerStopped(u)
  <2>1. OthersStay(u) /\ Owner(u) /\ Owner(u)' /\ upload' \in [Uploads -> UploadStates]
    BY <1>10 DEF CallerStopped, Go, OthersStay, Owner, TypeOK, UploadStates
  <2>2. TypeOK'
    BY <1>10, <2>1 DEF CallerStopped, TypeOK
  <2>3. OwnerInv'
    BY <1>10, <2>1, OwnerStep DEF CallerStopped, Go, OwnerInv, MayFill, TypeOK
  <2>4. SlotInv' /\ EmitInv'
    BY <1>10 DEF CallerStopped, TypeOK, SlotInv, EmitInv, Open
  <2>5. EofInv' /\ AckInv'
    BY <1>10, <2>1 DEF CallerStopped, Go, TypeOK, EofInv, AckInv, OwnerInv, Owner, OthersStay, PastEnd, MayFill
  <2> QED
    BY <2>2, <2>3, <2>4, <2>5
<1>11. CASE Detach(u)
  <2>1. OthersStay(u) /\ Owner(u) /\ Owner(u)' /\ upload' \in [Uploads -> UploadStates]
    BY <1>11 DEF Detach, Go, OthersStay, Owner, TypeOK, UploadStates
  <2>2. TypeOK'
    BY <1>11, <2>1 DEF Detach, TypeOK, NotifyAll
  <2>3. OwnerInv'
    BY <1>11, <2>1, OwnerStep DEF Detach, Go, OwnerInv, MayFill, TypeOK
  <2>4. SlotInv' /\ EmitInv'
    BY <1>11 DEF Detach, TypeOK, SlotInv, EmitInv, Open, NotifyAll
  <2>5. EofInv' /\ AckInv'
    BY <1>11, <2>1 DEF Detach, Go, TypeOK, EofInv, AckInv, OwnerInv, Owner, OthersStay, PastEnd, MayFill, NotifyAll
  <2> QED
    BY <2>2, <2>3, <2>4, <2>5
<1>12. CASE PublishClosed(u)
  <2>1. OthersStay(u) /\ Owner(u) /\ Owner(u)' /\ upload' \in [Uploads -> UploadStates]
    BY <1>12 DEF PublishClosed, Go, OthersStay, Owner, TypeOK, UploadStates
  <2>2. ack' = ack \/ (~cancelled /\ ack' = [ack EXCEPT ![u] = AckNow(TRUE)])
    BY <1>12 DEF PublishClosed
  <2>3. TRUE \in BOOLEAN
    BY DEF TypeOK
  <2>4. TypeOK'
    <3>1. ack' \in [Uploads -> Acks]
      BY <2>2, <2>3, AckNowType DEF TypeOK
    <3> QED
      BY <1>12, <2>1, <3>1 DEF PublishClosed, TypeOK
  <2>5. OwnerInv'
    BY <1>12, <2>1, OwnerStep DEF PublishClosed, Go, OwnerInv, MayFill, SlotInv, Open, Blocked
  <2>6. SlotInv' /\ EmitInv'
    BY <1>12 DEF PublishClosed, SlotInv, EmitInv, Open
  <2>7. EofInv'
    BY <1>12, <2>1 DEF PublishClosed, Go, EofInv, OthersStay, PastEnd
  <2>8. AckInv'
    <3>1. CASE ack' = ack
      BY <1>12, <3>1 DEF PublishClosed, AckInv
    <3>2. CASE ~cancelled /\ ack' = [ack EXCEPT ![u] = AckNow(TRUE)]
      <4>1. ack'[u].batches = acknowledged_batches /\ ack'[u].complete = TRUE /\ ack'[u].not_needed = not_needed
        BY <2>3, <3>2, AckNowType DEF TypeOK
      <4>2. TRUE /\ ~not_needed => consumer_eof
        BY <1>12, <3>2 DEF PublishClosed, Go, UploadSettled, TypeOK
      <4>3. \A v \in Uploads : v # u => ack'[v] = ack[v]
        BY <3>2 DEF TypeOK
      <4> QED
        BY <1>12, <4>1, <4>2, <4>3 DEF PublishClosed, AckInv, TypeOK
    <3> QED
      BY <2>2, <3>1, <3>2
  <2> QED
    BY <2>4, <2>5, <2>6, <2>7, <2>8
<1>13. CASE PublishReturn(u)
  <2>1. OthersStay(u) /\ Owner(u) /\ Owner(u)' /\ upload' \in [Uploads -> UploadStates]
    BY <1>13 DEF PublishReturn, Go, OthersStay, Owner, TypeOK, UploadStates
  <2>2. ack' = ack \/ (~cancelled /\ ack' = [ack EXCEPT ![u] = AckNow(not_needed)])
    BY <1>13 DEF PublishReturn
  <2>3. not_needed \in BOOLEAN
    BY DEF TypeOK
  <2>4. TypeOK'
    <3>1. ack' \in [Uploads -> Acks]
      BY <2>2, <2>3, AckNowType DEF TypeOK
    <3> QED
      BY <1>13, <2>1, <3>1 DEF PublishReturn, TypeOK
  <2>5. OwnerInv'
    BY <1>13, <2>1, OwnerStep DEF PublishReturn, Go, OwnerInv, MayFill, SlotInv, Open, Blocked
  <2>6. SlotInv' /\ EmitInv'
    BY <1>13 DEF PublishReturn, SlotInv, EmitInv, Open
  <2>7. EofInv'
    BY <1>13, <2>1 DEF PublishReturn, Go, EofInv, OthersStay, PastEnd
  <2>8. AckInv'
    <3>1. CASE ack' = ack
      BY <1>13, <3>1 DEF PublishReturn, AckInv
    <3>2. CASE ~cancelled /\ ack' = [ack EXCEPT ![u] = AckNow(not_needed)]
      <4>1. ack'[u].batches = acknowledged_batches /\ ack'[u].complete = not_needed /\ ack'[u].not_needed = not_needed
        BY <2>3, <3>2, AckNowType DEF TypeOK
      <4>2. not_needed /\ ~not_needed => consumer_eof
        BY <1>13, <3>2 DEF PublishReturn, Go, UploadSettled, TypeOK
      <4>3. \A v \in Uploads : v # u => ack'[v] = ack[v]
        BY <3>2 DEF TypeOK
      <4> QED
        BY <1>13, <4>1, <4>2, <4>3 DEF PublishReturn, AckInv, TypeOK
    <3> QED
      BY <2>2, <3>1, <3>2
  <2> QED
    BY <2>4, <2>5, <2>6, <2>7, <2>8
<1>14. CASE FinishReturn(u)
  <2>1. OthersStay(u) /\ Owner(u) /\ Owner(u)' /\ upload' \in [Uploads -> UploadStates]
    BY <1>14 DEF FinishReturn, Go, OthersStay, Owner, TypeOK, UploadStates
  <2>2. ack' = ack \/ (~cancelled /\ ack' = [ack EXCEPT ![u] = AckNow(TRUE)])
    BY <1>14 DEF FinishReturn
  <2>3. TRUE \in BOOLEAN
    BY DEF TypeOK
  <2>4. TypeOK'
    <3>1. ack' \in [Uploads -> Acks]
      BY <2>2, <2>3, AckNowType DEF TypeOK
    <3> QED
      BY <1>14, <2>1, <3>1 DEF FinishReturn, TypeOK
  <2>5. OwnerInv'
    BY <1>14, <2>1, OwnerStep DEF FinishReturn, Go, OwnerInv, MayFill, SlotInv, Open, Blocked
  <2>6. SlotInv' /\ EmitInv'
    BY <1>14 DEF FinishReturn, SlotInv, EmitInv, Open
  <2>7. EofInv'
    BY <1>14, <2>1 DEF FinishReturn, Go, EofInv, OthersStay, PastEnd
  <2>8. AckInv'
    <3>1. CASE ack' = ack
      BY <1>14, <3>1 DEF FinishReturn, AckInv
    <3>2. CASE ~cancelled /\ ack' = [ack EXCEPT ![u] = AckNow(TRUE)]
      <4>1. ack'[u].batches = acknowledged_batches /\ ack'[u].complete = TRUE /\ ack'[u].not_needed = not_needed
        BY <2>3, <3>2, AckNowType DEF TypeOK
      <4>2. TRUE /\ ~not_needed => consumer_eof
        BY <1>14, <3>2 DEF FinishReturn, Go, UploadSettled, TypeOK
      <4>3. \A v \in Uploads : v # u => ack'[v] = ack[v]
        BY <3>2 DEF TypeOK
      <4> QED
        BY <1>14, <4>1, <4>2, <4>3 DEF FinishReturn, AckInv, TypeOK
    <3> QED
      BY <2>2, <3>1, <3>2
  <2> QED
    BY <2>4, <2>5, <2>6, <2>7, <2>8
<1>15. CASE FailInput(u)
  <2>1. OthersStay(u) /\ Owner(u) /\ Owner(u)' /\ upload' \in [Uploads -> UploadStates]
    BY <1>15 DEF FailInput, Go, OthersStay, Owner, TypeOK, UploadStates
  <2>2. CancelInput
    BY <1>15 DEF FailInput
  <2>3. TypeOK'
    BY <1>15, <2>1, <2>2, CancelInputEffect DEF FailInput, TypeOK
  <2>4. OwnerInv'
    BY <1>15, <2>1, <2>2, CancelInputEffect, OwnerStep DEF FailInput
  <2>5. SlotInv' /\ EmitInv'
    BY <1>15, <2>2, CancelInputEffect DEF FailInput, SlotInv, EmitInv, Open
  <2>6. EofInv' /\ AckInv'
    BY <1>15, <2>1, <2>2, CancelInputEffect
    DEF FailInput, Go, TypeOK, EofInv, AckInv, OthersStay, PastEnd
  <2> QED
    BY <2>3, <2>4, <2>5, <2>6
<1> QED
  BY <1>1, <1>2, <1>3, <1>4, <1>5, <1>6, <1>7, <1>8, <1>9, <1>10, <1>11, <1>12, <1>13, <1>14, <1>15 DEF Handler

\* Every step of the scan preserves it.
LEMMA InvScan ==
  ASSUME IInv, Scan
  PROVE  IInv'
<1> USE MaxBatchesAssumption, ChunksAssumption
    DEF IInv, NoBatch, Batches, slotVars, flagVars, verdictVars, uploadVars, scanVars
<1>1. CASE StartScan
  <2>1. TypeOK'
    BY <1>1 DEF StartScan, TypeOK, ScanStates, SlotInv, EmitInv
  <2>2. OwnerInv' /\ AckInv'
    BY <1>1 DEF StartScan, TypeOK, Acks, OwnerInv, Owner, AckInv, EofInv, EmitInv
  <2>3. SlotInv' /\ EmitInv'
    BY <1>1 DEF StartScan, TypeOK, SlotInv, EmitInv, EofInv, Open
  <2>4. EofInv'
    BY <1>1 DEF StartScan, TypeOK, EofInv, SlotInv, EmitInv, Open
  <2> QED
    BY <2>1, <2>2, <2>3, <2>4
<1>2. CASE NextBatchSleep
  <2>1. TypeOK'
    BY <1>2 DEF NextBatchSleep, TypeOK, ScanStates, SlotInv, EmitInv
  <2>2. OwnerInv' /\ AckInv'
    BY <1>2 DEF NextBatchSleep, TypeOK, Acks, OwnerInv, Owner, AckInv, EofInv, EmitInv
  <2>3. SlotInv' /\ EmitInv'
    BY <1>2 DEF NextBatchSleep, TypeOK, SlotInv, EmitInv, EofInv, Open
  <2>4. EofInv'
    BY <1>2 DEF NextBatchSleep, TypeOK, EofInv, SlotInv, EmitInv, Open
  <2> QED
    BY <2>1, <2>2, <2>3, <2>4
<1>3. CASE NextBatchEnd
  <2>1. TypeOK'
    BY <1>3 DEF NextBatchEnd, TypeOK, ScanStates, SlotInv, EmitInv, InputReady
  <2>2. OwnerInv' /\ AckInv'
    BY <1>3 DEF NextBatchEnd, TypeOK, Acks, OwnerInv, Owner, AckInv, EofInv, EmitInv, InputReady
  <2>3. SlotInv' /\ EmitInv'
    BY <1>3 DEF NextBatchEnd, TypeOK, SlotInv, EmitInv, EofInv, Open, InputReady
  <2>4. EofInv'
    BY <1>3 DEF NextBatchEnd, TypeOK, EofInv, SlotInv, EmitInv, Open, InputReady
  <2> QED
    BY <2>1, <2>2, <2>3, <2>4
<1>4. CASE NextBatchTake
  <2>1. TypeOK'
    BY <1>4 DEF NextBatchTake, TypeOK, ScanStates, SlotInv, EmitInv
  <2>2. OwnerInv' /\ AckInv'
    BY <1>4 DEF NextBatchTake, TypeOK, Acks, OwnerInv, Owner, AckInv, EofInv, EmitInv
  <2>3. SlotInv' /\ EmitInv'
    BY <1>4 DEF NextBatchTake, TypeOK, SlotInv, EmitInv, EofInv, Open
  <2>4. EofInv'
    BY <1>4 DEF NextBatchTake, TypeOK, EofInv, SlotInv, EmitInv, Open
  <2> QED
    BY <2>1, <2>2, <2>3, <2>4
<1>5. CASE EmitChunk
  <2>1. TypeOK'
    BY <1>5 DEF EmitChunk, TypeOK, ScanStates, SlotInv, EmitInv, BatchUsedUp
  <2>2. OwnerInv' /\ AckInv'
    BY <1>5 DEF EmitChunk, TypeOK, Acks, OwnerInv, Owner, AckInv, EofInv, EmitInv, BatchUsedUp
  <2>3. SlotInv' /\ EmitInv'
    BY <1>5 DEF EmitChunk, TypeOK, SlotInv, EmitInv, EofInv, Open, BatchUsedUp
  <2>4. EofInv'
    BY <1>5 DEF EmitChunk, TypeOK, EofInv, SlotInv, EmitInv, Open, BatchUsedUp
  <2> QED
    BY <2>1, <2>2, <2>3, <2>4
<1>6. CASE MarkConsumed
  <2>1. TypeOK'
    BY <1>6 DEF MarkConsumed, TypeOK, ScanStates, SlotInv, EmitInv, BatchUsedUp
  <2>2. OwnerInv' /\ AckInv'
    BY <1>6 DEF MarkConsumed, TypeOK, Acks, OwnerInv, Owner, AckInv, EofInv, EmitInv, BatchUsedUp
  <2>3. SlotInv' /\ EmitInv'
    BY <1>6 DEF MarkConsumed, TypeOK, SlotInv, EmitInv, EofInv, Open, BatchUsedUp
  <2>4. EofInv'
    BY <1>6 DEF MarkConsumed, TypeOK, EofInv, SlotInv, EmitInv, Open, BatchUsedUp
  <2> QED
    BY <2>1, <2>2, <2>3, <2>4
<1>7. CASE StopScan
  <2>1. TypeOK'
    BY <1>7 DEF StopScan, TypeOK, ScanStates, SlotInv, EmitInv
  <2>2. OwnerInv' /\ AckInv'
    BY <1>7 DEF StopScan, TypeOK, Acks, OwnerInv, Owner, AckInv, EofInv, EmitInv
  <2>3. SlotInv' /\ EmitInv'
    BY <1>7 DEF StopScan, TypeOK, SlotInv, EmitInv, EofInv, Open
  <2>4. EofInv'
    BY <1>7 DEF StopScan, TypeOK, EofInv, SlotInv, EmitInv, Open
  <2> QED
    BY <2>1, <2>2, <2>3, <2>4
<1> QED
  BY <1>1, <1>2, <1>3, <1>4, <1>5, <1>6, <1>7 DEF Scan

\* The end of the worker and every other cancellation preserve it.
LEMMA InvVerdict ==
  ASSUME IInv, WorkerFinish \/ CancelExecution
  PROVE  IInv'
<1> USE MaxBatchesAssumption DEF IInv, NoBatch, flagVars, uploadVars
<1>1. UNCHANGED <<attached, detached, producer_eof, consumer_eof, upload, frame, ack,
                  scan, held, offset, emitted>>
  BY DEF WorkerFinish, CancelExecution
<1>2. worker' \in {"running", "done"}
  BY DEF WorkerFinish, CancelExecution, TypeOK
<1>3. CASE CancelInput
  <2>1. TypeOK'
    BY <1>1, <1>2, <1>3, CancelInputEffect DEF TypeOK
  <2>2. OwnerInv' /\ AckInv' /\ EofInv'
    BY <1>1, <1>3, CancelInputEffect DEF OwnerInv, Owner, AckInv, EofInv
  <2>3. SlotInv' /\ EmitInv'
    BY <1>1, <1>3, CancelInputEffect DEF SlotInv, EmitInv, Open, Batches
  <2> QED
    BY <2>1, <2>2, <2>3
<1>4. CASE MarkNotNeeded /\ scan \in {"eof", "stopped"}
  <2>1. TypeOK'
    BY <1>1, <1>2, <1>4, MarkNotNeededEffect DEF TypeOK
  <2>2. OwnerInv' /\ AckInv' /\ EofInv'
    BY <1>1, <1>4, MarkNotNeededEffect DEF OwnerInv, Owner, AckInv, EofInv
  <2>3. SlotInv' /\ EmitInv'
    BY <1>1, <1>4, MarkNotNeededEffect DEF SlotInv, EmitInv, EofInv, Open, Batches
  <2> QED
    BY <2>1, <2>2, <2>3
<1> QED
  BY <1>3, <1>4 DEF WorkerFinish, CancelExecution

\* Every step, and every stuttering step, preserves it.
LEMMA InvNext == IInv /\ [Next]_vars => IInv'
<1> SUFFICES ASSUME IInv, [Next]_vars PROVE IInv'
  OBVIOUS
<1>1. CASE Next
  BY <1>1, InvHandler, InvScan, InvVerdict DEF Next
<1>2. CASE UNCHANGED vars
  BY <1>2 DEF vars, slotVars, flagVars, verdictVars, uploadVars, scanVars, IInv, TypeOK,
     OwnerInv, SlotInv, EmitInv, EofInv, AckInv, Open, Owner
<1> QED
  BY <1>1, <1>2

\* The invariant holds in every reachable state, for any number of uploads,
\* batches and chunks.
LEMMA Invariant == Spec => []IInv
  BY InvInit, InvNext, PTL DEF Spec

-----------------------------------------------------------------------------
(* What it gives. *)

\* Type correctness of stream_input, its handlers and its scan.
THEOREM TypeCorrect == Spec => []TypeOK
<1>1. IInv => TypeOK
  BY DEF IInv
<1> QED
  BY <1>1, Invariant, PTL

\* Batches reach the query in order and at most once, for every client,
\* interleaving and cancellation.
THEOREM DeliveredInOrder == Spec => []InOrderExactlyOnce
<1>1. IInv => InOrderExactlyOnce
  BY MaxBatchesAssumption, ChunksAssumption DEF IInv, TypeOK, EmitInv, InOrderExactlyOnce, Batches
<1> QED
  BY <1>1, Invariant, PTL

\* No acknowledgement runs ahead of the rows the query has received.
THEOREM AcksAreEarned == Spec => []AckedFullyEmitted
<1>1. IInv => AckedFullyEmitted
  BY MaxBatchesAssumption, ChunksAssumption DEF IInv, TypeOK, EmitInv, AckInv, Acks, AckedFullyEmitted, Batches
<1> QED
  BY <1>1, Invariant, PTL

\* A complete acknowledgement means that the input was drained.
THEOREM CompleteMeansDrained == Spec => []CompleteAckDrained
<1>1. IInv => CompleteAckDrained
  BY DEF IInv, AckInv, EofInv, CompleteAckDrained
<1> QED
  BY <1>1, Invariant, PTL

\* The scan never mistakes a failed or unfinished upload for the end of the data.
THEOREM EofIsClean == Spec => []CleanEof
<1>1. ASSUME IInv, consumer_eof
      PROVE  \A b \in 1..placed : emitted[b] = Chunks
  BY <1>1, MaxBatchesAssumption DEF IInv, TypeOK, EmitInv, EofInv, Batches
<1>2. ASSUME IInv, consumer_eof, NEW u \in Uploads
      PROVE  upload[u] \in PastEnd
  BY <1>2 DEF IInv, EofInv
<1>3. IInv => CleanEof
  BY <1>1, <1>2 DEF CleanEof, PastEnd
<1> QED
  BY <1>3, Invariant, PTL

\* stream_input implements the delivery contract InputDelivery.
THEOREM ImplementsDelivery == Spec => DeliverySpec
<1> DEFINE verdict == IF cancelled THEN "aborted"
                      ELSE IF not_needed THEN "unneeded"
                      ELSE IF consumer_eof THEN "drained" ELSE "open"
<1>1. Init => Delivery!Init
  BY DEF Init, Delivery!Init
<1>2. IInv /\ [Next]_vars => [Delivery!Next]_(Delivery!deliveryVars)
  <2> SUFFICES ASSUME IInv, [Next]_vars
               PROVE  Delivery!Next \/ UNCHANGED <<placed, acknowledged_batches, verdict>>
    BY DEF Delivery!deliveryVars
  <2> USE DEF IInv, NoBatch, slotVars, flagVars, verdictVars, uploadVars, scanVars
  <2>1. ASSUME CancelInput, UNCHANGED consumer_eof
        PROVE  Delivery!Abort \/ UNCHANGED <<placed, acknowledged_batches, verdict>>
    BY <2>1 DEF CancelInput, Delivery!Abort, TypeOK
  <2>2. ASSUME MarkNotNeeded, UNCHANGED consumer_eof
        PROVE  Delivery!Unneeded \/ UNCHANGED <<placed, acknowledged_batches, verdict>>
    BY <2>2 DEF MarkNotNeeded, Delivery!Unneeded, TypeOK
  <2>3. ASSUME NEW u \in Uploads, PublishPlace(u)
        PROVE  Delivery!Offer
    BY <2>3 DEF PublishPlace, Contiguous, Writable, Blocked, Delivery!Offer, SlotInv, EofInv, Open, TypeOK
  <2>4. ASSUME NEW u \in Uploads, Handler(u), ~PublishPlace(u), ~FailInput(u)
        PROVE  UNCHANGED <<placed, acknowledged_batches, cancelled, not_needed, consumer_eof>>
    BY <2>4 DEF Handler, Attach, WriteReady, ReadFrame, ReadOther, PublishRejected, PublishClosed,
       PublishReturn, Reply, FinishUpload, FinishReturn, LastReply, CallerStopped, Detach
  <2>5. CASE MarkConsumed
    BY <2>5 DEF MarkConsumed, Delivery!Next, Delivery!Accept, TypeOK, SlotInv, EmitInv, EofInv, Open
  <2>6. CASE NextBatchEnd
    BY <2>6 DEF NextBatchEnd, Delivery!Next, Delivery!Drain, TypeOK, SlotInv, EofInv, Open
  <2>7. ASSUME Scan, ~MarkConsumed, ~NextBatchEnd
        PROVE  UNCHANGED <<placed, acknowledged_batches, verdict>>
    BY <2>7 DEF Scan, StartScan, NextBatchSleep, NextBatchTake, EmitChunk, StopScan
  <2>8. CASE WorkerFinish \/ CancelExecution
    BY <2>1, <2>2, <2>8 DEF WorkerFinish, CancelExecution, Delivery!Next
  <2>9. ASSUME NEW u \in Uploads, FailInput(u)
        PROVE  Delivery!Next \/ UNCHANGED <<placed, acknowledged_batches, verdict>>
    BY <2>1, <2>9 DEF FailInput, Delivery!Next
  <2>10. CASE UNCHANGED vars
    BY <2>10 DEF vars
  <2> QED
    BY <2>3, <2>4, <2>5, <2>6, <2>7, <2>8, <2>9, <2>10 DEF Next, Delivery!Next
<1> QED
  BY <1>1, <1>2, Invariant, PTL DEF Spec, DeliverySpec, Delivery!Spec
=============================================================================
