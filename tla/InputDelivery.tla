--------------------------- MODULE InputDelivery ---------------------------
(***************************************************************************)
(* What one StreamRead input promises to the MatrixOne client that uploads *)
(* it and to the query that scans it: batches go through one at a time, a  *)
(* batch counts as accepted only after it was offered, the input reaches   *)
(* one verdict, and only a fully accepted input can be called drained.     *)
(* StreamInput implements this specification.                              *)
(***************************************************************************)
EXTENDS Naturals

VARIABLES
  offered,    \* batches put in the slot
  accepted,   \* batches the scan has finished with
  verdict     \* "open", or how the input ended

deliveryVars == <<offered, accepted, verdict>>

Verdicts == {"open", "drained", "unneeded", "aborted"}

Init ==
  /\ offered = 0
  /\ accepted = 0
  /\ verdict = "open"

Offer ==
  /\ verdict = "open"
  /\ offered = accepted
  /\ offered' = offered + 1
  /\ UNCHANGED <<accepted, verdict>>

Accept ==
  /\ verdict = "open"
  /\ accepted < offered
  /\ accepted' = accepted + 1
  /\ UNCHANGED <<offered, verdict>>

\* The scan has seen the end of a complete input.
Drain ==
  /\ verdict = "open"
  /\ offered = accepted
  /\ verdict' = "drained"
  /\ UNCHANGED <<offered, accepted>>

\* The query succeeded without reading the rest of the input.
Unneeded ==
  /\ verdict = "open"
  /\ verdict' = "unneeded"
  /\ UNCHANGED <<offered, accepted>>

\* A drained input can still be aborted: the execution it feeds may fail
\* after its last batch was read.
Abort ==
  /\ verdict \in {"open", "drained"}
  /\ verdict' = "aborted"
  /\ UNCHANGED <<offered, accepted>>

Next == Offer \/ Accept \/ Drain \/ Unneeded \/ Abort

Spec == Init /\ [][Next]_deliveryVars
=============================================================================
