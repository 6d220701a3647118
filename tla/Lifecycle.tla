----------------------------- MODULE Lifecycle -----------------------------
(***************************************************************************)
(* The life of one execution as its README states it: prepared, then       *)
(* claimed and running, then one terminal state that never changes.  An    *)
(* unclaimed execution can be cancelled, expire or lose its GPU (a failure) *)
(* but never succeed.  ExecutionEntry implements this specification.       *)
(***************************************************************************)

VARIABLE state

Terminal == {"succeeded", "failed", "cancelled", "expired"}

Init == state = "prepared"

Claim == state = "prepared" /\ state' = "running"

End ==
  \/ state = "prepared" /\ state' \in Terminal \ {"succeeded"}
  \/ state = "running" /\ state' \in Terminal

Next == Claim \/ End

Spec == Init /\ [][Next]_state
=============================================================================
