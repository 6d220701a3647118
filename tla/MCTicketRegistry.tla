-------------------------- MODULE MCTicketRegistry --------------------------
(***************************************************************************)
(* Model-checking instances of TicketRegistry: which request uses which    *)
(* key and which command bytes, and what an execution is charged: sizes    *)
(* scaled down from Admission, at most one stream input, and a plan that   *)
(* turns out to have none.                                                 *)
(***************************************************************************)
EXTENDS TicketRegistry, Admission

\* r1 and r2 are the same command sent twice, r3 reuses its key for other
\* bytes, r4 is unrelated.  c1 cancels by the key of the first three.
RequestKeys == [x \in {"r1", "r2", "r3", "r4", "c1"} |-> IF x = "r4" THEN "k2" ELSE "k1"]
Commands == [r \in {"r1", "r2", "r3", "r4"} |-> IF r \in {"r1", "r2"} THEN "same" ELSE "other"]

\* The smallest request: what prepare acquires, and what is left when the plan has been read.
Smallest == [max_batch_bytes |-> 1, max_input_batch_bytes |-> 1, plan |-> 1, result_schema |-> 1]

ASSUME ScaledAssumption ==
  /\ MaxCharge = stream_execution_charge(Smallest, max_stream_inputs)
  /\ Charges = {stream_execution_charge(Smallest, 0)}
=============================================================================
