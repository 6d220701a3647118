--------------------------- MODULE MCStreamInput ---------------------------
(***************************************************************************)
(* Model-checking instance of StreamInput.                                 *)
(***************************************************************************)
EXTENDS StreamInput
CONSTANTS u1, u2

\* Two DoPut calls race to attach; the loser is refused.
TwoUploads == {u1, u2}
=============================================================================
