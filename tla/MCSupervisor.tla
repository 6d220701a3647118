---------------------------- MODULE MCSupervisor ----------------------------
(***************************************************************************)
(* Model-checking instances of Supervisor and, with it, of Runtime.        *)
(***************************************************************************)
EXTENDS Supervisor
=============================================================================
