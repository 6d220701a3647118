----------------------------- MODULE Supervisor -----------------------------
(***************************************************************************)
(* docker/entrypoint.sh, which runs the sidecar and MatrixOne as a pair:   *)
(* it starts the sidecar, waits until it serves, starts MatrixOne, waits   *)
(* for the first of the two to end, and restarts the pair when that was a  *)
(* fatal GPU exit.  The sidecar is the process of Runtime.                 *)
(***************************************************************************)
EXTENDS Runtime

CONSTANT MaxGenerations   \* bound on the restarts that are explored

ASSUME GenerationsAssumption == MaxGenerations \in Nat \ {0}

VARIABLES
  script,       \* where the script is
  mo,           \* MatrixOne: none, up, or its exit code
  generation,
  survivors     \* some earlier generation has left a process behind

scriptVars == <<script, mo, generation, survivors>>
vars == <<runtimeVars, scriptVars>>

Init ==
  /\ RuntimeInit
  /\ script = "boot" /\ mo = "none" /\ generation = 1 /\ survivors = FALSE

\* The sidecar answers; MatrixOne is started.
BootReady ==
  /\ script = "boot" /\ sidecar = "up" /\ server # "off"
  /\ script' = "watch" /\ mo' = "up"
  /\ UNCHANGED <<runtimeVars, generation, survivors>>

\* It died first, or did not answer within 30 seconds.
BootFails ==
  /\ script = "boot"
  /\ script' = "cleanup"
  /\ UNCHANGED <<runtimeVars, mo, generation, survivors>>

\* MatrixOne ends when it likes, and when it is interrupted.
MoExits ==
  /\ mo = "up"
  /\ mo' \in {"exit70", "other"}
  /\ UNCHANGED <<runtimeVars, script, generation, survivors>>

\* Status 70 can also be MatrixOne's: the sidecar must be gone.
GpuFatal_Never(code) == FALSE
GpuFatal_CodeOnly(code) == code = "exit70"
GpuFatal(code) == code = "exit70" /\ sidecar # "up"

\* wait -n: the exit code of one of the children that have ended.
WaitAny ==
  /\ script = "watch"
  /\ \E code \in {sidecar, mo} \ {"up"} :
       script' = IF GpuFatal(code) THEN "restart" ELSE "cleanup"
  /\ UNCHANGED <<runtimeVars, mo, generation, survivors>>

\* MatrixOne has been interrupted and awaited; exec starts the next generation.
Restart ==
  /\ script = "restart" /\ mo # "up"
  /\ generation < MaxGenerations
  /\ generation' = generation + 1
  /\ survivors' = (survivors \/ sidecar = "up" \/ mo = "up")
  /\ script' = "boot" /\ mo' = "none"
  /\ sidecar' = Fresh.sidecar /\ owner' = Fresh.owner /\ stops' = 0 /\ collected' = {}
  /\ started' = Fresh.started /\ server_thread' = "none" /\ server' = Fresh.server
  /\ fatal_shutdown_started' = FALSE /\ fatal_thread' = "none"
  /\ stopped' = FALSE /\ gpu_unavailable' = FALSE /\ reaper' = "running" /\ entries' = {} /\ failing' = {}
  /\ call' = Fresh.call /\ worker' = Fresh.worker /\ terminal' = Fresh.terminal

\* The exit trap interrupts both children and waits for them.
CleanupDone ==
  /\ script = "cleanup" /\ sidecar # "up" /\ mo # "up"
  /\ script' = "done"
  /\ UNCHANGED <<runtimeVars, mo, generation, survivors>>

Script == BootReady \/ BootFails \/ WaitAny \/ Restart \/ CleanupDone

Next ==
  \/ RuntimeStep /\ UNCHANGED scriptVars
  \/ Script
  \/ MoExits

Spec == Init /\ [][Next]_vars

(***************************************************************************)
(* Fairness.  Threads of the process run on.  An engine whose execution    *)
(* has been ended returns, a construction ends, and a call ends at the     *)
(* latest when the server cancels it after the deadline of Shutdown.       *)
(* The script runs on; SIGINT ends MatrixOne and closes the database.      *)
(***************************************************************************)
Alive(A) == sidecar = "up" /\ A /\ UNCHANGED scriptVars

Fairness ==
  /\ WF_vars(Alive(ReaperEnds)) /\ WF_vars(Alive(ServerDrained)) /\ WF_vars(Alive(ServeReturns))
  /\ WF_vars(Alive(FatalShutdown)) /\ WF_vars(Alive(FatalExit)) /\ WF_vars(Alive(Owner))
  /\ WF_vars(Alive(script = "cleanup" /\ CloseDatabase))
  /\ \A e \in Executions :
       /\ WF_vars(Alive(Publish(e) \/ Claim(e))) /\ WF_vars(Alive(terminal[e] /\ EngineEnds(e)))
       /\ WF_vars(Alive((terminal[e] \/ server = "draining") /\ ReadEnds(e)))
       /\ WF_vars(Alive(FailSealed(e) \/ BeginFatalShutdown(e) \/ Finish(e) \/ DropEntry(e)))
  /\ WF_vars(BootReady) /\ WF_vars(WaitAny \/ Restart \/ CleanupDone)
  /\ WF_vars(script \in {"restart", "cleanup"} /\ MoExits)

FairSpec == Spec /\ Fairness

-----------------------------------------------------------------------------
(* Properties. *)

\* Type correctness.
TypeOK ==
  /\ sidecar \in {"up", "exit0", "exit70", "abort"} /\ stops \in 0..2 /\ collected \subseteq Executions
  /\ owner \in {"load", "serve", "stop", "shutdown", "destroy"}
       \X {"start", "wait", "begin", "close", "reaper", "cancel", "server", "collect", "join", "done", "abort"}
  /\ started \in BOOLEAN /\ server \in {"off", "serving", "draining", "drained"}
  /\ server_thread \in {"none", "serving", "returned"}
  /\ fatal_shutdown_started \in BOOLEAN /\ fatal_thread \in {"none", "begin", "waiting", "exiting"}
  /\ stopped \in BOOLEAN /\ gpu_unavailable \in BOOLEAN /\ reaper \in {"running", "ended"}
  /\ entries \subseteq Executions /\ failing \subseteq Executions
  /\ call \in [Executions -> {"none", "building", "idle", "claiming", "reading", "over"}]
  /\ worker \in [Executions -> {"none", "run", "sealing", "sealed", "finish", "leaving", "ended"}]
  /\ terminal \in [Executions -> BOOLEAN]
  /\ script \in {"boot", "watch", "restart", "cleanup", "done"}
  /\ mo \in {"none", "up", "exit70", "other"} /\ generation \in 1..MaxGenerations /\ survivors \in BOOLEAN

\* No process of an earlier generation is alive when exec starts the next one ("no old
\* ticket or CUDA owner survives the exec boundary"), whichever child ended first and with
\* whatever status.
NoSurvivors == ~survivors

\* A lost GPU in a serving pair ends the process with status 70 and brings up the next generation,
\* unless the database is closed, MatrixOne ends by itself while the script still watches the pair,
\* or the bound is reached; that the script has interrupted MatrixOne is no excuse.  This needs the
\* drain of the server, hence that sealing ends every execution, and the test of the status.
LostGpuRestarts ==
  \A g \in 1..(MaxGenerations - 1) :
    (generation = g /\ gpu_unavailable /\ script = "watch")
      ~> (generation > g \/ owner # <<"serve", "wait">> \/ (script = "watch" /\ mo # "up"))

\* stop() terminates and so does the process: no join waits for a thread that waits for the
\* owner, also when the GPU is lost while the runtime stops or start() has failed.
StopEnds == (stops > 0) ~> (sidecar # "up")
=============================================================================
