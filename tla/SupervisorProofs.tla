-------------------------- MODULE SupervisorProofs --------------------------
(***************************************************************************)
(* Safety of the sidecar's process and of the script around it, for any    *)
(* number of executions and of generations.                                *)
(***************************************************************************)
EXTENDS Supervisor, TLAPS

\* A worker that has not yet left the registry.
Engaged == {"run", "sealing", "sealed", "finish"}

\* When the server thread has been joined the server has drained its calls, if it ever ran.
ServerInv ==
  /\ server_thread = "none" => server \in {"off", "drained"}
  /\ server_thread = "returned" => server = "drained"
  /\ owner[1] \in {"shutdown", "destroy"} => server_thread = "none"
  /\ server \in {"off", "drained"} => \A e \in Executions : call[e] \notin Calls

\* How far the owner is, and what it has behind it.
OwnerInv ==
  /\ owner[1] \in {"stop", "shutdown"} => stops \in 1..2
  /\ owner \in {<<"shutdown", "cancel">>, <<"shutdown", "collect">>, <<"shutdown", "join">>} => reaper = "ended"
  /\ owner = <<"shutdown", "join">> => entries \subseteq collected
  /\ owner[1] = "destroy" => reaper = "ended" /\ entries = {}
  /\ Destroyed => fatal_thread = "none"

\* A worker is in the table until it leaves, and so is an entry that a DoGet is about to claim.
WorkerInv ==
  \A e \in Executions :
    /\ worker[e] \in Engaged => e \in entries
    /\ call[e] = "claiming" => terminal[e] \/ e \in entries

SealInv == SealedForGood /\ (gpu_unavailable => stopped)

ScriptInv == (script = "restart" => sidecar # "up") /\ NoSurvivors

IInv == TypeOK /\ ServerInv /\ OwnerInv /\ WorkerInv /\ SealInv /\ ScriptInv

USE DEF ownerVars, serverVars, fatalVars, registryVars, executionVars, runtimeVars, scriptVars, Calls, Engaged

Owners == {"load", "serve", "stop", "shutdown", "destroy"}
            \X {"start", "wait", "begin", "close", "reaper", "cancel", "server", "collect", "join", "done", "abort"}

-----------------------------------------------------------------------------
(* The executions. *)

LEMMA ExecutionType ==
  ASSUME TypeOK, NEW e \in Executions, Execution(e), UNCHANGED scriptVars
  PROVE  TypeOK'
<1> USE DEF WorkerGoes
<1>1. CASE GetFlightInfo(e) \/ DoGet(e)
  BY <1>1 DEF TypeOK, GetFlightInfo, DoGet
<1>2. CASE Publish(e)
  BY <1>2 DEF TypeOK, Publish
<1>3. CASE Claim(e)
  BY <1>3 DEF TypeOK, Claim
<1>4. CASE ReadEnds(e)
  BY <1>4 DEF TypeOK, ReadEnds
<1>5. CASE Reap(e)
  BY <1>5 DEF TypeOK, Reap, EndEntries
<1>6. CASE EngineEnds(e) \/ DropEntry(e)
  BY <1>6 DEF TypeOK, EngineEnds, DropEntry
<1>7. CASE LoseGpu(e)
  <2>1. worker' \in [Executions -> {"none", "run", "sealing", "sealed", "finish", "leaving", "ended"}]
    BY <1>7 DEF TypeOK, LoseGpu
  <2>2. stopped' \in BOOLEAN /\ gpu_unavailable' \in BOOLEAN /\ failing' \subseteq Executions
    BY <1>7 DEF TypeOK, LoseGpu
  <2> QED BY <1>7, <2>1, <2>2 DEF TypeOK, LoseGpu
<1>8. CASE FailSealed(e)
  BY <1>8 DEF TypeOK, FailSealed, EndEntries
<1>9. CASE BeginFatalShutdown(e)
  BY <1>9 DEF TypeOK, BeginFatalShutdown
<1>10. CASE Finish(e)
  BY <1>10 DEF TypeOK, Finish
<1> QED BY <1>1, <1>2, <1>3, <1>4, <1>5, <1>6, <1>7, <1>8, <1>9, <1>10 DEF Execution

LEMMA ExecutionKeeps ==
  ASSUME IInv, NEW e \in Executions, Execution(e), UNCHANGED scriptVars
  PROVE  IInv'
<1> USE DEF WorkerGoes
<1>1. TypeOK'
  BY ExecutionType DEF IInv
<1>2. UNCHANGED <<sidecar, ownerVars, serverVars, reaper>>
  BY DEF Execution, GetFlightInfo, Publish, DoGet, Claim, ReadEnds, Reap, EngineEnds, LoseGpu, FailSealed,
         BeginFatalShutdown, Finish, DropEntry
<1>3. \A x \in Executions : call'[x] \in Calls => call[x] \in Calls \/ server = "serving"
  BY DEF IInv, TypeOK, Execution, GetFlightInfo, Publish, DoGet, Claim, ReadEnds, Reap, EngineEnds, LoseGpu, FailSealed,
         BeginFatalShutdown, Finish, DropEntry
<1>4. ServerInv'
  BY <1>2, <1>3 DEF IInv, ServerInv
<1>5. entries' \subseteq entries \/ call[e] = "building"
  BY DEF Execution, GetFlightInfo, Publish, DoGet, Claim, ReadEnds, Reap, EngineEnds, LoseGpu, FailSealed,
         BeginFatalShutdown, Finish, DropEntry, EndEntries
<1>6. fatal_thread' = fatal_thread \/ worker[e] = "sealed"
  BY DEF Execution, GetFlightInfo, Publish, DoGet, Claim, ReadEnds, Reap, EngineEnds, LoseGpu, FailSealed,
         BeginFatalShutdown, Finish, DropEntry
<1>7. OwnerInv'
  <2>1. owner[1] \in {"shutdown", "destroy"} => entries' \subseteq entries
    BY <1>5 DEF IInv, ServerInv
  <2>2. owner[1] = "destroy" => fatal_thread' = fatal_thread
    BY <1>6 DEF IInv, OwnerInv, WorkerInv
  <2> QED BY <1>2, <2>1, <2>2 DEF IInv, OwnerInv, Destroyed
<1>8. WorkerInv'
  <2> USE DEF IInv, TypeOK, WorkerInv
  <2>1. CASE GetFlightInfo(e) \/ DoGet(e) \/ ReadEnds(e)
    BY <2>1 DEF GetFlightInfo, DoGet, ReadEnds
  <2>2. CASE Publish(e)
    BY <2>2 DEF Publish
  <2>3. CASE Claim(e)
    BY <2>3 DEF Claim
  <2>4. CASE Reap(e)
    BY <2>4 DEF Reap, EndEntries
  <2>5. CASE EngineEnds(e) \/ BeginFatalShutdown(e) \/ DropEntry(e)
    BY <2>5 DEF EngineEnds, BeginFatalShutdown, DropEntry
  <2>6. CASE LoseGpu(e)
    BY <2>6 DEF LoseGpu
  <2>7. CASE FailSealed(e)
    BY <2>7 DEF FailSealed, EndEntries
  <2>8. CASE Finish(e)
    BY <2>8 DEF Finish
  <2> QED BY <2>1, <2>2, <2>3, <2>4, <2>5, <2>6, <2>7, <2>8 DEF Execution
<1>9. SealInv'
  <2> USE DEF IInv, TypeOK, SealInv, SealedForGood
  <2>1. CASE GetFlightInfo(e) \/ DoGet(e) \/ Claim(e) \/ EngineEnds(e) \/ BeginFatalShutdown(e) \/ DropEntry(e)
    BY <2>1 DEF GetFlightInfo, DoGet, Claim, EngineEnds, BeginFatalShutdown, DropEntry
  <2>2. CASE Publish(e)
    BY <2>2 DEF Publish
  <2>3. CASE ReadEnds(e) \/ Finish(e)
    BY <2>3 DEF ReadEnds, Finish
  <2>4. CASE Reap(e)
    BY <2>4 DEF Reap, EndEntries
  <2>5. CASE LoseGpu(e)
    BY <2>5 DEF LoseGpu
  <2>6. CASE FailSealed(e)
    BY <2>6 DEF FailSealed, EndEntries
  <2> QED BY <2>1, <2>2, <2>3, <2>4, <2>5, <2>6 DEF Execution
<1>10. ScriptInv'
  BY <1>2 DEF IInv, ScriptInv, NoSurvivors
<1> QED BY <1>1, <1>4, <1>7, <1>8, <1>9, <1>10 DEF IInv

-----------------------------------------------------------------------------
(* The threads around the server. *)

Around == ReaperEnds \/ ServerDrained \/ ServeReturns \/ FatalShutdown \/ FatalExit

LEMMA AroundKeeps ==
  ASSUME IInv, sidecar = "up", Around, UNCHANGED scriptVars
  PROVE  IInv'
<1> USE DEF Around, ReaperEnds, ServerDrained, ServeReturns, FatalShutdown, Shutdown, FatalExit
<1>1. UNCHANGED <<ownerVars, stopped, gpu_unavailable, entries, failing, executionVars>>
  OBVIOUS
<1>2. TypeOK'
  <2> USE DEF IInv, TypeOK
  <2>1. CASE ReaperEnds \/ FatalExit
    BY <2>1
  <2>2. CASE ServerDrained
    BY <2>2
  <2>4. CASE ServeReturns
    <3>1. started' \in BOOLEAN
      BY <2>4
    <3> QED BY <2>4, <3>1
  <2>3. CASE FatalShutdown
    BY <2>3
  <2> QED BY <2>1, <2>2, <2>3, <2>4
<1>3. ServerInv'
  BY DEF IInv, ServerInv
<1>4. OwnerInv'
  BY DEF IInv, OwnerInv, Destroyed
<1>5. WorkerInv' /\ SealInv'
  BY <1>1 DEF IInv, WorkerInv, SealInv, SealedForGood
<1>6. ScriptInv'
  BY DEF IInv, ScriptInv, NoSurvivors
<1> QED BY <1>2, <1>3, <1>4, <1>5, <1>6 DEF IInv

-----------------------------------------------------------------------------
(* The owner. *)

LEMMA OwnerType ==
  ASSUME IInv, Owner \/ CloseDatabase, UNCHANGED scriptVars
  PROVE  TypeOK'
<1>1. owner' \in Owners
  BY DEF IInv, TypeOK, Owners, OwnerGoes, Callers, Owner, CloseDatabase, Start, StartFails, StopBegin, CloseAdmission,
         JoinReaper, CancelCollected, ShutdownServer, JoinServer, CollectToJoin, JoinWorkers, Destroy, ProcessExits
<1>2. stops' \in 0..2
  BY DEF IInv, TypeOK, OwnerInv, OwnerGoes, Callers, Owner, CloseDatabase, Start, StartFails, StopBegin, CloseAdmission,
         JoinReaper, CancelCollected, ShutdownServer, JoinServer, CollectToJoin, JoinWorkers, Destroy, ProcessExits
<1>3. started' \in BOOLEAN /\ stopped' \in BOOLEAN
  BY DEF IInv, TypeOK, Owner, CloseDatabase, Start, StartFails, StopBegin, CloseAdmission,
         JoinReaper, CancelCollected, ShutdownServer, JoinServer, CollectToJoin, JoinWorkers, Destroy, ProcessExits
<1>4. collected' \subseteq Executions /\ entries' \subseteq Executions
  BY DEF IInv, TypeOK, EndEntries, Owner, CloseDatabase, Start, StartFails, StopBegin, CloseAdmission,
         JoinReaper, CancelCollected, ShutdownServer, JoinServer, CollectToJoin, JoinWorkers, Destroy, ProcessExits
<1>5. terminal' \in [Executions -> BOOLEAN]
  <2>1. CASE CancelCollected
    BY <2>1 DEF IInv, TypeOK, CancelCollected, EndEntries
  <2>2. ASSUME ~CancelCollected PROVE UNCHANGED terminal
    BY <2>2 DEF Owner, CloseDatabase, Start, StartFails, StopBegin, CloseAdmission, JoinReaper, ShutdownServer,
         JoinServer, CollectToJoin, JoinWorkers, Destroy, ProcessExits
  <2> QED BY <2>1, <2>2 DEF IInv, TypeOK
<1>6. /\ sidecar' \in {"up", "exit0", "exit70", "abort"}
      /\ server' \in {"off", "serving", "draining", "drained"} /\ server_thread' \in {"none", "serving", "returned"}
  BY DEF IInv, TypeOK, Shutdown, Owner, CloseDatabase, Start, StartFails, StopBegin, CloseAdmission,
         JoinReaper, CancelCollected, ShutdownServer, JoinServer, CollectToJoin, JoinWorkers, Destroy, ProcessExits
<1>7. UNCHANGED <<fatalVars, gpu_unavailable, reaper, failing, call, worker>>
  BY DEF Owner, CloseDatabase, Start, StartFails, StopBegin, CloseAdmission,
         JoinReaper, CancelCollected, ShutdownServer, JoinServer, CollectToJoin, JoinWorkers, Destroy, ProcessExits
<1> QED BY <1>1, <1>2, <1>3, <1>4, <1>5, <1>6, <1>7 DEF IInv, TypeOK, Owners

LEMMA OwnerKeeps ==
  ASSUME IInv, sidecar = "up", Owner \/ CloseDatabase, UNCHANGED scriptVars
  PROVE  IInv'
<1>1. TypeOK'
  BY OwnerType
<1>2. UNCHANGED <<call, worker, fatal_thread, reaper, gpu_unavailable, failing>>
  BY DEF Owner, CloseDatabase, Start, StartFails, StopBegin, CloseAdmission, JoinReaper, CancelCollected, ShutdownServer,
         JoinServer, CollectToJoin, JoinWorkers, Destroy, ProcessExits
<1>3. ScriptInv'
  BY DEF IInv, ScriptInv, NoSurvivors, Owner, CloseDatabase, Start, StartFails, StopBegin, CloseAdmission, JoinReaper,
         CancelCollected, ShutdownServer, JoinServer, CollectToJoin, JoinWorkers, Destroy, ProcessExits
<1>4. ServerInv'
  BY <1>2 DEF IInv, TypeOK, ServerInv, OwnerGoes, Callers, Shutdown, Owner, CloseDatabase, Start, StartFails, StopBegin,
         CloseAdmission, JoinReaper, CancelCollected, ShutdownServer, JoinServer, CollectToJoin, JoinWorkers,
         Destroy, ProcessExits
<1>5. OwnerInv'
  <2> USE <1>2 DEF IInv, TypeOK, OwnerInv, OwnerGoes, Destroyed
  <2>1. CASE Start \/ StartFails \/ CloseDatabase \/ StopBegin
    BY <2>1 DEF Start, StartFails, CloseDatabase, StopBegin
  <2>2. CASE CloseAdmission \/ JoinReaper
    BY <2>2 DEF CloseAdmission, JoinReaper, Callers
  <2>3. CASE CancelCollected
    BY <2>3 DEF CancelCollected, EndEntries
  <2>4. CASE ShutdownServer \/ JoinServer \/ CollectToJoin
    BY <2>4 DEF ShutdownServer, JoinServer, CollectToJoin
  <2>5. CASE JoinWorkers
    BY <2>5 DEF JoinWorkers
  <2>6. CASE Destroy \/ ProcessExits
    BY <2>6 DEF Destroy, ProcessExits
  <2> QED BY <2>1, <2>2, <2>3, <2>4, <2>5, <2>6 DEF Owner
<1>6. WorkerInv'
  <2>1. CASE CancelCollected
    BY <1>2, <2>1 DEF IInv, TypeOK, WorkerInv, CancelCollected, EndEntries
  <2>2. CASE JoinWorkers
    <3>1. entries \subseteq collected /\ \A x \in Executions : call[x] \notin Calls
      BY <2>2 DEF IInv, OwnerInv, ServerInv, JoinWorkers, OwnerGoes
    <3>2. \A x \in Executions : worker[x] \notin Engaged
      BY <2>2, <3>1 DEF IInv, WorkerInv, JoinWorkers
    <3> QED BY <1>2, <3>1, <3>2 DEF WorkerInv
  <2>3. ASSUME ~CancelCollected, ~JoinWorkers PROVE UNCHANGED <<entries, terminal>>
    BY <2>3 DEF Owner, CloseDatabase, Start, StartFails, StopBegin, CloseAdmission, JoinReaper, ShutdownServer,
         JoinServer, CollectToJoin, Destroy, ProcessExits
  <2> QED BY <1>2, <2>1, <2>2, <2>3 DEF IInv, WorkerInv
<1>7. SealInv'
  <2> USE <1>2 DEF IInv, TypeOK, SealInv, SealedForGood
  <2>1. CASE CancelCollected
    BY <2>1 DEF CancelCollected, EndEntries
  <2>2. CASE JoinWorkers \/ CloseAdmission
    BY <2>2 DEF JoinWorkers, CloseAdmission
  <2>3. ASSUME ~CancelCollected, ~JoinWorkers, ~CloseAdmission PROVE UNCHANGED <<entries, terminal, stopped>>
    BY <2>3 DEF Owner, CloseDatabase, Start, StartFails, StopBegin, JoinReaper, ShutdownServer,
         JoinServer, CollectToJoin, Destroy, ProcessExits
  <2> QED BY <2>1, <2>2, <2>3
<1> QED BY <1>1, <1>3, <1>4, <1>5, <1>6, <1>7 DEF IInv

-----------------------------------------------------------------------------
(* The script and MatrixOne. *)

LEMMA ScriptKeeps == ASSUME IInv, Script \/ MoExits PROVE IInv'
<1>1. CASE Restart
  <2>1. sidecar # "up" /\ ~survivors /\ mo # "up"
    BY <1>1 DEF IInv, ScriptInv, NoSurvivors, Restart
  <2>2. TypeOK'
    <3>1. generation' \in 1..MaxGenerations
      BY <1>1, GenerationsAssumption DEF IInv, TypeOK, Restart
    <3>2. stops' = 0 /\ owner' \in Owners
      BY <1>1 DEF Restart, Fresh, Owners
    <3>3. /\ call' = [e \in Executions |-> "none"] /\ worker' = [e \in Executions |-> "none"]
          /\ terminal' = [e \in Executions |-> FALSE]
      BY <1>1 DEF Restart, Fresh
    <3>4. /\ started' \in BOOLEAN /\ fatal_shutdown_started' \in BOOLEAN /\ stopped' \in BOOLEAN
          /\ gpu_unavailable' \in BOOLEAN
      BY <1>1 DEF Restart, Fresh
    <3>5. survivors' \in BOOLEAN
      BY <1>1, <2>1 DEF Restart
    <3>6. /\ call' \in [Executions -> {"none", "building", "idle", "claiming", "reading", "over"}]
          /\ worker' \in [Executions -> {"none", "run", "sealing", "sealed", "finish", "leaving", "ended"}]
          /\ terminal' \in [Executions -> BOOLEAN]
      BY <3>3
    <3>7. /\ sidecar' = "up" /\ server' = "off" /\ server_thread' = "none" /\ fatal_thread' = "none"
          /\ reaper' = "running" /\ collected' = {} /\ entries' = {} /\ failing' = {} /\ script' = "boot" /\ mo' = "none"
      BY <1>1 DEF Restart, Fresh
    <3> QED BY <3>1, <3>2, <3>4, <3>5, <3>6, <3>7 DEF TypeOK, Owners
  <2>3. ServerInv' /\ OwnerInv' /\ WorkerInv' /\ SealInv'
    BY <1>1 DEF ServerInv, OwnerInv, WorkerInv, SealInv, SealedForGood, Destroyed, Restart, Fresh
  <2>4. ScriptInv'
    BY <1>1, <2>1 DEF ScriptInv, NoSurvivors, Restart
  <2> QED BY <2>2, <2>3, <2>4 DEF IInv
<1>2. CASE BootReady \/ BootFails \/ WaitAny \/ CleanupDone \/ MoExits
  <2>1. UNCHANGED runtimeVars /\ UNCHANGED <<generation, survivors>>
    BY <1>2 DEF BootReady, BootFails, WaitAny, CleanupDone, MoExits
  <2>2. ServerInv' /\ OwnerInv' /\ WorkerInv' /\ SealInv'
    BY <2>1 DEF IInv, ServerInv, OwnerInv, WorkerInv, SealInv, SealedForGood, Destroyed
  <2>3. script' = "restart" => sidecar # "up"
    BY <1>2 DEF IInv, ScriptInv, BootReady, BootFails, WaitAny, GpuFatal, CleanupDone, MoExits
  <2>4. TypeOK'
    <3>1. script' \in {"boot", "watch", "restart", "cleanup", "done"} /\ mo' \in {"none", "up", "exit70", "other"}
      BY <1>2 DEF IInv, TypeOK, BootReady, BootFails, WaitAny, CleanupDone, MoExits
    <3> QED BY <2>1, <3>1 DEF IInv, TypeOK
  <2> QED BY <2>1, <2>2, <2>3, <2>4 DEF IInv, ScriptInv, NoSurvivors
<1> QED BY <1>1, <1>2 DEF Script

-----------------------------------------------------------------------------
LEMMA InvInit == Init => IInv
<1> SUFFICES ASSUME Init PROVE IInv
  OBVIOUS
<1> USE DEF Init, RuntimeInit, Fresh
<1>1. TypeOK
  <2>1. generation \in 1..MaxGenerations /\ stops = 0
    BY GenerationsAssumption
  <2>2. /\ call \in [Executions -> {"none", "building", "idle", "claiming", "reading", "over"}]
        /\ worker \in [Executions -> {"none", "run", "sealing", "sealed", "finish", "leaving", "ended"}]
        /\ terminal \in [Executions -> BOOLEAN]
    OBVIOUS
  <2>3. /\ started \in BOOLEAN /\ fatal_shutdown_started \in BOOLEAN /\ stopped \in BOOLEAN
        /\ gpu_unavailable \in BOOLEAN /\ survivors \in BOOLEAN
    OBVIOUS
  <2>4. owner \in Owners
    BY DEF Owners
  <2> QED BY <2>1, <2>2, <2>3, <2>4 DEF TypeOK, Owners
<1>2. ServerInv /\ OwnerInv /\ WorkerInv /\ SealInv /\ ScriptInv
  BY DEF ServerInv, OwnerInv, WorkerInv, SealInv, SealedForGood, ScriptInv, NoSurvivors, Destroyed
<1> QED BY <1>1, <1>2 DEF IInv

LEMMA InvNext == IInv /\ [Next]_vars => IInv'
<1> SUFFICES ASSUME IInv, [Next]_vars PROVE IInv'
  OBVIOUS
<1>1. CASE RuntimeStep /\ UNCHANGED scriptVars
  BY <1>1, ExecutionKeeps, AroundKeeps, OwnerKeeps DEF RuntimeStep, Around
<1>2. CASE Script \/ MoExits
  BY <1>2, ScriptKeeps
<1>3. CASE UNCHANGED vars
  BY <1>3 DEF vars, IInv, TypeOK, ServerInv, OwnerInv, WorkerInv, SealInv, SealedForGood, ScriptInv, NoSurvivors, Destroyed
<1> QED BY <1>1, <1>2, <1>3 DEF Next

LEMMA Invariant == Spec => []IInv
BY InvInit, InvNext, PTL DEF Spec

-----------------------------------------------------------------------------
\* Type correctness of the process and the script; stop() never runs more often than the
\* destructors call it.
THEOREM TypeCorrect == Spec => []TypeOK
<1>1. IInv => TypeOK
  BY DEF IInv
<1> QED BY <1>1, Invariant, PTL

\* Behind its joins the owner is alone, with any number of executions at any stage: no handler
\* from the shutdown of the registry on, and at the destruction neither a worker on its way into the
\* registry nor a fatal thread.
THEOREM OwnerIsAlone == Spec => []ShutdownIsAlone
<1>1. ASSUME IInv PROVE ShutdownIsAlone
  <2>1. owner[1] \in {"shutdown", "destroy"} => \A e \in Executions : call[e] \notin Calls
    BY <1>1 DEF IInv, ServerInv
  <2>2. owner[1] = "destroy" =>
          /\ reaper = "ended" /\ server_thread = "none" /\ entries = {}
          /\ \A e \in Executions : worker[e] \in {"none", "leaving", "ended"}
    BY <1>1 DEF IInv, TypeOK, ServerInv, OwnerInv, WorkerInv
  <2> QED BY <1>1, <2>1, <2>2 DEF IInv, OwnerInv, ShutdownIsAlone
<1> QED BY <1>1, Invariant, PTL

\* The loss of the GPU is final for every ticket, also for one that was being built.
THEOREM LossIsFinal == Spec => []SealedForGood
<1>1. IInv => SealedForGood
  BY DEF IInv, SealInv
<1> QED BY <1>1, Invariant, PTL

\* No process survives a restart of the pair, in any number of generations.
THEOREM RestartIsClean == Spec => []NoSurvivors
<1>1. IInv => NoSurvivors
  BY DEF IInv, ScriptInv
<1> QED BY <1>1, Invariant, PTL
=============================================================================
