------------------------------ MODULE Runtime ------------------------------
(***************************************************************************)
(* The sidecar process: flight_runtime with its server thread, the ticket  *)
(* registry with its reaper, the workers of the executions, the thread of  *)
(* a fatal GPU shutdown, and the owner, the DuckDB thread that loads the   *)
(* extension and later destroys it.  It is about who still runs when       *)
(* something is joined or destroyed; what happens inside one execution is  *)
(* ExecutionEntry.                                                         *)
(*                                                                         *)
(* owner is a pair <<function, next step in it>>.                          *)
(***************************************************************************)
EXTENDS Naturals

CONSTANT Executions   \* executions that clients may ask for

VARIABLES
  \* the process and the thread that owns the runtime
  sidecar, owner, stops, collected,
  \* flight_runtime::impl
  started, server_thread, fatal_shutdown_started, fatal_thread,
  \* the Flight server: off, serving, draining its calls, drained
  server,
  \* ticket_registry
  stopped, gpu_unavailable, reaper, entries, failing,
  \* for each execution: its Flight call, its worker thread, its terminal_ flag
  call, worker, terminal

ownerVars == <<owner, stops, collected>>
serverVars == <<started, server_thread, server>>
fatalVars == <<fatal_shutdown_started, fatal_thread>>
registryVars == <<stopped, gpu_unavailable, reaper, entries, failing>>
executionVars == <<call, worker, terminal>>
runtimeVars == <<sidecar, ownerVars, serverVars, fatalVars, registryVars, executionVars>>

\* A fresh process; the registry's constructor has started the reaper.
Fresh ==
  [sidecar |-> "up", owner |-> <<"load", "start">>, started |-> FALSE, server |-> "off",
   call |-> [e \in Executions |-> "none"], worker |-> [e \in Executions |-> "none"],
   terminal |-> [e \in Executions |-> FALSE]]

RuntimeInit ==
  /\ sidecar = Fresh.sidecar /\ owner = Fresh.owner /\ stops = 0 /\ collected = {}
  /\ started = Fresh.started /\ server_thread = "none" /\ server = Fresh.server
  /\ fatal_shutdown_started = FALSE /\ fatal_thread = "none"
  /\ stopped = FALSE /\ gpu_unavailable = FALSE /\ reaper = "running" /\ entries = {} /\ failing = {}
  /\ call = Fresh.call /\ worker = Fresh.worker /\ terminal = Fresh.terminal

-----------------------------------------------------------------------------
(* Executions.  A call is a GetFlightInfo that is building its entry or a   *)
(* DoGet that is reading its result; idle is a ticket nobody has claimed.   *)

Calls == {"building", "claiming", "reading"}

\* cancel() or fail_gpu_unavailable() on a set of entries: an entry without a
\* worker leaves the registry at once, the others when their worker finishes.
EndEntries(S) ==
  /\ terminal' = [e \in Executions |-> terminal[e] \/ e \in S]
  /\ entries' = entries \ {e \in S : worker[e] = "none"}

GetFlightInfo(e) ==
  /\ call[e] = "none" /\ server = "serving" /\ ~stopped
  /\ call' = [call EXCEPT ![e] = "building"]
  /\ UNCHANGED <<sidecar, ownerVars, serverVars, fatalVars, registryVars, worker, terminal>>

\* prepare publishes what it has built, unless admission was closed meanwhile.
Publish_Unchecked(e) ==
  /\ call[e] = "building"
  /\ call' = [call EXCEPT ![e] = "idle"]
  /\ entries' = entries \cup {e}
  /\ UNCHANGED <<sidecar, ownerVars, serverVars, fatalVars, stopped, gpu_unavailable, reaper, failing, worker, terminal>>
Publish(e) ==
  /\ call[e] = "building"
  /\ \/ /\ ~stopped
        /\ call' = [call EXCEPT ![e] = "idle"]
        /\ entries' = entries \cup {e}
     \/ /\ call' = [call EXCEPT ![e] = "over"]   \* closed, or the construction failed
        /\ UNCHANGED entries
  /\ UNCHANGED <<sidecar, ownerVars, serverVars, fatalVars, stopped, gpu_unavailable, reaper, failing, worker, terminal>>

\* DoGet looks the ticket up under the registry's mutex, and claims the entry and starts its
\* worker after it, unless the entry has been ended meanwhile.
DoGet(e) ==
  /\ call[e] = "idle" /\ server = "serving"
  /\ e \in entries /\ ~stopped
  /\ call' = [call EXCEPT ![e] = "claiming"]
  /\ UNCHANGED <<sidecar, ownerVars, serverVars, fatalVars, registryVars, worker, terminal>>

Claim(e) ==
  /\ call[e] = "claiming"
  /\ call' = [call EXCEPT ![e] = IF terminal[e] THEN "over" ELSE "reading"]
  /\ worker' = [worker EXCEPT ![e] = IF terminal[e] THEN "none" ELSE "run"]
  /\ UNCHANGED <<sidecar, ownerVars, serverVars, fatalVars, registryVars, terminal>>

\* The stream ends, its client goes away, or the server cancels the call: Close.
ReadEnds(e) ==
  /\ call[e] = "reading"
  /\ call' = [call EXCEPT ![e] = "over"]
  /\ terminal' = [terminal EXCEPT ![e] = TRUE]
  /\ UNCHANGED <<sidecar, ownerVars, serverVars, fatalVars, registryVars, worker>>

\* The reaper at the deadline, or a CancelExecution.
Reap(e) ==
  /\ reaper = "running" /\ ~stopped
  /\ e \in entries
  /\ EndEntries({e})
  /\ UNCHANGED <<sidecar, ownerVars, serverVars, fatalVars, stopped, gpu_unavailable, reaper, failing, call, worker>>

ReaperEnds ==
  /\ reaper = "running" /\ stopped
  /\ reaper' = "ended"
  /\ UNCHANGED <<sidecar, ownerVars, serverVars, fatalVars, stopped, gpu_unavailable, entries, failing, executionVars>>

WorkerGoes(e, from, to) ==
  /\ worker[e] = from
  /\ worker' = [worker EXCEPT ![e] = to]

\* run_batches returns or throws anything but a lost GPU.
EngineEnds(e) ==
  /\ WorkerGoes(e, "run", "finish")
  /\ UNCHANGED <<sidecar, ownerVars, serverVars, fatalVars, registryVars, call, terminal>>

\* on_fatal_: notify_gpu_fatal seals the registry; only the first one goes on.
LoseGpu(e) ==
  /\ WorkerGoes(e, "run", IF gpu_unavailable THEN "finish" ELSE "sealing")
  /\ IF gpu_unavailable
     THEN UNCHANGED <<stopped, gpu_unavailable, failing>>
     ELSE stopped' = TRUE /\ gpu_unavailable' = TRUE /\ failing' = entries
  /\ UNCHANGED <<sidecar, ownerVars, serverVars, fatalVars, reaper, entries, call, terminal>>

\* The entries that seal_gpu_unavailable found are failed after it has left the mutex.
FailSealed(e) ==
  /\ WorkerGoes(e, "sealing", "sealed")
  /\ EndEntries(failing)
  /\ failing' = {}
  /\ UNCHANGED <<sidecar, ownerVars, serverVars, fatalVars, stopped, gpu_unavailable, reaper, call>>

\* The worker starts the thread that will end the process, then finishes itself.
BeginFatalShutdown_Swapped(e) ==
  /\ WorkerGoes(e, "sealed", "finish")
  /\ fatal_shutdown_started' = TRUE
  /\ fatal_thread' = IF fatal_shutdown_started THEN "begin" ELSE fatal_thread
  /\ UNCHANGED <<sidecar, ownerVars, serverVars, registryVars, call, terminal>>
BeginFatalShutdown(e) ==
  /\ WorkerGoes(e, "sealed", "finish")
  /\ fatal_shutdown_started' = TRUE
  /\ fatal_thread' = IF fatal_shutdown_started THEN fatal_thread ELSE "begin"
  /\ UNCHANGED <<sidecar, ownerVars, serverVars, registryVars, call, terminal>>

\* finish, maybe_notify_terminal and the registry's remove.
Finish(e) ==
  /\ WorkerGoes(e, "finish", "leaving")
  /\ terminal' = [terminal EXCEPT ![e] = TRUE]
  /\ entries' = entries \ {e}
  /\ UNCHANGED <<sidecar, ownerVars, serverVars, fatalVars, stopped, gpu_unavailable, reaper, failing, call>>

\* The thread drops its reference; if it is the last one, ~execution_entry runs here and
\* the admission lease is given back to the registry's controller.
DropEntry(e) ==
  /\ WorkerGoes(e, "leaving", "ended")
  /\ UNCHANGED <<sidecar, ownerVars, serverVars, fatalVars, registryVars, call, terminal>>

Execution(e) ==
  \/ GetFlightInfo(e) \/ Publish(e) \/ DoGet(e) \/ Claim(e) \/ ReadEnds(e) \/ Reap(e)
  \/ EngineEnds(e) \/ LoseGpu(e) \/ FailSealed(e) \/ BeginFatalShutdown(e) \/ Finish(e) \/ DropEntry(e)

-----------------------------------------------------------------------------
(* The Flight server (external) and the two threads around it. *)

Shutdown == server' = IF server = "serving" THEN "draining" ELSE server

\* Shutdown waits for the calls in flight, and cancels them at its deadline.
ServerDrained ==
  /\ server = "draining"
  /\ \A e \in Executions : call[e] \notin Calls
  /\ server' = "drained"
  /\ UNCHANGED <<sidecar, ownerVars, started, server_thread, fatalVars, registryVars, executionVars>>

ServeReturns ==
  /\ server_thread = "serving" /\ server = "drained"
  /\ server_thread' = "returned"
  /\ started' = FALSE
  /\ UNCHANGED <<sidecar, ownerVars, server, fatalVars, registryVars, executionVars>>

FatalShutdown ==
  /\ fatal_thread = "begin"
  /\ fatal_thread' = IF server = "serving" THEN "waiting" ELSE "exiting"
  /\ Shutdown
  /\ UNCHANGED <<sidecar, ownerVars, started, server_thread, fatal_shutdown_started, registryVars, executionVars>>

\* std::_Exit(70) runs no destructor and joins nobody.  A Shutdown that found the
\* server already shutting down need not wait.
FatalExit ==
  /\ \/ fatal_thread = "waiting" /\ server = "drained"
     \/ fatal_thread = "exiting"
  /\ sidecar' = "exit70"
  /\ UNCHANGED <<ownerVars, serverVars, fatalVars, registryVars, executionVars>>

-----------------------------------------------------------------------------
(* The owner: load_internal, ~runtime_owner, stop and the destructors. *)

OwnerGoes(from, to) == owner = from /\ owner' = to

Start ==
  /\ OwnerGoes(<<"load", "start">>, <<"serve", "wait">>)
  /\ started' = TRUE /\ server' = "serving" /\ server_thread' = "serving"
  /\ UNCHANGED <<sidecar, stops, collected, fatalVars, registryVars, executionVars>>

\* start() throws: the unique_ptr destroys the runtime, whose destructor stops it.
StartFails ==
  /\ OwnerGoes(<<"load", "start">>, <<"stop", "begin">>)
  /\ stops' = 1
  /\ UNCHANGED <<sidecar, collected, serverVars, fatalVars, registryVars, executionVars>>

\* The database closes: ~runtime_owner stops the runtime and ~flight_runtime does so again.
CloseDatabase ==
  /\ OwnerGoes(<<"serve", "wait">>, <<"stop", "begin">>)
  /\ stops' = 2
  /\ UNCHANGED <<sidecar, collected, serverVars, fatalVars, registryVars, executionVars>>

StopBegin ==
  /\ OwnerGoes(<<"stop", "begin">>, IF started THEN <<"stop", "close">> ELSE <<"stop", "join">>)
  /\ started' = FALSE
  /\ UNCHANGED <<sidecar, stops, collected, server_thread, server, fatalVars, registryVars, executionVars>>

\* stop_admission_and_cancel, called by stop and again by the registry's shutdown.
Callers == {"stop", "shutdown"}

CloseAdmission_Open ==
  /\ \E f \in Callers : OwnerGoes(<<f, "close">>, <<f, "reaper">>)
  /\ collected' = entries
  /\ UNCHANGED <<sidecar, stops, serverVars, fatalVars, registryVars, executionVars>>
CloseAdmission ==
  /\ \E f \in Callers : OwnerGoes(<<f, "close">>, <<f, "reaper">>)
  /\ stopped' = TRUE
  /\ collected' = entries
  /\ UNCHANGED <<sidecar, stops, serverVars, fatalVars, gpu_unavailable, reaper, entries, failing, executionVars>>

JoinReaper ==
  /\ \E f \in Callers : OwnerGoes(<<f, "reaper">>, <<f, "cancel">>)
  /\ reaper = "ended"
  /\ UNCHANGED <<sidecar, stops, collected, serverVars, fatalVars, registryVars, executionVars>>

CancelCollected ==
  /\ \/ OwnerGoes(<<"stop", "cancel">>, <<"stop", "server">>)
     \/ OwnerGoes(<<"shutdown", "cancel">>, <<"shutdown", "collect">>)
  /\ EndEntries(collected)
  /\ collected' = {}
  /\ UNCHANGED <<sidecar, stops, serverVars, fatalVars, stopped, gpu_unavailable, reaper, failing, call, worker>>

ShutdownServer ==
  /\ OwnerGoes(<<"stop", "server">>, <<"stop", "join">>)
  /\ Shutdown
  /\ UNCHANGED <<sidecar, stops, collected, started, server_thread, fatalVars, registryVars, executionVars>>

JoinServer_Skipped ==
  /\ OwnerGoes(<<"stop", "join">>, <<"shutdown", "close">>)
  /\ UNCHANGED <<sidecar, stops, collected, serverVars, fatalVars, registryVars, executionVars>>
JoinServer ==
  /\ OwnerGoes(<<"stop", "join">>, <<"shutdown", "close">>)
  /\ server_thread \in {"none", "returned"}
  /\ server_thread' = "none"
  /\ UNCHANGED <<sidecar, stops, collected, started, server, fatalVars, registryVars, executionVars>>

CollectToJoin ==
  /\ OwnerGoes(<<"shutdown", "collect">>, <<"shutdown", "join">>)
  /\ collected' = entries
  /\ UNCHANGED <<sidecar, stops, serverVars, fatalVars, registryVars, executionVars>>

\* Every worker of an entry that was still in the table is joined, and the table cleared.
JoinWorkers_Again ==
  /\ \A e \in collected : worker[e] \in {"none", "ended"}
  /\ OwnerGoes(<<"shutdown", "join">>, IF stops > 0 THEN <<"stop", "begin">> ELSE <<"destroy", "begin">>)
  /\ stops' = stops - 1
  /\ entries' = {} /\ collected' = {}
  /\ UNCHANGED <<sidecar, serverVars, fatalVars, stopped, gpu_unavailable, reaper, failing, executionVars>>
JoinWorkers_Skipped ==
  /\ OwnerGoes(<<"shutdown", "join">>, IF stops > 1 THEN <<"stop", "begin">> ELSE <<"destroy", "begin">>)
  /\ stops' = stops - 1
  /\ entries' = {} /\ collected' = {}
  /\ UNCHANGED <<sidecar, serverVars, fatalVars, stopped, gpu_unavailable, reaper, failing, executionVars>>
JoinWorkers ==
  /\ \A e \in collected : worker[e] \in {"none", "ended"}
  /\ OwnerGoes(<<"shutdown", "join">>, IF stops > 1 THEN <<"stop", "begin">> ELSE <<"destroy", "begin">>)
  /\ stops' = stops - 1
  /\ entries' = {} /\ collected' = {}
  /\ UNCHANGED <<sidecar, serverVars, fatalVars, stopped, gpu_unavailable, reaper, failing, executionVars>>

\* ~impl destroys the members in reverse order: a fatal_thread that was started was
\* never joined, so its destructor calls std::terminate, before the server is touched.
Destroy ==
  /\ IF fatal_thread = "none"
     THEN OwnerGoes(<<"destroy", "begin">>, <<"destroy", "done">>) /\ UNCHANGED sidecar
     ELSE OwnerGoes(<<"destroy", "begin">>, <<"destroy", "abort">>) /\ sidecar' = "abort"
  /\ UNCHANGED <<stops, collected, serverVars, fatalVars, registryVars, executionVars>>

\* main returns; threads that are still there end with the process.
ProcessExits ==
  /\ owner = <<"destroy", "done">>
  /\ sidecar' = "exit0"
  /\ UNCHANGED <<ownerVars, serverVars, fatalVars, registryVars, executionVars>>

Owner ==
  \/ Start \/ StartFails \/ StopBegin \/ CloseAdmission \/ JoinReaper \/ CancelCollected
  \/ ShutdownServer \/ JoinServer \/ CollectToJoin \/ JoinWorkers \/ Destroy \/ ProcessExits

\* Steps of a process that is still there.
RuntimeStep ==
  /\ sidecar = "up"
  /\ \/ \E e \in Executions : Execution(e)
     \/ ReaperEnds \/ ServerDrained \/ ServeReturns \/ FatalShutdown \/ FatalExit
     \/ Owner \/ CloseDatabase

-----------------------------------------------------------------------------
(* Properties. *)

Destroyed == owner = <<"destroy", "done">>

\* Once stop() has joined the server thread, no Flight handler is left that could create or claim
\* an entry, nor the reaper when its join is over; and when the runtime is destroyed no query
\* runs, no worker is on its way into the registry or into begin_fatal_shutdown, and no
\* fatal thread uses the server (stop, shutdown, and the order of impl's members).
ShutdownIsAlone ==
  /\ owner[1] \in {"shutdown", "destroy"} =>
       \A e \in Executions : call[e] \notin Calls
  /\ owner[1] = "destroy" =>
       /\ reaper = "ended" /\ server_thread = "none" /\ entries = {}
       /\ \A e \in Executions : worker[e] \in {"none", "leaving", "ended"}
  /\ Destroyed => fatal_thread = "none"

\* After the loss of the GPU no ticket is left that has not been failed or is about to be, also
\* not one that was being built when the registry was sealed (prepare, DoGet and the reaper
\* against seal_gpu_unavailable, which fails what it found after it has left the mutex).
SealedForGood == gpu_unavailable => \A e \in entries : terminal[e] \/ e \in failing

\* Who keeps an entry alive.
Held(e) ==
  \/ e \in entries \cup collected \cup failing
  \/ call[e] \in Calls
  \/ worker[e] \notin {"none", "ended"}

\* The runtime outlives every execution: nobody can give an admission lease back to a controller
\* that has been destroyed (the comment in stop() that every execution worker is joined).
RuntimeOutlivesEntries == Destroyed => \A e \in Executions : ~Held(e)
=============================================================================
