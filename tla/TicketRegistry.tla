--------------------------- MODULE TicketRegistry ---------------------------
(***************************************************************************)
(* ticket_registry of flight_runtime.cpp with the admission controller it  *)
(* owns: GetFlightInfo calls that prepare or replay an execution under an  *)
(* idempotency key, CancelExecution by key, the reaper, a GPU seal or a    *)
(* stop, and the life of each entry as far as the registry sees it (the    *)
(* inside of an entry is ExecutionEntry).                                  *)
(*                                                                         *)
(* A ticket is named by the GetFlightInfo call that created it: random     *)
(* tickets are distinct.  An action is one critical section of the         *)
(* registry's mutex; building the entry and ending it happen outside it.   *)
(***************************************************************************)
EXTENDS Integers, FiniteSets

CONSTANTS
  Requests,             \* GetFlightInfo calls
  Impatient,            \* the calls whose client may go away before the answer
  Cancels,              \* CancelExecution calls by idempotency key
  Keys,                 \* idempotency keys
  KeyOf,                \* the key of each request and of each cancel
  FingerprintOf,        \* digest of the command bytes of each request
  max_active_tickets,
  capacity_bytes,       \* capacity of the admission controller
  MaxCharge,            \* stream_execution_charge for k_max_stream_inputs inputs
  Charges               \* the charges for the number of inputs a plan really has

NoTicket == "no ticket"

ASSUME RequestsAssumption ==
  IsFiniteSet(Requests) /\ Impatient \subseteq Requests /\ NoTicket \notin Requests
ASSUME KeyOfAssumption == \A x \in Requests \cup Cancels : KeyOf[x] \in Keys
ASSUME BoundAssumption == max_active_tickets \in Nat /\ capacity_bytes \in Nat
ASSUME ChargeAssumption == MaxCharge \in Nat /\ Charges \subseteq 0..MaxCharge

VARIABLES
  \* ticket_registry
  entries, idempotency, reserved, stopped,
  \* stream_admission_controller and the leases it has given out
  current_bytes, lease,
  \* GetFlightInfo calls
  request,      \* where each call is
  ticket,       \* the execution it is about to return
  asleep,       \* waits on state_changed_ until it is notified or times out
  abandoned,    \* calls whose client has gone away
  \* executions
  phase,
  orphaned,     \* ended because a GetFlightInfo call found its client gone
  \* entries a seal or stop has collected and not yet ended
  doomed,
  \* CancelExecution calls
  cancel, target,
  caught        \* history: attempts under preparation when a cancel was recorded

registryVars  == <<entries, idempotency, reserved>>
stopVars      == <<stopped, doomed>>
admissionVars == <<current_bytes, lease>>
requestVars   == <<request, ticket, asleep, abandoned>>
entryVars     == <<phase, orphaned>>
cancelVars    == <<cancel, target, caught>>
vars == <<registryVars, stopVars, admissionVars, requestVars, entryVars, cancelVars>>

NoRecord == [fingerprint |-> "none", ticket |-> NoTicket, preparing |-> FALSE, cancel_requested |-> FALSE]

\* Answers of GetFlightInfo that are errors.
Refusals == {"stopping", "exhausted", "conflict", "in_progress", "terminal", "state_invalid",
             "already_claimed", "failed", "cancelled"}

Init ==
  /\ entries = {} /\ reserved = 0
  /\ idempotency = [k \in Keys |-> NoRecord]
  /\ stopped = FALSE /\ doomed = {}
  /\ current_bytes = 0 /\ lease = [r \in Requests |-> 0]
  /\ request = [r \in Requests |-> "new"]
  /\ ticket = [r \in Requests |-> NoTicket]
  /\ asleep = [r \in Requests |-> FALSE]
  /\ abandoned = {}
  /\ phase = [r \in Requests |-> "none"] /\ orphaned = {}
  /\ cancel = [c \in Cancels |-> "new"] /\ target = [c \in Cancels |-> NoTicket]
  /\ caught = {}

-----------------------------------------------------------------------------
(* Helpers. *)

Record(r) == idempotency[KeyOf[r]]
HasRecord_Published(r) == Record(r).ticket # NoTicket
HasRecord(r) == Record(r) # NoRecord

\* state_changed_.notify_all()
NotifyAll == asleep' = [r \in Requests |-> FALSE]

RequestGoes(r, from, to) ==
  /\ request[r] = from
  /\ request' = [request EXCEPT ![r] = to]

\* try_acquire, release and shrink of stream_admission_controller.
Fits_Always(bytes) == bytes >= 0
Fits(bytes) == bytes <= capacity_bytes - (IF current_bytes < capacity_bytes THEN current_bytes ELSE capacity_bytes)
Released(bytes) == IF bytes > current_bytes THEN 0 ELSE current_bytes - bytes

\* ~lease, when the entry (or the failed attempt) that owns it is destroyed.
ReleaseLease_Forgotten(r) ==
  /\ lease' = [lease EXCEPT ![r] = 0]
  /\ UNCHANGED current_bytes
ReleaseLease(r) ==
  /\ current_bytes' = Released(lease[r])
  /\ lease' = [lease EXCEPT ![r] = 0]

\* entry->cancel and its relatives: only the first end of an entry counts.
EndEntry(t) ==
  phase' = IF phase[t] \in {"open", "claimed"} THEN [phase EXCEPT ![t] = "terminal"] ELSE phase

-----------------------------------------------------------------------------
(* GetFlightInfo: prepare. *)

\* Both capacity tests at the head of prepare.
TicketAvailable_EntriesOnly == Cardinality(entries) < max_active_tickets
TicketAvailable == Cardinality(entries) + reserved < max_active_tickets

\* One turn of prepare's loop that ends with an error.
PrepareRefused(r) ==
  /\ ~asleep[r]
  /\ \/ stopped /\ RequestGoes(r, "new", "stopping")
     \/ /\ ~stopped /\ ~HasRecord(r)
        /\ ~TicketAvailable \/ ~Fits(MaxCharge)
        /\ RequestGoes(r, "new", "exhausted")
     \/ /\ ~stopped /\ HasRecord(r) /\ Record(r).fingerprint # FingerprintOf[r]
        /\ RequestGoes(r, "new", "conflict")
     \/ /\ ~stopped /\ HasRecord(r) /\ Record(r).fingerprint = FingerprintOf[r]
        /\ ~Record(r).preparing /\ Record(r).cancel_requested
        /\ RequestGoes(r, "new", "terminal")
  /\ UNCHANGED <<registryVars, stopVars, admissionVars, ticket, asleep, abandoned, entryVars, cancelVars>>

\* The first request for a key reserves a ticket, a lease and the key.
PrepareReserve(r) ==
  /\ ~asleep[r] /\ ~stopped /\ ~HasRecord(r)
  /\ TicketAvailable /\ Fits(MaxCharge)
  /\ RequestGoes(r, "new", "building")
  /\ current_bytes' = current_bytes + MaxCharge
  /\ lease' = [lease EXCEPT ![r] = MaxCharge]
  /\ reserved' = reserved + 1
  /\ idempotency' = [idempotency EXCEPT ![KeyOf[r]] =
       [fingerprint |-> FingerprintOf[r], ticket |-> NoTicket, preparing |-> TRUE, cancel_requested |-> FALSE]]
  /\ UNCHANGED <<entries, stopVars, ticket, asleep, abandoned, entryVars, cancelVars>>

Replay_AnyBytes(r) == ~asleep[r] /\ ~stopped /\ HasRecord(r)
Replay(r) ==
  /\ ~asleep[r] /\ ~stopped /\ HasRecord(r)
  /\ Record(r).fingerprint = FingerprintOf[r]

\* An identical retry sleeps while the key is being prepared ...
PrepareWait(r) ==
  /\ Replay(r) /\ Record(r).preparing
  /\ request[r] = "new"
  /\ asleep' = [asleep EXCEPT ![r] = TRUE]
  /\ UNCHANGED <<registryVars, stopVars, admissionVars, request, ticket, abandoned, entryVars, cancelVars>>

\* ... until it is notified and takes another turn, or the deadline passes.
WaitTimeout(r) ==
  /\ asleep[r]
  /\ RequestGoes(r, "new", "in_progress")
  /\ asleep' = [asleep EXCEPT ![r] = FALSE]
  /\ UNCHANGED <<registryVars, stopVars, admissionVars, ticket, abandoned, entryVars, cancelVars>>

\* A retry finds the entry that the original attempt has published.
PrepareReplay_IgnoresCancel(r) ==
  /\ Replay(r) /\ ~Record(r).preparing
  /\ RequestGoes(r, "new", "replaying") /\ ticket' = [ticket EXCEPT ![r] = Record(r).ticket]
  /\ UNCHANGED <<registryVars, stopVars, admissionVars, asleep, abandoned, entryVars, cancelVars>>
PrepareReplay(r) ==
  /\ Replay(r) /\ ~Record(r).preparing /\ ~Record(r).cancel_requested
  /\ IF Record(r).ticket \in entries
     THEN RequestGoes(r, "new", "replaying") /\ ticket' = [ticket EXCEPT ![r] = Record(r).ticket]
     ELSE RequestGoes(r, "new", "state_invalid") /\ UNCHANGED ticket
  /\ UNCHANGED <<registryVars, stopVars, admissionVars, asleep, abandoned, entryVars, cancelVars>>

\* existing->replayable(), outside the registry's mutex.
CheckReplayable(r) ==
  /\ RequestGoes(r, "replaying", IF phase[ticket[r]] = "open" THEN "delivering" ELSE "already_claimed")
  /\ UNCHANGED <<registryVars, stopVars, admissionVars, ticket, asleep, abandoned, entryVars, cancelVars>>

\* The constructor resolves the plan; the lease shrinks to what the plan needs.
Build(r) ==
  /\ RequestGoes(r, "building", "publishing")
  /\ \E bytes \in Charges :
       /\ lease[r] - bytes <= current_bytes
       /\ current_bytes' = current_bytes - (lease[r] - bytes)
       /\ lease' = [lease EXCEPT ![r] = bytes]
  /\ phase' = [phase EXCEPT ![r] = "open"]
  /\ UNCHANGED <<registryVars, stopVars, ticket, asleep, abandoned, orphaned, cancelVars>>

\* It throws: release_reservation, and the lease goes with the attempt.
BuildFails_KeepsKey(r) ==
  /\ RequestGoes(r, "building", "failed")
  /\ reserved' = reserved - 1
  /\ ReleaseLease(r)
  /\ UNCHANGED <<entries, idempotency, stopVars, ticket, asleep, abandoned, entryVars, cancelVars>>
BuildFails_ReleasesTwice(r) ==
  /\ RequestGoes(r, "building", "failed")
  /\ reserved' = reserved - 2
  /\ idempotency' = [idempotency EXCEPT ![KeyOf[r]] = NoRecord]
  /\ ReleaseLease(r)
  /\ NotifyAll
  /\ UNCHANGED <<entries, stopVars, ticket, abandoned, entryVars, cancelVars>>
BuildFails(r) ==
  /\ RequestGoes(r, "building", "failed")
  /\ reserved' = reserved - 1
  /\ idempotency' = [idempotency EXCEPT ![KeyOf[r]] = NoRecord]
  /\ ReleaseLease(r)
  /\ NotifyAll
  /\ UNCHANGED <<entries, stopVars, ticket, abandoned, entryVars, cancelVars>>

\* The entry is published under its key, unless the registry stopped meanwhile.
Publish(r) ==
  /\ reserved' = reserved - 1
  /\ IF stopped
     THEN /\ RequestGoes(r, "publishing", "discarding")
          /\ idempotency' = [idempotency EXCEPT ![KeyOf[r]] = NoRecord]
          /\ UNCHANGED entries
     ELSE /\ RequestGoes(r, "publishing", IF Record(r).cancel_requested THEN "revoking" ELSE "delivering")
          /\ entries' = entries \cup {r}
          /\ idempotency' = [idempotency EXCEPT ![KeyOf[r]].ticket = r, ![KeyOf[r]].preparing = FALSE]
  /\ ticket' = [ticket EXCEPT ![r] = r]
  /\ NotifyAll
  /\ UNCHANGED <<stopVars, admissionVars, abandoned, entryVars, cancelVars>>

\* A stopped registry has not taken the entry: prepare ends it itself.
Discard(r) ==
  /\ RequestGoes(r, "discarding", "stopping")
  /\ EndEntry(r)
  /\ UNCHANGED <<orphaned, registryVars, stopVars, admissionVars, ticket, asleep, abandoned, cancelVars>>

\* CancelExecution came while the entry was being built: cancel_and_join, whose
\* wait for the quiescence changes nothing here.
Revoke(r) ==
  /\ RequestGoes(r, "revoking", "cancelled")
  /\ EndEntry(r)
  /\ UNCHANGED <<orphaned, registryVars, stopVars, admissionVars, ticket, asleep, abandoned, cancelVars>>

\* GetFlightInfo returns the ticket, or finds its client gone and cancels the entry.
Deliver(r) ==
  /\ IF r \in abandoned
     THEN /\ RequestGoes(r, "delivering", "cancelled")
          /\ EndEntry(ticket[r])
          /\ orphaned' = IF phase[ticket[r]] \in {"open", "claimed"} THEN orphaned \cup {ticket[r]} ELSE orphaned
     ELSE RequestGoes(r, "delivering", "ok") /\ UNCHANGED entryVars
  /\ UNCHANGED <<registryVars, stopVars, admissionVars, ticket, asleep, abandoned, cancelVars>>

\* The client of a call that has not been answered goes away.
Abandon(r) ==
  /\ request[r] \notin Refusals \cup {"ok"}
  /\ r \in Impatient \ abandoned
  /\ abandoned' = abandoned \cup {r}
  /\ UNCHANGED <<registryVars, stopVars, admissionVars, request, ticket, asleep, entryVars, cancelVars>>

Request(r) ==
  \/ PrepareRefused(r) \/ PrepareReserve(r) \/ PrepareWait(r) \/ WaitTimeout(r)
  \/ PrepareReplay(r) \/ CheckReplayable(r) \/ Build(r) \/ BuildFails(r)
  \/ Publish(r) \/ Discard(r) \/ Revoke(r) \/ Deliver(r) \/ Abandon(r)

-----------------------------------------------------------------------------
(* The life of an entry, seen from the registry. *)

\* DoGet claims it.
ClaimTicket(t) ==
  /\ t \in entries /\ ~stopped
  /\ phase[t] = "open"
  /\ phase' = [phase EXCEPT ![t] = "claimed"]
  /\ UNCHANGED <<registryVars, stopVars, admissionVars, requestVars, orphaned, cancelVars>>

\* The query ends by itself, its stream is closed or an upload fails; or the reaper finds it expired.
EntryEnds(t) ==
  /\ t \in entries /\ phase[t] \in {"open", "claimed"}
  /\ EndEntry(t)
  /\ UNCHANGED <<orphaned, registryVars, stopVars, admissionVars, requestVars, cancelVars>>

\* Its worker and its upload handlers are gone.
EntryQuiesces(t) ==
  /\ phase[t] = "terminal"
  /\ phase' = [phase EXCEPT ![t] = "quiesced"]
  /\ UNCHANGED <<registryVars, stopVars, admissionVars, requestVars, orphaned, cancelVars>>

\* remove(): forgets the ticket and, with it, whatever its key maps to.
Remove_KeepsKey(t) ==
  /\ phase[t] = "quiesced" /\ t \in entries
  /\ entries' = entries \ {t}
  /\ NotifyAll
  /\ UNCHANGED <<idempotency, reserved, stopVars, admissionVars, request, ticket, abandoned, entryVars, cancelVars>>
Remove(t) ==
  /\ phase[t] = "quiesced" /\ t \in entries
  /\ idempotency' = [idempotency EXCEPT ![KeyOf[t]] = NoRecord]
  /\ entries' = entries \ {t}
  /\ NotifyAll
  /\ UNCHANGED <<reserved, stopVars, admissionVars, request, ticket, abandoned, entryVars, cancelVars>>

\* A GetFlightInfo or CancelExecution handler has a reference to the entry.
Held(t) ==
  \/ \E r \in Requests : ticket[r] = t /\ request[r] \in {"replaying", "delivering", "revoking", "discarding"}
  \/ \E c \in Cancels : target[c] = t /\ cancel[c] \in {"cancelling", "joining"}
  \/ t \in doomed

\* The last reference goes away and the lease with it.
Destroy(t) ==
  /\ phase[t] = "quiesced" /\ t \notin entries /\ ~Held(t)
  /\ phase' = [phase EXCEPT ![t] = "destroyed"]
  /\ ReleaseLease(t)
  /\ UNCHANGED <<registryVars, stopVars, requestVars, orphaned, cancelVars>>

Entry(t) == ClaimTicket(t) \/ EntryEnds(t) \/ EntryQuiesces(t) \/ Remove(t) \/ Destroy(t)

-----------------------------------------------------------------------------
(* CancelExecution by key: cancel_and_join_idempotency. *)

CancelGoes(c, from, to) ==
  /\ cancel[c] = from
  /\ cancel' = [cancel EXCEPT ![c] = to]

CancelNotFound(c) ==
  /\ stopped \/ ~HasRecord(c)
  /\ CancelGoes(c, "new", "not_found")
  /\ UNCHANGED <<registryVars, stopVars, admissionVars, requestVars, entryVars, target, caught>>

\* One turn of its loop: the request is recorded even while the key is preparing.
CancelRequested(c) ==
  /\ ~stopped /\ HasRecord(c)
  /\ idempotency' = [idempotency EXCEPT ![KeyOf[c]].cancel_requested = TRUE]
  /\ caught' = caught \cup {a \in Requests : KeyOf[a] = KeyOf[c] /\ request[a] \in {"building", "publishing"}}
  /\ IF Record(c).preparing
     THEN /\ cancel[c] = "new" /\ ~Record(c).cancel_requested
          /\ UNCHANGED <<cancel, target>>
     ELSE IF Record(c).ticket \in entries
     THEN CancelGoes(c, "new", "cancelling") /\ target' = [target EXCEPT ![c] = Record(c).ticket]
     ELSE CancelGoes(c, "new", "not_found") /\ UNCHANGED target
  /\ UNCHANGED <<entries, reserved, stopVars, admissionVars, requestVars, entryVars>>

CancelEntry(c) ==
  /\ CancelGoes(c, "cancelling", "joining")
  /\ EndEntry(target[c])
  /\ UNCHANGED <<orphaned, registryVars, stopVars, admissionVars, requestVars, target, caught>>

CancelJoined(c) ==
  /\ CancelGoes(c, "joining", "quiesced")
  /\ phase[target[c]] = "quiesced"
  /\ UNCHANGED <<registryVars, stopVars, admissionVars, requestVars, entryVars, target, caught>>

\* The client of the cancel or the deadline ends one of the two waits.
CancelGivesUp(c) ==
  /\ \/ /\ CancelGoes(c, "new", "gave_up")
        /\ ~stopped /\ Record(c).preparing /\ Record(c).cancel_requested
     \/ CancelGoes(c, "joining", "gave_up") /\ phase[target[c]] = "terminal"
  /\ UNCHANGED <<registryVars, stopVars, admissionVars, requestVars, entryVars, target, caught>>

Cancel(c) ==
  \/ CancelNotFound(c) \/ CancelRequested(c) \/ CancelEntry(c) \/ CancelJoined(c) \/ CancelGivesUp(c)

-----------------------------------------------------------------------------
(* seal_gpu_unavailable and stop_admission_and_cancel. *)

\* Both close admission and collect the entries under the mutex (a stop after a
\* seal collects only entries that the seal is already ending) ...
Stop_CollectsNothing ==
  /\ ~stopped
  /\ stopped' = TRUE
  /\ NotifyAll
  /\ UNCHANGED <<doomed, registryVars, admissionVars, request, ticket, abandoned, entryVars, cancelVars>>
Stop ==
  /\ ~stopped
  /\ stopped' = TRUE
  /\ doomed' = doomed \cup entries
  /\ NotifyAll
  /\ UNCHANGED <<registryVars, admissionVars, request, ticket, abandoned, entryVars, cancelVars>>

\* ... and end them one after the other without it.
StopEntry(t) ==
  /\ t \in doomed
  /\ doomed' = doomed \ {t}
  /\ EndEntry(t)
  /\ UNCHANGED <<orphaned, registryVars, stopped, admissionVars, requestVars, cancelVars>>

Next ==
  \/ \E r \in Requests : Request(r)
  \/ \E t \in Requests : Entry(t)
  \/ \E c \in Cancels : Cancel(c)
  \/ Stop
  \/ \E t \in Requests : StopEntry(t)

Spec == Init /\ [][Next]_vars

(***************************************************************************)
(* Fairness: a GetFlightInfo handler that is not waiting runs on, the      *)
(* loop of a stop ends every entry it has collected, an ended entry        *)
(* quiesces (ExecutionEntry).  Nothing is assumed of clients.              *)
(***************************************************************************)
Fairness ==
  /\ \A r \in Requests : WF_vars(Build(r) \/ BuildFails(r) \/ Publish(r) \/ Discard(r) \/ Revoke(r))
  /\ \A t \in Requests : WF_vars(StopEntry(t)) /\ WF_vars(EntryQuiesces(t))

FairSpec == Spec /\ Fairness

-----------------------------------------------------------------------------
(* Properties. *)

Records ==
  [fingerprint : {FingerprintOf[r] : r \in Requests} \cup {"none"}, ticket : Requests \cup {NoTicket},
   preparing : BOOLEAN, cancel_requested : BOOLEAN]

RequestStates ==
  Refusals \cup {"new", "building", "publishing", "discarding", "revoking", "replaying", "delivering", "ok"}
Phases == {"none", "open", "claimed", "terminal", "quiesced", "destroyed"}

\* Type correctness; the counters of the registry and of the admission controller
\* never go below zero.
TypeOK ==
  /\ entries \subseteq Requests /\ reserved \in Nat
  /\ idempotency \in [Keys -> Records]
  /\ stopped \in BOOLEAN /\ doomed \subseteq Requests
  /\ current_bytes \in Nat /\ lease \in [Requests -> Nat]
  /\ request \in [Requests -> RequestStates]
  /\ ticket \in [Requests -> Requests \cup {NoTicket}]
  /\ asleep \in [Requests -> BOOLEAN] /\ abandoned \subseteq Requests
  /\ phase \in [Requests -> Phases]
  /\ orphaned \subseteq Requests
  /\ cancel \in [Cancels -> {"new", "not_found", "cancelling", "joining", "quiesced", "gave_up"}]
  /\ target \in [Cancels -> Requests \cup {NoTicket}]
  /\ caught \subseteq Requests

\* Pending and running executions together stay within the ticket bound, although
\* an execution is built outside the mutex between its reservation and its
\* publication (prepare, release_reservation and remove on reserved_ and entries_).
ActiveTicketBound == Cardinality(entries) + reserved <= max_active_tickets

\* The leased bytes, one by one: as many as the sum of the leases.
Leased == UNION {{t} \X (1..lease[t]) : t \in Requests}

\* The bytes charged are exactly the leases held by attempts and by entries that
\* are not destroyed yet, and never exceed the capacity (try_acquire, shrink and
\* release over the failure and success paths of prepare).
AdmissionExact == current_bytes = Cardinality(Leased) /\ current_bytes <= capacity_bytes

\* Whatever retries, cancels and stops race, one key never has two executions that
\* are being built or are not quiesced (the preparing record holds the key).
Live(t) == request[t] \in {"building", "publishing"} \/ phase[t] \in {"open", "claimed", "terminal"}
OneExecutionPerKey ==
  \A t1, t2 \in Requests : Live(t1) /\ Live(t2) /\ KeyOf[t1] = KeyOf[t2] => t1 = t2

\* The key table agrees with the ticket table, so that remove, which erases by
\* key, never erases the record of another attempt, and a retry never finds a
\* record without its ticket (IDEMPOTENCY_STATE_INVALID).
KeyTableConsistent ==
  /\ \A t \in entries : idempotency[KeyOf[t]].ticket = t /\ ~idempotency[KeyOf[t]].preparing
  /\ \A k \in Keys : idempotency[k] # NoRecord /\ ~idempotency[k].preparing => idempotency[k].ticket \in entries
  /\ \A r \in Requests : request[r] # "state_invalid"

\* A retry sleeps only while somebody is still going to notify it: the attempt it
\* waits for is being prepared and the registry is open (every path that ends a
\* preparing record, or stops the registry, notifies state_changed_).
SleepersAreAwaited ==
  \A r \in Requests : asleep[r] =>
    /\ ~stopped
    /\ \E a \in Requests : KeyOf[a] = KeyOf[r] /\ request[a] \in {"building", "publishing"}

\* A ticket is only ever returned for the key and the command bytes it was
\* prepared from, to the original call and to its retries (prepare's test of the
\* fingerprint before it replays).
TicketsMatchCommands ==
  \A r \in Requests : request[r] = "ok" =>
    KeyOf[ticket[r]] = KeyOf[r] /\ FingerprintOf[ticket[r]] = FingerprintOf[r]

\* An execution that CancelExecution caught while it was being prepared is never
\* handed out, neither to the call that built it nor to a retry that was waiting
\* for it (cancel_requested survives the publication of the record).
CancelSticks ==
  \A r \in Requests : request[r] \in {"delivering", "ok"} => ticket[r] \notin caught

\* Closing admission ends every execution: those in the table are collected
\* under the mutex, those still being built find the registry stopped.
StopDrains == stopped ~> \A t \in Requests : ~Live(t)

\* What the README promises to an identical retry that is still waiting for its
\* answer: it gets the original ticket, and nobody but its own client, the
\* deadline, a stop or CancelExecution ends that execution.  GetFlightInfo
\* cancels the entry the two calls share when the first client has gone.
RetryKeepsTicket ==
  \A r \in Requests : request[r] = "ok" /\ r \notin abandoned => ticket[r] \notin orphaned

=============================================================================
