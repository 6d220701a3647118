------------------------ MODULE TicketRegistryProofs ------------------------
(***************************************************************************)
(* Safety of the ticket registry for every set of requests, cancels and    *)
(* keys and every limit.  The inductive invariant describes the time       *)
(* between the reservation of a key and its publication, when the attempt  *)
(* is in no table: the preparing record of its key and reserved_ stand for *)
(* it.                                                                     *)
(***************************************************************************)
EXTENDS TicketRegistry, FiniteSetTheorems, TLAPS

Early == {"new", "building", "publishing"}
Holding == {"replaying", "delivering", "ok"}
Preparing(a) == request[a] \in {"building", "publishing"}
Attempts == {a \in Requests : Preparing(a)}

USE DEF registryVars, stopVars, admissionVars, requestVars, entryVars, cancelVars

\* An attempt under preparation holds its key, alone ...
AttemptHoldsKey == \A a \in Requests : Preparing(a) =>
  Record(a).preparing /\ Record(a).fingerprint = FingerprintOf[a]
OneAttempt == \A a, b \in Requests : Preparing(a) /\ Preparing(b) /\ KeyOf[a] = KeyOf[b] => a = b
PreparingIsHeld == \A k \in Keys : idempotency[k].preparing => \E a \in Requests : KeyOf[a] = k /\ Preparing(a)
\* ... and after that its entry does.
EntryHoldsKey == \A t \in entries :
  /\ Record(t).ticket = t /\ ~Record(t).preparing
  /\ Record(t).fingerprint = FingerprintOf[t]
  /\ request[t] \notin Early
PublishedIsHeld == \A k \in Keys : idempotency[k] # NoRecord /\ ~idempotency[k].preparing =>
  idempotency[k].ticket \in entries /\ KeyOf[idempotency[k].ticket] = k
RecordInv == AttemptHoldsKey /\ OneAttempt /\ PreparingIsHeld /\ EntryHoldsKey /\ PublishedIsHeld

\* An execution that is not in the table is being prepared, or the registry has stopped.
LiveInv ==
  /\ \A r \in Requests : request[r] \in {"new", "building"} => phase[r] = "none"
  /\ \A t \in Requests : Live(t) => stopped \/ Preparing(t) \/ t \in entries
  /\ OneExecutionPerKey

\* A call that has found a ticket, or returned it, found a published one of its own command.
TicketInv ==
  \A r \in Requests :
    /\ request[r] # "state_invalid"
    /\ request[r] \in Holding =>
         /\ ticket[r] \in Requests
         /\ KeyOf[ticket[r]] = KeyOf[r] /\ FingerprintOf[ticket[r]] = FingerprintOf[r]
         /\ request[ticket[r]] \notin Early

\* A cancellation that was recorded in time stays recorded as long as somebody could find the ticket.
CaughtInv ==
  /\ \A a \in caught : request[a] # "new"
  /\ \A a \in caught : Preparing(a) \/ a \in entries => Record(a).cancel_requested
  /\ \A r \in Requests : request[r] \in Holding => ticket[r] \notin caught

\* reserved_ counts the attempts under preparation.
CountInv == reserved = Cardinality(Attempts) /\ ActiveTicketBound

IInv == TypeOK /\ RecordInv /\ LiveInv /\ SleepersAreAwaited /\ TicketInv /\ CaughtInv /\ CountInv

-----------------------------------------------------------------------------
\* Both tables are finite.
LEMMA Counts == ASSUME TypeOK
                PROVE  /\ IsFiniteSet(Attempts) /\ Cardinality(Attempts) \in Nat
                       /\ IsFiniteSet(entries) /\ Cardinality(entries) \in Nat
<1>1. Attempts \subseteq Requests /\ entries \subseteq Requests
  BY DEF TypeOK, Attempts
<1> QED BY <1>1, RequestsAssumption, FS_Subset, FS_CardinalityType

\* An attempt under preparation has a reservation to give back.
LEMMA SomethingReserved == ASSUME TypeOK, CountInv, NEW a \in Requests, Preparing(a) PROVE reserved - 1 \in Nat
<1>1. a \in Attempts
  BY DEF Attempts
<1>2. Cardinality(Attempts) # 0
  BY <1>1, Counts, FS_EmptySet
<1> QED BY <1>2, Counts DEF CountInv

\* A step that touches no table and starts, publishes or hands out nothing.
Quiet ==
  /\ UNCHANGED <<entries, idempotency, reserved, ticket, caught, stopped>>
  /\ \A a \in Requests :
       /\ Preparing(a)' <=> Preparing(a)
       /\ request'[a] \in Early => request'[a] = request[a]
       /\ request'[a] \in Holding => request[a] \in Holding
       /\ request'[a] # "state_invalid"
       /\ Live(a)' => Live(a)
       /\ phase[a] = "none" => phase'[a] = "none"
       /\ asleep'[a] => asleep[a]

LEMMA QuietKeeps == ASSUME IInv, TypeOK', Quiet PROVE IInv'
<1>1. RecordInv'
  BY DEF Quiet, IInv, TypeOK, RecordInv, AttemptHoldsKey, OneAttempt, PreparingIsHeld, EntryHoldsKey,
         PublishedIsHeld, Record
<1>2. LiveInv'
  BY DEF Quiet, IInv, LiveInv, OneExecutionPerKey, Early
<1>3. SleepersAreAwaited'
  BY DEF Quiet, IInv, SleepersAreAwaited, Preparing
<1>4. TicketInv'
  BY DEF Quiet, IInv, TicketInv
<1>5. CaughtInv'
  BY DEF Quiet, IInv, TypeOK, CaughtInv, Record, Early
<1>6. CountInv'
  <2>1. Attempts' = Attempts
    BY DEF Quiet, Attempts
  <2> QED BY <2>1 DEF Quiet, IInv, CountInv, ActiveTicketBound
<1> QED BY <1>1, <1>2, <1>3, <1>4, <1>5, <1>6 DEF IInv

-----------------------------------------------------------------------------
(* Each action keeps the invariant. *)

LEMMA PrepareRefusedKeeps == ASSUME IInv, NEW r \in Requests, PrepareRefused(r) PROVE IInv'
<1>1. TypeOK'
  BY DEF IInv, TypeOK, Records, RequestStates, Refusals, Phases, RequestGoes, PrepareRefused
<1>2. Quiet
  BY DEF IInv, TypeOK, TicketInv, Quiet, Preparing, Live, Early, Holding, Phases,
         RequestGoes, PrepareRefused
<1> QED BY <1>1, <1>2, QuietKeeps

LEMMA PrepareReserveKeeps == ASSUME IInv, NEW r \in Requests, PrepareReserve(r) PROVE IInv'
<1>1. TypeOK'
  BY KeyOfAssumption, ChargeAssumption DEF IInv, TypeOK, TicketInv, Records, RequestStates, Refusals, Phases, NoRecord,
         Holding, RequestGoes, PrepareReserve
<1>2. RecordInv'
  <2>1. /\ request[r] = "new" /\ request' = [request EXCEPT ![r] = "building"]
        /\ entries' = entries
        /\ idempotency[KeyOf[r]] = NoRecord
        /\ KeyOf[r] \in Keys
    BY KeyOfAssumption DEF PrepareReserve, RequestGoes, HasRecord, Record
  <2>2. /\ idempotency'[KeyOf[r]].preparing
        /\ idempotency'[KeyOf[r]].fingerprint = FingerprintOf[r]
        /\ \A k \in Keys : k # KeyOf[r] => idempotency'[k] = idempotency[k]
    BY <2>1 DEF IInv, TypeOK, PrepareReserve
  <2>3. ~Preparing(r) /\ \A a \in Requests : Preparing(a)' <=> Preparing(a) \/ a = r
    BY <2>1 DEF IInv, TypeOK, Preparing
  <2>4. \A a \in Requests : Preparing(a) => KeyOf[a] # KeyOf[r]
    BY <2>1 DEF IInv, RecordInv, AttemptHoldsKey, Record, NoRecord
  <2>5. \A t \in entries : KeyOf[t] # KeyOf[r] /\ t # r
    BY <2>1, RequestsAssumption DEF IInv, TypeOK, RecordInv, EntryHoldsKey, Record, NoRecord, Early
  <2>6. AttemptHoldsKey'
    BY <2>2, <2>3, <2>4, KeyOfAssumption DEF IInv, RecordInv, AttemptHoldsKey, Record
  <2>7. OneAttempt'
    BY <2>3, <2>4 DEF IInv, RecordInv, OneAttempt
  <2>8. PreparingIsHeld'
    BY <2>2, <2>3 DEF IInv, RecordInv, PreparingIsHeld
  <2>9. EntryHoldsKey'
    BY <2>1, <2>2, <2>5, KeyOfAssumption DEF IInv, TypeOK, RecordInv, EntryHoldsKey, Record
  <2>10. PublishedIsHeld'
    BY <2>1, <2>2 DEF IInv, RecordInv, PublishedIsHeld
  <2> QED BY <2>6, <2>7, <2>8, <2>9, <2>10 DEF RecordInv
<1>3. LiveInv'
  <2>1. /\ request[r] = "new" /\ request' = [request EXCEPT ![r] = "building"]
        /\ UNCHANGED <<entries, stopped, phase>>
        /\ idempotency[KeyOf[r]] = NoRecord /\ ~stopped
    BY DEF PrepareReserve, RequestGoes, HasRecord, Record
  <2>2. \A t \in Requests : Live(t)' <=> Live(t) \/ t = r
    BY <2>1 DEF IInv, TypeOK, Live
  <2>3. \A t \in Requests : Live(t) => KeyOf[t] # KeyOf[r]
    BY <2>1, RequestsAssumption DEF IInv, TypeOK, RecordInv, AttemptHoldsKey, EntryHoldsKey, LiveInv, Record, NoRecord
  <2>4. OneExecutionPerKey'
    BY <2>2, <2>3 DEF IInv, LiveInv, OneExecutionPerKey
  <2> QED BY <2>1, <2>2, <2>4 DEF IInv, TypeOK, LiveInv, Preparing
<1>4. SleepersAreAwaited'
  BY KeyOfAssumption DEF IInv, TypeOK, RecordInv, AttemptHoldsKey, OneAttempt, PreparingIsHeld,
         EntryHoldsKey, PublishedIsHeld, SleepersAreAwaited, Preparing, Record, HasRecord,
         NoRecord, RequestGoes, PrepareReserve
<1>5. TicketInv'
  <2>1. /\ request[r] = "new" /\ request' = [request EXCEPT ![r] = "building"]
        /\ ticket' = ticket
    BY DEF PrepareReserve, RequestGoes
  <2> QED BY <2>1 DEF IInv, TypeOK, TicketInv, Early, Holding
<1>6. CaughtInv'
  <2>1. /\ request[r] = "new" /\ request' = [request EXCEPT ![r] = "building"]
        /\ UNCHANGED <<entries, ticket, caught>>
        /\ idempotency[KeyOf[r]] = NoRecord
        /\ \A k \in Keys : k # KeyOf[r] => idempotency'[k] = idempotency[k]
    BY DEF IInv, TypeOK, PrepareReserve, RequestGoes, HasRecord, Record
  <2>2. r \notin caught
    BY <2>1 DEF IInv, CaughtInv
  <2>3. \A a \in Requests : a # r => request'[a] = request[a]
    BY <2>1 DEF IInv, TypeOK
  <2>4. ASSUME NEW a \in caught, (Preparing(a) \/ a \in entries)' PROVE Record(a)'.cancel_requested
    <3>1. a \in Requests /\ a # r /\ (Preparing(a) \/ a \in entries)
      BY <2>1, <2>2, <2>3, <2>4 DEF IInv, TypeOK, Preparing
    <3>2. KeyOf[a] # KeyOf[r]
      BY <2>1, <3>1, RequestsAssumption DEF IInv, RecordInv, AttemptHoldsKey, EntryHoldsKey, Record, NoRecord
    <3> QED BY <2>1, <3>1, <3>2, KeyOfAssumption DEF IInv, CaughtInv, Record
  <2>5. \A a \in caught : request'[a] # "new"
    BY <2>1, <2>2, <2>3 DEF IInv, TypeOK, CaughtInv
  <2>6. \A a \in Requests : request'[a] \in Holding => ticket[a] \notin caught
    BY <2>1 DEF IInv, TypeOK, CaughtInv, Holding
  <2> QED BY <2>1, <2>4, <2>5, <2>6 DEF CaughtInv
<1>7. CountInv'
  <2>1. Attempts' = Attempts \cup {r} /\ r \notin Attempts
    BY DEF IInv, TypeOK, PrepareReserve, RequestGoes, Attempts, Preparing
  <2>2. Cardinality(Attempts') = Cardinality(Attempts) + 1
    BY <2>1, Counts, FS_AddElement DEF IInv
  <2> QED BY <2>2, Counts, BoundAssumption DEF IInv, PrepareReserve, TicketAvailable, CountInv, ActiveTicketBound
<1> QED BY <1>1, <1>2, <1>3, <1>4, <1>5, <1>6, <1>7 DEF IInv

LEMMA PrepareWaitKeeps == ASSUME IInv, NEW r \in Requests, PrepareWait(r) PROVE IInv'
<1>1. TypeOK'
  BY KeyOfAssumption, ChargeAssumption DEF IInv, TypeOK, TicketInv, Records, RequestStates, Refusals, Phases, NoRecord,
         Holding, Replay, PrepareWait
<1>2. RecordInv'
  BY KeyOfAssumption DEF IInv, TypeOK, RecordInv, AttemptHoldsKey, OneAttempt, PreparingIsHeld,
         EntryHoldsKey, PublishedIsHeld, Preparing, Record, HasRecord, NoRecord, Early,
         Records, Replay, PrepareWait
<1>3. LiveInv'
  BY KeyOfAssumption DEF IInv, TypeOK, RecordInv, AttemptHoldsKey, OneAttempt, PreparingIsHeld,
         EntryHoldsKey, PublishedIsHeld, LiveInv, Preparing, Record, HasRecord, NoRecord,
         Live, OneExecutionPerKey, Phases, Early, Replay, PrepareWait
<1>4. SleepersAreAwaited'
  BY KeyOfAssumption DEF IInv, TypeOK, RecordInv, AttemptHoldsKey, OneAttempt, PreparingIsHeld,
         EntryHoldsKey, PublishedIsHeld, SleepersAreAwaited, Preparing, Record, HasRecord,
         NoRecord, Replay, PrepareWait
<1>5. TicketInv'
  BY KeyOfAssumption DEF IInv, TypeOK, RecordInv, AttemptHoldsKey, OneAttempt, PreparingIsHeld,
         EntryHoldsKey, PublishedIsHeld, TicketInv, Preparing, Record, HasRecord, NoRecord,
         Early, Holding, Replay, PrepareWait
<1>6. CaughtInv'
  BY KeyOfAssumption DEF IInv, TypeOK, RecordInv, AttemptHoldsKey, OneAttempt, PreparingIsHeld,
         EntryHoldsKey, PublishedIsHeld, TicketInv, CaughtInv, Preparing, Record, HasRecord,
         NoRecord, Early, Holding, Replay, PrepareWait
<1>7. CountInv'
  BY BoundAssumption DEF IInv, TypeOK, CountInv, Attempts, Preparing, ActiveTicketBound, Replay, PrepareWait
<1> QED BY <1>1, <1>2, <1>3, <1>4, <1>5, <1>6, <1>7 DEF IInv

LEMMA WaitTimeoutKeeps == ASSUME IInv, NEW r \in Requests, WaitTimeout(r) PROVE IInv'
<1>1. TypeOK'
  BY DEF IInv, TypeOK, Records, RequestStates, Refusals, Phases, RequestGoes, WaitTimeout
<1>2. Quiet
  BY SMTT(30) DEF IInv, TypeOK, TicketInv, Quiet, Preparing, Live, Early, Holding, Phases,
         RequestGoes, WaitTimeout
<1> QED BY <1>1, <1>2, QuietKeeps

LEMMA PrepareReplayKeeps == ASSUME IInv, NEW r \in Requests, PrepareReplay(r) PROVE IInv'
<1>1. TypeOK'
  BY KeyOfAssumption, ChargeAssumption DEF IInv, TypeOK, TicketInv, Records, RequestStates, Refusals, Phases, NoRecord,
         Holding, Replay, RequestGoes, PrepareReplay
<1>2. RecordInv'
  <2>1. UNCHANGED <<entries, idempotency>>
    BY DEF PrepareReplay
  <2>2. /\ request[r] = "new"
        /\ \A a \in Requests : a # r => request'[a] = request[a]
        /\ request'[r] \notin Early
    BY DEF IInv, TypeOK, PrepareReplay, RequestGoes, Early
  <2>3. \A a \in Requests : Preparing(a)' <=> Preparing(a)
    BY <2>2 DEF Preparing, Early
  <2> QED BY <2>1, <2>2, <2>3 DEF IInv, TypeOK, RecordInv, AttemptHoldsKey, OneAttempt, PreparingIsHeld,
       EntryHoldsKey, PublishedIsHeld, Record
<1>3. LiveInv'
  BY KeyOfAssumption DEF IInv, TypeOK, RecordInv, AttemptHoldsKey, OneAttempt, PreparingIsHeld,
         EntryHoldsKey, PublishedIsHeld, LiveInv, Preparing, Record, HasRecord, NoRecord,
         Live, OneExecutionPerKey, Phases, Early, Replay, RequestGoes, PrepareReplay
<1>4. SleepersAreAwaited'
  BY KeyOfAssumption DEF IInv, TypeOK, RecordInv, AttemptHoldsKey, OneAttempt, PreparingIsHeld,
         EntryHoldsKey, PublishedIsHeld, SleepersAreAwaited, Preparing, Record, HasRecord,
         NoRecord, Replay, RequestGoes, PrepareReplay
<1>5. TicketInv'
  <2> DEFINE found == Record(r).ticket
  <2>1. /\ found \in entries /\ KeyOf[found] = KeyOf[r]
        /\ request' = [request EXCEPT ![r] = "replaying"] /\ request[r] = "new"
        /\ ticket' = [ticket EXCEPT ![r] = found]
    BY KeyOfAssumption DEF IInv, RecordInv, PublishedIsHeld, PrepareReplay, Replay, RequestGoes, HasRecord, Record
  <2>2. /\ FingerprintOf[found] = FingerprintOf[r] /\ found \in Requests
        /\ request[found] \notin Early
    BY <2>1 DEF IInv, TypeOK, RecordInv, EntryHoldsKey, PrepareReplay, Replay, Record
  <2>3. \A a \in Requests : request[a] \notin Early => request'[a] \notin Early
    BY <2>1 DEF IInv, TypeOK, Early
  <2> QED BY <2>1, <2>2, <2>3 DEF IInv, TypeOK, TicketInv, Holding
<1>6. CaughtInv'
  <2> DEFINE found == Record(r).ticket
  <2>1. /\ found \in entries /\ KeyOf[found] = KeyOf[r] /\ ~Record(r).cancel_requested
        /\ request' = [request EXCEPT ![r] = "replaying"] /\ request[r] = "new"
        /\ ticket' = [ticket EXCEPT ![r] = found]
        /\ UNCHANGED <<entries, idempotency, caught>>
    BY KeyOfAssumption DEF IInv, RecordInv, PublishedIsHeld, PrepareReplay, Replay, RequestGoes, HasRecord, Record
  <2>2. found \notin caught
    BY <2>1 DEF IInv, CaughtInv, Record
  <2>3. \A a \in Requests : Preparing(a)' <=> Preparing(a)
    BY <2>1 DEF IInv, TypeOK, Preparing
  <2> QED BY <2>1, <2>2, <2>3 DEF IInv, TypeOK, CaughtInv, Holding, Record
<1>7. CountInv'
  BY BoundAssumption DEF IInv, TypeOK, CountInv, Attempts, Preparing, ActiveTicketBound, Replay, RequestGoes,
         PrepareReplay
<1> QED BY <1>1, <1>2, <1>3, <1>4, <1>5, <1>6, <1>7 DEF IInv

LEMMA CheckReplayableKeeps == ASSUME IInv, NEW r \in Requests, CheckReplayable(r) PROVE IInv'
<1>1. TypeOK'
  BY DEF IInv, TypeOK, Records, RequestStates, Refusals, Phases, RequestGoes, CheckReplayable
<1>2. Quiet
  BY DEF IInv, TypeOK, TicketInv, Quiet, Preparing, Live, Early, Holding, Phases,
         RequestGoes, CheckReplayable
<1> QED BY <1>1, <1>2, QuietKeeps

LEMMA BuildKeeps == ASSUME IInv, NEW r \in Requests, Build(r) PROVE IInv'
<1>1. TypeOK'
  BY KeyOfAssumption, ChargeAssumption DEF IInv, TypeOK, TicketInv, Records, RequestStates, Refusals, Phases, NoRecord,
         Holding, RequestGoes, Build
<1>2. RecordInv'
  BY KeyOfAssumption DEF IInv, TypeOK, RecordInv, AttemptHoldsKey, OneAttempt, PreparingIsHeld,
         EntryHoldsKey, PublishedIsHeld, Preparing, Record, HasRecord, NoRecord, Early,
         Records, RequestGoes, Build
<1>3. LiveInv'
  <2>1. /\ request[r] = "building" /\ request' = [request EXCEPT ![r] = "publishing"]
        /\ phase' = [phase EXCEPT ![r] = "open"]
        /\ UNCHANGED <<entries, stopped>>
    BY DEF Build, RequestGoes
  <2>2. \A t \in Requests : (Live(t)' <=> Live(t)) /\ (Preparing(t)' <=> Preparing(t))
    BY <2>1 DEF IInv, TypeOK, Live, Preparing
  <2>3. \A t \in Requests : request'[t] \in {"new", "building"} => phase'[t] = "none"
    BY <2>1 DEF IInv, TypeOK, LiveInv
  <2> QED BY <2>1, <2>2, <2>3 DEF IInv, LiveInv, OneExecutionPerKey
<1>4. SleepersAreAwaited'
  BY KeyOfAssumption DEF IInv, TypeOK, RecordInv, AttemptHoldsKey, OneAttempt, PreparingIsHeld,
         EntryHoldsKey, PublishedIsHeld, SleepersAreAwaited, Preparing, Record, HasRecord,
         NoRecord, RequestGoes, Build
<1>5. TicketInv'
  <2>1. /\ request[r] = "building" /\ request' = [request EXCEPT ![r] = "publishing"]
        /\ ticket' = ticket
    BY DEF Build, RequestGoes
  <2> QED BY <2>1 DEF IInv, TypeOK, TicketInv, Early, Holding
<1>6. CaughtInv'
  BY KeyOfAssumption DEF IInv, TypeOK, RecordInv, AttemptHoldsKey, OneAttempt, PreparingIsHeld,
         EntryHoldsKey, PublishedIsHeld, TicketInv, CaughtInv, Preparing, Record, HasRecord,
         NoRecord, Early, Holding, RequestGoes, Build
<1>7. CountInv'
  <2>1. Attempts' = Attempts
    BY DEF IInv, TypeOK, Build, RequestGoes, Attempts, Preparing
  <2> QED BY <2>1 DEF IInv, Build, CountInv, ActiveTicketBound
<1> QED BY <1>1, <1>2, <1>3, <1>4, <1>5, <1>6, <1>7 DEF IInv

LEMMA BuildFailsKeeps == ASSUME IInv, NEW r \in Requests, BuildFails(r) PROVE IInv'
<1>1. TypeOK'
  <2>1. request[r] \in {"building", "publishing"} /\ reserved' = reserved - 1
    BY DEF BuildFails, RequestGoes
  <2>2. reserved' \in Nat
    BY <2>1, SomethingReserved, SMT DEF IInv, TypeOK, Preparing
  <2>3. idempotency' \in [Keys -> Records]
    BY KeyOfAssumption DEF IInv, TypeOK, BuildFails, Records, NoRecord
  <2>4. request' \in [Requests -> RequestStates]
    BY DEF IInv, TypeOK, BuildFails, RequestGoes, RequestStates, Refusals
  <2>5. current_bytes' \in Nat /\ lease' \in [Requests -> Nat]
    BY DEF IInv, TypeOK, BuildFails, ReleaseLease, Released
  <2> QED BY <2>2, <2>3, <2>4, <2>5 DEF IInv, TypeOK, BuildFails, NotifyAll
<1>2. RecordInv'
  <2>1. /\ request[r] \in {"building", "publishing"} /\ request' = [request EXCEPT ![r] = "failed"]
        /\ entries' = entries
        /\ KeyOf[r] \in Keys
        /\ idempotency' = [idempotency EXCEPT ![KeyOf[r]] = NoRecord]
    BY KeyOfAssumption DEF BuildFails, RequestGoes
  <2>2. /\ ~idempotency'[KeyOf[r]].preparing /\ idempotency'[KeyOf[r]] = NoRecord
        /\ \A k \in Keys : k # KeyOf[r] => idempotency'[k] = idempotency[k]
    BY <2>1 DEF IInv, TypeOK, NoRecord
  <2>3. Preparing(r) /\ \A a \in Requests : Preparing(a)' <=> Preparing(a) /\ a # r
    BY <2>1 DEF IInv, TypeOK, Preparing
  <2>4. \A a \in Requests : Preparing(a) /\ a # r => KeyOf[a] # KeyOf[r]
    BY <2>3 DEF IInv, RecordInv, OneAttempt
  <2>5. \A t \in entries : KeyOf[t] # KeyOf[r] /\ t # r
    BY <2>3 DEF IInv, TypeOK, RecordInv, AttemptHoldsKey, EntryHoldsKey, Record
  <2>6. AttemptHoldsKey'
    BY <2>2, <2>3, <2>4, KeyOfAssumption DEF IInv, RecordInv, AttemptHoldsKey, Record
  <2>7. OneAttempt'
    BY <2>3 DEF IInv, RecordInv, OneAttempt
  <2>8. PreparingIsHeld'
    BY <2>2, <2>3 DEF IInv, RecordInv, PreparingIsHeld
  <2>9. EntryHoldsKey'
    BY <2>1, <2>2, <2>5, KeyOfAssumption DEF IInv, TypeOK, RecordInv, EntryHoldsKey, Record
  <2>10. PublishedIsHeld'
    BY <2>1, <2>2 DEF IInv, RecordInv, PublishedIsHeld
  <2> QED BY <2>6, <2>7, <2>8, <2>9, <2>10 DEF RecordInv
<1>3. LiveInv'
  BY KeyOfAssumption DEF IInv, TypeOK, RecordInv, AttemptHoldsKey, OneAttempt, PreparingIsHeld,
         EntryHoldsKey, PublishedIsHeld, LiveInv, Preparing, Record, HasRecord, NoRecord,
         Live, OneExecutionPerKey, Phases, Early, RequestGoes, ReleaseLease, Released,
         NotifyAll, BuildFails
<1>4. SleepersAreAwaited'
  BY DEF BuildFails, NotifyAll, SleepersAreAwaited
<1>5. TicketInv'
  <2>1. /\ request[r] = "building" /\ request' = [request EXCEPT ![r] = "failed"]
        /\ ticket' = ticket
    BY DEF BuildFails, RequestGoes
  <2> QED BY <2>1 DEF IInv, TypeOK, TicketInv, Early, Holding
<1>6. CaughtInv'
  <2>1. /\ request[r] = "building" /\ request' = [request EXCEPT ![r] = "failed"]
        /\ UNCHANGED <<entries, ticket, caught>>
        /\ \A k \in Keys : k # KeyOf[r] => idempotency'[k] = idempotency[k]
    BY DEF IInv, TypeOK, BuildFails, RequestGoes
  <2>2. ASSUME NEW a \in caught, (Preparing(a) \/ a \in entries)' PROVE Record(a)'.cancel_requested
    <3>1. a \in Requests /\ ((Preparing(a) /\ a # r) \/ a \in entries)
      BY <2>1, <2>2 DEF IInv, TypeOK, Preparing
    <3>2. KeyOf[a] # KeyOf[r]
      BY <2>1, <3>1 DEF IInv, RecordInv, OneAttempt, AttemptHoldsKey, EntryHoldsKey, Record, Preparing
    <3> QED BY <2>1, <3>1, <3>2, KeyOfAssumption DEF IInv, CaughtInv, Record
  <2>3. \A a \in caught : request'[a] # "new"
    BY <2>1 DEF IInv, TypeOK, CaughtInv
  <2>4. \A a \in Requests : request'[a] \in Holding => ticket[a] \notin caught
    BY <2>1 DEF IInv, TypeOK, CaughtInv, Holding
  <2> QED BY <2>1, <2>2, <2>3, <2>4 DEF CaughtInv
<1>7. CountInv'
  <2>1. Attempts' = Attempts \ {r} /\ r \in Attempts
    BY DEF IInv, TypeOK, BuildFails, RequestGoes, Attempts, Preparing
  <2>2. Cardinality(Attempts') = Cardinality(Attempts) - 1
    BY <2>1, Counts, FS_RemoveElement DEF IInv
  <2> QED BY <2>2, Counts, BoundAssumption DEF IInv, BuildFails, CountInv, ActiveTicketBound
<1> QED BY <1>1, <1>2, <1>3, <1>4, <1>5, <1>6, <1>7 DEF IInv

LEMMA PublishKeeps == ASSUME IInv, NEW r \in Requests, Publish(r) PROVE IInv'
<1>1. TypeOK'
  <2>1. request[r] \in {"building", "publishing"} /\ reserved' = reserved - 1
    BY DEF Publish, RequestGoes
  <2>2. reserved' \in Nat
    BY <2>1, SomethingReserved, SMT DEF IInv, TypeOK, Preparing
  <2>3. idempotency[KeyOf[r]] \in Records /\ KeyOf[r] \in Keys
    BY KeyOfAssumption DEF IInv, TypeOK
  <2>4. NoRecord \in Records /\ [[idempotency[KeyOf[r]] EXCEPT !.ticket = r] EXCEPT !.preparing = FALSE] \in Records
    BY <2>3 DEF Records, NoRecord
  <2>5. idempotency' \in [Keys -> Records]
    BY <2>3, <2>4 DEF IInv, TypeOK, Publish
  <2>6. request' \in [Requests -> RequestStates] /\ entries' \subseteq Requests
    BY DEF IInv, TypeOK, Publish, RequestGoes, RequestStates, Refusals
  <2> QED BY <2>2, <2>5, <2>6 DEF IInv, TypeOK, Publish, NotifyAll
<1>2. RecordInv'
  <2>1. CASE stopped
    <3>1. /\ request[r] \in {"building", "publishing"} /\ request' = [request EXCEPT ![r] = "discarding"]
          /\ entries' = entries
          /\ KeyOf[r] \in Keys
          /\ idempotency' = [idempotency EXCEPT ![KeyOf[r]] = NoRecord]
      BY <2>1, KeyOfAssumption DEF Publish, RequestGoes
    <3>2. /\ ~idempotency'[KeyOf[r]].preparing /\ idempotency'[KeyOf[r]] = NoRecord
          /\ \A k \in Keys : k # KeyOf[r] => idempotency'[k] = idempotency[k]
      BY <3>1 DEF IInv, TypeOK, NoRecord
    <3>3. Preparing(r) /\ \A a \in Requests : Preparing(a)' <=> Preparing(a) /\ a # r
      BY <3>1 DEF IInv, TypeOK, Preparing
    <3>4. \A a \in Requests : Preparing(a) /\ a # r => KeyOf[a] # KeyOf[r]
      BY <3>3 DEF IInv, RecordInv, OneAttempt
    <3>5. \A t \in entries : KeyOf[t] # KeyOf[r] /\ t # r
      BY <3>3 DEF IInv, TypeOK, RecordInv, AttemptHoldsKey, EntryHoldsKey, Record
    <3>6. AttemptHoldsKey'
      BY <3>2, <3>3, <3>4, KeyOfAssumption DEF IInv, RecordInv, AttemptHoldsKey, Record
    <3>7. OneAttempt'
      BY <3>3 DEF IInv, RecordInv, OneAttempt
    <3>8. PreparingIsHeld'
      BY <3>2, <3>3 DEF IInv, RecordInv, PreparingIsHeld
    <3>9. EntryHoldsKey'
      BY <3>1, <3>2, <3>5, KeyOfAssumption DEF IInv, TypeOK, RecordInv, EntryHoldsKey, Record
    <3>10. PublishedIsHeld'
      BY <3>1, <3>2 DEF IInv, RecordInv, PublishedIsHeld
    <3> QED BY <3>6, <3>7, <3>8, <3>9, <3>10 DEF RecordInv
  <2>2. CASE ~stopped
    <3>1. /\ request[r] = "publishing"
          /\ request' = [request EXCEPT ![r] = IF Record(r).cancel_requested THEN "revoking" ELSE "delivering"]
          /\ entries' = entries \cup {r}
          /\ KeyOf[r] \in Keys
      BY <2>2, KeyOfAssumption DEF Publish, RequestGoes
    <3>2. Preparing(r) /\ Record(r).preparing /\ Record(r).fingerprint = FingerprintOf[r] /\ request'[r] \notin Early
      BY <3>1 DEF IInv, TypeOK, RecordInv, AttemptHoldsKey, Preparing, Early
    <3>3. /\ ~idempotency'[KeyOf[r]].preparing /\ idempotency'[KeyOf[r]].ticket = r
          /\ idempotency'[KeyOf[r]].fingerprint = FingerprintOf[r]
          /\ \A k \in Keys : k # KeyOf[r] => idempotency'[k] = idempotency[k]
      <4>1. idempotency[KeyOf[r]] \in Records
        BY <3>1 DEF IInv, TypeOK
      <4>2. idempotency'[KeyOf[r]] = [[idempotency[KeyOf[r]] EXCEPT !.ticket = r] EXCEPT !.preparing = FALSE]
        BY <2>2, <3>1 DEF IInv, TypeOK, Publish
      <4>3. \A k \in Keys : k # KeyOf[r] => idempotency'[k] = idempotency[k]
        BY <2>2, <3>1 DEF IInv, TypeOK, Publish
      <4> QED BY <3>2, <4>1, <4>2, <4>3 DEF Records, Record
    <3>4. \A a \in Requests : Preparing(a)' <=> Preparing(a) /\ a # r
      BY <3>1 DEF IInv, TypeOK, Preparing
    <3>5. \A a \in Requests : Preparing(a) /\ a # r => KeyOf[a] # KeyOf[r]
      BY <3>2 DEF IInv, RecordInv, OneAttempt
    <3>6. \A t \in entries : KeyOf[t] # KeyOf[r] /\ t # r
      BY <3>2 DEF IInv, TypeOK, RecordInv, EntryHoldsKey, Record
    <3>7. AttemptHoldsKey'
      BY <3>3, <3>4, <3>5, KeyOfAssumption DEF IInv, RecordInv, AttemptHoldsKey, Record
    <3>8. OneAttempt'
      BY <3>4 DEF IInv, RecordInv, OneAttempt
    <3>9. PreparingIsHeld'
      BY <3>3, <3>4 DEF IInv, RecordInv, PreparingIsHeld
    <3>10. EntryHoldsKey'
      BY <3>1, <3>2, <3>3, <3>6, KeyOfAssumption DEF IInv, TypeOK, RecordInv, EntryHoldsKey, Record
    <3>11. PublishedIsHeld'
      BY <3>1, <3>3 DEF IInv, RecordInv, PublishedIsHeld
    <3> QED BY <3>7, <3>8, <3>9, <3>10, <3>11 DEF RecordInv
  <2> QED BY <2>1, <2>2
<1>3. LiveInv'
  BY KeyOfAssumption DEF IInv, TypeOK, RecordInv, AttemptHoldsKey, OneAttempt, PreparingIsHeld,
         EntryHoldsKey, PublishedIsHeld, LiveInv, Preparing, Record, HasRecord, NoRecord,
         Live, OneExecutionPerKey, Phases, Early, RequestGoes, NotifyAll, Publish
<1>4. SleepersAreAwaited'
  BY DEF Publish, NotifyAll, SleepersAreAwaited
<1>5. TicketInv'
  BY KeyOfAssumption DEF IInv, TypeOK, RecordInv, AttemptHoldsKey, OneAttempt, PreparingIsHeld,
         EntryHoldsKey, PublishedIsHeld, TicketInv, Preparing, Record, HasRecord, NoRecord,
         Early, Holding, RequestGoes, NotifyAll, Publish
<1>6. CaughtInv'
  <2>1. /\ request[r] = "publishing" /\ caught' = caught
        /\ ticket' = [ticket EXCEPT ![r] = r]
        /\ \A a \in Requests : a # r => request'[a] = request[a]
        /\ request'[r] \in {"discarding", "revoking", "delivering"}
        /\ request'[r] = "delivering" => ~Record(r).cancel_requested
        /\ entries' \subseteq entries \cup {r}
    BY DEF IInv, TypeOK, Publish, RequestGoes
  <2>2. /\ r \in entries' => idempotency'[KeyOf[r]].cancel_requested = Record(r).cancel_requested
        /\ \A k \in Keys : k # KeyOf[r] => idempotency'[k] = idempotency[k]
    <3>1. KeyOf[r] \in Keys /\ idempotency[KeyOf[r]] \in Records /\ r \notin entries
      BY <2>1, KeyOfAssumption DEF IInv, TypeOK, RecordInv, EntryHoldsKey, Early
    <3>2. CASE stopped
      BY <3>1, <3>2 DEF IInv, TypeOK, Publish
    <3>3. CASE ~stopped
      <4>1. idempotency'[KeyOf[r]] = [[idempotency[KeyOf[r]] EXCEPT !.ticket = r] EXCEPT !.preparing = FALSE]
        BY <3>1, <3>3 DEF IInv, TypeOK, Publish
      <4>2. \A k \in Keys : k # KeyOf[r] => idempotency'[k] = idempotency[k]
        BY <3>1, <3>3 DEF IInv, TypeOK, Publish
      <4> QED BY <3>1, <4>1, <4>2 DEF Records, Record
    <3> QED BY <3>2, <3>3
  <2>3. Preparing(r) /\ (r \in caught => Record(r).cancel_requested)
    BY <2>1 DEF IInv, CaughtInv, Preparing
  <2>4. ASSUME NEW a \in caught, (Preparing(a) \/ a \in entries)' PROVE Record(a)'.cancel_requested
    <3>1. a \in Requests
      BY DEF IInv, TypeOK
    <3>2. CASE a = r
      BY <2>1, <2>2, <2>3, <2>4, <3>2 DEF Record, Preparing
    <3>3. CASE a # r
      <4>1. Preparing(a) \/ a \in entries
        BY <2>1, <2>4, <3>1, <3>3 DEF Preparing
      <4>2. KeyOf[a] # KeyOf[r]
        BY <2>3, <3>1, <3>3, <4>1 DEF IInv, RecordInv, OneAttempt, AttemptHoldsKey, EntryHoldsKey, Record
      <4> QED BY <2>2, <3>1, <4>1, <4>2, KeyOfAssumption DEF IInv, CaughtInv, Record
    <3> QED BY <3>2, <3>3
  <2>5. \A a \in caught : request'[a] # "new"
    BY <2>1 DEF IInv, TypeOK, CaughtInv
  <2>6. \A a \in Requests : request'[a] \in Holding => ticket'[a] \notin caught
    BY <2>1, <2>3 DEF IInv, TypeOK, CaughtInv, Holding
  <2> QED BY <2>1, <2>4, <2>5, <2>6 DEF CaughtInv
<1>7. CountInv'
  <2>1. Attempts' = Attempts \ {r} /\ r \in Attempts
    BY DEF IInv, TypeOK, Publish, RequestGoes, Attempts, Preparing
  <2>2. Cardinality(Attempts') = Cardinality(Attempts) - 1
    BY <2>1, Counts, FS_RemoveElement DEF IInv
  <2>3. Cardinality(entries') <= Cardinality(entries) + 1 /\ Cardinality(entries') \in Nat
    <3>1. entries' \in {entries, entries \cup {r}}
      BY DEF Publish
    <3>2. Cardinality(entries \cup {r}) \in {Cardinality(entries), Cardinality(entries) + 1}
      BY Counts, FS_AddElement DEF IInv
    <3> QED BY <3>1, <3>2, Counts DEF IInv
  <2> QED BY <2>2, <2>3, Counts, BoundAssumption DEF IInv, Publish, CountInv, ActiveTicketBound
<1> QED BY <1>1, <1>2, <1>3, <1>4, <1>5, <1>6, <1>7 DEF IInv

LEMMA DiscardKeeps == ASSUME IInv, NEW r \in Requests, Discard(r) PROVE IInv'
<1>1. TypeOK'
  BY DEF IInv, TypeOK, Records, RequestStates, Refusals, Phases, RequestGoes, EndEntry,
         Discard
<1>2. Quiet
  BY DEF IInv, TypeOK, TicketInv, Quiet, Preparing, Live, Early, Holding, Phases,
         RequestGoes, EndEntry, Discard
<1> QED BY <1>1, <1>2, QuietKeeps

LEMMA RevokeKeeps == ASSUME IInv, NEW r \in Requests, Revoke(r) PROVE IInv'
<1>1. TypeOK'
  BY DEF IInv, TypeOK, Records, RequestStates, Refusals, Phases, RequestGoes, EndEntry,
         Revoke
<1>2. Quiet
  BY DEF IInv, TypeOK, TicketInv, Quiet, Preparing, Live, Early, Holding, Phases,
         RequestGoes, EndEntry, Revoke
<1> QED BY <1>1, <1>2, QuietKeeps

LEMMA DeliverKeeps == ASSUME IInv, NEW r \in Requests, Deliver(r) PROVE IInv'
<1>1. TypeOK'
  BY DEF IInv, TypeOK, Records, RequestStates, Refusals, Phases, TicketInv, Holding,
         RequestGoes, EndEntry, Deliver
<1>2. Quiet
  BY DEF IInv, TypeOK, TicketInv, Quiet, Preparing, Live, Early, Holding, Phases,
         RequestGoes, EndEntry, Deliver
<1> QED BY <1>1, <1>2, QuietKeeps

LEMMA AbandonKeeps == ASSUME IInv, NEW r \in Requests, Abandon(r) PROVE IInv'
<1>1. TypeOK'
  BY DEF IInv, TypeOK, Records, RequestStates, Refusals, Phases, Abandon
<1>2. Quiet
  BY DEF IInv, TypeOK, TicketInv, Quiet, Preparing, Live, Early, Holding, Phases, Abandon
<1> QED BY <1>1, <1>2, QuietKeeps

LEMMA ClaimTicketKeeps == ASSUME IInv, NEW t \in Requests, ClaimTicket(t) PROVE IInv'
<1>1. TypeOK'
  BY DEF IInv, TypeOK, Records, RequestStates, Refusals, Phases, ClaimTicket
<1>2. Quiet
  BY DEF IInv, TypeOK, TicketInv, Quiet, Preparing, Live, Early, Holding, Phases, ClaimTicket
<1> QED BY <1>1, <1>2, QuietKeeps

LEMMA EntryEndsKeeps == ASSUME IInv, NEW t \in Requests, EntryEnds(t) PROVE IInv'
<1>1. TypeOK'
  BY DEF IInv, TypeOK, Records, RequestStates, Refusals, Phases, EndEntry, EntryEnds
<1>2. Quiet
  BY DEF IInv, TypeOK, TicketInv, Quiet, Preparing, Live, Early, Holding, Phases, EndEntry,
         EntryEnds
<1> QED BY <1>1, <1>2, QuietKeeps

LEMMA EntryQuiescesKeeps == ASSUME IInv, NEW t \in Requests, EntryQuiesces(t) PROVE IInv'
<1>1. TypeOK'
  BY DEF IInv, TypeOK, Records, RequestStates, Refusals, Phases, EntryQuiesces
<1>2. Quiet
  BY DEF IInv, TypeOK, TicketInv, Quiet, Preparing, Live, Early, Holding, Phases,
         EntryQuiesces
<1> QED BY <1>1, <1>2, QuietKeeps

LEMMA RemoveKeeps == ASSUME IInv, NEW t \in Requests, Remove(t) PROVE IInv'
<1>1. TypeOK'
  BY KeyOfAssumption, ChargeAssumption DEF IInv, TypeOK, TicketInv, Records, RequestStates, Refusals, Phases, NoRecord,
         Holding, NotifyAll, Remove
<1>2. RecordInv'
  <2>1. /\ request' = request /\ entries' = entries \ {t} /\ t \in entries
        /\ KeyOf[t] \in Keys
        /\ idempotency' = [idempotency EXCEPT ![KeyOf[t]] = NoRecord]
    BY KeyOfAssumption DEF Remove
  <2>2. /\ ~idempotency'[KeyOf[t]].preparing /\ idempotency'[KeyOf[t]] = NoRecord
        /\ \A k \in Keys : k # KeyOf[t] => idempotency'[k] = idempotency[k]
    BY <2>1 DEF IInv, TypeOK, NoRecord
  <2>3. \A a \in Requests : Preparing(a)' <=> Preparing(a)
    BY <2>1 DEF Preparing
  <2>4. \A a \in Requests : Preparing(a) => KeyOf[a] # KeyOf[t]
    BY <2>1 DEF IInv, RecordInv, AttemptHoldsKey, EntryHoldsKey, Record
  <2>5. \A u \in entries : u # t => KeyOf[u] # KeyOf[t]
    BY <2>1 DEF IInv, RecordInv, EntryHoldsKey, Record
  <2>6. AttemptHoldsKey'
    BY <2>2, <2>3, <2>4, KeyOfAssumption DEF IInv, RecordInv, AttemptHoldsKey, Record
  <2>7. OneAttempt'
    BY <2>3 DEF IInv, RecordInv, OneAttempt
  <2>8. PreparingIsHeld'
    BY <2>2, <2>3 DEF IInv, RecordInv, PreparingIsHeld
  <2>9. EntryHoldsKey'
    BY <2>1, <2>2, <2>5, KeyOfAssumption DEF IInv, TypeOK, RecordInv, EntryHoldsKey, Record
  <2>10. PublishedIsHeld'
    BY <2>1, <2>2 DEF IInv, RecordInv, PublishedIsHeld
  <2> QED BY <2>6, <2>7, <2>8, <2>9, <2>10 DEF RecordInv
<1>3. LiveInv'
  BY KeyOfAssumption DEF IInv, TypeOK, RecordInv, AttemptHoldsKey, OneAttempt, PreparingIsHeld,
         EntryHoldsKey, PublishedIsHeld, LiveInv, Preparing, Record, HasRecord, NoRecord,
         Live, OneExecutionPerKey, Phases, Early, NotifyAll, Remove
<1>4. SleepersAreAwaited'
  BY DEF Remove, NotifyAll, SleepersAreAwaited
<1>5. TicketInv'
  BY KeyOfAssumption DEF IInv, TypeOK, RecordInv, AttemptHoldsKey, OneAttempt, PreparingIsHeld,
         EntryHoldsKey, PublishedIsHeld, TicketInv, Preparing, Record, HasRecord, NoRecord,
         Early, Holding, NotifyAll, Remove
<1>6. CaughtInv'
  BY KeyOfAssumption DEF IInv, TypeOK, RecordInv, AttemptHoldsKey, OneAttempt, PreparingIsHeld,
         EntryHoldsKey, PublishedIsHeld, TicketInv, CaughtInv, Preparing, Record, HasRecord,
         NoRecord, Early, Holding, NotifyAll, Remove
<1>7. CountInv'
  <2>1. Attempts' = Attempts
    BY DEF Remove, Attempts, Preparing
  <2>2. Cardinality(entries') = Cardinality(entries) - 1
    BY Counts, FS_RemoveElement DEF IInv, Remove
  <2> QED BY <2>1, <2>2, Counts, BoundAssumption DEF IInv, Remove, CountInv, ActiveTicketBound
<1> QED BY <1>1, <1>2, <1>3, <1>4, <1>5, <1>6, <1>7 DEF IInv

LEMMA DestroyKeeps == ASSUME IInv, NEW t \in Requests, Destroy(t) PROVE IInv'
<1>1. TypeOK'
  BY DEF IInv, TypeOK, Records, RequestStates, Refusals, Phases, ReleaseLease, Released,
         Destroy
<1>2. Quiet
  BY DEF IInv, TypeOK, TicketInv, Quiet, Preparing, Live, Early, Holding, Phases,
         ReleaseLease, Released, Destroy
<1> QED BY <1>1, <1>2, QuietKeeps

LEMMA CancelNotFoundKeeps == ASSUME IInv, NEW c \in Cancels, CancelNotFound(c) PROVE IInv'
<1>1. TypeOK'
  BY DEF IInv, TypeOK, Records, RequestStates, Refusals, Phases, CancelGoes, CancelNotFound
<1>2. Quiet
  BY DEF IInv, TypeOK, TicketInv, Quiet, Preparing, Live, Early, Holding, Phases, CancelGoes,
         CancelNotFound
<1> QED BY <1>1, <1>2, QuietKeeps

LEMMA CancelRequestedKeeps == ASSUME IInv, NEW c \in Cancels, CancelRequested(c) PROVE IInv'
<1>1. TypeOK'
  <2>1. KeyOf[c] \in Keys /\ idempotency[KeyOf[c]] \in Records
    BY KeyOfAssumption DEF IInv, TypeOK
  <2>2. [idempotency[KeyOf[c]] EXCEPT !.cancel_requested = TRUE] \in Records
    BY <2>1 DEF Records
  <2>3. idempotency' \in [Keys -> Records]
    BY <2>1, <2>2 DEF IInv, TypeOK, CancelRequested
  <2>4. target' \in [Cancels -> Requests \cup {NoTicket}]
    BY DEF IInv, TypeOK, CancelRequested
  <2>5. cancel' \in [Cancels -> {"new", "not_found", "cancelling", "joining", "quiesced", "gave_up"}]
    BY DEF IInv, TypeOK, CancelRequested, CancelGoes
  <2> QED BY <2>3, <2>4, <2>5 DEF IInv, TypeOK, CancelRequested
<1>2. RecordInv'
  <2>1. KeyOf[c] \in Keys /\ idempotency[KeyOf[c]] \in Records /\ idempotency[KeyOf[c]] # NoRecord
    BY KeyOfAssumption DEF IInv, TypeOK, CancelRequested, HasRecord, Record
  <2>2. /\ idempotency'[KeyOf[c]] = [idempotency[KeyOf[c]] EXCEPT !.cancel_requested = TRUE]
        /\ \A k \in Keys : k # KeyOf[c] => idempotency'[k] = idempotency[k]
    BY <2>1 DEF IInv, TypeOK, CancelRequested
  <2>3. \A k \in Keys :
          /\ idempotency'[k].ticket = idempotency[k].ticket /\ idempotency'[k].preparing = idempotency[k].preparing
          /\ idempotency'[k].fingerprint = idempotency[k].fingerprint
          /\ idempotency'[k] # NoRecord => idempotency[k] # NoRecord
    BY <2>1, <2>2 DEF Records
  <2>4. UNCHANGED <<request, entries>>
    BY DEF CancelRequested
  <2> QED BY <2>3, <2>4, KeyOfAssumption DEF IInv, TypeOK, RecordInv, AttemptHoldsKey, OneAttempt, PreparingIsHeld,
       EntryHoldsKey, PublishedIsHeld, Record, Preparing
<1>3. LiveInv'
  BY KeyOfAssumption DEF IInv, TypeOK, RecordInv, AttemptHoldsKey, OneAttempt, PreparingIsHeld,
         EntryHoldsKey, PublishedIsHeld, LiveInv, Preparing, Record, HasRecord, NoRecord,
         Live, OneExecutionPerKey, Phases, Early, CancelGoes, CancelRequested
<1>4. SleepersAreAwaited'
  BY KeyOfAssumption DEF IInv, TypeOK, RecordInv, AttemptHoldsKey, OneAttempt, PreparingIsHeld,
         EntryHoldsKey, PublishedIsHeld, SleepersAreAwaited, Preparing, Record, HasRecord,
         NoRecord, CancelGoes, CancelRequested
<1>5. TicketInv'
  BY KeyOfAssumption DEF IInv, TypeOK, RecordInv, AttemptHoldsKey, OneAttempt, PreparingIsHeld,
         EntryHoldsKey, PublishedIsHeld, TicketInv, Preparing, Record, HasRecord, NoRecord,
         Early, Holding, CancelGoes, CancelRequested
<1>6. CaughtInv'
  BY KeyOfAssumption DEF IInv, TypeOK, RecordInv, AttemptHoldsKey, OneAttempt, PreparingIsHeld,
         EntryHoldsKey, PublishedIsHeld, TicketInv, CaughtInv, Preparing, Record, HasRecord,
         NoRecord, Early, Holding, CancelGoes, CancelRequested
<1>7. CountInv'
  BY BoundAssumption DEF IInv, TypeOK, CountInv, Attempts, Preparing, ActiveTicketBound, CancelGoes,
         CancelRequested
<1> QED BY <1>1, <1>2, <1>3, <1>4, <1>5, <1>6, <1>7 DEF IInv

LEMMA CancelEntryKeeps == ASSUME IInv, NEW c \in Cancels, CancelEntry(c) PROVE IInv'
<1>1. TypeOK'
  BY DEF IInv, TypeOK, Records, RequestStates, Refusals, Phases, CancelGoes, EndEntry,
         CancelEntry
<1>2. Quiet
  BY DEF IInv, TypeOK, TicketInv, Quiet, Preparing, Live, Early, Holding, Phases, CancelGoes,
         EndEntry, CancelEntry
<1> QED BY <1>1, <1>2, QuietKeeps

LEMMA CancelJoinedKeeps == ASSUME IInv, NEW c \in Cancels, CancelJoined(c) PROVE IInv'
<1>1. TypeOK'
  BY DEF IInv, TypeOK, Records, RequestStates, Refusals, Phases, CancelGoes, CancelJoined
<1>2. Quiet
  BY DEF IInv, TypeOK, TicketInv, Quiet, Preparing, Live, Early, Holding, Phases, CancelGoes,
         CancelJoined
<1> QED BY <1>1, <1>2, QuietKeeps

LEMMA CancelGivesUpKeeps == ASSUME IInv, NEW c \in Cancels, CancelGivesUp(c) PROVE IInv'
<1>1. TypeOK'
  BY DEF IInv, TypeOK, Records, RequestStates, Refusals, Phases, CancelGoes, CancelGivesUp
<1>2. Quiet
  BY DEF IInv, TypeOK, TicketInv, Quiet, Preparing, Live, Early, Holding, Phases, CancelGoes,
         CancelGivesUp
<1> QED BY <1>1, <1>2, QuietKeeps

LEMMA StopKeeps == ASSUME IInv, Stop PROVE IInv'
<1>1. TypeOK'
  BY KeyOfAssumption, ChargeAssumption DEF IInv, TypeOK, TicketInv, Records, RequestStates, Refusals, Phases, NoRecord,
         Holding, NotifyAll, Stop
<1>2. RecordInv'
  BY KeyOfAssumption DEF IInv, TypeOK, RecordInv, AttemptHoldsKey, OneAttempt, PreparingIsHeld,
         EntryHoldsKey, PublishedIsHeld, Preparing, Record, HasRecord, NoRecord, Early,
         Records, NotifyAll, Stop
<1>3. LiveInv'
  BY KeyOfAssumption DEF IInv, TypeOK, RecordInv, AttemptHoldsKey, OneAttempt, PreparingIsHeld,
         EntryHoldsKey, PublishedIsHeld, LiveInv, Preparing, Record, HasRecord, NoRecord,
         Live, OneExecutionPerKey, Phases, Early, NotifyAll, Stop
<1>4. SleepersAreAwaited'
  BY DEF Stop, NotifyAll, SleepersAreAwaited
<1>5. TicketInv'
  BY KeyOfAssumption DEF IInv, TypeOK, RecordInv, AttemptHoldsKey, OneAttempt, PreparingIsHeld,
         EntryHoldsKey, PublishedIsHeld, TicketInv, Preparing, Record, HasRecord, NoRecord,
         Early, Holding, NotifyAll, Stop
<1>6. CaughtInv'
  BY KeyOfAssumption DEF IInv, TypeOK, RecordInv, AttemptHoldsKey, OneAttempt, PreparingIsHeld,
         EntryHoldsKey, PublishedIsHeld, TicketInv, CaughtInv, Preparing, Record, HasRecord,
         NoRecord, Early, Holding, NotifyAll, Stop
<1>7. CountInv'
  BY BoundAssumption DEF IInv, TypeOK, CountInv, Attempts, Preparing, ActiveTicketBound, NotifyAll, Stop
<1> QED BY <1>1, <1>2, <1>3, <1>4, <1>5, <1>6, <1>7 DEF IInv

LEMMA StopEntryKeeps == ASSUME IInv, NEW t \in Requests, StopEntry(t) PROVE IInv'
<1>1. TypeOK'
  BY DEF IInv, TypeOK, Records, RequestStates, Refusals, Phases, EndEntry, StopEntry
<1>2. Quiet
  BY DEF IInv, TypeOK, TicketInv, Quiet, Preparing, Live, Early, Holding, Phases, EndEntry,
         StopEntry
<1> QED BY <1>1, <1>2, QuietKeeps

-----------------------------------------------------------------------------
LEMMA InvInit == Init => IInv
<1> SUFFICES ASSUME Init PROVE IInv
  OBVIOUS
<1>1. TypeOK
  BY DEF Init, TypeOK, Records, NoRecord, RequestStates, Refusals, Phases
<1>2. RecordInv /\ LiveInv /\ SleepersAreAwaited /\ TicketInv /\ CaughtInv
  BY DEF Init, RecordInv, LiveInv, SleepersAreAwaited, TicketInv, CaughtInv, Preparing, Live,
         OneExecutionPerKey, NoRecord, Holding, Record, AttemptHoldsKey, OneAttempt, PreparingIsHeld, EntryHoldsKey, PublishedIsHeld
<1>3. Attempts = {}
  BY DEF Init, Attempts, Preparing
<1>4. CountInv
  BY <1>3, FS_EmptySet, BoundAssumption DEF Init, CountInv, ActiveTicketBound
<1> QED BY <1>1, <1>2, <1>4 DEF IInv

LEMMA InvNext == IInv /\ [Next]_vars => IInv'
<1> SUFFICES ASSUME IInv, [Next]_vars PROVE IInv'
  OBVIOUS
<1>1. ASSUME NEW r \in Requests, Request(r) PROVE IInv'
  BY <1>1, PrepareRefusedKeeps, PrepareReserveKeeps, PrepareWaitKeeps, WaitTimeoutKeeps, PrepareReplayKeeps,
     CheckReplayableKeeps, BuildKeeps, BuildFailsKeeps, PublishKeeps, DiscardKeeps, RevokeKeeps, DeliverKeeps,
     AbandonKeeps DEF Request
<1>2. ASSUME NEW t \in Requests, Entry(t) PROVE IInv'
  BY <1>2, ClaimTicketKeeps, EntryEndsKeeps, EntryQuiescesKeeps, RemoveKeeps, DestroyKeeps DEF Entry
<1>3. ASSUME NEW c \in Cancels, Cancel(c) PROVE IInv'
  BY <1>3, CancelNotFoundKeeps, CancelRequestedKeeps, CancelEntryKeeps, CancelJoinedKeeps, CancelGivesUpKeeps DEF Cancel
<1>4. CASE Stop
  BY <1>4, StopKeeps
<1>5. ASSUME NEW t \in Requests, StopEntry(t) PROVE IInv'
  BY <1>5, StopEntryKeeps
<1>6. CASE UNCHANGED vars
  BY <1>6 DEF vars, registryVars, stopVars, admissionVars, requestVars, entryVars, cancelVars, IInv, TypeOK,
     RecordInv, LiveInv, SleepersAreAwaited, TicketInv, CaughtInv, CountInv, Preparing, Live, OneExecutionPerKey,
     Record, Attempts, ActiveTicketBound, AttemptHoldsKey, OneAttempt, PreparingIsHeld, EntryHoldsKey, PublishedIsHeld
<1> QED BY <1>1, <1>2, <1>3, <1>4, <1>5, <1>6 DEF Next

LEMMA Invariant == Spec => []IInv
BY InvInit, InvNext, PTL DEF Spec

-----------------------------------------------------------------------------
(* The account of the admission controller. *)

\* An attempt holds the largest charge until its plan has been read, and nothing before it begins.
LeaseInv ==
  /\ \A r \in Requests :
       /\ request[r] = "new" => lease[r] = 0
       /\ request[r] = "building" => lease[r] = MaxCharge
  /\ IsFiniteSet(Leased) /\ AdmissionExact

Bytes(t, n) == {t} \X (1..n)

LEMMA BytesCount == ASSUME NEW t, NEW n \in Nat PROVE IsFiniteSet(Bytes(t, n)) /\ Cardinality(Bytes(t, n)) = n
<1> DEFINE f == [b \in 1..n |-> <<t, b>>]
<1>1. f \in Bijection(1..n, Bytes(t, n))
  <2>1. f \in [1..n -> Bytes(t, n)]
    BY DEF Bytes
  <2>2. \A a, b \in 1..n : f[a] = f[b] => a = b
    OBVIOUS
  <2>3. \A x \in Bytes(t, n) : \E b \in 1..n : f[b] = x
    BY DEF Bytes
  <2> HIDE DEF f
  <2>4. f \in Injection(1..n, Bytes(t, n))
    BY <2>1, <2>2 DEF Injection, IsInjective
  <2>5. f \in Surjection(1..n, Bytes(t, n))
    BY <2>1, <2>3 DEF Surjection
  <2> QED BY <2>4, <2>5 DEF Bijection
<1>2. IsFiniteSet(1..n) /\ Cardinality(1..n) = n
  BY FS_Interval
<1>3. ExistsBijection(1..n, Bytes(t, n))
  BY <1>1 DEF ExistsBijection
<1> QED BY <1>2, <1>3, FS_Bijection

\* No lease is larger than what is charged.
LEMMA LeaseIsCharged == ASSUME TypeOK, LeaseInv, NEW t \in Requests PROVE lease[t] <= current_bytes
<1>1. Bytes(t, lease[t]) \subseteq Leased
  BY DEF Bytes, Leased
<1>2. lease[t] \in Nat
  BY DEF TypeOK
<1> QED BY <1>1, <1>2, BytesCount, FS_Subset DEF LeaseInv, AdmissionExact

\* A lease that changes from one size to another changes the number of leased bytes by the difference.
LEMMA LeaseChanges ==
  ASSUME TypeOK, IsFiniteSet(Leased), NEW t \in Requests, NEW n \in Nat, lease' = [lease EXCEPT ![t] = n]
  PROVE  IsFiniteSet(Leased') /\ Cardinality(Leased') = Cardinality(Leased) - lease[t] + n
<1> DEFINE Rest == Leased \ Bytes(t, lease[t])
<1>1. /\ lease \in [Requests -> Nat] /\ lease[t] \in Nat
      /\ lease'[t] = n /\ \A u \in Requests \ {t} : lease'[u] = lease[u]
  BY DEF TypeOK
<1>2. \A x : x \in Leased <=> \E u \in Requests : x \in Bytes(u, lease[u])
  BY DEF Leased, Bytes
<1>3. \A x : x \in Leased' <=> \E u \in Requests : x \in Bytes(u, lease'[u])
  BY DEF Leased, Bytes
<1>4. \A u, m : \A x \in Bytes(u, m) : x[1] = u
  BY DEF Bytes
<1> HIDE DEF Bytes
<1>5. /\ Leased = Rest \cup Bytes(t, lease[t])
      /\ Leased' = Rest \cup Bytes(t, n)
  <2>1. Bytes(t, lease[t]) \subseteq Leased
    BY <1>2
  <2>2. Leased' \subseteq Rest \cup Bytes(t, n)
    <3> SUFFICES ASSUME NEW x \in Leased' PROVE x \in Rest \cup Bytes(t, n)
      OBVIOUS
    <3>1. PICK u \in Requests : x \in Bytes(u, lease'[u])
      BY <1>3
    <3>2. CASE u = t
      BY <1>1, <3>1, <3>2
    <3>3. CASE u # t
      <4>1. x \in Bytes(u, lease[u])
        BY <1>1, <3>1, <3>3
      <4>2. x \in Leased
        BY <1>2, <4>1
      <4>3. x \notin Bytes(t, lease[t])
        BY <1>4, <3>3, <4>1
      <4> QED BY <4>2, <4>3
    <3> QED BY <3>2, <3>3
  <2>3. Bytes(t, n) \subseteq Leased'
    BY <1>1, <1>3
  <2>4. Rest \subseteq Leased'
    <3> SUFFICES ASSUME NEW x \in Rest PROVE x \in Leased'
      OBVIOUS
    <3>1. PICK u \in Requests : x \in Bytes(u, lease[u])
      BY <1>2
    <3>2. u # t
      BY <3>1
    <3> QED BY <1>1, <1>3, <3>1, <3>2
  <2> QED BY <2>1, <2>2, <2>3, <2>4
<1>6. Rest \cap Bytes(t, lease[t]) = {} /\ Rest \cap Bytes(t, n) = {}
  <2>1. \A x \in Rest : x[1] # t
    <3> SUFFICES ASSUME NEW x \in Rest PROVE x[1] # t
      OBVIOUS
    <3>1. PICK u \in Requests : x \in Bytes(u, lease[u])
      BY <1>2
    <3> QED BY <1>4, <3>1
  <2> QED BY <1>4, <2>1
<1>7. IsFiniteSet(Rest)
  <2>1. Rest \in SUBSET Leased
    OBVIOUS
  <2> QED BY <2>1, FS_Subset
<1>8. /\ IsFiniteSet(Bytes(t, lease[t])) /\ Cardinality(Bytes(t, lease[t])) = lease[t]
      /\ IsFiniteSet(Bytes(t, n)) /\ Cardinality(Bytes(t, n)) = n
  BY <1>1, BytesCount
<1>9. Cardinality(Rest) \in Nat /\ Cardinality({}) = 0
  BY <1>7, FS_CardinalityType, FS_EmptySet
<1> HIDE DEF Rest
<1>10. Cardinality(Rest \cup Bytes(t, lease[t])) = Cardinality(Rest) + lease[t]
  <2>1. Cardinality(Rest \cup Bytes(t, lease[t])) = Cardinality(Rest) + lease[t] - Cardinality(Rest \cap Bytes(t, lease[t]))
    BY <1>7, <1>8, FS_Union
  <2>2. Cardinality(Rest \cap Bytes(t, lease[t])) = 0
    BY <1>6, <1>9, Zenon
  <2> QED BY <1>1, <1>9, <2>1, <2>2
<1>11. IsFiniteSet(Rest \cup Bytes(t, n)) /\ Cardinality(Rest \cup Bytes(t, n)) = Cardinality(Rest) + n
  <2>1. /\ IsFiniteSet(Rest \cup Bytes(t, n))
        /\ Cardinality(Rest \cup Bytes(t, n)) = Cardinality(Rest) + n - Cardinality(Rest \cap Bytes(t, n))
    BY <1>7, <1>8, FS_Union
  <2>2. Cardinality(Rest \cap Bytes(t, n)) = 0
    BY <1>6, <1>9, Zenon
  <2> QED BY <1>1, <1>9, <2>1, <2>2
<1> QED BY <1>1, <1>5, <1>9, <1>10, <1>11

\* ~lease gives back exactly what the lease holds.
LEMMA ReleaseKeeps ==
  ASSUME TypeOK, LeaseInv, NEW t \in Requests, ReleaseLease(t)
  PROVE  IsFiniteSet(Leased') /\ AdmissionExact'
<1>1. lease[t] \in Nat /\ current_bytes \in Nat /\ lease[t] <= current_bytes
  BY LeaseIsCharged DEF TypeOK
<1>2. current_bytes' = current_bytes - lease[t]
  BY <1>1 DEF ReleaseLease, Released
<1>3. IsFiniteSet(Leased') /\ Cardinality(Leased') = Cardinality(Leased) - lease[t] + 0
  BY LeaseChanges DEF LeaseInv, ReleaseLease
<1> QED BY <1>1, <1>2, <1>3, BoundAssumption DEF LeaseInv, AdmissionExact

LEMMA LeaseNext == IInv /\ LeaseInv /\ [Next]_vars => LeaseInv'
<1> SUFFICES ASSUME IInv, LeaseInv, [Next]_vars PROVE LeaseInv'
  OBVIOUS
<1> TypeOK
  BY DEF IInv
<1>1. ASSUME UNCHANGED <<current_bytes, lease>>,
             \A a \in Requests : request'[a] \in {"new", "building"} => request'[a] = request[a]
      PROVE  LeaseInv'
  BY <1>1 DEF LeaseInv, AdmissionExact, Leased
<1>2. ASSUME NEW r \in Requests, PrepareReserve(r) PROVE LeaseInv'
  <2>1. /\ request' = [request EXCEPT ![r] = "building"] /\ lease' = [lease EXCEPT ![r] = MaxCharge]
        /\ lease[r] = 0 /\ current_bytes' = current_bytes + MaxCharge /\ Fits(MaxCharge)
    BY <1>2 DEF PrepareReserve, RequestGoes, LeaseInv
  <2>2. IsFiniteSet(Leased') /\ Cardinality(Leased') = Cardinality(Leased) - lease[r] + MaxCharge
    BY <2>1, LeaseChanges, ChargeAssumption DEF LeaseInv
  <2>3. AdmissionExact'
    BY <2>1, <2>2, ChargeAssumption, BoundAssumption DEF LeaseInv, AdmissionExact, Fits, TypeOK
  <2> QED BY <2>1, <2>2, <2>3 DEF LeaseInv, TypeOK
<1>3. ASSUME NEW r \in Requests, Build(r) PROVE LeaseInv'
  <2>1. PICK bytes \in Charges : /\ current_bytes' = current_bytes - (lease[r] - bytes)
                                 /\ lease' = [lease EXCEPT ![r] = bytes]
    BY <1>3 DEF Build
  <2>2. /\ request[r] = "building" /\ request' = [request EXCEPT ![r] = "publishing"]
        /\ bytes \in Nat /\ MaxCharge \in Nat /\ bytes <= MaxCharge /\ lease[r] = MaxCharge
    BY <1>3, ChargeAssumption DEF Build, RequestGoes, LeaseInv
  <2>3. IsFiniteSet(Leased') /\ Cardinality(Leased') = Cardinality(Leased) - lease[r] + bytes
    BY <2>1, <2>2, LeaseChanges DEF LeaseInv
  <2>4. AdmissionExact'
    BY <2>1, <2>2, <2>3, BoundAssumption DEF LeaseInv, AdmissionExact, TypeOK
  <2> QED BY <2>1, <2>2, <2>3, <2>4 DEF LeaseInv, TypeOK
<1>4. ASSUME NEW r \in Requests, BuildFails(r) PROVE LeaseInv'
  <2>1. request' = [request EXCEPT ![r] = "failed"] /\ lease' = [lease EXCEPT ![r] = 0] /\ ReleaseLease(r)
    BY <1>4 DEF BuildFails, RequestGoes, ReleaseLease
  <2> QED BY <2>1, ReleaseKeeps DEF LeaseInv, TypeOK
<1>5. ASSUME NEW t \in Requests, Destroy(t) PROVE LeaseInv'
  <2>1. request' = request /\ lease' = [lease EXCEPT ![t] = 0] /\ ReleaseLease(t) /\ phase[t] # "none"
    BY <1>5 DEF Destroy, ReleaseLease
  <2>2. request[t] # "building"
    BY <2>1 DEF IInv, LiveInv
  <2> QED BY <2>1, <2>2, ReleaseKeeps DEF LeaseInv, TypeOK
<1>6. ASSUME NEW r \in Requests, Request(r), ~PrepareReserve(r), ~Build(r), ~BuildFails(r) PROVE LeaseInv'
  BY <1>1, <1>6 DEF TypeOK, Request, PrepareRefused, PrepareWait, WaitTimeout, PrepareReplay, CheckReplayable, Publish,
                    Discard, Revoke, Deliver, Abandon, RequestGoes
<1>7. ASSUME NEW t \in Requests, Entry(t), ~Destroy(t) PROVE LeaseInv'
  BY <1>1, <1>7 DEF Entry, ClaimTicket, EntryEnds, EntryQuiesces, Remove
<1>8. ASSUME NEW c \in Cancels, Cancel(c) PROVE LeaseInv'
  BY <1>1, <1>8 DEF Cancel, CancelNotFound, CancelRequested, CancelEntry, CancelJoined, CancelGivesUp
<1>9. CASE Stop \/ (\E t \in Requests : StopEntry(t)) \/ UNCHANGED vars
  BY <1>1, <1>9 DEF Stop, StopEntry, vars
<1> QED BY <1>2, <1>3, <1>4, <1>5, <1>6, <1>7, <1>8, <1>9 DEF Next

LEMMA LeaseInit == Init => LeaseInv
<1> SUFFICES ASSUME Init PROVE LeaseInv
  OBVIOUS
<1>1. Leased = {}
  BY DEF Init, Leased
<1> QED BY <1>1, FS_EmptySet, BoundAssumption DEF Init, LeaseInv, AdmissionExact

-----------------------------------------------------------------------------
\* Every reachable state of the registry has its type; in particular reserved_ and the
\* admitted bytes never go below zero.
THEOREM TypeCorrect == Spec => []TypeOK
<1>1. IInv => TypeOK
  BY DEF IInv
<1> QED BY <1>1, Invariant, PTL

\* Prepared, preparing and running executions never exceed max_active_tickets.
THEOREM TicketsBounded == Spec => []ActiveTicketBound
<1>1. IInv => ActiveTicketBound
  BY DEF IInv, CountInv
<1> QED BY <1>1, Invariant, PTL

\* One idempotency key never has two executions that are being built or not quiesced.
THEOREM KeysAreExclusive == Spec => []OneExecutionPerKey
<1>1. IInv => OneExecutionPerKey
  BY DEF IInv, LiveInv
<1> QED BY <1>1, Invariant, PTL

\* The key table and the ticket table agree: remove() erases the right record and no
\* retry is told that its state is invalid.
THEOREM TablesAgree == Spec => []KeyTableConsistent
<1>1. IInv => KeyTableConsistent
  BY DEF IInv, RecordInv, EntryHoldsKey, PublishedIsHeld, TicketInv, KeyTableConsistent, Record
<1> QED BY <1>1, Invariant, PTL

\* A retry only sleeps while an attempt that will notify it is under preparation.
THEOREM NoRetryForgotten == Spec => []SleepersAreAwaited
<1>1. IInv => SleepersAreAwaited
  BY DEF IInv
<1> QED BY <1>1, Invariant, PTL

\* GetFlightInfo returns only tickets of the same key and the same command bytes.
THEOREM TicketsAreForTheCommand == Spec => []TicketsMatchCommands
<1>1. IInv => TicketsMatchCommands
  BY DEF IInv, TicketInv, TicketsMatchCommands, Holding
<1> QED BY <1>1, Invariant, PTL

\* An execution cancelled by key during its preparation is never handed out.
THEOREM CancellationSticks == Spec => []CancelSticks
<1>1. IInv => CancelSticks
  BY DEF IInv, CaughtInv, CancelSticks, Holding
<1> QED BY <1>1, Invariant, PTL

\* The bytes charged to the admission controller are exactly the leases that are still held,
\* on every path of success, failure, cancellation and stop, and never exceed the capacity.
THEOREM ChargedIsLeased == Spec => []AdmissionExact
<1>1. LeaseInv => AdmissionExact
  BY DEF LeaseInv
<1> QED BY <1>1, Invariant, LeaseInit, LeaseNext, PTL DEF Spec
=============================================================================
