# A TLA+ model of the MatrixOne Sirius sidecar

The sidecar is a C++ DuckDB extension that serves Arrow Flight: MatrixOne sends it a
Substrait plan, uploads the rows that only MatrixOne has, and reads back the result
that the Sirius GPU engine computed. Its own logic is the life of an execution, that is
tickets, idempotent retries, cancellation, deadlines, back-pressure on both streams,
and giving back everything that was acquired. It is small, multi-threaded and full of
critical sections that release a mutex in the middle, and that is what is modelled here,
together with the data that crosses its boundary: messages, frames and native batches,
and the charge for memory; and with the process around it, which a lost GPU ends and a script starts again.

Everything below refers to `src/mo-sidecar/`, except `docker/entrypoint.sh`. `PROJECT.json` maps every definition to the
lines it translates.

## 1. Inventory

| component | state it keeps | operations | hard part | what makes it correct |
|---|---|---|---|---|
| `stream_input` (stream_input.cpp) | one-batch slot, acknowledged count, attached/detached, producer and consumer end, not-needed, cancelled | attach, publish, finish_upload, detach (DoPut side); next_batch, mark_consumed (scan side); mark_not_needed, cancel (execution side) | three threads around one condition variable; two polling waits and one untimed wait; an exception unwinds the handler before it reports the failure | exactly-once delivery in order; an acknowledgement is earned; the end of data is real; waiting handlers are released |
| `stream_input_registry` | inputs by reference, number of active handlers | create, find, cancel_all, mark_all_not_needed, handler counter | the counter is bumped after `attach` has succeeded | inputs are settled before nobody is left to do it |
| `mo_stream_scan` | batch in hand, offset | pulls `next_batch`, emits chunks | consumes on the call *after* the last chunk | a batch counts only once all rows were emitted |
| `execution_entry` (flight_runtime.cpp) | claimed, terminal and its status, one frame slot, sequence, quiesced, notified, worker thread | claim, start, read_next, publish, finish, cancel, fail_gpu_unavailable, cancel_and_join, attach/detach/fail_input | up to six kinds of threads; `cancel` releases the mutex three times; the last one out has to be found | one terminal state; a success is complete; quiesced means stopped; the registry forgets only what is dead |
| `native_result_stream` | the entry, closed flag | Next, Close | Close is also what a vanished client looks like | as above |
| `ticket_registry` | entries by ticket, idempotency records, reserved count, stopped, GPU health | prepare, claim, lookup, cancel by ticket or key, seal, stop, reap, remove, shutdown | an entry is built outside the mutex between its reservation and its publication | ticket bound, one execution per key, retries woken, cancellations not lost, a stop misses nobody |
| `stream_admission_controller` | bytes charged | stream_execution_charge, try_acquire, shrink, release | lease life across failure paths; sums of products of 64-bit sizes | charged bytes are exactly the living leases; the charge of a valid request fits a word and can shrink |
| TAE read resolver (tae_read_resolver.cpp) | manifest file, view, resolution token per read | resolve TaeRead and StreamRead, destroy tokens | nearly every step throws with earlier reads resolved; destruction order | only authenticated reads; nothing leaks |
| wire protocol (protocol.cpp) | none | strict protobuf readers, MOB1 frames, serializers, digests | order, repetition and absence of fields; widths | accepts exactly what it documents |
| native result encoder (native_result.cpp) | none | encoded_size, encode, splitting in consume_batch | a second computation predicts the size of the first; null bitmaps; texts beneath nulls; halving | every row once and in order; never above the limit; fails only if one row alone is too large |
| MO native batch decoder (stream_input.cpp) | none | cursor, parse_column, native_batch_view, fill_column | offsets and lengths that the client chose; constant vectors | reads back what was sent; no read outside the payload |
| Flight runtime (flight_runtime.cpp) | server and its thread, registry, started, fatal flag and fatal thread | start, stop, begin_fatal_shutdown, destructors | a stop, a failed start and a worker that loses the GPU meet in any order | nothing runs on what is destroyed; a lost GPU is final; every stop ends |
| DuckDB extension entry points (mo_sidecar_extension.cpp) | the runtime's owner | load, close | stop runs twice, and once after a failed start | as above |
| container entrypoint (docker/entrypoint.sh) | the two children, a generation | start of the pair, wait for the first exit, cleanup, exec of the next generation | either child may end first, with any status, also with 70 | no process survives a restart; a lost GPU does restart |
| configuration, build files, benchmarks | none | | | |

Interactions: `GetFlightInfo` calls `prepare`, which constructs an `execution_entry`, whose
constructor resolves the reads of the plan. `DoGet` claims the entry and starts its
worker; the worker runs the engine, which pulls `mo_stream_scan` and pushes result batches
into `publish`. `DoPut` feeds one `stream_input`. `CancelExecution`, the reaper, a lost
GPU and a shutdown end the entry from outside. Whoever finds that it is the last one out
calls back into the registry, which forgets the ticket and its key. A worker that loses the GPU
seals the registry and starts the thread that shuts the server down and leaves the process with status 70; the
entrypoint then ends MatrixOne and starts both again. The owner of the runtime, the thread that closes the
database, may be stopping it at the same time.

`PROJECT.json` lists the hazards at their lines: what could go wrong here that a unit test
would hardly reach. Each property below is aimed at one or more of them.

## 2. Modules

| module | models | size of a step |
|---|---|---|
| `InputDelivery` | abstract contract of one input: offered, accepted, one verdict | |
| `StreamInput` | `stream_input`, its DoPut handlers, the scan, the end of the worker, a cancellation | one critical section of the input's mutex |
| `Lifecycle` | abstract life of an execution: prepared, running, one terminal state | |
| `ExecutionEntry` | `execution_entry` after publication with all its threads | one critical section of the entry's or the registry's mutex |
| `TicketRegistry` | `ticket_registry` with the admission controller; an entry is reduced to a phase | one critical section of the registry's mutex |
| `ReadResolver` | the resolver inside the entry's constructor, the tokens and the destructor | one fallible call |
| `Admission` | `stream_execution_charge` with its checked arithmetic, and the sizes a valid request may have | operators |
| `WireMessages` | the field loops of the six strict message readers | one field |
| `NativeBatch` | the native batch format: encoder, size estimate, MOB1 frame, decoder | operators |
| `ResultStream` | `consume_batch`, which splits a result batch into frames; uploads, whole or damaged | one estimate, one frame |
| `Runtime` | `flight_runtime`, the server, reaper, worker and fatal threads, the owner and the destructors | one critical section, join or call of the server |
| `Supervisor` | `docker/entrypoint.sh` around the process of `Runtime` | one wait of the script |
| `StreamInputProofs`, `ExecutionEntryProofs`, `TicketRegistryProofs`, `ReadResolverProofs`, `AdmissionProofs`, `WireMessagesProofs`, `ResultStreamProofs`, `SupervisorProofs` | inductive invariants, lemmas and theorems about the module they are named after (`SupervisorProofs` also about `Runtime`, `ResultStreamProofs` also about `NativeBatch`) | |
| `MC*` | instances for TLC | |

How to read them:

- **Waits.** A wait that polls every 100 ms (stream_input::publish, finish_upload, read_next) is just
  the guard of the step after it, plus the step in which the caller gives up. The three waits that do not
  poll (`next_batch`, `execution_entry::publish` and, up to its deadline, a retry in
  `prepare`) have an explicit `asleep` flag that only a notification clears: a forgotten
  `notify_all` therefore shows as a lost wake-up.
- **Nested critical sections.** `cancel` and `fail_gpu_unavailable` are entered by every kind of
  thread and release the mutex between setting the terminal state, interrupting the engine,
  quiescing an unstarted entry and notifying. `ExecutionEntry!call[t]` says where thread `t` is.
- **The engine** is external: it may deliver a batch, read an input to its end, return, throw or report a
  lost GPU at any time, and after an interruption it does end.
- **Clients** are arbitrary: any sequence number, no reading, no ending, going away. A frame that does not
  parse is one kind of input in `StreamInput`; what makes it parse is in `NativeBatch`.
- **Cells.** `NativeBatch` scales bytes down to cells of one integer each (a length, a type, a date, a word of the
  null bitmap, a character), and sizes count cells in the encoder, the estimate and the decoder alike: the
  relations between them are the code's, the numbers are not. A date stands for the types of fixed width whose
  conversion can fail. The GPU packs only batches of fixed width without nulls, so only these have a `gpu` choice,
  which changes the estimate. `MaxUpload` limits uploads only; results obey the negotiated limit.
- **The owner** in `Runtime` is a pair: the function it is in and the next step in it. `stop` runs twice when the
  database closes (`~runtime_owner`, then `~flight_runtime`), once when `start` has thrown; `stops` counts what is left.
- **Tickets and names** are random in the code and distinct in the models.
- `X_Suffix` next to a definition `X` is a variant of it with a plausible defect; it is not used by
  the specification. Each property is violated when one of these replaces its original.

Boundaries between the modules: `StreamInput` sees the entry as "the worker ends" and "a
cancellation comes"; `ExecutionEntry` sees an input as its verdict (open, drained, not
needed, cancelled), that is the `verdict` of `InputDelivery`; `TicketRegistry` sees an
entry as a phase (none, open, claimed, terminal, quiesced, destroyed); `ReadResolver` is the
`Build` step of `TicketRegistry` and the end of its `Destroy`. `TicketRegistry` takes its two charges from
`Admission` (`ScaledAssumption` of `MCTicketRegistry`: the largest charge is for all inputs, the final one for the inputs the plan has).
`Runtime` sees an execution as its Flight call, its worker thread and its terminal flag, and the registry as its table and its two flags;
it leaves retries, charges and the inside of `cancel` to the modules above. `ResultStream` is the inside
of one `publish` of `ExecutionEntry`, and its `Upload` the inside of one frame of `StreamInput`.
`Supervisor` extends `Runtime`: it is the composition of the process and the script.

## 3. Model checking

| run | instance | shows |
|---|---|---|
| `stream_input` | two uploads, three batches, two chunks each | `InOrderExactlyOnce`, `AckedFullyEmitted`, `CompleteAckDrained`, `CleanEof`, refinement of `InputDelivery` (`DeliverySpec`), and `HandlerReleased`: a waiting handler is released by a query that runs on, and otherwise by the deadline |
| `entry_cancel` | one DoGet, one CancelExecution, one upload, reaper, two frames | `QuiescedMeansStopped`, `ResultComplete`, `InputsSettled`, `RemovedOnlyStopped`, `QuiescedAnswer`, refinement of `Lifecycle` (`LifecycleSpec`) |
| `entry_stop` | one DoGet, two CancelExecutions, reaper, one stop or GPU seal, one frame | `LifecycleSpec` where a second authority ends the entry, `QuiescedAnswer` for each of two cancellers of one thread |
| `entry_quiesced` | one DoGet, one CancelExecution | **violated**: `QuiescedReleased` |
| `entry_liveness` | one DoGet, one upload, reaper, one frame, fairness | `DeadlineQuiesces`, `QuiescedRemoved` |
| `registry` | four requests (original, identical retry, same key with other bytes, other key), one cancel by key, one ticket, capacity for one largest and one final charge | `ActiveTicketBound`, `AdmissionExact`, `KeyTableConsistent`, `SleepersAreAwaited`, `TicketsMatchCommands`, `CancelSticks` |
| `registry_stop` | three requests, one client that may go away, two tickets, fairness | `OneExecutionPerKey`, `StopDrains` |
| `registry_retry` | original and retry, the original's client may go away | **violated**: `RetryKeepsTicket` |
| `boundary` | six message kinds with all known field numbers, 0, one beyond and one alias modulo 16; result batches of up to three rows of a date and a text, or of none to five dates, four limits; a plan of two TaeReads and one StreamRead, every combination of request and answer faults | `NothingMissingOrRepeated`; `RowsReadBack`, `LimitRespected`, `DecoderSafe`; `OnlyAuthenticated`, `ReadyIsBacked`, `NothingLeaks` |
| `wire_cancel` | cancel messages | **violated**: `CancelNamesOne` |
| `runtime` | two executions, one restart, fairness | `ShutdownIsAlone`, `SealedForGood`, `NoSurvivors`, `LostGpuRestarts`, `StopEnds` |
| `runtime_lifetime` | one execution | **violated**: `RuntimeOutlivesEntries` |

The runs `stream_input`, `entry_cancel`, `registry` and `runtime` also check the type invariant of their module.

The bounds and why they are enough:

- *Uploads.* The second upload can only be refused by `attach`; a third adds nothing. Three batches are the least for
  one to be acknowledged, one in the slot and one refused out of order; two chunks make a batch
  that is emitted but not finished. `MaxBatches` only bounds how long the client goes on.
- *Entry.* Two frames are the least with one taken and one in the slot. All threads of one entry are
  symmetric within their kind. Two cancellers, who join the same thread, are in `entry_stop`. A join, which holds `worker_mutex_` until
  the thread has ended, is one step at its end: the second canceller waits for the mutex as long as the first for the thread, and then finds nothing to join. The entry has one input; more
  inputs settle in the same two loops. An upload and a stop are in separate
  runs, because with a cancel they exceed together what can be enumerated in minutes; whoever ends the
  entry enters it through the same first critical section (`EnterCancel`), and the theorems have any number of each.
- *Registry.* One ticket makes every bound bite. With the sizes of the configuration the largest charge is 21
  and the final one 12; a capacity of 33 lets a second execution in only after the first has shrunk its lease.
- *Wire.* `FieldModulus` stands for 2^32. It only has to exceed every known number. The messages, the batches and the plan are three families of
  behaviours of one instance (`MCInit`) and share no state.
- *Batches.* A varlena of three cells holds texts of up to two characters inline, so the three texts are empty, full and
  in the area, and a fourth lies beneath a null. A bitmap word of two bits makes three rows need two words and five dates three.
  The limits reach from below a single row to above every whole batch, so every depth of halving occurs. Every cell of an
  upload of at most two rows is damaged with every value that is a tag, a count, a
  marker or an offset of the instance, and the payload is cut at every cell. The run shows `DecoderSafe` for one damage at a
  time; the theorem `AcceptedIsReadInside` behind it is about any payload.
- *Runtime.* Two executions are the least for one to lose the GPU while the other is being built, claimed, read or
  finished; a second loss finds the flag set. One restart shows that nothing survives; a later one starts from the same fresh state.

`CHECK_DEADLOCK FALSE` everywhere: each instance has finitely many calls and ends when they have been
answered. That nobody stays behind is what the liveness properties say.

### Fairness

`StreamInput`: the two polling waits end when their condition holds (they wake every 100 ms),
and a scan that is awake in `next_batch` returns from it. That the query pulls its scan and reaches `finish` is not assumed: its worker may
wait without a timeout in `execution_entry::publish` until the DoGet client reads a frame (flight_runtime.cpp:297, 303). `HandlerReleased` therefore has two parts, each
with its premise in the formula. If the query runs on (`QueryRunsOn`, that is if its result is read), no cancellation is needed. If the execution
expires (`ExecutionExpires`, the reaper at its deadline), an upload is released and a sleeping scan woken, whatever the query does.

`ExecutionEntry`: server threads outside a client's or the engine's hands run on; the reaper's timer fires; an engine that was
interrupted returns. Nothing is assumed of clients: `Send`, the end of an upload, claims and
cancels may never happen. `QuiescedRemoved` holds only if no upload stalls for ever, and says so in its
formula: a DoPut handler inside `reader->Next()` cannot be interrupted by the server, and the entry
stays registered (quiesced) until that client goes away.

`TicketRegistry`: a handler that is building or publishing goes on, a stop works through what it
collected, and an ended entry quiesces, which is `DeadlineQuiesces` one level down.

`Supervisor`: the threads of a living process run on, a construction ends, an engine whose execution has been ended
returns, and a Flight call ends when its execution has ended or, at the latest, when the server cancels it at the deadline of
`Shutdown` (all shutdowns in the code have one). The script runs on; its SIGINT ends MatrixOne and closes the database.
Clients, a loss of the GPU, an exit of MatrixOne by itself and a failing `start` are never assumed. `LostGpuRestarts` asks for the next generation
itself; it is excused only by a database that closes, or a MatrixOne that ends while the script still watches the pair, not by the one the script has interrupted.

## 4. Proofs

All theorems are for every value of the constants, under the `ASSUME`s of the modules: finitely many requests and inputs
of a plan, keys of requests and cancels among the keys, natural limits, actual charges not above the preliminary one, at
least one batch, one chunk and one generation, disjoint reads, sizes whose largest sum fits a word, the six message kinds, and
result batches whose columns have their types and equal lengths, and a marker of long texts that is no length of an inline one. TLC evaluates each of them on the instances.

`StreamInputProofs`: `TypeCorrect`, `DeliveredInOrder`, `AcksAreEarned`, `CompleteMeansDrained`, `EofIsClean`, and
`ImplementsDelivery` (safety part of the refinement). None of the properties is inductive: they speak of what was emitted,
while the code decides by its slot and counters. The invariant connects the two: at most one
upload owns the input (`OwnerInv`), an open slot holds the batch after the acknowledged ones (`SlotInv`),
the scan holds exactly that batch and `emitted` agrees with its offset (`EmitInv`), an
end is only declared with an empty slot (`EofInv`), and answers never run ahead of the
counter (`AckInv`).

`ExecutionEntryProofs`: `TypeCorrect`, `QuiescedStays`, `SuccessIsComplete`, `NoInputLeftOpen`, `ForgottenIsStopped`, `QuiescedIsTrue`,
and `ImplementsLifecycle` (the refinement of `Lifecycle`), for any number of DoGet, CancelExecution and DoPut calls, stops and seals. The
code keeps no record of who is inside `cancel`, yet every thread may be, with the mutex released. `CallInv` therefore says for
all threads at once what one between two critical sections may rely on (an unstarted entry that is being quiesced is terminal and never gets
a worker; who is about to remove the entry has found it quiesced). `FlagInv` orders the flags: terminal, quiesced, then
notified or forgotten. `FrameInv` is the heart of `SuccessIsComplete`: the slot is full only while
the worker waits for it, so a worker that finishes has nothing left to be taken. `SettleInv` says that
whoever quiesced the entry has settled its inputs or still has to, `ClaimInv` that one DoGet owns the entry, and `CountInv` that
`active_handlers_` is the number of handlers it stands for, hence never below zero. Steps fall into those that cannot end the entry and those that enter `cancel`;
each class has one lemma per part.

`TicketRegistryProofs`: `TypeCorrect`, `TicketsBounded`, `KeysAreExclusive`, `TablesAgree`, `NoRetryForgotten`,
`TicketsAreForTheCommand`, `CancellationSticks`, `ChargedIsLeased`. The difficulty is the time between the reservation and
the publication, when the attempt is in no table. `RecordInv` says who holds a key (the one attempt
under preparation, then its entry), `CountInv` that `reserved_` counts the attempts, `LiveInv`
that an execution which is alive is under preparation, in the table, or left over from a stop,
`TicketInv` and `CaughtInv` what callers that already found a ticket may hold. `LeaseInv` counts the charged bytes as a set of
pairs of a lease and one of its bytes, so that a lease is added, shrunk or given back by the cardinality theorems instead of by a sum. Sixteen of the twenty-five
actions touch none of this (`Quiet`) and are dealt with by one lemma; the others have one step per part.

`ReadResolverProofs`: `ReadyIsAuthenticated`, `ReadyHasItsReads`, `EverythingReturned`. The invariant
ties each read's file, view, input and token to the step at which the resolver is.

`AdmissionProofs`: `ChargeNeverOverflows` (for every request that validation lets through and every number of inputs
up to the limit, `stream_execution_charge` is a number, never `std::overflow_error`) and `LeaseCanShrink` (the charge for the inputs of the
plan is never above the one acquired before the plan was read, so `shrink` cannot fail). The only
assumption about the numbers is `WordAssumption`, which the limits of protocol.hpp, stream_admission.cpp and
config.cpp satisfy for 2^64 with much room: 16 inputs of 4 MiB, a batch of at most 1 GiB, a plan of 16 MiB.
The argument: rounding up adds less than one alignment, so each of the three parts is below its bound; the product with
the number of inputs is monotone; hence no checked operation overflows and the charge is the exact sum.

`WireMessagesProofs`: `AcceptedIsStrict`, for every set of field numbers a client may send and every modulus. The readers keep no count;
all they look at is whether a value is already there. `PresenceInv` and `OnceInv` say that this counts: a field is present exactly
if one of its numbers came, and apart from a schema's columns it came once and under no other number that is the same modulo 2^32.
`ColumnsInv` bounds the columns, which may come under several numbers. A cancel is accepted with exactly one of its two fields; that this identity may
be empty is the finding of `wire_cancel`.

`ResultStreamProofs`: the codec for batches and payloads of every size.
- `AcceptedIsReadInside` and, for the uploads of the model, `UploadsAreReadInside`: what `native_batch_view` accepts, `fill_column` reads within the data
  and the area of its column, whatever the payload holds. Each item of the cursor ends inside the payload, so the parts of a column do;
  the checks of `parse_column` bound every row by its part.
- `NoPrefixAccepted`: the cursor goes the same way in a payload and in a prefix of it, and must end at the end of both.
- `EstimateSuffices`: `encoded_size` is at least the length of what `encode` makes. Both are sums over columns, these
  over rows; they are compared column by column, where the estimate's area counts the texts that are null and the encoder's does not.
- `LimitIsKept`: with the estimate, the check after encoding cannot fail, and halving ends at one row, whose estimate is what
  `RowNeeds` says.
- `RowsAreSentOnce`: the frames are the batch cut at rising positions from 0 to the current offset (`SentInOrder`), and in order.
- `NullsReadBack`: a word of the bitmap is a sum of `BitValue`s, at most one for each bit. Splitting the sum at bit b leaves less than
  `BitValue[b]` below it and a multiple of twice that above it, so dividing and taking the parity gives the bit back; the words are enough for the rows.
- `EncodedReadsBack` and `ConstantBatchReadsBack`: the decoder accepts what the encoder (or MatrixOne, with constants and attribute names) made and reads
  the same rows. `Holds` says that a sequence stands in another at a place, `ItemsRead` that a cursor put at the first of some
  sized items takes them one after the other; so the vectors, and in each the data, the area and the bitmap, are found as they were written (`VectorViewed`).
  A long text stands in the area where the long texts before it end, which is what its varlena says (`TextReads`).
- `EveryRowReadsBack`: `RowsReadBack` for every batch, limit and split. The columns of the frames are concatenated; the sum of the sizes of the frames up to
  one is its cut, so each row lies in one frame at the place it had in the batch. For the uploads the
  invariant `UploadMade` says what became of the original frame: it is whole, of the same length, or a proper prefix that `NoPrefixAccepted` refuses.

The proof of `RowsReadBack` needs that the marker of a long text is no length of an inline one: with a varlena of more than `BigMarker` cells
a long text would be read as an inline text of `BigMarker` characters. `CodecAssumption` says so. Of the code, `parse_column` and `fill_column` rely on it: they ask
`is_inline` of a descriptor into which the encoder has put `VARLENA_BIG_MARKER`, both of them from the (external) TAE library.
A whole upload is accepted unless its payload is larger than uploads may be; a result frame has its own, negotiated, limit.

The library's induction theorems take a predicate, which the provers cannot instantiate. Here an induction is about a *set* of naturals: one that is not empty has a
least element (`LeastNumber`, from the well-foundedness of <), hence a set with 0 and all successors holds every natural
(`CountingUp`). With it the recursive functions `AfterItems`, `Sums`, `BitValue` and the concatenation of a sequence of sequences are shown to exist, and then to compute what the proofs need.

`SupervisorProofs`: `TypeCorrect`, `OwnerIsAlone`, `LossIsFinal`, `RestartIsClean`, for any number of executions and generations. `ServerInv` says that
a server whose thread has been joined is drained and that a drained server has no call; `OwnerInv` what each function of the owner has behind it, in particular
that at the join the table holds nothing that was not collected, although workers go on leaving; `WorkerInv` that a worker is in the table until it leaves, and so is an entry a DoGet is about
to claim unless it has been ended; `SealInv` that a seal misses no entry, also none that was under construction, because publication looks at the flag under the same mutex.

That the tokens of the resolver go before the connection they use is a rule of C++ about the order of members; it is written into `ReadResolver` (`TokensGone`), not shown.

Each inductive invariant was first checked by TLC on the instances above.

Only model-checked are the liveness properties (`HandlerReleased`, `DeadlineQuiesces`, `QuiescedRemoved`, `StopDrains`, `LostGpuRestarts`, `StopEnds`),
which need fairness and `ENABLED` and are out of the prover's reach. Every invariant that a passing run checks is also proved.

## 5. Where the code and its documentation disagree

1. *A retry can lose its ticket* (`registry_retry`). `README.md:39`: "An identical in-flight retry waits for and
   reuses the original unclaimed ticket". After `prepare`, `GetFlightInfo` cancels the entry if its
   client has gone (flight_runtime.cpp:891-893). If a retry has been given the same entry meanwhile, its ticket
   is dead on arrival, and this is the very situation a client retries in.
2. *A worker outlives the registry* (`runtime_lifetime`). The comment at flight_runtime.cpp:1147-1148 says the registry can now
   "cancel and join every execution worker it owns". `shutdown` joins the workers whose entries are still in the
   table (736-742). A worker removes its entry (768-776) and only then ends: nobody joins it, and the entry that it still holds gives its admission
   lease back to the registry's controller (390) when it goes. If the owner is faster, that controller is gone.
   That the owner is another thread than the worker is how DuckDB is used here: the thread that closes the database destroys the extension's state.
   The window is a few instructions wide, but everything else in the shutdown is ordered by a join (`ShutdownIsAlone`).
3. *Quiesced is answered before the resolutions are released* (`entry_quiesced`). `README.md:68`: "A `quiesced` result is returned only
   after the worker has stopped and released its query-local TAE resolutions". The resolutions are tokens of the entry's
   `execution_` (398-403) and go with the last reference to the entry. In the run the execution was started, its worker has ended,
   `cancel_and_join` (259-281) has answered, and the DoGet stream (`native_result_stream`) still holds the entry, for as long as its client takes to read.
4. *An empty cancel identity is accepted* (`wire_cancel`). `sidecar.proto:58`: "Exactly one identity is required"; `README.md:65-66`: "either the 32-byte ticket or
   the 32-byte preparation idempotency key"; the exception of the reader: "exactly one 32-byte identity". `parse_cancel_request` (protocol.cpp:428) tests that one of the two fields came, and its size only if
   it is not empty. The caller of such a cancel is answered `not-found`.

Seen while modelling, without a run:

- Field numbers are compared modulo 2^32 (protocol.cpp:128, 151): field 2^32 + k is taken for field k. It still cannot repeat
  field k, which `NothingMissingOrRepeated` shows.
- A stop that meets a fatal shutdown can end in `std::terminate`, because nobody joins `fatal_thread`, instead of with status 70
  (`Destroy`). The pair then ends as if the sidecar had crashed and is not restarted by the script.
- `encoded_size` counts a long text beneath a null, which `encode` leaves out. The estimate is only ever too large, so
  a row of this kind can be refused that would fit; `LimitRespected` allows for it.
- The decoder subtracts the epoch from a date without a check where the encoder checks its addition. A
  date far below the epoch is MatrixOne's to avoid.

## 6. Not modelled

Some steps are coarser than the code where nothing between them can tell: the test of `terminal_` before a reader's cancel and the cancel, which is idempotent (`ReadCancelled`);
giving back the lease, the ticket and the key of a failed construction (`BuildFails`); in `Runtime`, where uploads do not occur, the end of an unstarted
entry and its removal (`EndEntries`) and the whole of a reap. The decoder's limit of 2^32 bits on a null bitmap is left out, so the model accepts more; so is a failing
allocation between the release of a manifest to its token and the token's creation.

The Sirius engine, DuckDB, Arrow Flight, the MatrixOne process and its read service are external and appear as
nondeterministic choices. Digests, TLS and certificates are data or I/O. Configuration parsing keeps no
state; its limits are assumptions of `Admission`. Of the wire protocol the bytes of a varint and the small serializers are left out, of the result
encoder the GPU packer (numeric kernel code in another library) and the comparison of the result's schema with the
promised one, of `GetFlightInfo` the comparison of versions and digests and the clamping of the deadline, which is a clock
and shows in the models as the moment at which the reaper acts. The script's preparation of directories and its delay before a restart
change no state that is modelled. `PROJECT.json` gives the status of each component.

## 7. Plan

Every safety property of the runs is proved. What is left is to join the models: a composition of `TicketRegistry` with the abstract `Lifecycle` per entry
in place of its phases, and of `ExecutionEntry` with `InputDelivery` per input.
