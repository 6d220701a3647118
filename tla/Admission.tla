----------------------------- MODULE Admission -----------------------------
(***************************************************************************)
(* The host memory that an execution is charged for before it starts:      *)
(* stream_execution_charge with its checked 64-bit arithmetic, for the     *)
(* requests that GetFlightInfo lets through.  prepare first acquires the   *)
(* charge for the largest number of stream inputs and, when the plan has   *)
(* been read, shrinks the lease to the number it has; TicketRegistry       *)
(* takes both from here.                                                   *)
(***************************************************************************)
EXTENDS Integers

CONSTANTS
  max_word,              \* the largest 64-bit integer
  alignment, transport_overhead, expanded_input_bytes, frame_header_bytes,
  max_stream_inputs, max_stream_input_batch_bytes, max_plan_bytes, max_schema_bytes,
  configured_batch_bytes \* config.max_batch_bytes

Sizes ==
  {alignment, transport_overhead, expanded_input_bytes, frame_header_bytes,
   max_stream_inputs, max_stream_input_batch_bytes, max_plan_bytes, max_schema_bytes, configured_batch_bytes}

\* Twice what an aligned sum can take up.
Twice(bytes) == 2 * (bytes + transport_overhead + alignment)
PerReadBound == Twice(max_stream_input_batch_bytes + frame_header_bytes) + expanded_input_bytes

\* The limits of protocol.hpp, stream_admission.cpp and config.cpp are so far below 2^64 that
\* the largest request fits: 16 inputs of 4 MiB, a batch of 1 GiB and a plan of 16 MiB.
ASSUME SizesAssumption == Sizes \subseteq Nat \ {0} /\ max_word \in Nat

ASSUME WordAssumption ==
  max_stream_inputs * PerReadBound + Twice(configured_batch_bytes) + Twice(max_plan_bytes + max_schema_bytes)
    <= max_word

-----------------------------------------------------------------------------
Overflow == -1   \* thrown: std::overflow_error, or std::invalid_argument for too many inputs

CheckedAdd(left, right) ==
  IF left = Overflow \/ right = Overflow THEN Overflow
  ELSE IF right > max_word - left THEN Overflow ELSE left + right

CheckedMultiply(left, right) ==
  IF left = Overflow \/ right = Overflow THEN Overflow
  ELSE IF left * right > max_word THEN Overflow ELSE left * right

Align(bytes) ==
  LET padded == CheckedAdd(bytes, alignment - 1) IN
  IF padded = Overflow THEN Overflow ELSE CheckedMultiply(padded \div alignment, alignment)

InputFrame(request) == Align(CheckedAdd(CheckedAdd(request.max_input_batch_bytes, frame_header_bytes), transport_overhead))
PerRead(request) == CheckedAdd(CheckedMultiply(2, InputFrame(request)), expanded_input_bytes)
Result(request) == CheckedMultiply(2, Align(CheckedAdd(request.max_batch_bytes, transport_overhead)))
RequestOverlap(request) ==
  CheckedMultiply(2, Align(CheckedAdd(CheckedAdd(request.plan, request.result_schema), transport_overhead)))

stream_execution_charge(request, stream_inputs) ==
  IF stream_inputs > max_stream_inputs THEN Overflow
  ELSE CheckedAdd(CheckedAdd(CheckedMultiply(stream_inputs, PerRead(request)), Result(request)), RequestOverlap(request))

\* What parse_execute_request and GetFlightInfo let through.
ValidRequests ==
  {request \in [max_batch_bytes : 1..configured_batch_bytes,
                max_input_batch_bytes : 1..max_stream_input_batch_bytes,
                plan : 0..max_plan_bytes, result_schema : 0..max_schema_bytes] :
     request.max_input_batch_bytes <= configured_batch_bytes}
=============================================================================
