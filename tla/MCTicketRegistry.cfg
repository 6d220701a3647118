SPECIFICATION Spec
CONSTANTS
  Requests = {"r1", "r2", "r3", "r4"}
  Impatient = {}
  Cancels = {"c1"}
  Keys = {"k1", "k2"}
  KeyOf <- RequestKeys
  FingerprintOf <- Commands
  max_active_tickets = 1
  capacity_bytes = 33
  MaxCharge = 21
  Charges = {12}
  max_word = 63
  alignment = 2
  transport_overhead = 1
  expanded_input_bytes = 1
  frame_header_bytes = 1
  max_stream_inputs = 1
  max_stream_input_batch_bytes = 1
  max_plan_bytes = 1
  max_schema_bytes = 1
  configured_batch_bytes = 1
INVARIANTS
  TypeOK
  ActiveTicketBound
  AdmissionExact
  KeyTableConsistent
  SleepersAreAwaited
  TicketsMatchCommands
  CancelSticks
CHECK_DEADLOCK FALSE
