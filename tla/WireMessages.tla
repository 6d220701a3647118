---------------------------- MODULE WireMessages ----------------------------
(***************************************************************************)
(* The strict protobuf readers of protocol.cpp: parse_execute_request,     *)
(* parse_upload_input_request, parse_cancel_request,                       *)
(* parse_resolve_response and parse_native_result_schema with its columns. *)
(* One step reads one field: its tag, which the reader judges by what it   *)
(* has seen so far, and its value.  Values are told apart as far as the    *)
(* readers tell them apart.                                                *)
(***************************************************************************)
EXTENDS Naturals, FiniteSets

CONSTANTS
  Kinds,          \* the messages that are read
  FieldModulus,   \* static_cast<unsigned>: 2^32
  Numbers,        \* the field numbers that occur on the wire
  max_columns     \* k_max_native_result_columns

ASSUME ModulusAssumption == FieldModulus \in Nat \ {0} /\ Numbers \subseteq Nat
ASSUME KindsAssumption == Kinds \subseteq {"execute", "upload", "cancel", "resolve", "column", "schema"}
ASSUME ColumnsAssumption == max_columns \in Nat

VARIABLES
  kind,
  value,      \* result, by field: the class of the value read, or "absent"
  columns,    \* result.columns.size() of a schema
  outcome,
  count       \* history: how often each field number occurred in the message

vars == <<kind, value, columns, outcome, count>>

-----------------------------------------------------------------------------
(* What the readers know of their messages. *)

FieldCount == [execute |-> 11, upload |-> 2, cancel |-> 2, resolve |-> 3, column |-> 6, schema |-> 2]

Integers32 == [execute |-> {1}, upload |-> {}, cancel |-> {}, resolve |-> {}, column |-> 2..6, schema |-> {1}]
Integers64 == [execute |-> {4, 5, 9, 10}, upload |-> {}, cancel |-> {}, resolve |-> {}, column |-> {}, schema |-> {}]

\* Fields of a fixed size: the query id, keys, tickets and stream references.
Identities == [execute |-> {7, 8}, upload |-> {1, 2}, cancel |-> {1, 2}, resolve |-> {}, column |-> {}, schema |-> {}]

Integer(f) == f \in Integers32[kind] \cup Integers64[kind]
WireType(f) == IF Integer(f) THEN 0 ELSE 2

\* "over" is beyond the limit the reader enforces while it reads the value (for a
\* column of a schema: parse_column throws).  "other" is a version this sidecar
\* does not support, "zero" an absent OID.
Values(f) ==
  IF f \in Identities[kind] THEN {"empty", "short", "exact", "over"}
  ELSE IF kind = "resolve" THEN {"empty", "some", "over"}
  ELSE IF kind = "schema" /\ f = 1 THEN {"some", "other", "over"}
  ELSE IF kind = "column" /\ f = 2 THEN {"zero", "some", "over"}
  ELSE IF f \in Integers64[kind] THEN {"some"}
  ELSE {"some", "over"}

Fields == 1..11

Init ==
  /\ kind \in Kinds
  /\ value = [f \in Fields |-> "absent"]
  /\ columns = 0
  /\ outcome = "reading"
  /\ count = [n \in Numbers |-> 0]

Seen == {f \in Fields : value[f] # "absent"}

-----------------------------------------------------------------------------
\* static_cast<unsigned>(tag >> 3)
FieldOf(n) == n % FieldModulus

\* expect_field, and its open-coded form in parse_native_result_schema, where only
\* the columns repeat.
Expected_AnyOrder(f) == f \in 1..FieldCount[kind]
Expected(f) ==
  /\ f \in 1..FieldCount[kind]
  /\ IF kind = "schema" /\ f = 2 THEN columns < max_columns ELSE f \notin Seen

\* Three readers select the field by the whole number, after expect_field.
Selected(n) == kind \in {"upload", "cancel", "resolve"} => n = FieldOf(n)

ReadField(n, wire, v) ==
  LET f == FieldOf(n) IN
  /\ outcome = "reading"
  /\ Expected(f) /\ wire = WireType(f) /\ Selected(n)
  /\ v \in Values(f) \ {"over"}
  /\ value' = [value EXCEPT ![f] = v]
  /\ columns' = IF kind = "schema" /\ f = 2 THEN columns + 1 ELSE columns
  /\ count' = [count EXCEPT ![n] = @ + 1]
  /\ UNCHANGED <<kind, outcome>>

\* An unknown or repeated field, a wrong wire type or a value beyond its limit.
ThrowField(n, wire, v) ==
  LET f == FieldOf(n) IN
  /\ outcome = "reading"
  /\ \/ ~Expected(f)
     \/ wire # WireType(f)
     \/ ~Selected(n)
     \/ v = "over" /\ v \in Values(f)
  /\ outcome' = "rejected"
  /\ UNCHANGED <<kind, value, columns, count>>

\* A message of the wrong size, a varint without an end or too long, or bytes
\* that run past the end (wire_reader).
Malformed ==
  /\ outcome = "reading"
  /\ outcome' = "rejected"
  /\ UNCHANGED <<kind, value, columns, count>>

\* The test after the loop of each reader.
Complete ==
  \/ kind = "execute" /\ Seen = 1..11 /\ value[7] = "exact" /\ value[8] = "exact"
  \/ kind = "upload" /\ Seen = {1, 2} /\ value[1] = "exact" /\ value[2] = "exact"
  \/ kind = "cancel" /\ Cardinality(Seen) = 1 /\ \A f \in Seen : value[f] \in {"empty", "exact"}
  \/ kind = "resolve" /\ Seen = {1, 2, 3} /\ \A f \in Seen : value[f] # "empty"
  \/ kind = "column" /\ 2 \in Seen /\ value[2] # "zero"
  \/ kind = "schema" /\ 1 \in Seen /\ value[1] = "some" /\ columns > 0

EndOfMessage ==
  /\ outcome = "reading"
  /\ outcome' = IF Complete THEN "accepted" ELSE "rejected"
  /\ UNCHANGED <<kind, value, columns, count>>

Next ==
  \/ \E n \in Numbers, wire \in {0, 2} :
       \E v \in {"empty", "short", "exact", "zero", "some", "other", "over"} :
         ReadField(n, wire, v) \/ ThrowField(n, wire, v)
  \/ Malformed
  \/ EndOfMessage

Spec == Init /\ [][Next]_vars

-----------------------------------------------------------------------------
(* Properties. *)

\* The fields a message must have, from sidecar.proto and the README; a cancel has one of two.
Required == [execute |-> {1..11}, upload |-> {{1, 2}}, cancel |-> {{1}, {2}}, resolve |-> {1..3},
             column |-> {{2}}, schema |-> {{1, 2}}]

Came(n) == count[n] > 0

\* A message is accepted only with every required field, none of them repeated (the
\* columns of a schema excepted, which are at least one and at most the limit), in
\* whatever order they came and whatever stood between them.  A cancel came with exactly one
\* of its two identities.  Query, key, ticket and stream reference are never cut short and,
\* but for the identity of a cancel, never empty; nor is what the read service sends.
NothingMissingOrRepeated ==
  outcome = "accepted" =>
    /\ \E r \in Required[kind] :
         /\ \A f \in r : \E n \in Numbers : FieldOf(n) = f /\ Came(n)
         /\ kind = "cancel" => \A n \in Numbers : Came(n) => FieldOf(n) \in r
    /\ \A f \in 1..FieldCount[kind] :
         LET occurrences == {n \in Numbers : FieldOf(n) = f /\ Came(n)} IN
         /\ Cardinality(occurrences) <= 1 \/ (kind = "schema" /\ f = 2)
         /\ \A n \in occurrences : count[n] = 1 \/ (kind = "schema" /\ f = 2 /\ count[n] <= max_columns)
    /\ \A f \in Identities[kind] \cap Seen : value[f] = "exact" \/ (kind = "cancel" /\ value[f] = "empty")
    /\ kind \in {"execute", "upload", "resolve"} => \A f \in Seen : value[f] # "empty"

\* "Exactly one identity is required" (sidecar.proto), "exactly one 32-byte identity" (the text of
\* the exception in parse_cancel_request): an accepted cancel names one ticket or one key in full.
CancelNamesOne == outcome = "accepted" /\ kind = "cancel" => \E f \in Identities[kind] : value[f] = "exact"
=============================================================================
