------------------------- MODULE WireMessagesProofs -------------------------
(***************************************************************************)
(* What an accepted message consists of, for every set of field numbers    *)
(* that a client may send, in every order, and every limit on the columns. *)
(* The readers keep no count of what they have read; the invariant says    *)
(* that the presence of a value, which is all they look at, counts.        *)
(***************************************************************************)
EXTENDS WireMessages, FiniteSetTheorems, TLAPS

Repeats(f) == kind = "schema" /\ f = 2

TypeInv ==
  /\ kind \in Kinds
  /\ value \in [Fields -> {"absent", "empty", "short", "exact", "zero", "some", "other"}]
  /\ columns \in Nat
  /\ count \in [Numbers -> Nat]

\* A field is present exactly if one of its numbers came, and its value is one that is read.
PresenceInv ==
  /\ \A n \in Numbers : Came(n) => FieldOf(n) \in Seen
  /\ \A f \in Seen : /\ \E n \in Numbers : FieldOf(n) = f /\ Came(n)
                     /\ f \in 1..FieldCount[kind] /\ value[f] \in Values(f)

\* Only the columns come twice, under one number or under two that are the same field.
OnceInv ==
  \A n \in Numbers : Came(n) /\ ~Repeats(FieldOf(n)) =>
    /\ count[n] = 1
    /\ \A m \in Numbers : Came(m) /\ FieldOf(m) = FieldOf(n) => m = n

\* The columns are counted.
ColumnsInv ==
  /\ columns <= max_columns
  /\ kind = "schema" /\ columns > 0 => 2 \in Seen
  /\ \A n \in Numbers : Repeats(FieldOf(n)) => count[n] <= columns

\* What was accepted is what the test after the loop has seen.
OutcomeInv == outcome = "accepted" => Complete

IInv == TypeInv /\ PresenceInv /\ OnceInv /\ ColumnsInv /\ OutcomeInv

-----------------------------------------------------------------------------
LEMMA KnownFields == ASSUME kind \in Kinds PROVE 1..FieldCount[kind] \subseteq Fields
BY KindsAssumption DEF FieldCount, Fields

LEMMA ReadKeeps ==
  ASSUME IInv, NEW n \in Numbers, NEW wire, NEW v \in {"empty", "short", "exact", "zero", "some", "other", "over"},
         ReadField(n, wire, v)
  PROVE  IInv'
<1> DEFINE f == FieldOf(n)
<1>1. /\ outcome = "reading" /\ Expected(f) /\ v \in Values(f) \ {"over"}
      /\ value' = [value EXCEPT ![f] = v]
      /\ columns' = IF Repeats(f) THEN columns + 1 ELSE columns
      /\ count' = [count EXCEPT ![n] = @ + 1]
      /\ UNCHANGED <<kind, outcome>>
  BY DEF ReadField, Repeats
<1>2. f \in 1..FieldCount[kind] /\ f \in Fields
  BY <1>1, KnownFields DEF Expected, IInv, TypeInv
<1>3. /\ value'[f] = v /\ \A g \in Fields : g # f => value'[g] = value[g]
      /\ count'[n] = count[n] + 1 /\ \A m \in Numbers : m # n => count'[m] = count[m]
      /\ \A m \in Numbers : count[m] \in Nat
  BY <1>1, <1>2 DEF IInv, TypeInv
<1>4. v # "absent"
  OBVIOUS
<1>5. Seen' = Seen \cup {f}
  BY <1>2, <1>3, <1>4 DEF Seen
<1>6. Came(n)' /\ \A m \in Numbers : Came(m)' <=> Came(m) \/ m = n
  BY <1>3 DEF Came
<1>7. \A m \in Numbers : FieldOf(m)' = FieldOf(m)
  BY DEF FieldOf
<1>8. \A g : Repeats(g)' <=> Repeats(g)
  BY <1>1 DEF Repeats
<1>9. \A g : Values(g)' = Values(g)
  BY <1>1 DEF Values
<1> HIDE DEF f
<1>10. TypeInv'
  BY <1>1, <1>2 DEF IInv, TypeInv
<1>11. PresenceInv'
  <2>1. \A m \in Numbers : Came(m)' => FieldOf(m) \in Seen'
    BY <1>5, <1>6 DEF IInv, PresenceInv, f
  <2>2. ASSUME NEW g \in Seen'
        PROVE  /\ \E m \in Numbers : FieldOf(m) = g /\ Came(m)'
               /\ g \in 1..FieldCount[kind] /\ value'[g] \in Values(g)
    <3>1. CASE g = f
      BY <3>1, <1>1, <1>2, <1>3, <1>6 DEF f
    <3>2. CASE g # f
      <4>1. g \in Seen /\ g \in Fields
        BY <3>2, <1>5 DEF Seen
      <4> QED BY <3>2, <4>1, <1>3, <1>6 DEF IInv, PresenceInv
    <3> QED BY <3>1, <3>2
  <2> QED BY <2>1, <2>2, <1>1, <1>7, <1>9 DEF PresenceInv
<1>12. OnceInv'
  <2>1. ASSUME NEW m \in Numbers, Came(m)', ~Repeats(FieldOf(m))
        PROVE  /\ count'[m] = 1
               /\ \A k \in Numbers : Came(k)' /\ FieldOf(k) = FieldOf(m) => k = m
    <3>1. CASE FieldOf(m) = f
      <4>1. f \notin Seen
        BY <1>1, <2>1, <3>1 DEF Expected, Repeats
      <4>2. \A k \in Numbers : FieldOf(k) = f => ~Came(k)
        BY <4>1 DEF IInv, PresenceInv
      <4>3. count[n] = 0
        BY <4>2, <1>3 DEF Came, f
      <4> QED BY <2>1, <3>1, <4>2, <4>3, <1>3, <1>6
    <3>2. CASE FieldOf(m) # f
      <4>1. m # n /\ Came(m) /\ count'[m] = count[m]
        BY <2>1, <3>2, <1>3, <1>6 DEF f
      <4>2. \A k \in Numbers : Came(k)' /\ FieldOf(k) = FieldOf(m) => Came(k)
        BY <3>2, <1>6 DEF f
      <4> QED BY <2>1, <4>1, <4>2 DEF IInv, OnceInv
    <3> QED BY <3>1, <3>2
  <2> QED BY <2>1, <1>7, <1>8 DEF OnceInv
<1>13. ColumnsInv'
  <2>1. columns' <= max_columns
    BY <1>1, ColumnsAssumption DEF IInv, TypeInv, ColumnsInv, Expected, Repeats
  <2>2. kind = "schema" /\ columns' > 0 => 2 \in Seen'
    BY <1>1, <1>5 DEF IInv, ColumnsInv, Repeats
  <2>3. ASSUME NEW m \in Numbers, Repeats(FieldOf(m)) PROVE count'[m] <= columns'
    <3>1. count[m] <= columns
      BY <2>3 DEF IInv, ColumnsInv
    <3>2. CASE m = n
      BY <2>3, <3>1, <3>2, <1>1, <1>3 DEF f, IInv, TypeInv
    <3>3. CASE m # n
      BY <3>1, <3>3, <1>1, <1>3 DEF IInv, TypeInv
    <3> QED BY <3>2, <3>3
  <2> QED BY <2>1, <2>2, <2>3, <1>1, <1>7, <1>8 DEF ColumnsInv
<1>14. OutcomeInv'
  BY <1>1 DEF OutcomeInv
<1> QED BY <1>10, <1>11, <1>12, <1>13, <1>14 DEF IInv

LEMMA InvNext == IInv /\ [Next]_vars => IInv'
<1> SUFFICES ASSUME IInv, [Next]_vars PROVE IInv'
  OBVIOUS
<1>1. ASSUME UNCHANGED <<kind, value, columns, count>>, outcome' = "accepted" => Complete PROVE IInv'
  <2>1. Seen' = Seen /\ (Complete' <=> Complete)
    BY <1>1 DEF Seen, Complete
  <2>2. (\A n \in Numbers : FieldOf(n)' = FieldOf(n) /\ (Came(n)' <=> Came(n)))
    BY <1>1 DEF FieldOf, Came
  <2>3. \A f : Values(f)' = Values(f) /\ (Repeats(f)' <=> Repeats(f))
    BY <1>1 DEF Values, Repeats
  <2>4. TypeInv' /\ PresenceInv'
    BY <1>1, <2>1, <2>2, <2>3 DEF IInv, TypeInv, PresenceInv
  <2>5. OnceInv' /\ ColumnsInv'
    BY <1>1, <2>1, <2>2, <2>3 DEF IInv, OnceInv, ColumnsInv
  <2> QED BY <1>1, <2>1, <2>4, <2>5 DEF IInv, OutcomeInv
<1>2. ASSUME NEW n \in Numbers, NEW wire \in {0, 2},
             NEW v \in {"empty", "short", "exact", "zero", "some", "other", "over"},
             ReadField(n, wire, v) \/ ThrowField(n, wire, v)
      PROVE  IInv'
  BY <1>1, <1>2, ReadKeeps DEF ThrowField
<1>3. CASE Malformed \/ EndOfMessage
  BY <1>1, <1>3 DEF Malformed, EndOfMessage
<1>4. CASE UNCHANGED vars
  BY <1>1, <1>4 DEF vars, IInv, OutcomeInv
<1> QED BY <1>2, <1>3, <1>4 DEF Next

LEMMA InvInit == Init => IInv
<1> SUFFICES ASSUME Init PROVE IInv
  OBVIOUS
<1>1. Seen = {} /\ \A n \in Numbers : ~Came(n)
  BY DEF Init, Seen, Came
<1>2. TypeInv /\ OutcomeInv
  BY DEF Init, TypeInv, OutcomeInv
<1>3. PresenceInv /\ OnceInv
  BY <1>1 DEF PresenceInv, OnceInv
<1>4. ColumnsInv
  BY ColumnsAssumption DEF Init, ColumnsInv
<1> QED BY <1>2, <1>3, <1>4 DEF IInv

-----------------------------------------------------------------------------
\* The test after the loop sees every required field, and of a cancel one field only.
LEMMA RequiredSeen ==
  ASSUME IInv, outcome = "accepted"
  PROVE  \E r \in Required[kind] : r \subseteq Seen /\ (kind = "cancel" => Seen = r)
<1>1. Complete
  BY DEF IInv, OutcomeInv
<1>2. CASE kind = "execute" \/ kind = "upload" \/ kind = "resolve"
  <2>1. Seen \in Required[kind]
    BY <1>1, <1>2 DEF Complete, Required
  <2> QED BY <1>2, <2>1
<1>3. CASE kind = "cancel"
  <2>1. Cardinality(Seen) = 1 /\ Required[kind] = {{1}, {2}}
    BY <1>1, <1>3 DEF Complete, Required
  <2>2. IsFiniteSet(Seen)
    <3>1. IsFiniteSet(1..11)
      <4>1. \A a, b \in Int : IsFiniteSet(a..b)
        BY FS_Interval
      <4>2. 1 \in Int /\ 11 \in Int
        OBVIOUS
      <4> QED BY <4>1, <4>2, Zenon
    <3> QED BY <3>1, FS_Subset DEF Seen, Fields
  <2>3. PICK f : Seen = {f}
    BY <2>1, <2>2, FS_Singleton
  <2>4. f \in 1..FieldCount[kind]
    BY <2>3 DEF IInv, PresenceInv
  <2>5. f = 1 \/ f = 2
    BY <2>4, <1>3 DEF FieldCount
  <2> QED BY <2>1, <2>3, <2>5
<1>4. CASE kind = "column"
  BY <1>1, <1>4 DEF Complete, Required
<1>5. CASE kind = "schema"
  <2>1. {1, 2} \subseteq Seen /\ Required[kind] = {{1, 2}}
    BY <1>1, <1>5 DEF Complete, Required, IInv, ColumnsInv
  <2> QED BY <1>5, <2>1
<1> QED BY <1>2, <1>3, <1>4, <1>5, KindsAssumption DEF IInv, TypeInv

LEMMA IdentitiesAreWhole ==
  ASSUME IInv, outcome = "accepted", NEW f \in Identities[kind] \cap Seen
  PROVE  value[f] = "exact" \/ (kind = "cancel" /\ value[f] = "empty")
<1>1. Complete
  BY DEF IInv, OutcomeInv
<1>2. CASE kind = "execute" \/ kind = "upload" \/ kind = "cancel"
  BY <1>1, <1>2 DEF Complete, Identities
<1>3. CASE kind = "resolve" \/ kind = "column" \/ kind = "schema"
  BY <1>3 DEF Identities
<1> QED BY <1>2, <1>3, KindsAssumption DEF IInv, TypeInv

LEMMA NothingEmpty ==
  ASSUME IInv, outcome = "accepted", kind \in {"execute", "upload", "resolve"}
  PROVE  \A f \in Seen : value[f] # "empty"
<1>1. Complete
  BY DEF IInv, OutcomeInv
<1>2. CASE kind = "execute"
  <2>1. value[7] = "exact" /\ value[8] = "exact"
    BY <1>1, <1>2 DEF Complete
  <2>2. Identities[kind] = {7, 8}
    BY <1>2 DEF Identities
  <2>3. \A f \in Seen : f \notin {7, 8} => value[f] # "empty"
    BY <1>2, <2>2 DEF IInv, PresenceInv, Values
  <2> QED BY <2>1, <2>2, <2>3
<1>3. CASE kind = "upload"
  BY <1>1, <1>3 DEF Complete, Identities
<1>4. CASE kind = "resolve"
  BY <1>1, <1>4 DEF Complete, Identities
<1> QED BY <1>2, <1>3, <1>4

\* Every message a reader accepts has each required field, a cancel exactly one of its two, none
\* twice under any spelling of its number, at most max_columns columns, and no identity cut short;
\* only the identity of a cancel may be empty.  expect_field and the test after the loop of the
\* readers ensure it, which only look at what they have stored.
THEOREM AcceptedIsStrict == Spec => []NothingMissingOrRepeated
<1>1. IInv => NothingMissingOrRepeated
  <2> SUFFICES ASSUME IInv, outcome = "accepted"
               PROVE  NothingMissingOrRepeated
    BY DEF NothingMissingOrRepeated
  <2>1. \E r \in Required[kind] :
          /\ \A f \in r : \E n \in Numbers : FieldOf(n) = f /\ Came(n)
          /\ kind = "cancel" => \A n \in Numbers : Came(n) => FieldOf(n) \in r
    <3>1. PICK r \in Required[kind] : r \subseteq Seen /\ (kind = "cancel" => Seen = r)
      BY RequiredSeen
    <3>2. \A f \in r : \E n \in Numbers : FieldOf(n) = f /\ Came(n)
      BY <3>1 DEF IInv, PresenceInv
    <3>3. kind = "cancel" => \A n \in Numbers : Came(n) => FieldOf(n) \in r
      BY <3>1 DEF IInv, PresenceInv
    <3> QED BY <3>2, <3>3
  <2>2. ASSUME NEW f \in 1..FieldCount[kind]
        PROVE  LET occurrences == {n \in Numbers : FieldOf(n) = f /\ Came(n)} IN
               /\ Cardinality(occurrences) <= 1 \/ (kind = "schema" /\ f = 2)
               /\ \A n \in occurrences : count[n] = 1 \/ (kind = "schema" /\ f = 2 /\ count[n] <= max_columns)
    <3> DEFINE occurrences == {n \in Numbers : FieldOf(n) = f /\ Came(n)}
    <3>1. CASE Repeats(f)
      <4>1. \A n \in occurrences : count[n] <= max_columns
        BY <3>1, ColumnsAssumption DEF IInv, TypeInv, ColumnsInv
      <4> QED BY <3>1, <4>1 DEF Repeats
    <3>2. CASE ~Repeats(f)
      <4>1. \A n \in occurrences : count[n] = 1 /\ occurrences = {n}
        BY <3>2 DEF IInv, OnceInv
      <4>2. Cardinality(occurrences) <= 1
        <5>1. CASE occurrences = {}
          BY <5>1, FS_EmptySet
        <5>2. CASE occurrences # {}
          <6>1. PICK n \in occurrences : occurrences = {n}
            BY <4>1, <5>2
          <6>2. Cardinality({n}) = 1
            BY FS_Singleton
          <6> QED BY <6>1, <6>2
        <5> QED BY <5>1, <5>2
      <4> QED BY <4>1, <4>2
    <3> QED BY <3>1, <3>2
  <2> QED BY <2>1, <2>2, IdentitiesAreWhole, NothingEmpty DEF NothingMissingOrRepeated
<1> QED BY <1>1, InvInit, InvNext, PTL DEF Spec
=============================================================================
