-------------------------- MODULE AdmissionProofs --------------------------
(***************************************************************************)
(* The charge of a valid request never overflows, and grows with the       *)
(* number of stream inputs: the lease that prepare acquires for the        *)
(* largest number can always be shrunk.                                    *)
(***************************************************************************)
EXTENDS Admission, TLAPS

\* Rounding up to a multiple adds less than the multiple (align).
LEMMA RoundUp ==
  ASSUME NEW x \in Nat, NEW a \in Nat \ {0}
  PROVE  LET y == ((x + (a - 1)) \div a) * a IN y \in Nat /\ x <= y /\ y <= x + a
<1> DEFINE q == (x + (a - 1)) \div a
<1>1. q \in Nat /\ q * a <= x + (a - 1) /\ x + (a - 1) < q * a + a
  OBVIOUS
<1>2. q * a \in Nat
  BY <1>1
<1> QED
  BY <1>1, <1>2

\* A larger number of inputs or a larger charge for each gives a larger product.
LEMMA ProductMonotone ==
  ASSUME NEW m \in Nat, NEW n \in Nat, NEW p \in Nat, NEW q \in Nat, m <= n, p <= q
  PROVE  m * p \in Nat /\ m * p <= n * p /\ n * p <= n * q /\ m * p <= n * q
<1>1. m * p \in Nat /\ n * p \in Nat /\ n * q \in Nat
  OBVIOUS
<1>2. PICK d \in Nat : n = m + d
  <2>1. n - m \in Nat /\ n = m + (n - m)
    OBVIOUS
  <2> QED BY <2>1
<1>3. n * p = m * p + d * p /\ d * p \in Nat
  BY <1>2
<1>4. PICK e \in Nat : q = p + e
  <2>1. q - p \in Nat /\ q = p + (q - p)
    OBVIOUS
  <2> QED BY <2>1
<1>5. n * q = n * p + n * e /\ n * e \in Nat
  BY <1>4
<1> QED
  BY <1>1, <1>3, <1>5

\* A checked sum or product that fits is the sum or the product.
LEMMA AddFits ==
  ASSUME NEW x \in Nat, NEW y \in Nat, x + y <= max_word
  PROVE  CheckedAdd(x, y) = x + y
BY SizesAssumption DEF CheckedAdd, Overflow

LEMMA MultiplyFits ==
  ASSUME NEW x \in Nat, NEW y \in Nat, x * y <= max_word
  PROVE  CheckedMultiply(x, y) = x * y
<1>1. x * y \in Nat
  OBVIOUS
<1> QED
  BY <1>1, SizesAssumption DEF CheckedMultiply, Overflow

LEMMA ConstantSizes ==
  /\ alignment \in Nat \ {0} /\ transport_overhead \in Nat /\ expanded_input_bytes \in Nat
  /\ frame_header_bytes \in Nat /\ max_stream_inputs \in Nat /\ max_stream_input_batch_bytes \in Nat
  /\ max_plan_bytes \in Nat /\ max_schema_bytes \in Nat /\ configured_batch_bytes \in Nat /\ max_word \in Nat
BY SizesAssumption DEF Sizes

\* An aligned size of what fits twice is the rounded size.
LEMMA AlignFits ==
  ASSUME NEW x \in Nat, x + alignment <= max_word
  PROVE  Align(x) \in Nat /\ x <= Align(x) /\ Align(x) <= x + alignment
<1> DEFINE y == ((x + (alignment - 1)) \div alignment) * alignment
<1>1. alignment - 1 \in Nat /\ alignment \in Nat \ {0} /\ max_word \in Nat
  BY ConstantSizes
<1>2. y \in Nat /\ x <= y /\ y <= x + alignment
  BY <1>1, RoundUp
<1>3. CheckedAdd(x, alignment - 1) = x + (alignment - 1)
  <2>1. x + (alignment - 1) <= max_word
    BY <1>1
  <2> QED BY <1>1, <2>1, AddFits
<1>4. x + (alignment - 1) # Overflow
  BY <1>1 DEF Overflow
<1>5. (x + (alignment - 1)) \div alignment \in Nat
  BY <1>1
<1>6. CheckedMultiply((x + (alignment - 1)) \div alignment, alignment) = y
  <2>1. y <= max_word
    BY <1>1, <1>2
  <2> QED BY <1>1, <1>5, <2>1, MultiplyFits
<1>7. Align(x) = y
  BY <1>3, <1>4, <1>6 DEF Align
<1> QED
  BY <1>2, <1>7

\* Twice the aligned sum of a payload and the transport's overhead.
LEMMA TwiceAligned ==
  ASSUME NEW x \in Nat, NEW bound \in Nat, x <= bound, Twice(bound) <= max_word
  PROVE  LET t == CheckedMultiply(2, Align(CheckedAdd(x, transport_overhead)))
         IN  t \in Nat /\ t <= Twice(bound)
<1> DEFINE s == x + transport_overhead
<1>1. s \in Nat /\ s + alignment <= max_word /\ 2 * (s + alignment) <= Twice(bound) /\ Twice(bound) \in Nat
  BY ConstantSizes DEF Twice
<1>2. CheckedAdd(x, transport_overhead) = s
  BY <1>1, ConstantSizes, AddFits
<1>3. Align(s) \in Nat /\ Align(s) <= s + alignment
  BY <1>1, AlignFits
<1>4. 2 * Align(s) \in Nat /\ 2 * Align(s) <= Twice(bound) /\ 2 * Align(s) <= max_word
  BY <1>1, <1>3, ConstantSizes
<1>5. CheckedMultiply(2, Align(s)) = 2 * Align(s)
  BY <1>3, <1>4, MultiplyFits
<1> QED
  BY <1>2, <1>4, <1>5

\* The parts of the bound on the charge fit.
LEMMA Bounds ==
  /\ PerReadBound \in Nat /\ PerReadBound <= max_word
  /\ max_stream_inputs * PerReadBound \in Nat
  /\ Twice(configured_batch_bytes) \in Nat /\ Twice(configured_batch_bytes) <= max_word
  /\ Twice(max_plan_bytes + max_schema_bytes) \in Nat /\ Twice(max_plan_bytes + max_schema_bytes) <= max_word
  /\ Twice(max_stream_input_batch_bytes + frame_header_bytes) \in Nat
  /\ Twice(max_stream_input_batch_bytes + frame_header_bytes) + expanded_input_bytes = PerReadBound
<1>1. /\ Twice(configured_batch_bytes) \in Nat /\ Twice(max_plan_bytes + max_schema_bytes) \in Nat
      /\ Twice(max_stream_input_batch_bytes + frame_header_bytes) \in Nat
  BY ConstantSizes DEF Twice
<1>2. PerReadBound \in Nat
  BY <1>1, ConstantSizes DEF PerReadBound
<1>3. max_stream_inputs \in Nat /\ 1 <= max_stream_inputs
  BY SizesAssumption DEF Sizes
<1>4. 1 * PerReadBound <= max_stream_inputs * PerReadBound /\ max_stream_inputs * PerReadBound \in Nat
  BY <1>2, <1>3, ProductMonotone
<1>5. PerReadBound <= max_stream_inputs * PerReadBound
  BY <1>2, <1>4
<1>6. max_stream_inputs * PerReadBound + Twice(configured_batch_bytes) + Twice(max_plan_bytes + max_schema_bytes) <= max_word
  BY WordAssumption
<1> HIDE DEF PerReadBound, Twice
<1>7. /\ PerReadBound <= max_word /\ Twice(configured_batch_bytes) <= max_word
      /\ Twice(max_plan_bytes + max_schema_bytes) <= max_word
  BY <1>1, <1>2, <1>4, <1>5, <1>6, ConstantSizes
<1> QED
  BY <1>1, <1>2, <1>4, <1>7 DEF PerReadBound

\* What each part of the charge of a valid request is at most.
LEMMA Parts ==
  ASSUME NEW request \in ValidRequests
  PROVE  /\ PerRead(request) \in Nat /\ PerRead(request) <= PerReadBound
         /\ Result(request) \in Nat /\ Result(request) <= Twice(configured_batch_bytes)
         /\ RequestOverlap(request) \in Nat
         /\ RequestOverlap(request) <= Twice(max_plan_bytes + max_schema_bytes)
<1>1. /\ request.max_batch_bytes \in Nat /\ request.max_batch_bytes <= configured_batch_bytes
      /\ request.max_input_batch_bytes \in Nat /\ request.max_input_batch_bytes <= max_stream_input_batch_bytes
      /\ request.plan \in Nat /\ request.plan <= max_plan_bytes
      /\ request.result_schema \in Nat /\ request.result_schema <= max_schema_bytes
  BY ConstantSizes DEF ValidRequests
<1>2. Result(request) \in Nat /\ Result(request) <= Twice(configured_batch_bytes)
  BY <1>1, Bounds, ConstantSizes, TwiceAligned DEF Result
<1>3. RequestOverlap(request) \in Nat /\ RequestOverlap(request) <= Twice(max_plan_bytes + max_schema_bytes)
  <2> DEFINE x == request.plan + request.result_schema
             b == max_plan_bytes + max_schema_bytes
  <2>1. x \in Nat /\ b \in Nat /\ x <= b
    BY <1>1, ConstantSizes
  <2>2. x <= max_word
    BY <2>1, Bounds, ConstantSizes DEF Twice
  <2>3. CheckedAdd(request.plan, request.result_schema) = x
    BY <1>1, <2>2, AddFits
  <2> QED
    BY <2>1, <2>3, Bounds, TwiceAligned DEF RequestOverlap
<1>4. PerRead(request) \in Nat /\ PerRead(request) <= PerReadBound
  <2> DEFINE x == request.max_input_batch_bytes + frame_header_bytes
             b == max_stream_input_batch_bytes + frame_header_bytes
             t == CheckedMultiply(2, Align(CheckedAdd(x, transport_overhead)))
  <2>1. x \in Nat /\ b \in Nat /\ x <= b
    BY <1>1, ConstantSizes
  <2>2. Twice(b) \in Nat /\ Twice(b) + expanded_input_bytes = PerReadBound /\ Twice(b) <= max_word
    BY Bounds, ConstantSizes
  <2>3. x <= max_word
    BY <2>1, <2>2, ConstantSizes DEF Twice
  <2>4. CheckedAdd(request.max_input_batch_bytes, frame_header_bytes) = x
    BY <1>1, <2>3, ConstantSizes, AddFits
  <2>5. t \in Nat /\ t <= Twice(b)
    BY <2>1, <2>2, TwiceAligned
  <2>6. CheckedMultiply(2, InputFrame(request)) = t
    BY <2>4 DEF InputFrame
  <2> HIDE DEF t, b
  <2>7. t + expanded_input_bytes <= max_word /\ t + expanded_input_bytes <= PerReadBound
    BY <2>2, <2>5, Bounds, ConstantSizes
  <2>8. CheckedAdd(t, expanded_input_bytes) = t + expanded_input_bytes
    BY <2>5, <2>7, ConstantSizes, AddFits
  <2> QED
    BY <2>5, <2>6, <2>7, <2>8, ConstantSizes DEF PerRead
<1> QED
  BY <1>2, <1>3, <1>4

\* The charge of a valid request is the exact sum.
LEMMA ExactCharge ==
  ASSUME NEW request \in ValidRequests, NEW n \in 0..max_stream_inputs
  PROVE  /\ n * PerRead(request) \in Nat
         /\ stream_execution_charge(request, n) = n * PerRead(request) + Result(request) + RequestOverlap(request)
         /\ stream_execution_charge(request, n) <= max_word
<1> DEFINE p == PerRead(request)
           r == Result(request)
           o == RequestOverlap(request)
           R == Twice(configured_batch_bytes)
           O == Twice(max_plan_bytes + max_schema_bytes)
           P == max_stream_inputs * PerReadBound
<1>1. /\ p \in Nat /\ p <= PerReadBound /\ r \in Nat /\ r <= R /\ o \in Nat /\ o <= O
  BY Parts
<1>2. /\ n \in Nat /\ n <= max_stream_inputs /\ max_stream_inputs \in Nat /\ max_word \in Nat
      /\ PerReadBound \in Nat /\ P \in Nat /\ R \in Nat /\ O \in Nat
  BY ConstantSizes, Bounds
<1>3. P + R + O <= max_word
  BY WordAssumption
<1>4. n * p \in Nat /\ n * p <= P
  BY <1>1, <1>2, ProductMonotone
<1>5. stream_execution_charge(request, n) = CheckedAdd(CheckedAdd(CheckedMultiply(n, p), r), o)
  <2>1. ~(n > max_stream_inputs)
    BY <1>2
  <2> QED BY <2>1 DEF stream_execution_charge
<1> HIDE DEF p, r, o, R, O, P
<1> DEFINE m == n * p
<1> HIDE DEF m
<1>6. m \in Nat /\ m <= P
  BY <1>4 DEF m
<1>7. m <= max_word /\ m + r <= max_word /\ (m + r) + o <= max_word /\ m + r \in Nat
  BY <1>1, <1>2, <1>3, <1>6
<1>8. CheckedMultiply(n, p) = m
  BY <1>1, <1>2, <1>7, MultiplyFits DEF m
<1>9. CheckedAdd(m, r) = m + r /\ CheckedAdd(m + r, o) = m + r + o
  BY <1>1, <1>6, <1>7, AddFits
<1> QED
  BY <1>5, <1>6, <1>7, <1>8, <1>9 DEF m, p, r, o

\* No request that GetFlightInfo lets through makes the checked arithmetic of
\* stream_execution_charge throw, with whatever number of inputs the protocol allows.
THEOREM ChargeNeverOverflows ==
  \A request \in ValidRequests, n \in 0..max_stream_inputs :
    stream_execution_charge(request, n) \in 0..max_word
<1> SUFFICES ASSUME NEW request \in ValidRequests, NEW n \in 0..max_stream_inputs
             PROVE  stream_execution_charge(request, n) \in 0..max_word
  OBVIOUS
<1> QED
  BY ExactCharge, Parts, ConstantSizes

\* The lease that prepare acquires for the largest number of stream inputs covers the charge for
\* the number the plan has: lease::shrink and the controller's shrink never throw.
THEOREM LeaseCanShrink ==
  \A request \in ValidRequests, n \in 0..max_stream_inputs :
    stream_execution_charge(request, n) <= stream_execution_charge(request, max_stream_inputs)
<1> SUFFICES ASSUME NEW request \in ValidRequests, NEW n \in 0..max_stream_inputs
             PROVE  stream_execution_charge(request, n) <= stream_execution_charge(request, max_stream_inputs)
  OBVIOUS
<1> DEFINE p == PerRead(request)
<1>1. max_stream_inputs \in 0..max_stream_inputs /\ n \in Nat /\ n <= max_stream_inputs /\ max_stream_inputs \in Nat
  BY ConstantSizes
<1>2. p \in Nat /\ Result(request) \in Nat /\ RequestOverlap(request) \in Nat
  BY Parts
<1>3. n * p \in Nat /\ max_stream_inputs * p \in Nat /\ n * p <= max_stream_inputs * p
  BY <1>1, <1>2, ProductMonotone
<1>4. stream_execution_charge(request, n) = n * p + Result(request) + RequestOverlap(request)
  BY ExactCharge
<1>5. stream_execution_charge(request, max_stream_inputs)
        = max_stream_inputs * p + Result(request) + RequestOverlap(request)
  BY <1>1, ExactCharge
<1> HIDE DEF p
<1> QED
  BY <1>2, <1>3, <1>4, <1>5
=============================================================================
