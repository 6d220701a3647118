------------------------- MODULE ResultStreamProofs -------------------------
(***************************************************************************)
(* The codec for batches and payloads of every size.  The decoder: an      *)
(* accepted payload is read within its bounds, and no accepted payload     *)
(* begins with another.  The encoder: its estimate is never too small,     *)
(* the limit holds, and the frames of a batch are consecutive parts of it. *)
(* Both together: what was encoded is accepted and read back, the null     *)
(* bitmap, the texts, the columns, the batch, and all frames of a result.  *)
(***************************************************************************)
EXTENDS ResultStream, SequenceTheorems, FiniteSetTheorems, WellFoundedInduction, TLAPS

-----------------------------------------------------------------------------
(* Induction over the natural numbers, for a set of numbers. *)

LEMMA LeastNumber == ASSUME NEW T \in SUBSET Nat, T # {} PROVE \E m \in T : \A k \in T : m <= k
<1>1. PICK m \in T : \A k \in T : ~(<<k, m>> \in OpToRel(<, Nat))
  BY NatLessThanWellFounded, WFMin, Zenon
<1>2. \A k \in T : ~(k < m)
  BY <1>1 DEF OpToRel
<1> QED BY <1>2

LEMMA CountingUp == ASSUME NEW T, 0 \in T, \A k \in Nat : k \in T => k + 1 \in T PROVE Nat \subseteq T
<1> SUFFICES ASSUME Nat \ T # {} PROVE FALSE
  OBVIOUS
<1>1. PICK m \in Nat \ T : \A k \in Nat \ T : m <= k
  BY LeastNumber
<1>2. m - 1 \in Nat
  BY <1>1
<1>3. m - 1 \in T
  BY <1>1, <1>2
<1> QED BY <1>1, <1>2, <1>3

-----------------------------------------------------------------------------
(* The cursor. *)

LEMMA NextItemFits ==
  ASSUME NEW p \in Seq(Int), NEW here \in Nat \ {0}
  PROVE  /\ NextItem(p, here) \in Nat \ {0}
         /\ NextItem(p, here) <= Len(p) =>
              /\ here <= Len(p) /\ p[here] \in 0..(Len(p) - here)
              /\ NextItem(p, here) = here + 1 + p[here]
<1>1. Len(p) \in Nat
  OBVIOUS
<1>2. CASE here <= Len(p) /\ p[here] \in 0..(Len(p) - here)
  BY <1>1, <1>2 DEF NextItem
<1>3. CASE ~(here <= Len(p) /\ p[here] \in 0..(Len(p) - here))
  BY <1>1, <1>3 DEF NextItem
<1> QED BY <1>2, <1>3

\* The recursive definition of the cursor's positions has a solution.
LEMMA AfterItemsExists ==
  ASSUME NEW p, NEW at, NEW n \in Nat
  PROVE  \E g : g = [k \in 0..n |-> IF k = 0 THEN at ELSE NextItem(p, g[k - 1])]
<1> DEFINE T == {m \in Nat : \E g : g = [k \in 0..m |-> IF k = 0 THEN at ELSE NextItem(p, g[k - 1])]}
<1>1. 0 \in T
  <2> DEFINE g == [k \in 0..0 |-> at]
  <2>1. g = [k \in 0..0 |-> IF k = 0 THEN at ELSE NextItem(p, g[k - 1])]
    OBVIOUS
  <2> QED BY <2>1
<1>2. ASSUME NEW m \in Nat, m \in T PROVE m + 1 \in T
  <2>1. PICK g : g = [k \in 0..m |-> IF k = 0 THEN at ELSE NextItem(p, g[k - 1])]
    BY <1>2
  <2> DEFINE h == [k \in 0..(m + 1) |-> IF k <= m THEN g[k] ELSE NextItem(p, g[m])]
  <2>2. ASSUME NEW k \in 0..(m + 1) PROVE h[k] = IF k = 0 THEN at ELSE NextItem(p, h[k - 1])
    <3>1. CASE k = 0
      BY <2>1, <3>1
    <3>2. CASE k \in 1..m
      <4>1. g[k] = NextItem(p, g[k - 1])
        BY <2>1, <3>2
      <4>2. h[k] = g[k] /\ h[k - 1] = g[k - 1]
        BY <3>2
      <4> QED BY <3>2, <4>1, <4>2
    <3>3. CASE k = m + 1
      <4>1. h[k] = NextItem(p, g[m]) /\ h[k - 1] = g[m]
        BY <3>3
      <4> QED BY <3>3, <4>1
    <3> QED BY <3>1, <3>2, <3>3
  <2>3. h = [k \in 0..(m + 1) |-> IF k = 0 THEN at ELSE NextItem(p, h[k - 1])]
    BY <2>2
  <2>4. \E f : f = [k \in 0..(m + 1) |-> IF k = 0 THEN at ELSE NextItem(p, f[k - 1])]
    BY <2>3
  <2> QED BY <2>4
<1> HIDE DEF T
<1>3. Nat \subseteq T
  BY <1>1, <1>2, CountingUp
<1> QED BY <1>3 DEF T

LEMMA AfterItemsSteps ==
  ASSUME NEW p, NEW at, NEW n \in Nat
  PROVE  /\ AfterItems(p, at, n)[0] = at
         /\ \A k \in 1..n : AfterItems(p, at, n)[k] = NextItem(p, AfterItems(p, at, n)[k - 1])
<1> DEFINE A == AfterItems(p, at, n)
<1>1. A = [k \in 0..n |-> IF k = 0 THEN at ELSE NextItem(p, A[k - 1])]
  BY AfterItemsExists DEF AfterItems
<1> HIDE DEF A
<1>2. A[0] = at /\ \A k \in 1..n : A[k] = NextItem(p, A[k - 1])
  BY <1>1
<1> QED BY <1>2 DEF A

\* When the last item ends within p, so did every one before it.
LEMMA ItemsInside ==
  ASSUME NEW p \in Seq(Int), NEW at \in Nat \ {0}, NEW n \in Nat, AfterItems(p, at, n)[n] <= Len(p)
  PROVE  /\ \A k \in 0..n : AfterItems(p, at, n)[k] \in at..Len(p)
         /\ \A k \in 1..n : LET here == AfterItems(p, at, n)[k - 1] IN
              /\ p[here] \in 0..(Len(p) - here)
              /\ AfterItems(p, at, n)[k] = here + 1 + p[here]
<1> DEFINE A == AfterItems(p, at, n)
<1>1. A[0] = at /\ \A k \in 1..n : A[k] = NextItem(p, A[k - 1])
  BY AfterItemsSteps
<1>2. Len(p) \in Nat /\ A[n] <= Len(p)
  OBVIOUS
<1> HIDE DEF A
<1>3. \A k \in 0..n : A[k] \in Nat \ {0}
  <2> DEFINE T == {k \in Nat : k <= n => A[k] \in Nat \ {0}}
  <2>1. 0 \in T
    BY <1>1
  <2>2. ASSUME NEW k \in Nat, k \in T PROVE k + 1 \in T
    <3> SUFFICES ASSUME k + 1 <= n PROVE A[k + 1] \in Nat \ {0}
      OBVIOUS
    <3>1. A[k] \in Nat \ {0} /\ A[k + 1] = NextItem(p, A[k])
      BY <1>1, <2>2
    <3> QED BY <3>1, NextItemFits
  <2> HIDE DEF T
  <2>3. Nat \subseteq T
    BY <2>1, <2>2, CountingUp
  <2> QED BY <2>3 DEF T
<1>4. \A k \in 0..n : A[k] <= Len(p)
  <2> DEFINE T == {j \in Nat : j <= n => A[n - j] <= Len(p)}
  <2>1. 0 \in T
    BY <1>2
  <2>2. ASSUME NEW j \in Nat, j \in T PROVE j + 1 \in T
    <3> SUFFICES ASSUME j + 1 <= n PROVE A[n - (j + 1)] <= Len(p)
      OBVIOUS
    <3> DEFINE k == n - j
    <3>1. k \in 1..n /\ k - 1 \in 0..n /\ k - 1 = n - (j + 1) /\ A[k] <= Len(p)
      BY <2>2
    <3>2. A[k] = NextItem(p, A[k - 1]) /\ A[k - 1] \in Nat \ {0}
      BY <1>1, <1>3, <3>1
    <3>3. NextItem(p, A[k - 1]) <= Len(p)
      BY <3>1, <3>2
    <3>4. A[k - 1] <= Len(p)
      BY <3>2, <3>3, NextItemFits
    <3> QED BY <3>1, <3>4
  <2> HIDE DEF T
  <2>3. Nat \subseteq T
    BY <2>1, <2>2, CountingUp
  <2> SUFFICES ASSUME NEW k \in 0..n PROVE A[k] <= Len(p)
    OBVIOUS
  <2>4. n - k \in Nat /\ n - k <= n /\ n - (n - k) = k
    OBVIOUS
  <2>5. n - k \in T
    BY <2>3, <2>4
  <2> QED BY <2>4, <2>5 DEF T
<1>5. ASSUME NEW k \in 1..n
      PROVE  p[A[k - 1]] \in 0..(Len(p) - A[k - 1]) /\ A[k] = A[k - 1] + 1 + p[A[k - 1]]
  <2>1. k - 1 \in 0..n /\ k \in 0..n
    OBVIOUS
  <2>2. A[k] = NextItem(p, A[k - 1]) /\ A[k - 1] \in Nat \ {0} /\ A[k] <= Len(p)
    BY <1>1, <1>3, <1>4, <2>1
  <2>3. NextItem(p, A[k - 1]) <= Len(p)
    BY <2>2
  <2> QED BY <2>2, <2>3, NextItemFits
<1>6. \A k \in 0..n : at <= A[k]
  <2> DEFINE T == {k \in Nat : k <= n => at <= A[k]}
  <2>1. 0 \in T
    BY <1>1
  <2>2. ASSUME NEW k \in Nat, k \in T PROVE k + 1 \in T
    <3> SUFFICES ASSUME k + 1 <= n PROVE at <= A[k + 1]
      OBVIOUS
    <3>1. k \in 0..n /\ k + 1 \in 1..n /\ (k + 1) - 1 = k /\ at <= A[k]
      BY <2>2
    <3>2. A[k] \in Nat /\ p[A[k]] \in 0..(Len(p) - A[k]) /\ A[k + 1] = A[k] + 1 + p[A[k]]
      BY <1>3, <1>5, <3>1
    <3> QED BY <1>2, <3>1, <3>2, SMTT(30)
  <2> HIDE DEF T
  <2>3. Nat \subseteq T
    BY <2>1, <2>2, CountingUp
  <2> QED BY <2>3 DEF T
<1>7. \A k \in 0..n : A[k] \in at..Len(p)
  BY <1>2, <1>3, <1>4, <1>6
<1> QED BY <1>5, <1>7 DEF A

\* A cursor that stays within a prefix finds the same items there as in the whole.
LEMMA ItemsOfPrefix ==
  ASSUME NEW p \in Seq(Int), NEW q \in Seq(Int), Len(q) <= Len(p), \A i \in 1..Len(q) : q[i] = p[i],
         NEW at \in Nat \ {0}, NEW n \in Nat, AfterItems(q, at, n)[n] <= Len(q)
  PROVE  AfterItems(p, at, n)[n] = AfterItems(q, at, n)[n]
<1> DEFINE A == AfterItems(p, at, n)
           B == AfterItems(q, at, n)
<1>1. A[0] = at /\ \A k \in 1..n : A[k] = NextItem(p, A[k - 1])
  BY AfterItemsSteps
<1>2. B[0] = at
  BY AfterItemsSteps
<1>3. /\ \A k \in 0..n : B[k] \in at..Len(q)
      /\ \A k \in 1..n : q[B[k - 1]] \in 0..(Len(q) - B[k - 1]) /\ B[k] = B[k - 1] + 1 + q[B[k - 1]]
  BY ItemsInside
<1>4. Len(p) \in Nat /\ Len(q) \in Nat
  OBVIOUS
<1> HIDE DEF A, B
<1> DEFINE T == {k \in Nat : k <= n => A[k] = B[k]}
<1>5. 0 \in T
  BY <1>1, <1>2
<1>6. ASSUME NEW k \in Nat, k \in T PROVE k + 1 \in T
  <2> SUFFICES ASSUME k + 1 <= n PROVE A[k + 1] = B[k + 1]
    OBVIOUS
  <2>1. k \in 0..n /\ k + 1 \in 1..n /\ (k + 1) - 1 = k /\ A[k] = B[k]
    BY <1>6
  <2>2. B[k] \in at..Len(q) /\ q[B[k]] \in 0..(Len(q) - B[k]) /\ B[k + 1] = B[k] + 1 + q[B[k]]
    BY <1>3, <2>1
  <2>5. B[k] \in 1..Len(q)
    BY <1>4, <2>2
  <2>6. p[B[k]] = q[B[k]]
    BY <2>5, Zenon
  <2>3. p[B[k]] = q[B[k]] /\ B[k] <= Len(p) /\ p[B[k]] \in 0..(Len(p) - B[k])
    <3> DEFINE j == B[k]
               x == q[j]
    <3>1. x \in 0..(Len(q) - j) /\ j \in 1..Len(q) /\ p[j] = x
      BY <2>2, <2>5, <2>6
    <3> HIDE DEF j, x
    <3>2. j <= Len(p) /\ x \in 0..(Len(p) - j)
      BY <1>4, <3>1, SMTT(30)
    <3> QED BY <3>1, <3>2 DEF j, x
  <2>4. A[k + 1] = NextItem(p, B[k])
    BY <1>1, <2>1
  <2> QED BY <2>2, <2>3, <2>4 DEF NextItem
<1> HIDE DEF T
<1>7. Nat \subseteq T
  BY <1>5, <1>6, CountingUp
<1>8. A[n] = B[n]
  BY <1>7 DEF T
<1> QED BY <1>8 DEF A, B

\* No accepted payload is the beginning of another one with the same columns: wherever a batch
\* is cut, native_batch_view rejects what is left.
THEOREM NoPrefixAccepted ==
  ASSUME NEW p \in Seq(Int), NEW oids, Len(oids) \in Nat, BatchAccepted(p, oids),
         NEW m \in 0..(Len(p) - 1)
  PROVE  ~BatchAccepted(SubSeq(p, 1, m), oids)
<1> DEFINE q == SubSeq(p, 1, m)
           n == Len(oids)
<1> SUFFICES ASSUME BatchAccepted(q, oids) PROVE FALSE
  OBVIOUS
<1>1. Len(p) \in Nat /\ n \in Nat
  OBVIOUS
<1>2. q \in Seq(Int) /\ Len(q) = m /\ \A i \in 1..Len(q) : q[i] = p[i]
  <2>1. \A i \in 1..m : p[i] \in Int
    BY <1>1
  <2> QED BY <1>1, <2>1, SubSeqProperties
<1> HIDE DEF q
<1> DEFINE a == AfterItems(q, 3, n)[n]
<1>3. a <= Len(q) /\ q[a] \in {0, n} /\ AfterItems(q, a + 1, q[a])[q[a]] = Len(q) - 2
  BY DEF BatchAccepted
<1>4. a = AfterItems(p, 3, n)[n]
  <2>1. 3 \in Nat \ {0} /\ Len(q) <= Len(p) /\ AfterItems(q, 3, n)[n] <= Len(q)
    BY <1>1, <1>2, <1>3
  <2> HIDE DEF n
  <2> QED BY <1>1, <1>2, <2>1, ItemsOfPrefix
<1>5. a \in 3..Len(q)
  BY <1>1, <1>2, <1>3, ItemsInside
<1>6. p[a] = q[a] /\ q[a] \in Nat
  <2>1. a \in 1..Len(q)
    BY <1>1, <1>2, <1>5
  <2> HIDE DEF a
  <2>2. p[a] = q[a]
    BY <1>2, <2>1, Zenon
  <2> QED BY <1>1, <1>3, <2>2
<1>7. AfterItems(p, a + 1, p[a])[p[a]] = Len(p) - 2
  BY <1>4 DEF BatchAccepted
<1> HIDE DEF a
<1>8. AfterItems(q, a + 1, q[a])[q[a]] <= Len(q)
  BY <1>2, <1>3
<1>9. a + 1 \in Nat \ {0} /\ Len(q) <= Len(p)
  BY <1>1, <1>2, <1>5
<1>10. AfterItems(p, a + 1, q[a])[q[a]] = AfterItems(q, a + 1, q[a])[q[a]]
  BY <1>2, <1>6, <1>8, <1>9, ItemsOfPrefix
<1>11. Len(q) - 2 = Len(p) - 2
  BY <1>3, <1>6, <1>7, <1>10
<1> QED BY <1>1, <1>2, <1>11

-----------------------------------------------------------------------------
(* What is read of an accepted column. *)

LEMMA Between ==
  ASSUME NEW low \in Nat, NEW high \in Nat, NEW x \in low..high, NEW y \in low..high
  PROVE  x + 1 \in Nat \ {0} /\ x + 1 >= low + 1 /\ y - 1 \in Int /\ y - 1 < high /\ y - 1 <= high
OBVIOUS

\* A part of a sequence of cells between two places inside it.
LEMMA SliceTyped ==
  ASSUME NEW s \in Seq(Int), NEW from \in Nat \ {0}, NEW to \in Int, to <= Len(s)
  PROVE  /\ SubSeq(s, from, to) \in Seq(Int)
         /\ Len(SubSeq(s, from, to)) = IF from <= to THEN to - from + 1 ELSE 0
<1>1. Len(s) \in Nat
  OBVIOUS
<1>2. ASSUME NEW i \in from..to PROVE s[i] \in Int
  <2>1. i \in 1..Len(s)
    BY <1>1
  <2> QED BY <2>1, ElementOfSeq
<1> QED BY <1>2, SubSeqProperties

\* The three parts of a vector lie within it.
LEMMA PartsInside ==
  ASSUME NEW b \in Seq(Int), Len(b) >= 4, Parts(b)[3] = Len(b), NEW k \in 1..3
  PROVE  /\ Parts(b)[k - 1] + 1 >= 5 /\ Parts(b)[k] - 1 < Len(b)
         /\ Part(b, k) \in Seq(Int)
<1> DEFINE from == Parts(b)[k - 1] + 1
           to == Parts(b)[k] - 1
<1>1. \A j \in 0..3 : Parts(b)[j] \in 4..Len(b)
  <2>1. AfterItems(b, 4, 3)[3] <= Len(b)
    BY DEF Parts
  <2> QED BY <2>1, ItemsInside DEF Parts
<1>2. k - 1 \in 0..3 /\ k \in 0..3
  OBVIOUS
<1>3. Parts(b)[k - 1] \in 4..Len(b) /\ Parts(b)[k] \in 4..Len(b) /\ Len(b) \in Nat
  BY <1>1, <1>2, SMTT(30)
<1>4. from \in Nat \ {0} /\ to \in Int /\ from >= 5 /\ to < Len(b) /\ to <= Len(b)
  <2>1. from >= 4 + 1 /\ from \in Nat \ {0} /\ to \in Int /\ to < Len(b) /\ to <= Len(b)
    BY <1>3, Between
  <2> HIDE DEF from, to
  <2> QED BY <2>1
<1> HIDE DEF from, to
<1>6. SubSeq(b, from, to) \in Seq(Int)
  BY <1>4, SliceTyped
<1> QED BY <1>4, <1>6 DEF Part, from, to

LEMMA ViewTyped ==
  ASSUME NEW b \in Seq(Int), Len(b) >= 4, Parts(b)[3] = Len(b)
  PROVE  View(b).data \in Seq(Int) /\ View(b).area \in Seq(Int) /\ View(b).nulls \in Seq(Int)
BY PartsInside DEF View

LEMMA SizesTyped == ASSUME NEW oid PROVE TypeSize(oid) \in Nat \ {0} /\ VarlenaSize \in Nat /\ VarlenaSize >= 3
BY CodecAssumption DEF TypeSize, BigMarker

\* The first r of n rows of a fixed size end before the n-th does.
LEMMA RowsFit == ASSUME NEW n \in Nat, NEW r \in 1..n, NEW size \in Nat PROVE r * size <= n * size /\ r * size \in Nat
<1>1. PICK d \in Nat : n = r + d
  <2>1. n - r \in Nat /\ n = r + (n - r)
    OBVIOUS
  <2> QED BY <2>1
<1>2. n * size = r * size + d * size /\ d * size \in Nat /\ r * size \in Nat
  BY <1>1
<1> QED BY <1>2

LEMMA LastRow ==
  ASSUME NEW r \in Nat \ {0}, NEW size \in Nat
  PROVE  (r - 1) * size + 1 \in Nat \ {0} /\ r * size \in Nat /\ r * size - ((r - 1) * size + 1) + 1 = size
<1>1. PICK q \in Nat : r = q + 1
  <2>1. r - 1 \in Nat /\ r = (r - 1) + 1
    OBVIOUS
  <2> QED BY <2>1
<1>2. r - 1 = q /\ r * size = q * size + size /\ q * size \in Nat
  BY <1>1
<1> QED BY <1>2

LEMMA ColumnReads ==
  ASSUME NEW b \in Seq(Int), NEW n \in Nat \ {0}, NEW oid, ColumnAccepted(b, n, oid),
         NEW r \in 1..n, ~ReadsNull(View(b), r)
  PROVE  /\ SourceRow(View(b), r) * TypeSize(oid) <= Len(View(b).data)
         /\ Source(View(b), r).from >= 1
         /\ Source(View(b), r).to <= Len(Source(View(b), r).of)
<1> DEFINE v == View(b)
           R == SourceRow(v, r)
           d == Descriptor(v, R)
<1>1. /\ v.data \in Seq(Int) /\ v.area \in Seq(Int) /\ Len(v.data) \in Nat /\ Len(v.area) \in Nat
  <2>1. Len(b) >= 4 /\ Parts(b)[3] = Len(b)
    BY DEF ColumnAccepted
  <2>2. v.data \in Seq(Int) /\ v.area \in Seq(Int)
    BY <2>1, ViewTyped
  <2> HIDE DEF v
  <2> QED BY <2>2
<1>2. /\ v.class \in {Flat, Constant} /\ v.oid = oid /\ v.rows = n /\ DataFits(v)
      /\ oid = Varchar => \A q \in 1..PhysicalRows(v) : DescriptorFits(Descriptor(v, q), v.area)
  BY DEF ColumnAccepted
<1> HIDE DEF v
<1>3. /\ PhysicalRows(v) \in Nat /\ R \in 1..PhysicalRows(v)
      /\ Len(v.data) = PhysicalRows(v) * TypeSize(oid)
  <2>1. CASE v.class = Constant
    <3>1. v.data # <<>>
      BY <2>1 DEF ReadsNull, v
    <3>2. PhysicalRows(v) = 1 /\ R = 1 /\ Len(v.data) = TypeSize(oid)
      BY <1>2, <2>1, <3>1 DEF PhysicalRows, SourceRow, DataFits
    <3> QED BY <3>2, SizesTyped
  <2>2. CASE v.class # Constant
    BY <1>2, <2>2 DEF PhysicalRows, SourceRow, DataFits
  <2> QED BY <2>1, <2>2
<1>4. R * TypeSize(oid) <= Len(v.data)
  BY <1>3, SizesTyped, RowsFit
<1>5. CASE oid # Varchar
  <2>1. TypeSize(oid) = 1 /\ Source(v, r) = [of |-> v.data, from |-> R, to |-> R]
    BY <1>2, <1>5 DEF TypeSize, Source
  <2>2. R \in Nat /\ R >= 1 /\ R <= Len(v.data)
    BY <1>1, <1>3, <1>4, <2>1
  <2> QED BY <1>4, <2>1, <2>2 DEF v
<1>6. CASE oid = Varchar
  <2>1. DescriptorFits(d, v.area)
    BY <1>2, <1>3, <1>6
  <2>2. CASE IsInline(d)
    <3>1. Source(v, r) = [of |-> Tail(d), from |-> 1, to |-> d[1]]
      BY <1>2, <1>6, <2>2 DEF Source
    <3>2. d \in Seq(Int) /\ Len(d) = VarlenaSize
      <4> DEFINE from == (R - 1) * VarlenaSize + 1
                 to == R * VarlenaSize
      <4>1. TypeSize(oid) = VarlenaSize /\ R \in Nat \ {0} /\ VarlenaSize \in Nat /\ VarlenaSize >= 3
        BY <1>3, <1>6, SizesTyped DEF TypeSize
      <4>2. from \in Nat \ {0} /\ to \in Nat /\ to - from + 1 = VarlenaSize
        BY <4>1, LastRow
      <4>3. to <= Len(v.data)
        BY <1>4, <4>1
      <4> HIDE DEF from, to
      <4>4. to \in Int /\ from <= to
        BY <4>1, <4>2
      <4>5. SubSeq(v.data, from, to) \in Seq(Int) /\ Len(SubSeq(v.data, from, to)) = to - from + 1
        BY <1>1, <4>2, <4>3, <4>4, SliceTyped
      <4> QED BY <4>2, <4>5 DEF Descriptor, from, to
    <3>3. Len(Tail(d)) = VarlenaSize - 1
      <4>1. VarlenaSize \in Nat /\ VarlenaSize >= 3
        BY SizesTyped
      <4> HIDE DEF d
      <4>2. d # <<>>
        BY <3>2, <4>1
      <4> QED BY <3>2, <4>2, HeadTailProperties
    <3>4. d[1] <= VarlenaSize - 1
      BY <2>2, SizesTyped DEF IsInline, InlineMax
    <3> QED BY <1>4, <3>1, <3>3, <3>4 DEF v
  <2>3. CASE ~IsInline(d)
    <3>1. Source(v, r) = [of |-> v.area, from |-> d[2] + 1, to |-> d[2] + d[3]]
      BY <1>2, <1>6, <2>3 DEF Source
    <3>2. d[2] \in 0..Len(v.area) /\ d[3] \in 0..(Len(v.area) - d[2])
      BY <2>1, <2>3 DEF DescriptorFits
    <3>3. d[2] + 1 >= 1 /\ d[2] + d[3] <= Len(v.area)
      BY <1>1, <3>2
    <3> QED BY <1>4, <3>1, <3>3 DEF v
  <2> QED BY <2>2, <2>3
<1> QED BY <1>5, <1>6

\* A payload that native_batch_view accepts, whatever its bytes, is read inside its columns.
THEOREM AcceptedIsReadInside ==
  ASSUME NEW p \in Seq(Int), NEW oids, DOMAIN oids = 1..Len(oids), Len(oids) \in Nat, BatchAccepted(p, oids)
  PROVE  ReadsInside(p, oids)
<1> DEFINE n == Len(oids)
           A == AfterItems(p, 3, n)
<1>1. Len(p) \in Nat /\ p[1] \in Nat \ {0}
  BY DEF BatchAccepted
<1>2. A[n] <= Len(p)
  BY DEF BatchAccepted
<1>3. \A k \in 0..n : A[k] \in 3..Len(p)
  BY <1>2, ItemsInside
<1> HIDE DEF A
<1> SUFFICES ASSUME NEW c \in 1..n
             PROVE  LET v == View(Vectors(p, n)[c]) IN
                    /\ v.nulls # <<>> => \A i \in NullBits(v.nulls) : i < p[1]
                    /\ \A r \in 1..p[1] : ~ReadsNull(v, r) =>
                         /\ SourceRow(v, r) * TypeSize(v.oid) <= Len(v.data)
                         /\ LET s == Source(v, r) IN s.from >= 1 /\ s.to <= Len(s.of)
  BY DEF ReadsInside
<1> DEFINE b == Vectors(p, n)[c]
<1>4. b = SubSeq(p, A[c - 1] + 1, A[c] - 1)
  BY DEF Vectors, A
<1>5. b \in Seq(Int)
  <2> DEFINE from == A[c - 1] + 1
             to == A[c] - 1
  <2>1. c - 1 \in 0..n /\ c \in 0..n
    OBVIOUS
  <2>2. from \in Nat \ {0} /\ to \in Int /\ to <= Len(p)
    <3>1. A[c - 1] \in 3..Len(p) /\ A[c] \in 3..Len(p)
      BY <1>3, <2>1
    <3> QED BY <1>1, <3>1, Between
  <2> HIDE DEF from, to
  <2>4. SubSeq(p, from, to) \in Seq(Int)
    BY <2>2, SliceTyped
  <2> QED BY <1>4, <2>4 DEF from, to
<1>6. ColumnAccepted(b, p[1], oids[c])
  BY DEF BatchAccepted
<1> HIDE DEF b
<1>7. View(b).nulls # <<>> => \A i \in NullBits(View(b).nulls) : i < p[1]
  <2>1. NullsFit(View(b).nulls, p[1])
    BY <1>6 DEF ColumnAccepted
  <2>2. View(b).nulls # <<>> => NullBits(View(b).nulls) \subseteq 0..(p[1] - 1)
    BY <2>1 DEF NullsFit
  <2> QED BY <1>1, <2>2
<1>8. View(b).oid = oids[c]
  BY <1>6 DEF ColumnAccepted
<1>9. \A r \in 1..p[1] : ~ReadsNull(View(b), r) =>
        /\ SourceRow(View(b), r) * TypeSize(View(b).oid) <= Len(View(b).data)
        /\ Source(View(b), r).from >= 1 /\ Source(View(b), r).to <= Len(Source(View(b), r).of)
  BY <1>1, <1>5, <1>6, <1>8, ColumnReads
<1> QED BY <1>7, <1>9 DEF b

\* DecoderSafe for every upload, damaged in any way: not only one cell of an encoded batch.
LEMMA EveryUploadIsSafe ==
  ASSUME upload.frame \in Seq(Int), batch.schema \in Seq([oid : Int, required : BOOLEAN])
  PROVE  DecoderSafe
<1> SUFFICES ASSUME Accepted(upload.frame) PROVE ReadsInside(PayloadOf(upload.frame), Oids)
  BY DEF DecoderSafe
<1> DEFINE frame == upload.frame
<1>1. Len(frame) \in Nat /\ Len(frame) >= 5
  BY DEF Accepted, ParsesFrame, FrameHeader
<1>2. PayloadOf(frame) \in Seq(Int)
  <2>2. SubSeq(frame, 6, Len(frame)) \in Seq(Int)
    BY <1>1, SliceTyped
  <2> QED BY <2>2 DEF PayloadOf, FrameHeader
<1>3. DOMAIN Oids = 1..Len(Oids) /\ Len(Oids) \in Nat
  <2>1. DOMAIN batch.schema = 1..Len(batch.schema) /\ Len(batch.schema) \in Nat
    OBVIOUS
  <2> DEFINE n == Len(batch.schema)
  <2>2. Oids = [c \in 1..n |-> batch.schema[c].oid]
    BY <2>1 DEF Oids
  <2> HIDE DEF n
  <2>3. n \in Nat
    BY <2>1 DEF n
  <2> QED BY <2>2, <2>3
<1>4. BatchAccepted(PayloadOf(frame), Oids)
  BY DEF Accepted
<1> QED BY <1>2, <1>3, <1>4, AcceptedIsReadInside
-----------------------------------------------------------------------------
(* Sums and concatenations. *)

\* The recursive definition of the sums has a solution.
LEMMA SumsExist ==
  ASSUME NEW f, NEW n \in Nat
  PROVE  \E g : g = [k \in 0..n |-> IF k = 0 THEN 0 ELSE g[k - 1] + f[k]]
<1> DEFINE T == {m \in Nat : \E g : g = [k \in 0..m |-> IF k = 0 THEN 0 ELSE g[k - 1] + f[k]]}
<1>1. 0 \in T
  <2> DEFINE g == [k \in 0..0 |-> 0]
  <2>1. g = [k \in 0..0 |-> IF k = 0 THEN 0 ELSE g[k - 1] + f[k]]
    OBVIOUS
  <2> QED BY <2>1
<1>2. ASSUME NEW m \in Nat, m \in T PROVE m + 1 \in T
  <2>1. PICK g : g = [k \in 0..m |-> IF k = 0 THEN 0 ELSE g[k - 1] + f[k]]
    BY <1>2
  <2> DEFINE h == [k \in 0..(m + 1) |-> IF k <= m THEN g[k] ELSE g[m] + f[m + 1]]
  <2>2. ASSUME NEW k \in 0..(m + 1) PROVE h[k] = IF k = 0 THEN 0 ELSE h[k - 1] + f[k]
    <3>1. CASE k = 0
      BY <2>1, <3>1
    <3>2. CASE k \in 1..m
      <4>1. g[k] = g[k - 1] + f[k]
        BY <2>1, <3>2
      <4>2. h[k] = g[k] /\ h[k - 1] = g[k - 1]
        BY <3>2
      <4> QED BY <3>2, <4>1, <4>2
    <3>3. CASE k = m + 1
      <4>1. h[k] = g[m] + f[k] /\ h[k - 1] = g[m]
        BY <3>3
      <4> QED BY <3>3, <4>1
    <3> QED BY <3>1, <3>2, <3>3
  <2>3. h = [k \in 0..(m + 1) |-> IF k = 0 THEN 0 ELSE h[k - 1] + f[k]]
    BY <2>2
  <2>4. \E u : u = [k \in 0..(m + 1) |-> IF k = 0 THEN 0 ELSE u[k - 1] + f[k]]
    BY <2>3
  <2> QED BY <2>4
<1> HIDE DEF T
<1>3. Nat \subseteq T
  BY <1>1, <1>2, CountingUp
<1> QED BY <1>3 DEF T

LEMMA SumsSteps ==
  ASSUME NEW f, NEW n \in Nat
  PROVE  /\ Sums(f, n)[0] = 0
         /\ \A k \in 1..n : Sums(f, n)[k] = Sums(f, n)[k - 1] + f[k]
<1> DEFINE A == Sums(f, n)
<1>1. A = [k \in 0..n |-> IF k = 0 THEN 0 ELSE A[k - 1] + f[k]]
  BY SumsExist DEF Sums
<1> HIDE DEF A
<1>2. A[0] = 0 /\ \A k \in 1..n : A[k] = A[k - 1] + f[k]
  BY <1>1
<1> QED BY <1>2 DEF A

LEMMA SumsTyped ==
  ASSUME NEW f, NEW n \in Nat, \A k \in 1..n : f[k] \in Int
  PROVE  \A k \in 0..n : Sums(f, n)[k] \in Int
<1> DEFINE A == Sums(f, n)
           T == {k \in Nat : k <= n => A[k] \in Int}
<1>1. A[0] = 0 /\ \A k \in 1..n : A[k] = A[k - 1] + f[k]
  BY SumsSteps
<1> HIDE DEF A
<1>2. 0 \in T
  BY <1>1
<1>3. ASSUME NEW k \in Nat, k \in T PROVE k + 1 \in T
  <2> SUFFICES ASSUME k + 1 <= n PROVE A[k + 1] \in Int
    OBVIOUS
  <2>1. k + 1 \in 1..n /\ (k + 1) - 1 = k /\ A[k] \in Int
    BY <1>3
  <2>2. A[k + 1] = A[k] + f[k + 1] /\ f[k + 1] \in Int
    BY <1>1, <2>1
  <2> QED BY <2>1, <2>2
<1> HIDE DEF T
<1>4. Nat \subseteq T
  BY <1>2, <1>3, CountingUp
<1> QED BY <1>4 DEF T, A

\* Sums of numbers that are not negative grow.
LEMMA SumsGrow ==
  ASSUME NEW f, NEW n \in Nat, \A k \in 1..n : f[k] \in Nat
  PROVE  /\ \A k \in 0..n : Sums(f, n)[k] \in Nat /\ Sums(f, n)[k] <= Sums(f, n)[n]
         /\ Sums(f, n)[0] = 0
         /\ \A k \in 1..n : k - 1 \in 0..n /\ Sums(f, n)[k] = Sums(f, n)[k - 1] + f[k]
<1> DEFINE A == Sums(f, n)
           T == {k \in Nat : k <= n => A[k] \in Nat}
           U == {j \in Nat : j <= n => A[n - j] <= A[n]}
<1>1. A[0] = 0 /\ \A k \in 1..n : A[k] = A[k - 1] + f[k]
  BY SumsSteps
<1> HIDE DEF A
<1>2. 0 \in T
  BY <1>1
<1>3. ASSUME NEW k \in Nat, k \in T PROVE k + 1 \in T
  <2> SUFFICES ASSUME k + 1 <= n PROVE A[k + 1] \in Nat
    OBVIOUS
  <2>1. k + 1 \in 1..n /\ (k + 1) - 1 = k /\ A[k] \in Nat
    BY <1>3
  <2>2. A[k + 1] = A[k] + f[k + 1] /\ f[k + 1] \in Nat
    BY <1>1, <2>1
  <2> QED BY <2>1, <2>2
<1>4. \A k \in 0..n : A[k] \in Nat
  <2> HIDE DEF T
  <2>1. Nat \subseteq T
    BY <1>2, <1>3, CountingUp
  <2> QED BY <2>1 DEF T
<1>5. 0 \in U
  BY <1>4
<1>6. ASSUME NEW j \in Nat, j \in U PROVE j + 1 \in U
  <2> SUFFICES ASSUME j + 1 <= n PROVE A[n - (j + 1)] <= A[n]
    OBVIOUS
  <2> DEFINE k == n - j
  <2>1. k \in 1..n /\ k - 1 \in 0..n /\ k \in 0..n /\ n - (j + 1) = k - 1 /\ A[k] <= A[n] /\ n \in 0..n
    BY <1>6
  <2> HIDE DEF k
  <2>2. A[k] = A[k - 1] + f[k] /\ f[k] \in Nat /\ A[k - 1] \in Nat /\ A[n] \in Nat /\ A[k] \in Nat
    BY <1>1, <1>4, <2>1
  <2>3. A[k - 1] <= A[n]
    BY <2>1, <2>2
  <2> QED BY <2>1, <2>3
<1>7. \A k \in 0..n : A[k] <= A[n]
  <2> HIDE DEF U
  <2>1. Nat \subseteq U
    BY <1>5, <1>6, CountingUp
  <2> SUFFICES ASSUME NEW k \in 0..n PROVE A[k] <= A[n]
    OBVIOUS
  <2>2. n - k \in Nat /\ n - k <= n /\ n - (n - k) = k
    OBVIOUS
  <2>3. n - k \in U
    BY <2>1, <2>2
  <2> QED BY <2>2, <2>3 DEF U
<1>8. \A k \in 1..n : k - 1 \in 0..n
  OBVIOUS
<1> QED BY <1>1, <1>4, <1>7, <1>8 DEF A

\* The sums of the first terms do not depend on how many more there are.
LEMMA SumsAgree ==
  ASSUME NEW f, NEW g, NEW m \in Nat, NEW n \in Nat, m <= n, \A k \in 1..m : f[k] = g[k]
  PROVE  Sums(f, m)[m] = Sums(g, n)[m]
<1> DEFINE A == Sums(f, m)
           B == Sums(g, n)
           T == {k \in Nat : k <= m => A[k] = B[k]}
<1>1. /\ A[0] = 0 /\ \A k \in 1..m : A[k] = A[k - 1] + f[k]
      /\ B[0] = 0 /\ \A k \in 1..n : B[k] = B[k - 1] + g[k]
  BY SumsSteps
<1> HIDE DEF A, B
<1>2. 0 \in T
  BY <1>1
<1>3. ASSUME NEW k \in Nat, k \in T PROVE k + 1 \in T
  <2> SUFFICES ASSUME k + 1 <= m PROVE A[k + 1] = B[k + 1]
    OBVIOUS
  <2>1. k + 1 \in 1..m /\ k + 1 \in 1..n /\ (k + 1) - 1 = k /\ A[k] = B[k]
    BY <1>3
  <2>2. A[k + 1] = A[k] + f[k + 1] /\ B[k + 1] = B[k] + g[k + 1] /\ f[k + 1] = g[k + 1]
    BY <1>1, <2>1
  <2> QED BY <2>1, <2>2
<1> HIDE DEF T
<1>4. Nat \subseteq T
  BY <1>2, <1>3, CountingUp
<1> QED BY <1>4 DEF T, A, B

\* Sums of differences.
LEMMA SumsTelescope ==
  ASSUME NEW f, NEW g, NEW n \in Nat, f[0] = 0, \A k \in 0..n : f[k] \in Int,
         \A k \in 1..n : g[k] = f[k] - f[k - 1]
  PROVE  \A k \in 0..n : Sums(g, n)[k] = f[k]
<1> DEFINE A == Sums(g, n)
           T == {k \in Nat : k <= n => A[k] = f[k]}
<1>1. A[0] = 0 /\ \A k \in 1..n : A[k] = A[k - 1] + g[k]
  BY SumsSteps
<1> HIDE DEF A
<1>2. 0 \in T
  BY <1>1
<1>3. ASSUME NEW k \in Nat, k \in T PROVE k + 1 \in T
  <2> SUFFICES ASSUME k + 1 <= n PROVE A[k + 1] = f[k + 1]
    OBVIOUS
  <2>1. k + 1 \in 1..n /\ k + 1 \in 0..n /\ k \in 0..n /\ (k + 1) - 1 = k /\ A[k] = f[k]
    BY <1>3
  <2>2. A[k + 1] = f[k] + g[k + 1] /\ g[k + 1] = f[k + 1] - f[k] /\ f[k] \in Int /\ f[k + 1] \in Int
    BY <1>1, <2>1
  <2> QED BY <2>2
<1> HIDE DEF T
<1>4. Nat \subseteq T
  BY <1>2, <1>3, CountingUp
<1> QED BY <1>4 DEF T, A

\* A bound of every term by two others is one of the sums.
LEMMA SumsBounded ==
  ASSUME NEW f, NEW g, NEW h, NEW n \in Nat,
         \A k \in 1..n : f[k] \in Int /\ g[k] \in Int /\ h[k] \in Int /\ f[k] <= g[k] + h[k]
  PROVE  Sums(f, n)[n] <= Sums(g, n)[n] + Sums(h, n)[n]
<1> DEFINE A == Sums(f, n)
           B == Sums(g, n)
           C == Sums(h, n)
           T == {k \in Nat : k <= n => A[k] <= B[k] + C[k]}
<1>1. /\ A[0] = 0 /\ \A k \in 1..n : A[k] = A[k - 1] + f[k]
      /\ B[0] = 0 /\ \A k \in 1..n : B[k] = B[k - 1] + g[k]
      /\ C[0] = 0 /\ \A k \in 1..n : C[k] = C[k - 1] + h[k]
  BY SumsSteps
<1>2. \A k \in 0..n : A[k] \in Int /\ B[k] \in Int /\ C[k] \in Int
  BY SumsTyped
<1> HIDE DEF A, B, C
<1>3. 0 \in T
  BY <1>1
<1>4. ASSUME NEW k \in Nat, k \in T PROVE k + 1 \in T
  <2> SUFFICES ASSUME k + 1 <= n PROVE A[k + 1] <= B[k + 1] + C[k + 1]
    OBVIOUS
  <2>1. k \in 0..n /\ k + 1 \in 1..n /\ (k + 1) - 1 = k /\ A[k] <= B[k] + C[k]
    BY <1>4
  <2>2. A[k + 1] = A[k] + f[k + 1] /\ B[k + 1] = B[k] + g[k + 1] /\ C[k + 1] = C[k] + h[k + 1]
    BY <1>1, <2>1
  <2>3. A[k] \in Int /\ B[k] \in Int /\ C[k] \in Int
    BY <1>2, <2>1
  <2>4. f[k + 1] \in Int /\ g[k + 1] \in Int /\ h[k + 1] \in Int /\ f[k + 1] <= g[k + 1] + h[k + 1]
    BY <2>1
  <2> QED BY <2>1, <2>2, <2>3, <2>4
<1> HIDE DEF T
<1>5. Nat \subseteq T
  BY <1>3, <1>4, CountingUp
<1> QED BY <1>5 DEF T, A, B, C

\* A term that is the same each time.
LEMMA SumsOfConstant ==
  ASSUME NEW f, NEW n \in Nat, NEW x \in Nat, \A k \in 1..n : f[k] = x
  PROVE  Sums(f, n)[n] = n * x /\ \A k \in 0..n : Sums(f, n)[k] = k * x
<1> DEFINE A == Sums(f, n)
           T == {k \in Nat : k <= n => A[k] = k * x}
<1>1. A[0] = 0 /\ \A k \in 1..n : A[k] = A[k - 1] + f[k]
  BY SumsSteps
<1> HIDE DEF A
<1>2. 0 \in T
  BY <1>1
<1>3. ASSUME NEW k \in Nat, k \in T PROVE k + 1 \in T
  <2> SUFFICES ASSUME k + 1 <= n PROVE A[k + 1] = (k + 1) * x
    OBVIOUS
  <2>1. k + 1 \in 1..n /\ (k + 1) - 1 = k /\ A[k] = k * x
    BY <1>3
  <2>2. A[k + 1] = A[k] + x
    BY <1>1, <2>1
  <2>3. (k + 1) * x = k * x + x
    OBVIOUS
  <2> QED BY <2>1, <2>2, <2>3
<1> HIDE DEF T
<1>4. Nat \subseteq T
  BY <1>2, <1>3, CountingUp
<1> QED BY <1>4 DEF T, A

\* Terms that are 4 for the members of a set count them.
LEMMA SumsCount ==
  ASSUME NEW f, NEW n \in Nat, NEW N \in SUBSET (1..n), \A k \in 1..n : f[k] = IF k \in N THEN 4 ELSE 0
  PROVE  Sums(f, n)[n] = 4 * Cardinality(N)
<1> DEFINE A == Sums(f, n)
           T == {k \in Nat : k <= n => A[k] = 4 * Cardinality(N \cap (1..k))}
<1>1. A[0] = 0 /\ \A k \in 1..n : A[k] = A[k - 1] + f[k]
  BY SumsSteps
<1> HIDE DEF A
<1>2. 0 \in T
  <2>1. N \cap (1..0) = {}
    OBVIOUS
  <2>2. Cardinality(N \cap (1..0)) = 0
    BY <2>1, FS_EmptySet
  <2> QED BY <1>1, <2>2
<1>3. ASSUME NEW k \in Nat, k \in T PROVE k + 1 \in T
  <2> SUFFICES ASSUME k + 1 <= n PROVE A[k + 1] = 4 * Cardinality(N \cap (1..(k + 1)))
    OBVIOUS
  <2> DEFINE M == N \cap (1..k)
  <2>1. k + 1 \in 1..n /\ (k + 1) - 1 = k /\ A[k] = 4 * Cardinality(M)
    BY <1>3
  <2>2. IsFiniteSet(M) /\ Cardinality(M) \in Nat
    <3>1. IsFiniteSet(1..k)
      BY FS_Interval
    <3>2. M \subseteq 1..k
      OBVIOUS
    <3>3. IsFiniteSet(M)
      BY <3>1, <3>2, FS_Subset
    <3> QED BY <3>3, FS_CardinalityType
  <2>3. A[k + 1] = A[k] + f[k + 1]
    BY <1>1, <2>1
  <2>4. CASE k + 1 \in N
    <3>1. N \cap (1..(k + 1)) = M \cup {k + 1} /\ k + 1 \notin M
      BY <2>4
    <3>2. Cardinality(M \cup {k + 1}) = Cardinality(M) + 1
      BY <2>2, <3>1, FS_AddElement
    <3> HIDE DEF M
    <3> QED BY <2>1, <2>2, <2>3, <2>4, <3>1, <3>2, SMTT(30)
  <2>5. CASE k + 1 \notin N
    <3>1. N \cap (1..(k + 1)) = M
      BY <2>5
    <3>2. f[k + 1] = 0
      BY <2>1, <2>5
    <3> HIDE DEF M
    <3>3. A[k + 1] = A[k]
      BY <2>1, <2>2, <2>3, <3>2
    <3> QED BY <2>1, <3>1, <3>3
  <2> QED BY <2>4, <2>5
<1> HIDE DEF T
<1>4. Nat \subseteq T
  BY <1>2, <1>3, CountingUp
<1>5. N \cap (1..n) = N
  OBVIOUS
<1> QED BY <1>4, <1>5 DEF T, A

\* Concatenation, by a name that keeps the provers from expanding it.
Joined(s, t) == s \o t

LEMMA JoinExists ==
  ASSUME NEW seqs, NEW n \in Nat
  PROVE  \E g : g = [i \in 1..n |-> IF i = 1 THEN seqs[i] ELSE Joined(g[i - 1], seqs[i])]
<1> DEFINE T == {m \in Nat : \E g : g = [i \in 1..m |-> IF i = 1 THEN seqs[i] ELSE Joined(g[i - 1], seqs[i])]}
<1>1. 0 \in T
  <2> DEFINE g == [i \in 1..0 |-> 0]
  <2>1. g = [i \in 1..0 |-> IF i = 1 THEN seqs[i] ELSE Joined(g[i - 1], seqs[i])]
    OBVIOUS
  <2> QED BY <2>1
<1>2. ASSUME NEW m \in Nat, m \in T PROVE m + 1 \in T
  <2>1. PICK g : g = [i \in 1..m |-> IF i = 1 THEN seqs[i] ELSE Joined(g[i - 1], seqs[i])]
    BY <1>2
  <2> DEFINE h == [i \in 1..(m + 1) |-> IF i <= m THEN g[i] ELSE IF i = 1 THEN seqs[i] ELSE Joined(g[m], seqs[i])]
  <2>2. ASSUME NEW i \in 1..(m + 1) PROVE h[i] = IF i = 1 THEN seqs[i] ELSE Joined(h[i - 1], seqs[i])
    <3>1. CASE i \in 1..m
      <4>1. g[i] = IF i = 1 THEN seqs[i] ELSE Joined(g[i - 1], seqs[i])
        BY <2>1, <3>1
      <4>2. h[i] = g[i] /\ (i # 1 => h[i - 1] = g[i - 1])
        BY <3>1
      <4> QED BY <4>1, <4>2
    <3>2. CASE i = m + 1
      <4>1. h[i] = IF i = 1 THEN seqs[i] ELSE Joined(g[m], seqs[i])
        BY <3>2
      <4>2. i # 1 => h[i - 1] = g[m]
        BY <3>2
      <4> QED BY <4>1, <4>2
    <3> QED BY <3>1, <3>2
  <2>3. h = [i \in 1..(m + 1) |-> IF i = 1 THEN seqs[i] ELSE Joined(h[i - 1], seqs[i])]
    BY <2>2
  <2>4. \E u : u = [i \in 1..(m + 1) |-> IF i = 1 THEN seqs[i] ELSE Joined(u[i - 1], seqs[i])]
    BY <2>3
  <2> QED BY <2>4
<1> HIDE DEF T
<1>3. Nat \subseteq T
  BY <1>1, <1>2, CountingUp
<1> QED BY <1>3 DEF T

LEMMA JoinedAt ==
  ASSUME NEW E, NEW s \in Seq(E), NEW t \in Seq(E)
  PROVE  /\ Joined(s, t) \in Seq(E) /\ Len(Joined(s, t)) = Len(s) + Len(t)
         /\ \A i \in 1..Len(s) : Joined(s, t)[i] = s[i]
         /\ \A i \in 1..Len(t) : Joined(s, t)[Len(s) + i] = t[i]
<1>1. /\ s \o t \in Seq(E) /\ Len(s \o t) = Len(s) + Len(t)
      /\ \A i \in 1..(Len(s) + Len(t)) : (s \o t)[i] = IF i <= Len(s) THEN s[i] ELSE t[i - Len(s)]
  BY ConcatProperties
<1>2. Len(s) \in Nat /\ Len(t) \in Nat
  OBVIOUS
<1>3. ASSUME NEW i \in 1..Len(s) PROVE (s \o t)[i] = s[i]
  <2>1. i \in 1..(Len(s) + Len(t)) /\ i <= Len(s)
    BY <1>2
  <2> QED BY <1>1, <2>1
<1>4. ASSUME NEW i \in 1..Len(t) PROVE (s \o t)[Len(s) + i] = t[i]
  <2>1. Len(s) + i \in 1..(Len(s) + Len(t)) /\ ~(Len(s) + i <= Len(s)) /\ (Len(s) + i) - Len(s) = i
    BY <1>2
  <2> QED BY <1>1, <2>1
<1> QED BY <1>1, <1>3, <1>4 DEF Joined

LEMMA JoinedLength ==
  ASSUME NEW s \in Seq(Int), NEW t \in Seq(Int)
  PROVE  Joined(s, t) \in Seq(Int) /\ Len(Joined(s, t)) = Len(s) + Len(t)
BY ConcatProperties DEF Joined

\* A concatenation: its length is the sum of the lengths, and each part begins where the
\* ones before it end.
Pieces(E, n, seqs, size) == seqs \in [1..n -> Seq(E)] /\ \A k \in 1..n : size[k] = Len(seqs[k])

IsConcat(s, E, n, seqs, size) ==
  /\ s \in Seq(E) /\ Len(s) = Sums(size, n)[n]
  /\ \A k \in 1..n : \A i \in 1..Len(seqs[k]) : s[Sums(size, n)[k - 1] + i] = seqs[k][i]

LEMMA FlattenAt ==
  ASSUME NEW E, NEW n \in Nat, NEW seqs, NEW size, Pieces(E, n, seqs, size)
  PROVE  IsConcat(FlattenSeq(seqs), E, n, seqs, size)
<1> USE DEF Pieces
<1> DEFINE A == Sums(size, n)
<1>1. /\ A[0] = 0 /\ \A k \in 1..n : k - 1 \in 0..n /\ A[k] = A[k - 1] + size[k]
      /\ \A k \in 0..n : A[k] \in Nat
  <2>1. \A k \in 1..n : size[k] \in Nat
    OBVIOUS
  <2> QED BY <2>1, SumsGrow
<1>2. Len(seqs) = n
  OBVIOUS
<1>3. CASE n = 0
  <2>1. seqs = <<>>
    BY <1>3
  <2>2. FlattenSeq(seqs) = <<>>
    BY <1>2, <1>3, <2>1 DEF FlattenSeq
  <2> QED BY <1>1, <1>3, <2>2 DEF IsConcat
<1>4. CASE n # 0
  <2> DEFINE F == CHOOSE g : g = [i \in 1..n |-> IF i = 1 THEN seqs[i] ELSE Joined(g[i - 1], seqs[i])]
             Good(m) == /\ F[m] \in Seq(E) /\ Len(F[m]) = A[m]
                        /\ \A k \in 1..m : \A i \in 1..Len(seqs[k]) : F[m][A[k - 1] + i] = seqs[k][i]
             T == {m \in Nat : m + 1 <= n => Good(m + 1)}
  <2>1. FlattenSeq(seqs) = F[n]
    BY <1>2, <1>4 DEF FlattenSeq, Joined
  <2>2. F = [i \in 1..n |-> IF i = 1 THEN seqs[i] ELSE Joined(F[i - 1], seqs[i])]
    BY JoinExists
  <2> HIDE DEF F, A
  <2>3. F[1] = seqs[1] /\ \A i \in 2..n : F[i] = Joined(F[i - 1], seqs[i])
    BY <1>4, <2>2
  <2>4. 0 \in T
    <3>1. 1 \in 1..n /\ seqs[1] \in Seq(E) /\ Len(seqs[1]) \in Nat
      BY <1>4
    <3>2. A[1] = A[0] + size[1] /\ size[1] = Len(seqs[1]) /\ 1 - 1 = 0
      BY <1>1, <3>1
    <3>3. A[1] = Len(seqs[1])
      BY <1>1, <3>1, <3>2
    <3>4. ASSUME NEW k \in 1..1, NEW i \in 1..Len(seqs[k]) PROVE F[1][A[k - 1] + i] = seqs[k][i]
      <4>1. k = 1 /\ A[k - 1] + i = i
        BY <1>1, <3>1
      <4> QED BY <2>3, <4>1
    <3>5. Good(1)
      BY <2>3, <3>1, <3>3, <3>4
    <3> QED BY <3>5
  <2>5. ASSUME NEW m \in Nat, m \in T PROVE m + 1 \in T
    <3> SUFFICES ASSUME (m + 1) + 1 <= n PROVE Good((m + 1) + 1)
      OBVIOUS
    <3> DEFINE j == m + 1
    <3>1. j \in Nat /\ j \in 0..n /\ j + 1 \in 2..n /\ j + 1 \in 1..n /\ (j + 1) - 1 = j
      OBVIOUS
    <3>2. Good(j)
      BY <2>5
    <3> HIDE DEF j
    <3>3. F[j + 1] = Joined(F[j], seqs[j + 1]) /\ seqs[j + 1] \in Seq(E)
      BY <2>3, <3>1
    <3>4. A[j + 1] = A[j] + Len(seqs[j + 1]) /\ A[j] \in Nat
      BY <1>1, <3>1
    <3>5. /\ F[j + 1] \in Seq(E) /\ Len(F[j + 1]) = A[j + 1]
          /\ \A i \in 1..A[j] : F[j + 1][i] = F[j][i]
          /\ \A i \in 1..Len(seqs[j + 1]) : F[j + 1][A[j] + i] = seqs[j + 1][i]
      <4>1. F[j] \in Seq(E) /\ Len(F[j]) = A[j]
        BY <3>2
      <4> DEFINE s == F[j]
                 t == seqs[j + 1]
      <4>2. s \in Seq(E) /\ t \in Seq(E) /\ F[j + 1] = Joined(s, t) /\ Len(s) = A[j] /\ A[j + 1] = Len(s) + Len(t)
        BY <3>3, <3>4, <4>1
      <4> HIDE DEF s, t
      <4>3. /\ Joined(s, t) \in Seq(E) /\ Len(Joined(s, t)) = Len(s) + Len(t)
            /\ \A i \in 1..Len(s) : Joined(s, t)[i] = s[i]
            /\ \A i \in 1..Len(t) : Joined(s, t)[Len(s) + i] = t[i]
        <5>1. s \in Seq(E) /\ t \in Seq(E)
          BY <4>2
        <5>2. Joined(s, t) \in Seq(E) /\ Len(Joined(s, t)) = Len(s) + Len(t)
          BY <5>1, JoinedAt, Zenon
        <5>3. \A i \in 1..Len(s) : Joined(s, t)[i] = s[i]
          BY <5>1, JoinedAt, Zenon
        <5>4. \A i \in 1..Len(t) : Joined(s, t)[Len(s) + i] = t[i]
          BY <5>1, JoinedAt
        <5> QED BY <5>2, <5>3, <5>4
      <4>4. /\ F[j + 1] \in Seq(E) /\ Len(F[j + 1]) = A[j + 1]
            /\ \A i \in 1..A[j] : F[j + 1][i] = s[i]
            /\ \A i \in 1..Len(t) : F[j + 1][A[j] + i] = t[i]
        BY <4>2, <4>3, Zenon
      <4> QED BY <4>4, Zenon DEF s, t
    <3>6. ASSUME NEW k \in 1..(j + 1), NEW i \in 1..Len(seqs[k]) PROVE F[j + 1][A[k - 1] + i] = seqs[k][i]
      <4>1. CASE k \in 1..j
        <5>1. F[j][A[k - 1] + i] = seqs[k][i]
          <6>1. \A q \in 1..j : \A x \in 1..Len(seqs[q]) : F[j][A[q - 1] + x] = seqs[q][x]
            BY <3>2
          <6> HIDE DEF Good
          <6>2. \A x \in 1..Len(seqs[k]) : F[j][A[k - 1] + x] = seqs[k][x]
            BY <4>1, <6>1
          <6> QED BY <6>2
        <5>2. A[k - 1] + i \in 1..A[j]
          <6>1. k \in 1..n /\ k - 1 \in 0..n /\ k \in 0..n /\ A[k] = A[k - 1] + Len(seqs[k]) /\ A[k - 1] \in Nat
            <7>1. k \in 1..n /\ k - 1 \in 0..n /\ k \in 0..n
              BY <3>1, <4>1
            <7>2. A[k] = A[k - 1] + size[k] /\ size[k] = Len(seqs[k]) /\ A[k - 1] \in Nat
              BY <1>1, <7>1
            <7> QED BY <7>1, <7>2
          <6>2. A[k] <= A[j]
            <7>1. Sums(size, j)[k] <= Sums(size, j)[j]
              <8>1. \A q \in 1..j : size[q] \in Nat
                BY <3>1
              <8>2. k \in 0..j
                BY <4>1, <3>1
              <8> QED BY <3>1, <8>1, <8>2, SumsGrow
            <7>2. Sums(size, j)[j] = A[j]
              BY <3>1, SumsAgree DEF A
            <7>3. Sums(size, j)[k] = A[k]
              <8>1. k \in Nat /\ k <= j /\ k <= n /\ j <= n
                BY <3>1, <4>1
              <8>2. Sums(size, k)[k] = Sums(size, j)[k]
                BY <3>1, <8>1, SumsAgree
              <8>3. Sums(size, k)[k] = Sums(size, n)[k]
                BY <8>1, SumsAgree
              <8> QED BY <8>2, <8>3 DEF A
            <7> QED BY <7>1, <7>2, <7>3
          <6>3. Len(seqs[k]) \in Nat /\ A[k] \in Nat
            BY <1>1, <6>1
          <6> QED BY <3>4, <6>1, <6>2, <6>3, SMTT(30)
        <5> QED BY <3>5, <5>1, <5>2
      <4>2. CASE k = j + 1
        <5>1. k - 1 = j
          BY <3>1, <4>2
        <5> QED BY <3>5, <4>2, <5>1
      <4>3. k \in 1..j \/ k = j + 1
        BY <3>1
      <4> QED BY <4>1, <4>2, <4>3
    <3>7. Good(j + 1)
      BY <3>5, <3>6
    <3> QED BY <3>7 DEF j
  <2> HIDE DEF T
  <2>6. Nat \subseteq T
    BY <2>4, <2>5, CountingUp
  <2>7. n - 1 \in Nat /\ (n - 1) + 1 = n
    BY <1>4
  <2>8. Good(n)
    <3>1. n - 1 \in T
      BY <2>6, <2>7
    <3> HIDE DEF Good
    <3> QED BY <2>7, <3>1 DEF T
  <2> QED BY <2>1, <2>8 DEF A, IsConcat
<1> QED BY <1>3, <1>4

LEMMA FlattenLength ==
  ASSUME NEW seqs, NEW n \in Nat, seqs \in [1..n -> Seq(Int)],
         NEW size, \A k \in 1..n : size[k] = Len(seqs[k])
  PROVE  /\ FlattenSeq(seqs) \in Seq(Int)
         /\ Len(FlattenSeq(seqs)) = Sums(size, n)[n]
<1>1. Pieces(Int, n, seqs, size)
  BY DEF Pieces
<1>2. IsConcat(FlattenSeq(seqs), Int, n, seqs, size)
  BY <1>1, FlattenAt, Zenon
<1> QED BY <1>2 DEF IsConcat

LEMMA FlattenTyped ==
  ASSUME NEW seqs, NEW n \in Nat, seqs \in [1..n -> Seq(Int)] PROVE FlattenSeq(seqs) \in Seq(Int)
<1> DEFINE size == [k \in 1..n |-> Len(seqs[k])]
<1>1. \A k \in 1..n : size[k] = Len(seqs[k])
  OBVIOUS
<1> HIDE DEF size
<1> QED BY <1>1, FlattenLength, Zenon

-----------------------------------------------------------------------------
(* The size of what is encoded. *)

Cells(oid) == [null : BOOLEAN, v : IF oid = Varchar THEN Seq(Int) ELSE Int]

LEMMA ZerosLength == ASSUME NEW n \in Nat PROVE Zeros(n) \in Seq(Int) /\ Len(Zeros(n)) = n
BY DEF Zeros

LEMMA SizedLength == ASSUME NEW s \in Seq(Int) PROVE Sized(s) \in Seq(Int) /\ Len(Sized(s)) = 1 + Len(s)
<1>1. <<Len(s)>> \in Seq(Int) /\ Len(<<Len(s)>>) = 1
  OBVIOUS
<1> QED BY <1>1, ConcatProperties DEF Sized

LEMMA AreaLength ==
  ASSUME NEW rs \in Seq(Cells(Varchar))
  PROVE  /\ Area(rs) \in Seq(Int)
         /\ Len(Area(rs)) = Sums([r \in DOMAIN rs |-> IF IsBig(rs[r]) THEN Len(rs[r].v) ELSE 0], Len(rs))[Len(rs)]
<1> DEFINE n == Len(rs)
           seqs == [r \in DOMAIN rs |-> IF IsBig(rs[r]) THEN rs[r].v ELSE <<>>]
           size == [r \in DOMAIN rs |-> IF IsBig(rs[r]) THEN Len(rs[r].v) ELSE 0]
<1>1. n \in Nat /\ DOMAIN rs = 1..n
  OBVIOUS
<1>2. ASSUME NEW r \in 1..n PROVE rs[r].v \in Seq(Int)
  <2>1. rs[r] \in Cells(Varchar)
    BY <1>1
  <2> QED BY <2>1 DEF Cells
<1>3. seqs \in [1..n -> Seq(Int)]
  BY <1>1, <1>2
<1>4. \A r \in 1..n : size[r] = Len(seqs[r])
  BY <1>1, <1>2
<1> HIDE DEF seqs, size, n
<1>5. FlattenSeq(seqs) \in Seq(Int) /\ Len(FlattenSeq(seqs)) = Sums(size, n)[n]
  BY <1>1, <1>3, <1>4, FlattenLength
<1> QED BY <1>5 DEF Area, seqs, size, n

LEMMA VarlenaLength ==
  ASSUME NEW rs \in Seq(Cells(Varchar)), NEW r \in 1..Len(rs)
  PROVE  Varlena(rs, r) \in Seq(Int) /\ Len(Varlena(rs, r)) = VarlenaSize
<1> DEFINE text == rs[r].v
<1>1. rs[r] \in Cells(Varchar) /\ text \in Seq(Int) /\ Len(text) \in Nat
  <2>1. rs[r] \in Cells(Varchar)
    OBVIOUS
  <2> QED BY <2>1 DEF Cells
<1>2. VarlenaSize \in Nat /\ VarlenaSize >= 3
  BY SizesTyped
<1>3. CASE rs[r].null
  BY <1>2, <1>3, ZerosLength DEF Varlena
<1>4. CASE ~rs[r].null /\ IsBig(rs[r])
  <2> DEFINE at == Len(Area(SubSeq(rs, 1, r - 1)))
             head == <<BigMarker, at, Len(text)>>
             rest == Zeros(VarlenaSize - 3)
  <2>1. at \in Nat
    <3>1. SubSeq(rs, 1, r - 1) \in Seq(Cells(Varchar))
      BY SubSeqProperties
    <3>2. Area(SubSeq(rs, 1, r - 1)) \in Seq(Int)
      BY <3>1, AreaLength
    <3> QED BY <3>2
  <2> HIDE DEF at
  <2>2. head \in Seq(Int) /\ Len(head) = 3
    BY <1>1, <2>1 DEF BigMarker
  <2>3. rest \in Seq(Int) /\ Len(rest) = VarlenaSize - 3
    BY <1>2, ZerosLength
  <2>4. Varlena(rs, r) = head \o rest
    BY <1>4 DEF Varlena, at
  <2> HIDE DEF head, rest
  <2>5. head \o rest \in Seq(Int) /\ Len(head \o rest) = Len(head) + Len(rest)
    BY <2>2, <2>3, ConcatProperties
  <2> QED BY <1>2, <2>2, <2>3, <2>4, <2>5
<1>5. CASE ~rs[r].null /\ ~IsBig(rs[r])
  <2> DEFINE head == <<Len(text)>>
             rest == Zeros(InlineMax - Len(text))
  <2>1. InlineMax - Len(text) \in Nat
    BY <1>1, <1>2, <1>5 DEF IsBig, InlineMax
  <2>2. head \in Seq(Int) /\ Len(head) = 1
    BY <1>1
  <2>3. rest \in Seq(Int) /\ Len(rest) = InlineMax - Len(text)
    BY <2>1, ZerosLength
  <2>4. Varlena(rs, r) = head \o text \o rest
    BY <1>5 DEF Varlena
  <2> HIDE DEF head, rest, text
  <2>5. head \o text \in Seq(Int) /\ Len(head \o text) = 1 + Len(text)
    BY <1>1, <2>2, ConcatProperties, ZenonT(30)
  <2>6. head \o text \o rest \in Seq(Int) /\ Len(head \o text \o rest) = Len(head \o text) + Len(rest)
    BY <2>3, <2>5, ConcatProperties
  <2> QED BY <1>1, <1>2, <2>3, <2>4, <2>5, <2>6 DEF InlineMax
<1> QED BY <1>3, <1>4, <1>5

LEMMA DataLength ==
  ASSUME NEW oid \in Int, NEW rs \in Seq(Cells(oid))
  PROVE  Data(oid, rs) \in Seq(Int) /\ Len(Data(oid, rs)) = Len(rs) * TypeSize(oid)
<1> DEFINE n == Len(rs)
<1>1. n \in Nat /\ DOMAIN rs = 1..n
  OBVIOUS
<1>2. CASE oid = Varchar
  <2> DEFINE seqs == [r \in DOMAIN rs |-> Varlena(rs, r)]
             size == [r \in 1..n |-> VarlenaSize]
  <2>1. \A r \in 1..n : Varlena(rs, r) \in Seq(Int) /\ Len(Varlena(rs, r)) = VarlenaSize
    BY <1>2, VarlenaLength
  <2>2. seqs \in [1..n -> Seq(Int)] /\ \A r \in 1..n : size[r] = Len(seqs[r])
    BY <1>1, <2>1
  <2>3. \A r \in 1..n : size[r] = VarlenaSize
    OBVIOUS
  <2>4. Data(oid, rs) = FlattenSeq(seqs) /\ TypeSize(oid) = VarlenaSize
    BY <1>2 DEF Data, TypeSize
  <2> HIDE DEF seqs, size, n
  <2>5. FlattenSeq(seqs) \in Seq(Int) /\ Len(FlattenSeq(seqs)) = Sums(size, n)[n]
    BY <1>1, <2>2, FlattenLength
  <2>6. VarlenaSize \in Nat
    BY SizesTyped
  <2>7. Sums(size, n)[n] = n * VarlenaSize
    BY <1>1, <2>3, <2>6, SumsOfConstant
  <2> QED BY <2>4, <2>5, <2>7 DEF n
<1>3. CASE oid # Varchar
  <2>1. ASSUME NEW r \in 1..n PROVE rs[r].v \in Int
    <3>1. rs[r] \in Cells(oid)
      BY <1>1
    <3> QED BY <1>3, <3>1 DEF Cells
  <2>2. Data(oid, rs) = [r \in 1..n |-> IF rs[r].null THEN 0 ELSE rs[r].v + Epoch] /\ TypeSize(oid) = 1
    BY <1>1, <1>3 DEF Data, TypeSize
  <2>3. Epoch \in Int
    BY CodecAssumption
  <2> DEFINE value == [r \in 1..n |-> IF rs[r].null THEN 0 ELSE rs[r].v + Epoch]
  <2>4. \A r \in 1..n : (IF rs[r].null THEN 0 ELSE rs[r].v + Epoch) \in Int
    BY <2>1, <2>3
  <2>5. value \in [1..n -> Int]
    BY <2>4
  <2> HIDE DEF value, n
  <2>6. Data(oid, rs) = value /\ Len(rs) * TypeSize(oid) = n
    <3>1. Data(oid, rs) = value
      BY <2>2 DEF value
    <3>2. n * TypeSize(oid) = n
      BY <1>1, <2>2
    <3> QED BY <3>1, <3>2 DEF n
  <2>7. value \in Seq(Int) /\ Len(value) = n
    BY <1>1, <2>5
  <2> QED BY <2>6, <2>7
<1> QED BY <1>2, <1>3

\* The recursive definition of the values of a word's bits has a solution.
LEMMA BitValueExists ==
  ASSUME NEW n \in Nat
  PROVE  \E g : g = [b \in 0..n |-> IF b = 0 THEN 1 ELSE 2 * g[b - 1]]
<1> DEFINE T == {m \in Nat : \E g : g = [b \in 0..m |-> IF b = 0 THEN 1 ELSE 2 * g[b - 1]]}
<1>1. 0 \in T
  <2> DEFINE g == [b \in 0..0 |-> 1]
  <2>1. g = [b \in 0..0 |-> IF b = 0 THEN 1 ELSE 2 * g[b - 1]]
    OBVIOUS
  <2> QED BY <2>1
<1>2. ASSUME NEW m \in Nat, m \in T PROVE m + 1 \in T
  <2>1. PICK g : g = [b \in 0..m |-> IF b = 0 THEN 1 ELSE 2 * g[b - 1]]
    BY <1>2
  <2> DEFINE h == [b \in 0..(m + 1) |-> IF b <= m THEN g[b] ELSE 2 * g[m]]
  <2>2. ASSUME NEW b \in 0..(m + 1) PROVE h[b] = IF b = 0 THEN 1 ELSE 2 * h[b - 1]
    <3>1. CASE b = 0
      BY <2>1, <3>1
    <3>2. CASE b \in 1..m
      <4>1. g[b] = 2 * g[b - 1]
        BY <2>1, <3>2
      <4>2. h[b] = g[b] /\ h[b - 1] = g[b - 1]
        BY <3>2
      <4> QED BY <3>2, <4>1, <4>2
    <3>3. CASE b = m + 1
      <4>1. h[b] = 2 * g[m] /\ h[b - 1] = g[m]
        BY <3>3
      <4> QED BY <3>3, <4>1
    <3> QED BY <3>1, <3>2, <3>3
  <2>3. h = [b \in 0..(m + 1) |-> IF b = 0 THEN 1 ELSE 2 * h[b - 1]]
    BY <2>2
  <2>4. \E u : u = [b \in 0..(m + 1) |-> IF b = 0 THEN 1 ELSE 2 * u[b - 1]]
    BY <2>3
  <2>5. m + 1 \in Nat
    OBVIOUS
  <2> QED BY <2>4, <2>5, Zenon
<1> HIDE DEF T
<1>3. Nat \subseteq T
  BY <1>1, <1>2, CountingUp
<1> QED BY <1>3 DEF T

LEMMA BitValueSteps ==
  /\ WordBits \in Nat \ {0} /\ BitValue[0] = 1
  /\ \A b \in 1..WordBits : BitValue[b] = 2 * BitValue[b - 1]
  /\ \A b \in 0..WordBits : BitValue[b] \in Nat \ {0}
<1>1. WordBits \in Nat \ {0}
  BY CodecAssumption
<1>2. BitValue = [b \in 0..WordBits |-> IF b = 0 THEN 1 ELSE 2 * BitValue[b - 1]]
  <2>1. \E g : g = [b \in 0..WordBits |-> IF b = 0 THEN 1 ELSE 2 * g[b - 1]]
    BY <1>1, BitValueExists
  <2> QED BY <2>1 DEF BitValue
<1>3. BitValue[0] = 1 /\ \A b \in 1..WordBits : BitValue[b] = 2 * BitValue[b - 1]
  BY <1>1, <1>2
<1> DEFINE T == {b \in Nat : b <= WordBits => BitValue[b] \in Nat \ {0}}
<1>4. 0 \in T
  BY <1>3
<1>5. ASSUME NEW b \in Nat, b \in T PROVE b + 1 \in T
  <2> SUFFICES ASSUME b + 1 <= WordBits PROVE BitValue[b + 1] \in Nat \ {0}
    OBVIOUS
  <2>1. b + 1 \in 1..WordBits /\ (b + 1) - 1 = b /\ BitValue[b] \in Nat \ {0}
    BY <1>1, <1>5
  <2>2. BitValue[b + 1] = 2 * BitValue[b]
    BY <1>3, <2>1
  <2> QED BY <2>1, <2>2
<1> HIDE DEF T
<1>6. Nat \subseteq T
  BY <1>4, <1>5, CountingUp
<1>7. \A b \in 0..WordBits : BitValue[b] \in Nat \ {0}
  BY <1>1, <1>6 DEF T
<1> QED BY <1>1, <1>3, <1>7

LEMMA WordTyped == ASSUME NEW S, NEW w \in Int PROVE Word(S, w) \in Int
<1> DEFINE value == [b \in 1..WordBits |-> IF w * WordBits + b - 1 \in S THEN BitValue[b - 1] ELSE 0]
<1>1. WordBits \in Nat
  BY BitValueSteps
<1>2. \A b \in 1..WordBits : BitValue[b - 1] \in Int
  <2>1. \A b \in 1..WordBits : b - 1 \in 0..WordBits
    BY <1>1
  <2> QED BY <2>1, BitValueSteps
<1>3. \A b \in 1..WordBits : value[b] \in Int
  BY <1>2
<1> HIDE DEF value
<1>4. Sums(value, WordBits)[WordBits] \in Int
  BY <1>1, <1>3, SumsTyped
<1> QED BY <1>4 DEF Word, value

LEMMA WordsTyped == ASSUME NEW n \in Nat PROVE Words(n) \in Nat /\ Words(1) = 1
BY CodecAssumption DEF Words

LEMMA NullsLength ==
  ASSUME NEW C, NEW rs \in Seq(C)
  PROVE  /\ Nulls(rs) \in Seq(Int)
         /\ Len(Nulls(rs)) = IF NullRows(rs) # {} THEN 3 + Words(Len(rs)) ELSE 0
<1> DEFINE S == NullRows(rs)
           n == Len(rs)
           words == [w \in 1..Words(n) |-> Word(S, w - 1)]
           head == <<Cardinality(S), n, Words(n)>>
<1>1. n \in Nat /\ Words(n) \in Nat
  BY WordsTyped
<1>2. CASE S = {}
  BY <1>2 DEF Nulls
<1>3. CASE S # {}
  <2>1. Nulls(rs) = head \o words
    BY <1>3 DEF Nulls
  <2>2. \A w \in 1..Words(n) : Word(S, w - 1) \in Int
    BY <1>1, WordTyped
  <2>3. words \in Seq(Int) /\ Len(words) = Words(n)
    BY <1>1, <2>2
  <2>4. Cardinality(S) \in Nat
    <3>1. DOMAIN rs = 1..n
      OBVIOUS
    <3>2. S \subseteq 0..(n - 1)
      BY <1>1, <3>1 DEF NullRows
    <3>3. IsFiniteSet(0..(n - 1))
      BY <1>1, FS_Interval
    <3>4. IsFiniteSet(S)
      BY <3>2, <3>3, FS_Subset
    <3> QED BY <3>4, FS_CardinalityType
  <2>5. head \in Seq(Int) /\ Len(head) = 3
    BY <1>1, <2>4
  <2> HIDE DEF head, words, n
  <2>6. head \o words \in Seq(Int) /\ Len(head \o words) = Len(head) + Len(words)
    BY <2>3, <2>5, ConcatProperties
  <2> QED BY <1>3, <2>1, <2>3, <2>5, <2>6 DEF n
<1> QED BY <1>2, <1>3

AreaOf(oid, rs) == IF oid = Varchar THEN Area(rs) ELSE <<>>

LEMMA ColumnLength ==
  ASSUME NEW oid \in Int, NEW rs \in Seq(Cells(oid))
  PROVE  /\ EncodeColumn(oid, rs) \in Seq(Int)
         /\ Len(EncodeColumn(oid, rs)) = 7 + Len(rs) * TypeSize(oid) + Len(AreaOf(oid, rs)) + Len(Nulls(rs))
         /\ Len(AreaOf(oid, rs)) \in Nat /\ Len(Nulls(rs)) \in Nat /\ Len(rs) * TypeSize(oid) \in Nat
<1> DEFINE head == <<Flat, oid, Len(rs)>>
           d == Data(oid, rs)
           a == AreaOf(oid, rs)
           u == Nulls(rs)
           last == <<0>>
<1>1. head \in Seq(Int) /\ Len(head) = 3
  BY DEF Flat
<1>2. d \in Seq(Int) /\ Len(d) = Len(rs) * TypeSize(oid)
  BY DataLength
<1>3. a \in Seq(Int)
  <2>1. CASE oid = Varchar
    BY <2>1, AreaLength DEF AreaOf
  <2>2. CASE oid # Varchar
    BY <2>2 DEF AreaOf
  <2> QED BY <2>1, <2>2
<1>4. u \in Seq(Int)
  BY NullsLength
<1>5. last \in Seq(Int) /\ Len(last) = 1
  OBVIOUS
<1> DEFINE s1 == Joined(head, Sized(d))
           s2 == Joined(s1, Sized(a))
           s3 == Joined(s2, Sized(u))
           s4 == Joined(s3, last)
<1>6. EncodeColumn(oid, rs) = s4
  BY DEF EncodeColumn, AreaOf, Joined
<1> HIDE DEF head, d, a, u, last
<1>7. Len(d) \in Nat /\ Len(a) \in Nat /\ Len(u) \in Nat
  BY <1>2, <1>3, <1>4
<1>8. /\ Sized(d) \in Seq(Int) /\ Len(Sized(d)) = 1 + Len(d)
      /\ Sized(a) \in Seq(Int) /\ Len(Sized(a)) = 1 + Len(a)
      /\ Sized(u) \in Seq(Int) /\ Len(Sized(u)) = 1 + Len(u)
  BY <1>2, <1>3, <1>4, SizedLength
<1>9. s1 \in Seq(Int) /\ Len(s1) = Len(head) + Len(Sized(d))
  BY <1>1, <1>8, JoinedLength
<1> HIDE DEF s1
<1>10. s2 \in Seq(Int) /\ Len(s2) = Len(s1) + Len(Sized(a))
  BY <1>8, <1>9, JoinedLength
<1> HIDE DEF s2
<1>11. s3 \in Seq(Int) /\ Len(s3) = Len(s2) + Len(Sized(u))
  BY <1>8, <1>10, JoinedLength
<1> HIDE DEF s3
<1>12. s4 \in Seq(Int) /\ Len(s4) = Len(s3) + Len(last)
  BY <1>5, <1>11, JoinedLength
<1> HIDE DEF s4
<1>13. Len(s4) = 7 + Len(d) + Len(a) + Len(u)
  BY <1>1, <1>5, <1>7, <1>8, <1>9, <1>10, <1>11, <1>12
<1> QED BY <1>2, <1>6, <1>7, <1>12, <1>13 DEF a, u

\* A text beneath a null is counted by the estimate and not encoded; without nulls the two agree.
LEMMA AreaEstimated ==
  ASSUME NEW oid \in Int, NEW rs \in Seq(Cells(oid))
  PROVE  /\ LongTexts(oid, rs) \in Nat /\ Len(AreaOf(oid, rs)) <= LongTexts(oid, rs)
         /\ NullRows(rs) = {} => Len(AreaOf(oid, rs)) = LongTexts(oid, rs)
         /\ oid # Varchar => LongTexts(oid, rs) = 0
<1> DEFINE n == Len(rs)
           long == [r \in DOMAIN rs |-> IF oid = Varchar /\ Len(rs[r].v) > InlineMax THEN Len(rs[r].v) ELSE 0]
           big == [r \in DOMAIN rs |-> IF IsBig(rs[r]) THEN Len(rs[r].v) ELSE 0]
           zero == [r \in 1..n |-> 0]
<1>1. n \in Nat /\ DOMAIN rs = 1..n
  OBVIOUS
<1>2. LongTexts(oid, rs) = Sums(long, n)[n]
  BY DEF LongTexts
<1>3. CASE oid # Varchar
  <2>1. \A r \in 1..n : long[r] = 0
    BY <1>1, <1>3
  <2> HIDE DEF long
  <2>2. Sums(long, n)[n] = n * 0
    BY <1>1, <2>1, SumsOfConstant
  <2>3. n * 0 = 0
    BY <1>1
  <2>4. Len(AreaOf(oid, rs)) = 0
    BY <1>3 DEF AreaOf
  <2> QED BY <1>2, <1>3, <2>2, <2>3, <2>4
<1>4. CASE oid = Varchar
  <2>1. ASSUME NEW r \in 1..n
        PROVE  /\ rs[r].v \in Seq(Int) /\ Len(rs[r].v) \in Nat
               /\ long[r] \in Int /\ big[r] \in Int /\ zero[r] \in Int /\ big[r] <= long[r] + zero[r]
               /\ ~rs[r].null => big[r] = long[r]
    <3>1. rs[r] \in Cells(oid)
      BY <1>1
    <3>2. rs[r].v \in Seq(Int) /\ Len(rs[r].v) \in Nat
      BY <1>4, <3>1 DEF Cells
    <3>3. long[r] = (IF Len(rs[r].v) > InlineMax THEN Len(rs[r].v) ELSE 0)
      BY <1>1, <1>4
    <3>4. big[r] = (IF IsBig(rs[r]) THEN Len(rs[r].v) ELSE 0) /\ zero[r] = 0
      BY <1>1
    <3> QED BY <3>2, <3>3, <3>4 DEF IsBig
  <2>2. Len(AreaOf(oid, rs)) = Sums(big, n)[n]
    BY <1>4, AreaLength DEF AreaOf
  <2>3. NullRows(rs) = {} => big = long
    <3> SUFFICES ASSUME NullRows(rs) = {} PROVE big = long
      OBVIOUS
    <3>1. \A r \in 1..n : ~rs[r].null
      BY <1>1 DEF NullRows
    <3> QED BY <1>1, <2>1, <3>1
  <2>4. \A r \in 1..n : zero[r] = 0
    OBVIOUS
  <2> HIDE DEF long, big, zero, n
  <2>5. Sums(big, n)[n] <= Sums(long, n)[n] + Sums(zero, n)[n]
    BY <1>1, <2>1, SumsBounded
  <2>6. Sums(zero, n)[n] = n * 0 /\ n * 0 = 0
    BY <1>1, <2>4, SumsOfConstant
  <2>7. Sums(big, n)[n] \in Int /\ Sums(long, n)[n] \in Int
    <3>1. n \in 0..n /\ \A r \in 1..n : big[r] \in Int /\ long[r] \in Int
      BY <1>1, <2>1
    <3>2. \A r \in 0..n : Sums(big, n)[r] \in Int
      BY <1>1, <3>1, SumsTyped
    <3>3. \A r \in 0..n : Sums(long, n)[r] \in Int
      BY <1>1, <3>1, SumsTyped
    <3> QED BY <3>1, <3>2, <3>3
  <2>8. Len(AreaOf(oid, rs)) \in Nat
    BY ColumnLength
  <2> QED BY <1>2, <1>4, <2>2, <2>3, <2>5, <2>6, <2>7, <2>8
<1> QED BY <1>3, <1>4

\* encoded_size is enough for one column; the GPU counts neither texts nor nulls.
LEMMA ColumnSizeSuffices ==
  ASSUME NEW oid \in Int, NEW rs \in Seq(Cells(oid)), NEW onGpu \in BOOLEAN,
         onGpu => oid # Varchar /\ NullRows(rs) = {}
  PROVE  /\ ColumnSize(oid, rs, onGpu) \in Nat
         /\ 1 + Len(EncodeColumn(oid, rs)) <= ColumnSize(oid, rs, onGpu)
<1> DEFINE body == Len(rs) * TypeSize(oid)
           texts == LongTexts(oid, rs)
           nulls == IF NullRows(rs) # {} THEN 3 + Words(Len(rs)) ELSE 0
<1>1. ColumnSize(oid, rs, onGpu) = 8 + body + (IF onGpu THEN 0 ELSE texts + nulls)
  BY DEF ColumnSize
<1>2. /\ Len(EncodeColumn(oid, rs)) = 7 + body + Len(AreaOf(oid, rs)) + Len(Nulls(rs))
      /\ Len(AreaOf(oid, rs)) \in Nat /\ Len(Nulls(rs)) \in Nat /\ body \in Nat
  BY ColumnLength
<1>3. Len(Nulls(rs)) = nulls
  BY NullsLength
<1>4. texts \in Nat /\ Len(AreaOf(oid, rs)) <= texts /\ (oid # Varchar => texts = 0)
  BY AreaEstimated
<1>5. onGpu => texts = 0 /\ nulls = 0
  BY <1>4
<1> HIDE DEF body, texts, nulls
<1> QED BY <1>1, <1>2, <1>3, <1>4, <1>5

-----------------------------------------------------------------------------
(* Batches. *)

GoodBatch(b) ==
  /\ b.schema \in Seq([oid : Int, required : BOOLEAN]) /\ Len(b.schema) > 0
  /\ DOMAIN b.columns = DOMAIN b.schema
  /\ \A c \in DOMAIN b.schema :
       b.columns[c] \in Seq(Cells(b.schema[c].oid)) /\ Len(b.columns[c]) = Len(b.columns[1])

LEMMA RangeTyped ==
  ASSUME NEW C, NEW column \in Seq(C), NEW o \in Nat, NEW k \in Nat, o + k <= Len(column)
  PROVE  /\ RowRange(column, o, k) \in Seq(C) /\ Len(RowRange(column, o, k)) = k
         /\ \A i \in 1..k : RowRange(column, o, k)[i] = column[o + i]
<1>1. \A i \in (o + 1)..(o + k) : column[i] \in C
  OBVIOUS
<1>2. /\ SubSeq(column, o + 1, o + k) \in Seq(C)
      /\ Len(SubSeq(column, o + 1, o + k)) = (IF o + 1 <= o + k THEN (o + k) - (o + 1) + 1 ELSE 0)
  BY <1>1, SubSeqProperties
<1>3. Len(SubSeq(column, o + 1, o + k)) = k
  BY <1>2
<1>4. \A i \in 1..k : SubSeq(column, o + 1, o + k)[i] = column[o + i]
  OBVIOUS
<1> QED BY <1>2, <1>3, <1>4 DEF RowRange

LEMMA SingleRow ==
  ASSUME NEW C, NEW column \in Seq(C), NEW o \in Nat, o + 1 <= Len(column)
  PROVE  RowRange(column, o, 1) \in Seq(C) /\ Len(RowRange(column, o, 1)) = 1 /\ RowRange(column, o, 1)[1] = column[o + 1]
<1> DEFINE k == 1
<1>1. k \in Nat /\ o + k <= Len(column) /\ 1 \in 1..k
  OBVIOUS
<1> HIDE DEF k
<1>2. /\ RowRange(column, o, k) \in Seq(C) /\ Len(RowRange(column, o, k)) = k
      /\ \A i \in 1..k : RowRange(column, o, k)[i] = column[o + i]
  BY <1>1, RangeTyped, Zenon
<1>3. RowRange(column, o, k)[1] = column[o + 1]
  BY <1>1, <1>2, Zenon
<1> QED BY <1>2, <1>3 DEF k

\* The payload of a range of rows: two cells before the columns and four after them.
LEMMA EncodeLength ==
  ASSUME NEW b, GoodBatch(b), NEW o \in Nat, NEW k \in Nat, o + k <= Len(b.columns[1]),
         NEW size, \A c \in 1..Len(b.schema) :
                     size[c] = 1 + Len(EncodeColumn(b.schema[c].oid, RowRange(b.columns[c], o, k)))
  PROVE  /\ Encode(b, o, k) \in Seq(Int)
         /\ Len(Encode(b, o, k)) = 6 + Sums(size, Len(b.schema))[Len(b.schema)]
         /\ \A c \in 1..Len(b.schema) : size[c] \in Nat
<1> DEFINE n == Len(b.schema)
           vectors == [c \in DOMAIN b.schema |-> EncodeColumn(b.schema[c].oid, RowRange(b.columns[c], o, k))]
           items == [c \in DOMAIN vectors |-> Sized(vectors[c])]
           head == <<k, Len(vectors)>>
<1>1. n \in Nat /\ DOMAIN b.schema = 1..n
  BY DEF GoodBatch
<1>2. \A c \in 1..n : EncodeColumn(b.schema[c].oid, RowRange(b.columns[c], o, k)) \in Seq(Int)
  <2> SUFFICES ASSUME NEW c \in 1..n
               PROVE  EncodeColumn(b.schema[c].oid, RowRange(b.columns[c], o, k)) \in Seq(Int)
    OBVIOUS
  <2>1. /\ b.schema[c].oid \in Int /\ b.columns[c] \in Seq(Cells(b.schema[c].oid))
        /\ Len(b.columns[c]) = Len(b.columns[1])
    <3>1. b.schema[c] \in [oid : Int, required : BOOLEAN]
      <4>1. b.schema \in Seq([oid : Int, required : BOOLEAN])
        BY DEF GoodBatch
      <4> QED BY <4>1, ElementOfSeq
    <3> QED BY <1>1, <3>1 DEF GoodBatch
  <2>2. RowRange(b.columns[c], o, k) \in Seq(Cells(b.schema[c].oid))
    BY <2>1, RangeTyped
  <2> QED BY <2>1, <2>2, ColumnLength
<1>3. vectors \in [1..n -> Seq(Int)] /\ DOMAIN vectors = 1..n /\ Len(vectors) = n
  BY <1>1, <1>2
<1>4. /\ \A c \in 1..n : vectors[c] = EncodeColumn(b.schema[c].oid, RowRange(b.columns[c], o, k))
      /\ Encode(b, o, k) = Assemble(k, vectors)
  BY <1>1 DEF Encode
<1> HIDE DEF vectors, n
<1>5. \A c \in 1..n : Sized(vectors[c]) \in Seq(Int) /\ Len(Sized(vectors[c])) = 1 + Len(vectors[c])
  BY <1>3, SizedLength
<1>6. items \in [1..n -> Seq(Int)] /\ \A c \in 1..n : size[c] = Len(items[c])
  <2>1. \A c \in 1..n : size[c] = 1 + Len(vectors[c])
    BY <1>4 DEF n
  <2> QED BY <1>3, <1>5, <2>1
<1> DEFINE flat == FlattenSeq(items)
           s1 == Joined(head, flat)
           s2 == Joined(s1, Zeros(4))
<1>7. Assemble(k, vectors) = s2
  BY DEF Assemble, Joined
<1>8. head \in Seq(Int) /\ Len(head) = 2
  BY <1>1, <1>3
<1>9. Zeros(4) \in Seq(Int) /\ Len(Zeros(4)) = 4
  BY ZerosLength
<1> HIDE DEF items, head
<1>10. flat \in Seq(Int) /\ Len(flat) = Sums(size, n)[n]
  BY <1>1, <1>6, FlattenLength
<1> HIDE DEF flat
<1>11. s1 \in Seq(Int) /\ Len(s1) = Len(head) + Len(flat)
  BY <1>8, <1>10, JoinedLength
<1> HIDE DEF s1
<1>12. s2 \in Seq(Int) /\ Len(s2) = Len(s1) + Len(Zeros(4))
  BY <1>9, <1>11, JoinedLength
<1> HIDE DEF s2
<1>13. Len(s2) = 6 + Len(flat)
  <2>1. Len(flat) \in Nat
    BY <1>10
  <2>2. Len(s1) = 2 + Len(flat)
    BY <1>8, <1>11
  <2>3. Len(s2) = Len(s1) + 4
    BY <1>9, <1>12
  <2> QED BY <2>1, <2>2, <2>3
<1>14. \A c \in 1..n : size[c] \in Nat
  BY <1>6
<1> QED BY <1>4, <1>7, <1>10, <1>12, <1>13, <1>14 DEF n

\* What estimate and encoder need is known of every column.
LEMMA ColumnTyped ==
  ASSUME NEW b, GoodBatch(b), NEW c \in 1..Len(b.schema), NEW o \in Nat, NEW k \in Nat, o + k <= Len(b.columns[1])
  PROVE  /\ b.schema[c].oid \in Int
         /\ RowRange(b.columns[c], o, k) \in Seq(Cells(b.schema[c].oid))
         /\ Len(RowRange(b.columns[c], o, k)) = k
         /\ NullRows(b.columns[c]) = {} => NullRows(RowRange(b.columns[c], o, k)) = {}
<1>1. b.schema[c] \in [oid : Int, required : BOOLEAN] /\ c \in DOMAIN b.schema
  <2>1. b.schema \in Seq([oid : Int, required : BOOLEAN])
    BY DEF GoodBatch
  <2>2. b.schema[c] \in [oid : Int, required : BOOLEAN]
    BY <2>1, ElementOfSeq
  <2>3. DOMAIN b.schema = 1..Len(b.schema)
    BY <2>1
  <2> QED BY <2>2, <2>3
<1>2. /\ b.schema[c].oid \in Int /\ b.columns[c] \in Seq(Cells(b.schema[c].oid))
      /\ Len(b.columns[c]) = Len(b.columns[1])
  BY <1>1 DEF GoodBatch
<1> DEFINE C == Cells(b.schema[c].oid)
           column == b.columns[c]
           rs == RowRange(column, o, k)
<1>3. rs \in Seq(C) /\ Len(rs) = k /\ \A i \in 1..k : rs[i] = column[o + i]
  BY <1>2, RangeTyped
<1>4. column \in Seq(C) /\ o + k <= Len(column)
  BY <1>2
<1> HIDE DEF C, column, rs
<1>5. NullRows(column) = {} => NullRows(rs) = {}
  <2> SUFFICES ASSUME NullRows(column) = {}, NEW i \in DOMAIN rs, rs[i].null PROVE FALSE
    BY DEF NullRows
  <2>1. i \in 1..k /\ rs[i] = column[o + i]
    BY <1>3
  <2>2. o + i \in DOMAIN column
    BY <1>4, <2>1
  <2> QED BY <2>1, <2>2 DEF NullRows
<1> QED BY <1>2, <1>3, <1>5 DEF C, column, rs

\* encoded_size is never too small for what encode makes of the same rows.
THEOREM EstimateSuffices ==
  ASSUME NEW b, GoodBatch(b), NEW onGpu \in BOOLEAN, onGpu => GpuPacks(b),
         NEW o \in Nat, NEW k \in Nat, o + k <= Len(b.columns[1])
  PROVE  /\ Encode(b, o, k) \in Seq(Int)
         /\ EncodedSize(b, onGpu, o, k) \in Int
         /\ Len(Encode(b, o, k)) <= EncodedSize(b, onGpu, o, k)
<1> DEFINE n == Len(b.schema)
           made == [c \in 1..n |-> 1 + Len(EncodeColumn(b.schema[c].oid, RowRange(b.columns[c], o, k)))]
           size == [c \in DOMAIN b.schema |-> ColumnSize(b.schema[c].oid, RowRange(b.columns[c], o, k), onGpu)]
           zero == [c \in 1..n |-> 0]
<1>1. n \in Nat /\ DOMAIN b.schema = 1..n
  BY DEF GoodBatch
<1>2. /\ Encode(b, o, k) \in Seq(Int) /\ Len(Encode(b, o, k)) = 6 + Sums(made, n)[n]
      /\ \A c \in 1..n : made[c] \in Nat
  <2>1. \A c \in 1..n : made[c] = 1 + Len(EncodeColumn(b.schema[c].oid, RowRange(b.columns[c], o, k)))
    OBVIOUS
  <2> HIDE DEF made
  <2> QED BY <2>1, EncodeLength
<1>3. EncodedSize(b, onGpu, o, k) = 6 + Sums(size, n)[n]
  BY DEF EncodedSize
<1>4. ASSUME NEW c \in 1..n
      PROVE  /\ made[c] \in Int /\ size[c] \in Int /\ zero[c] = 0
             /\ made[c] <= size[c] + zero[c]
  <2> DEFINE oid == b.schema[c].oid
             rs == RowRange(b.columns[c], o, k)
  <2>1. oid \in Int /\ rs \in Seq(Cells(oid)) /\ (NullRows(b.columns[c]) = {} => NullRows(rs) = {})
    BY ColumnTyped
  <2>2. onGpu => oid # Varchar /\ NullRows(rs) = {}
    BY <1>1, <2>1 DEF GpuPacks
  <2>3. made[c] = 1 + Len(EncodeColumn(oid, rs)) /\ size[c] = ColumnSize(oid, rs, onGpu) /\ zero[c] = 0
    BY <1>1
  <2>4. made[c] \in Nat
    BY <1>2
  <2> HIDE DEF oid, rs, made, size, zero
  <2>5. ColumnSize(oid, rs, onGpu) \in Nat /\ 1 + Len(EncodeColumn(oid, rs)) <= ColumnSize(oid, rs, onGpu)
    BY <2>1, <2>2, ColumnSizeSuffices
  <2> QED BY <2>3, <2>4, <2>5
<1> HIDE DEF made, size, zero, n
<1>5. \A c \in 1..n : made[c] \in Int /\ size[c] \in Int /\ zero[c] \in Int /\ made[c] <= size[c] + zero[c]
  BY <1>4
<1>6. Sums(made, n)[n] <= Sums(size, n)[n] + Sums(zero, n)[n]
  BY <1>1, <1>5, SumsBounded
<1>7. Sums(zero, n)[n] = 0
  <2>1. Sums(zero, n)[n] = n * 0
    BY <1>1, <1>4, SumsOfConstant
  <2> QED BY <1>1, <2>1
<1>8. Sums(made, n)[n] \in Int /\ Sums(size, n)[n] \in Int
  <2>1. n \in 0..n
    BY <1>1
  <2>2. \A c \in 0..n : Sums(made, n)[c] \in Int
    BY <1>1, <1>5, SumsTyped
  <2>3. \A c \in 0..n : Sums(size, n)[c] \in Int
    BY <1>1, <1>5, SumsTyped
  <2> QED BY <2>1, <2>2, <2>3
<1> QED BY <1>2, <1>3, <1>6, <1>7, <1>8

-----------------------------------------------------------------------------
(* One row. *)

Shown ==
  [schema |-> batch.schema, columns |->
     [c \in DOMAIN Oids |-> [q \in 1..AllRows |-> [null |-> FALSE, v |-> batch.columns[c][q].v]]]]

LEMMA ShownIsGood == ASSUME GoodBatch(batch) PROVE GoodBatch(Shown) /\ Len(Shown.columns[1]) = AllRows
<1> DEFINE n == Len(batch.schema)
<1>1. n \in Nat /\ n > 0 /\ DOMAIN batch.schema = 1..n /\ DOMAIN Oids = 1..n /\ AllRows \in Nat
  <2>1. n \in Nat /\ n > 0 /\ DOMAIN batch.schema = 1..n
    BY DEF GoodBatch
  <2>2. batch.columns[1] \in Seq(Cells(batch.schema[1].oid))
    BY <2>1 DEF GoodBatch
  <2> QED BY <2>1, <2>2 DEF Oids, AllRows
<1>2. Shown.schema = batch.schema /\ DOMAIN Shown.columns = 1..n
  BY <1>1 DEF Shown
<1>3. ASSUME NEW c \in 1..n
      PROVE  Shown.columns[c] \in Seq(Cells(batch.schema[c].oid)) /\ Len(Shown.columns[c]) = AllRows
  <2> DEFINE C == Cells(batch.schema[c].oid)
             column == batch.columns[c]
  <2>1. column \in Seq(C) /\ Len(column) = AllRows
    BY <1>1 DEF GoodBatch, AllRows
  <2>2. \A q \in 1..AllRows : column[q] \in C
    BY <2>1
  <2>3. \A q \in 1..AllRows : [null |-> FALSE, v |-> column[q].v] \in C
    BY <2>2 DEF Cells
  <2>4. Shown.columns[c] = [q \in 1..AllRows |-> [null |-> FALSE, v |-> column[q].v]]
    BY <1>1 DEF Shown
  <2> HIDE DEF C, column
  <2>5. [q \in 1..AllRows |-> [null |-> FALSE, v |-> column[q].v]] \in [1..AllRows -> C]
    BY <2>3
  <2>6. Shown.columns[c] \in Seq(C) /\ Len(Shown.columns[c]) = AllRows
    BY <1>1, <2>4, <2>5
  <2> QED BY <2>6 DEF C
<1>4. 1 \in 1..n
  BY <1>1
<1>5. Len(Shown.columns[1]) = AllRows
  BY <1>3, <1>4
<1>6. Shown.schema \in Seq([oid : Int, required : BOOLEAN]) /\ Len(Shown.schema) > 0
  BY <1>2 DEF GoodBatch
<1>7. \A c \in DOMAIN Shown.schema :
        Shown.columns[c] \in Seq(Cells(Shown.schema[c].oid)) /\ Len(Shown.columns[c]) = Len(Shown.columns[1])
  BY <1>1, <1>2, <1>3, <1>5
<1> QED BY <1>1, <1>2, <1>5, <1>6, <1>7 DEF GoodBatch

\* The estimate for one row and what the row needs differ by nothing, column by column.
LEMMA OneRowColumn ==
  ASSUME GoodBatch(batch), NEW onGpu \in BOOLEAN, NEW o \in Nat, o + 1 <= AllRows, NEW c \in 1..Len(batch.schema)
  PROVE  LET oid == batch.schema[c].oid
             rs == RowRange(batch.columns[c], o, 1)
             ss == RowRange(Shown.columns[c], o, 1)
         IN /\ ColumnSize(oid, rs, onGpu) \in Int
            /\ ColumnSize(oid, rs, onGpu) <=
                 1 + Len(EncodeColumn(oid, ss)) + (IF batch.columns[c][o + 1].null THEN 4 ELSE 0)
<1> DEFINE oid == batch.schema[c].oid
           rs == RowRange(batch.columns[c], o, 1)
           ss == RowRange(Shown.columns[c], o, 1)
           null == batch.columns[c][o + 1].null
<1>1. o + 1 <= AllRows /\ AllRows \in Nat /\ 1 \in Nat
  <2>1. 1 \in DOMAIN batch.schema
    BY DEF GoodBatch
  <2>2. batch.columns[1] \in Seq(Cells(batch.schema[1].oid))
    BY <2>1 DEF GoodBatch
  <2>3. AllRows \in Nat
    BY <2>2 DEF AllRows
  <2> QED BY <2>3
<1>2. c \in DOMAIN batch.schema /\ c \in DOMAIN Oids
  BY DEF GoodBatch, Oids
<1>3. /\ oid \in Int /\ rs \in Seq(Cells(oid)) /\ Len(rs) = 1
      /\ rs[1] = batch.columns[c][o + 1]
  <2>1. oid \in Int
    <3>1. batch.schema \in Seq([oid : Int, required : BOOLEAN])
      BY DEF GoodBatch
    <3>2. batch.schema[c] \in [oid : Int, required : BOOLEAN]
      BY <3>1, ElementOfSeq, Zenon
    <3> QED BY <3>2
  <2>2. batch.columns[c] \in Seq(Cells(oid)) /\ o + 1 <= Len(batch.columns[c])
    BY <1>1, <1>2 DEF GoodBatch, AllRows
  <2> QED BY <2>1, <2>2, SingleRow
<1>4. /\ ss \in Seq(Cells(oid)) /\ Len(ss) = 1
      /\ ss[1] = Shown.columns[c][o + 1]
  <2>1. Shown.schema[c].oid = oid /\ c \in DOMAIN Shown.schema
    BY <1>2 DEF Shown
  <2>2. Shown.columns[c] \in Seq(Cells(oid)) /\ o + 1 <= Len(Shown.columns[c])
    BY <1>1, <2>1, ShownIsGood DEF GoodBatch
  <2> QED BY <2>2, SingleRow
<1>5. rs[1] = batch.columns[c][o + 1] /\ ss[1] = [null |-> FALSE, v |-> batch.columns[c][o + 1].v]
  <2>1. o + 1 \in 1..AllRows
    BY <1>1
  <2>2. Shown.columns[c][o + 1] = [null |-> FALSE, v |-> batch.columns[c][o + 1].v]
    BY <1>2, <2>1 DEF Shown
  <2> QED BY <1>3, <1>4, <2>2
<1> HIDE DEF rs, ss, null
<1>6. DOMAIN rs = {1} /\ DOMAIN ss = {1}
  BY <1>3, <1>4
<1>7. NullRows(ss) = {} /\ (NullRows(rs) # {} <=> rs[1].null)
  BY <1>5, <1>6 DEF NullRows
<1>8. LongTexts(oid, ss) = LongTexts(oid, rs)
  <2>1. ss[1].v = rs[1].v
    BY <1>5
  <2>2. [q \in DOMAIN ss |-> IF oid = Varchar /\ Len(ss[q].v) > InlineMax THEN Len(ss[q].v) ELSE 0]
          = [q \in DOMAIN rs |-> IF oid = Varchar /\ Len(rs[q].v) > InlineMax THEN Len(rs[q].v) ELSE 0]
    BY <1>6, <2>1
  <2> QED BY <1>3, <1>4, <2>2 DEF LongTexts
<1> HIDE DEF oid
<1>9. /\ Len(EncodeColumn(oid, ss)) = 7 + Len(ss) * TypeSize(oid) + Len(AreaOf(oid, ss)) + Len(Nulls(ss))
      /\ Len(Nulls(ss)) = 0 /\ Len(AreaOf(oid, ss)) = LongTexts(oid, ss) /\ LongTexts(oid, ss) \in Nat
  BY <1>3, <1>4, <1>7, ColumnLength, NullsLength, AreaEstimated
<1>10. Words(1) = 1
  BY WordsTyped
<1> DEFINE width == TypeSize(oid)
           texts == LongTexts(oid, rs)
<1>11. width \in Nat /\ texts \in Nat
  BY <1>8, <1>9, SizesTyped
<1>12. Len(EncodeColumn(oid, ss)) = 7 + width + texts
  BY <1>4, <1>8, <1>9, <1>11
<1>13. ColumnSize(oid, rs, onGpu) = 8 + width + (IF onGpu THEN 0 ELSE texts + (IF rs[1].null THEN 4 ELSE 0))
  <2>1. ColumnSize(oid, rs, onGpu) =
          8 + Len(rs) * width + (IF onGpu THEN 0 ELSE texts + (IF NullRows(rs) # {} THEN 3 + Words(Len(rs)) ELSE 0))
    BY DEF ColumnSize
  <2>2. (IF NullRows(rs) # {} THEN 3 + Words(Len(rs)) ELSE 0) = (IF rs[1].null THEN 4 ELSE 0)
    BY <1>3, <1>7, <1>10
  <2>3. Len(rs) * width = width
    BY <1>3, <1>11
  <2> HIDE DEF width, texts
  <2> QED BY <2>1, <2>2, <2>3
<1> HIDE DEF width, texts
<1>14. /\ ColumnSize(oid, rs, onGpu) \in Int
       /\ ColumnSize(oid, rs, onGpu) <= 1 + Len(EncodeColumn(oid, ss)) + (IF rs[1].null THEN 4 ELSE 0)
  BY <1>11, <1>12, <1>13
<1> QED BY <1>5, <1>14 DEF oid, rs, ss

\* A row that encoded_size finds too large is too large.
LEMMA OneRowNeeds ==
  ASSUME GoodBatch(batch), NEW onGpu \in BOOLEAN, NEW o \in Nat, o + 1 <= AllRows
  PROVE  RowNeeds(o + 1) \in Int /\ EncodedSize(batch, onGpu, o, 1) <= RowNeeds(o + 1)
<1> DEFINE n == Len(batch.schema)
           made == [c \in 1..n |-> 1 + Len(EncodeColumn(batch.schema[c].oid, RowRange(Shown.columns[c], o, 1)))]
           size == [c \in DOMAIN batch.schema |->
                      ColumnSize(batch.schema[c].oid, RowRange(batch.columns[c], o, 1), onGpu)]
           N == {c \in DOMAIN Oids : batch.columns[c][o + 1].null}
           four == [c \in 1..n |-> IF c \in N THEN 4 ELSE 0]
<1>1. n \in Nat /\ DOMAIN batch.schema = 1..n /\ DOMAIN Oids = 1..n /\ Shown.schema = batch.schema
  BY DEF GoodBatch, Oids, Shown
<1>2. o + 1 <= AllRows /\ AllRows \in Nat /\ (o + 1) - 1 = o
  <2>1. 1 \in DOMAIN batch.schema
    BY DEF GoodBatch
  <2>2. batch.columns[1] \in Seq(Cells(batch.schema[1].oid))
    BY <2>1 DEF GoodBatch
  <2>3. AllRows \in Nat
    BY <2>2 DEF AllRows
  <2> QED BY <2>3
<1>3. /\ Len(Encode(Shown, o, 1)) = 6 + Sums(made, n)[n]
      /\ \A c \in 1..n : made[c] \in Nat
  <2>1. \A c \in 1..n : made[c] = 1 + Len(EncodeColumn(batch.schema[c].oid, RowRange(Shown.columns[c], o, 1)))
    OBVIOUS
  <2> DEFINE k == 1
  <2>2. GoodBatch(Shown) /\ o + k <= Len(Shown.columns[1]) /\ k \in Nat
    BY <1>2, ShownIsGood
  <2>3. \A c \in 1..Len(Shown.schema) :
          made[c] = 1 + Len(EncodeColumn(Shown.schema[c].oid, RowRange(Shown.columns[c], o, k)))
    BY <1>1, <2>1
  <2> HIDE DEF made, k
  <2>4. /\ Len(Encode(Shown, o, k)) = 6 + Sums(made, Len(Shown.schema))[Len(Shown.schema)]
        /\ \A c \in 1..Len(Shown.schema) : made[c] \in Nat
    BY <2>2, <2>3, EncodeLength
  <2> QED BY <1>1, <2>4 DEF k
<1>4. RowNeeds(o + 1) = Len(Encode(Shown, o, 1)) + 4 * Cardinality(N)
  BY <1>2 DEF RowNeeds, Shown
<1>5. EncodedSize(batch, onGpu, o, 1) = 6 + Sums(size, n)[n]
  BY DEF EncodedSize
<1>6. ASSUME NEW c \in 1..n
      PROVE  made[c] \in Int /\ size[c] \in Int /\ four[c] \in Int /\ size[c] <= made[c] + four[c]
  <2>1. four[c] = IF batch.columns[c][o + 1].null THEN 4 ELSE 0
    BY <1>1
  <2>2. size[c] \in Int /\ size[c] <= made[c] + four[c]
    BY <1>1, <2>1, OneRowColumn
  <2> QED BY <1>3, <2>1, <2>2
<1>7. N \in SUBSET (1..n) /\ \A c \in 1..n : four[c] = IF c \in N THEN 4 ELSE 0
  BY <1>1
<1> HIDE DEF made, size, four, N, n
<1>8. Sums(size, n)[n] <= Sums(made, n)[n] + Sums(four, n)[n]
  BY <1>1, <1>6, SumsBounded
<1>9. Sums(four, n)[n] = 4 * Cardinality(N)
  BY <1>1, <1>7, SumsCount
<1>10. Sums(made, n)[n] \in Int /\ Sums(size, n)[n] \in Int /\ Sums(four, n)[n] \in Int
  <2>1. n \in 0..n
    BY <1>1
  <2>2. \A c \in 0..n : Sums(made, n)[c] \in Int
    BY <1>1, <1>6, SumsTyped
  <2>3. \A c \in 0..n : Sums(size, n)[c] \in Int
    BY <1>1, <1>6, SumsTyped
  <2>4. \A c \in 0..n : Sums(four, n)[c] \in Int
    BY <1>1, <1>6, SumsTyped
  <2> QED BY <2>1, <2>2, <2>3, <2>4
<1> DEFINE m == Sums(made, n)[n]
           s == Sums(size, n)[n]
           f == Sums(four, n)[n]
<1>11. RowNeeds(o + 1) = (6 + m) + f
  BY <1>3, <1>4, <1>9
<1>12. m \in Int /\ s \in Int /\ f \in Int /\ s <= m + f /\ EncodedSize(batch, onGpu, o, 1) = 6 + s
  BY <1>5, <1>8, <1>10
<1> HIDE DEF m, s, f
<1> QED BY <1>11, <1>12

-----------------------------------------------------------------------------
(* Sequences within sequences: what a cursor finds where it was put. *)

\* The cells of s stand in p after the first at cells.
Holds(p, at, s) ==
  /\ p \in Seq(Int) /\ s \in Seq(Int) /\ at \in Nat /\ at + Len(s) <= Len(p)
  /\ \A i \in 1..Len(s) : p[at + i] = s[i]

LEMMA HeldSlice == ASSUME NEW p, NEW at, NEW s, Holds(p, at, s) PROVE SubSeq(p, at + 1, at + Len(s)) = s
<1>1. /\ p \in Seq(Int) /\ s \in Seq(Int) /\ at \in Nat /\ at + Len(s) <= Len(p) /\ Len(p) \in Nat /\ Len(s) \in Nat
      /\ \A i \in 1..Len(s) : p[at + i] = s[i]
  BY DEF Holds
<1> DEFINE q == SubSeq(p, at + 1, at + Len(s))
<1>2. q \in Seq(Int) /\ Len(q) = Len(s)
  <2>1. at + 1 \in Nat \ {0} /\ at + Len(s) \in Int
    BY <1>1
  <2>2. q \in Seq(Int) /\ Len(q) = IF at + 1 <= at + Len(s) THEN at + Len(s) - (at + 1) + 1 ELSE 0
    BY <1>1, <2>1, SliceTyped
  <2> QED BY <1>1, <2>2
<1>3. ASSUME NEW i \in 1..Len(s) PROVE q[i] = s[i]
  <2>1. q[i] = p[at + i]
    BY <1>1
  <2> QED BY <1>1, <2>1
<1> HIDE DEF q
<1>4. q = s
  BY <1>1, <1>2, <1>3, SeqEqual
<1> QED BY <1>4 DEF q

LEMMA HeldWithin ==
  ASSUME NEW p, NEW at, NEW s, NEW x, NEW t, Holds(p, at, s), Holds(s, x, t) PROVE Holds(p, at + x, t)
<1>1. /\ p \in Seq(Int) /\ s \in Seq(Int) /\ at \in Nat /\ at + Len(s) <= Len(p) /\ Len(p) \in Nat /\ Len(s) \in Nat
      /\ \A i \in 1..Len(s) : p[at + i] = s[i]
  BY DEF Holds
<1>2. /\ t \in Seq(Int) /\ x \in Nat /\ x + Len(t) <= Len(s) /\ Len(t) \in Nat
      /\ \A i \in 1..Len(t) : s[x + i] = t[i]
  BY DEF Holds
<1>3. ASSUME NEW i \in 1..Len(t) PROVE p[(at + x) + i] = t[i]
  <2>1. x + i \in 1..Len(s) /\ (at + x) + i = at + (x + i)
    BY <1>1, <1>2
  <2>2. p[at + (x + i)] = s[x + i] /\ s[x + i] = t[i]
    BY <1>1, <1>2, <2>1
  <2> QED BY <2>1, <2>2
<1>4. at + x \in Nat /\ (at + x) + Len(t) <= Len(p)
  BY <1>1, <1>2
<1> QED BY <1>1, <1>2, <1>3, <1>4 DEF Holds

LEMMA JoinedHolds ==
  ASSUME NEW s \in Seq(Int), NEW t \in Seq(Int)
  PROVE  Holds(Joined(s, t), 0, s) /\ Holds(Joined(s, t), Len(s), t)
<1>1. /\ Joined(s, t) \in Seq(Int) /\ Len(Joined(s, t)) = Len(s) + Len(t)
      /\ \A i \in 1..Len(s) : Joined(s, t)[i] = s[i]
      /\ \A i \in 1..Len(t) : Joined(s, t)[Len(s) + i] = t[i]
  <2> DEFINE E == Int
  <2>1. s \in Seq(E) /\ t \in Seq(E)
    OBVIOUS
  <2> HIDE DEF E
  <2>2. Joined(s, t) \in Seq(E) /\ Len(Joined(s, t)) = Len(s) + Len(t)
    BY <2>1, JoinedAt
  <2>3. \A i \in 1..Len(s) : Joined(s, t)[i] = s[i]
    BY <2>1, JoinedAt
  <2>4. \A i \in 1..Len(t) : Joined(s, t)[Len(s) + i] = t[i]
    BY <2>1, JoinedAt
  <2> QED BY <2>2, <2>3, <2>4 DEF E
<1>2. Len(s) \in Nat /\ Len(t) \in Nat
  OBVIOUS
<1>3. \A i \in 1..Len(s) : 0 + i = i
  OBVIOUS
<1>4. Holds(Joined(s, t), 0, s)
  BY <1>1, <1>2, <1>3 DEF Holds
<1>5. Holds(Joined(s, t), Len(s), t)
  BY <1>1, <1>2 DEF Holds
<1> QED BY <1>4, <1>5

\* What stands in the first of two sequences stands in both together.
LEMMA HeldInJoined ==
  ASSUME NEW s, NEW t \in Seq(Int), NEW at, NEW u, Holds(s, at, u) PROVE Holds(Joined(s, t), at, u)
<1>1. s \in Seq(Int) /\ at \in Nat
  BY DEF Holds
<1>2. Holds(Joined(s, t), 0, s)
  BY <1>1, JoinedHolds
<1>3. Holds(Joined(s, t), 0 + at, u)
  BY <1>2, HeldWithin, Zenon
<1>4. 0 + at = at
  BY <1>1
<1> QED BY <1>3, <1>4

LEMMA SizedHeld ==
  ASSUME NEW p, NEW at, NEW s \in Seq(Int), Holds(p, at, Sized(s))
  PROVE  /\ p[at + 1] = Len(s) /\ Holds(p, at + 1, s)
         /\ NextItem(p, at + 1) = (at + 1) + 1 + Len(s)
<1> DEFINE one == <<Len(s)>>
<1>1. one \in Seq(Int) /\ Len(one) = 1 /\ one[1] = Len(s) /\ Sized(s) = Joined(one, s)
  BY DEF Sized, Joined
<1> HIDE DEF one
<1>2. Holds(Sized(s), 0, one) /\ Holds(Sized(s), 1, s)
  <2>1. Holds(Joined(one, s), 0, one) /\ Holds(Joined(one, s), Len(one), s)
    BY <1>1, JoinedHolds
  <2> QED BY <1>1, <2>1
<1>3. Holds(p, at + 0, one) /\ Holds(p, at + 1, s)
  <2>1. Holds(p, at + 0, one)
    BY <1>2, HeldWithin, Zenon
  <2>2. Holds(p, at + 1, s)
    BY <1>2, HeldWithin, Zenon
  <2> QED BY <2>1, <2>2
<1>4. at \in Nat /\ p \in Seq(Int)
  BY DEF Holds
<1>5. p[at + 1] = Len(s)
  <2>1. 1 \in 1..Len(one) /\ (at + 0) + 1 = at + 1
    BY <1>1, <1>4
  <2>2. p[(at + 0) + 1] = one[1]
    BY <1>3, <2>1 DEF Holds
  <2> QED BY <1>1, <2>1, <2>2
<1>6. (at + 1) + Len(s) <= Len(p) /\ Len(p) \in Nat /\ Len(s) \in Nat
  BY <1>3, <1>4 DEF Holds
<1> DEFINE here == at + 1
<1>7. here \in Nat /\ here <= Len(p) /\ p[here] \in 0..(Len(p) - here) /\ p[here] = Len(s)
  BY <1>4, <1>5, <1>6
<1> HIDE DEF here
<1>8. NextItem(p, here) = here + 1 + Len(s)
  BY <1>7 DEF NextItem
<1> QED BY <1>3, <1>5, <1>8 DEF here

\* The cursor reads s at here and goes to next.
ReadsItem(p, here, next, s) == NextItem(p, here) = next /\ SubSeq(p, here + 1, next - 1) = s

LEMMA SizedRead ==
  ASSUME NEW p, NEW x \in Nat, NEW s \in Seq(Int), Holds(p, x, Sized(s)), NEW y, y = x + 1 + Len(s)
  PROVE  ReadsItem(p, x + 1, y + 1, s)
<1>1. Holds(p, x + 1, s) /\ NextItem(p, x + 1) = (x + 1) + 1 + Len(s)
  BY SizedHeld
<1>2. SubSeq(p, (x + 1) + 1, (x + 1) + Len(s)) = s
  BY <1>1, HeldSlice, Zenon
<1>3. Len(s) \in Nat
  OBVIOUS
<1>4. (x + 1) + 1 + Len(s) = y + 1 /\ (y + 1) - 1 = (x + 1) + Len(s)
  BY <1>3
<1> QED BY <1>1, <1>2, <1>4 DEF ReadsItem

LEMMA PieceHeld ==
  ASSUME NEW n \in Nat, NEW seqs, NEW size, Pieces(Int, n, seqs, size), NEW k \in 1..n
  PROVE  Holds(FlattenSeq(seqs), Sums(size, n)[k - 1], seqs[k])
<1> DEFINE S == Sums(size, n)
           flat == FlattenSeq(seqs)
<1>1. IsConcat(flat, Int, n, seqs, size)
  BY FlattenAt, Zenon
<1>2. /\ seqs[k] \in Seq(Int) /\ Len(seqs[k]) \in Nat /\ size[k] = Len(seqs[k])
      /\ \A j \in 1..n : size[j] \in Nat
  BY DEF Pieces
<1>3. S[k] = S[k - 1] + size[k] /\ S[k] <= S[n] /\ S[k - 1] \in Nat
  <2>1. k - 1 \in 0..n /\ k \in 0..n
    OBVIOUS
  <2> QED BY <1>2, <2>1, SumsGrow
<1>4. /\ flat \in Seq(Int) /\ Len(flat) = S[n]
      /\ \A i \in 1..Len(seqs[k]) : flat[S[k - 1] + i] = seqs[k][i]
  BY <1>1 DEF IsConcat
<1> HIDE DEF S, flat
<1>5. Holds(flat, S[k - 1], seqs[k])
  BY <1>2, <1>3, <1>4 DEF Holds
<1> QED BY <1>5 DEF S, flat

LEMMA Places ==
  ASSUME NEW x \in Nat, NEW s \in Nat, NEW l \in Nat
  PROVE  /\ x + 1 + s = (x + s) + 1
         /\ ((x + s) + 1) + 1 + l = x + 1 + (s + (1 + l))
         /\ (x + 1 + (s + (1 + l))) - 1 = ((x + s) + 1) + l
OBVIOUS

\* A cursor at p[at] takes these n values, one after the other, and size cells in all.
ItemsReadAs(p, at, n, size, v) ==
  /\ AfterItems(p, at, n)[n] = at + size
  /\ \A k \in 1..n : SubSeq(p, AfterItems(p, at, n)[k - 1] + 1, AfterItems(p, at, n)[k] - 1) = v[k]

\* A cursor at the first of the sized items that stand in p reads one after the other.
LEMMA ItemsRead ==
  ASSUME NEW n \in Nat, NEW v \in [1..n -> Seq(Int)], NEW items, items = [k \in 1..n |-> Sized(v[k])],
         NEW p, NEW at \in Nat, Holds(p, at, FlattenSeq(items))
  PROVE  ItemsReadAs(p, at + 1, n, Len(FlattenSeq(items)), v)
<1> DEFINE A == AfterItems(p, at + 1, n)
           flat == FlattenSeq(items)
           size == [k \in 1..n |-> 1 + Len(v[k])]
           S == Sums(size, n)
<1>1. \A k \in 1..n : items[k] = Sized(v[k]) /\ size[k] = 1 + Len(v[k]) /\ Len(v[k]) \in Nat /\ v[k] \in Seq(Int)
  OBVIOUS
<1>2. \A k \in 1..n : items[k] \in Seq(Int) /\ Len(items[k]) = size[k]
  BY <1>1, SizedLength
<1>3. A[0] = at + 1 /\ \A k \in 1..n : A[k] = NextItem(p, A[k - 1])
  BY AfterItemsSteps
<1>4. Pieces(Int, n, items, size)
  BY <1>2 DEF Pieces
<1> HIDE DEF A, size
<1>5. /\ \A k \in 0..n : S[k] \in Nat
      /\ S[0] = 0 /\ \A k \in 1..n : k - 1 \in 0..n /\ S[k] = S[k - 1] + size[k]
  <2>1. \A k \in 1..n : size[k] \in Nat
    BY <1>1
  <2> QED BY <2>1, SumsGrow
<1>6. Len(flat) = S[n]
  <2>1. IsConcat(flat, Int, n, items, size)
    BY <1>4, FlattenAt, Zenon
  <2> QED BY <2>1 DEF IsConcat
<1>7. ASSUME NEW k \in 1..n
      PROVE  /\ Holds(p, (at + S[k - 1]) + 1, v[k])
             /\ NextItem(p, (at + S[k - 1]) + 1) = ((at + S[k - 1]) + 1) + 1 + Len(v[k])
  <2>1. Holds(flat, S[k - 1], items[k])
    BY <1>4, PieceHeld
  <2> HIDE DEF flat, S
  <2>2. Holds(p, at, flat)
    BY DEF flat
  <2>3. Holds(p, at + S[k - 1], items[k])
    BY <2>1, <2>2, HeldWithin, Zenon
  <2>4. Holds(p, at + S[k - 1], Sized(v[k])) /\ v[k] \in Seq(Int)
    BY <1>1, <2>3
  <2> QED BY <2>4, SizedHeld
<1> HIDE DEF S, flat
<1> DEFINE T == {k \in Nat : k <= n => A[k] = at + 1 + S[k]}
<1>8. 0 \in T
  BY <1>3, <1>5
<1>9. ASSUME NEW k \in Nat, k \in T PROVE k + 1 \in T
  <2> SUFFICES ASSUME k + 1 <= n PROVE A[k + 1] = at + 1 + S[k + 1]
    OBVIOUS
  <2>1. k + 1 \in 1..n /\ k \in 0..n /\ (k + 1) - 1 = k /\ A[k] = at + 1 + S[k]
    BY <1>9
  <2>2. S[k] \in Nat /\ S[k + 1] = S[k] + (1 + Len(v[k + 1])) /\ Len(v[k + 1]) \in Nat
    <3>1. size[k + 1] = 1 + Len(v[k + 1]) /\ Len(v[k + 1]) \in Nat
      BY <1>1, <2>1
    <3>2. S[k] \in Nat /\ S[k + 1] = S[(k + 1) - 1] + size[k + 1]
      BY <1>5, <2>1, Zenon
    <3> QED BY <2>1, <3>1, <3>2, Zenon
  <2>3. A[k + 1] = NextItem(p, A[k])
    BY <1>3, <2>1
  <2>4. A[k] = (at + S[k]) + 1
    BY <2>1, <2>2, Places, Zenon
  <2>5. NextItem(p, (at + S[k]) + 1) = ((at + S[k]) + 1) + 1 + Len(v[k + 1])
    <3>1. NextItem(p, (at + S[(k + 1) - 1]) + 1) = ((at + S[(k + 1) - 1]) + 1) + 1 + Len(v[k + 1])
      BY <1>7, <2>1, Zenon
    <3> QED BY <2>1, <3>1, Zenon
  <2>6. A[k + 1] = ((at + S[k]) + 1) + 1 + Len(v[k + 1])
    <3> DEFINE here == (at + S[k]) + 1
               next == A[k + 1]
               after == here + 1 + Len(v[k + 1])
    <3>1. A[k] = here /\ next = NextItem(p, A[k]) /\ NextItem(p, here) = after
      BY <2>3, <2>4, <2>5, Zenon
    <3> HIDE DEF here, next, after
    <3>2. next = after
      BY <3>1
    <3> QED BY <3>2 DEF here, next, after
  <2>7. ((at + S[k]) + 1) + 1 + Len(v[k + 1]) = at + 1 + (S[k] + (1 + Len(v[k + 1])))
    <3> DEFINE sum == S[k]
               length == Len(v[k + 1])
    <3>1. sum \in Nat /\ length \in Nat
      BY <2>2
    <3> HIDE DEF sum, length
    <3>2. ((at + sum) + 1) + 1 + length = at + 1 + (sum + (1 + length))
      BY <3>1
    <3> QED BY <3>2 DEF sum, length
  <2> QED BY <2>2, <2>6, <2>7, Zenon
<1> HIDE DEF T
<1>10. Nat \subseteq T
  BY <1>8, <1>9, CountingUp
<1>11. \A k \in 0..n : A[k] = at + 1 + S[k]
  BY <1>10 DEF T
<1>12. ASSUME NEW k \in 1..n PROVE SubSeq(p, A[k - 1] + 1, A[k] - 1) = v[k]
  <2> DEFINE x == (at + S[k - 1]) + 1
  <2>1. SubSeq(p, x + 1, x + Len(v[k])) = v[k]
    BY <1>7, HeldSlice
  <2>2. k - 1 \in 0..n /\ k \in 0..n
    OBVIOUS
  <2>3. /\ A[k - 1] = at + 1 + S[k - 1] /\ A[k] = at + 1 + S[k] /\ S[k] = S[k - 1] + (1 + Len(v[k]))
        /\ S[k - 1] \in Nat /\ Len(v[k]) \in Nat
    BY <1>1, <1>5, <1>11, <2>2
  <2>4. A[k - 1] = x /\ A[k] - 1 = x + Len(v[k])
    <3>1. A[k - 1] = x
      BY <2>3, Places, Zenon
    <3>2. (at + 1 + (S[k - 1] + (1 + Len(v[k])))) - 1 = x + Len(v[k])
      BY <2>3, Places, Zenon
    <3> QED BY <2>3, <3>1, <3>2, Zenon
  <2> QED BY <2>1, <2>4
<1>13. A[n] = at + 1 + Len(flat)
  BY <1>6, <1>11
<1> QED BY <1>12, <1>13 DEF A, flat, ItemsReadAs

\* A vector: three cells, the sized data, area and null bitmap, and one last cell.
Vector(class, oid, count, d, a, u, last) ==
  Joined(Joined(Joined(Joined(<<class, oid, count>>, Sized(d)), Sized(a)), Sized(u)), <<last>>)

\* The cursor of parse_column finds these parts in b, and nothing after them.
ViewedAs(b, view) == b \in Seq(Int) /\ Len(b) >= 4 /\ Parts(b)[3] = Len(b) /\ View(b) = view

LEMMA VectorViewed ==
  ASSUME NEW class \in Int, NEW oid \in Int, NEW count \in Int, NEW d \in Seq(Int), NEW a \in Seq(Int),
         NEW u \in Seq(Int), NEW last \in Int, NEW b, b = Vector(class, oid, count, d, a, u, last)
  PROVE  ViewedAs(b, [class |-> class, oid |-> oid, rows |-> count, data |-> d, area |-> a,
                      nulls |-> u, sorted |-> last])
<1> DEFINE head == <<class, oid, count>>
           end == <<last>>
           s1 == Joined(head, Sized(d))
           s2 == Joined(s1, Sized(a))
           s3 == Joined(s2, Sized(u))
<1>1. /\ head \in Seq(Int) /\ Len(head) = 3 /\ end \in Seq(Int) /\ Len(end) = 1 /\ end[1] = last
      /\ head[1] = class /\ head[2] = oid /\ head[3] = count
  OBVIOUS
<1>2. b = Joined(s3, end)
  BY DEF Vector
<1> HIDE DEF head, end
<1>3. /\ Sized(d) \in Seq(Int) /\ Len(Sized(d)) = 1 + Len(d) /\ Len(d) \in Nat
      /\ Sized(a) \in Seq(Int) /\ Len(Sized(a)) = 1 + Len(a) /\ Len(a) \in Nat
      /\ Sized(u) \in Seq(Int) /\ Len(Sized(u)) = 1 + Len(u) /\ Len(u) \in Nat
  <2>1. Len(d) \in Nat /\ Len(a) \in Nat /\ Len(u) \in Nat
    OBVIOUS
  <2>2. Sized(d) \in Seq(Int) /\ Len(Sized(d)) = 1 + Len(d)
    BY SizedLength
  <2>3. Sized(a) \in Seq(Int) /\ Len(Sized(a)) = 1 + Len(a)
    BY SizedLength
  <2>4. Sized(u) \in Seq(Int) /\ Len(Sized(u)) = 1 + Len(u)
    BY SizedLength
  <2> QED BY <2>1, <2>2, <2>3, <2>4
<1>4. s1 \in Seq(Int) /\ Len(s1) = 4 + Len(d) /\ Holds(s1, 0, head) /\ Holds(s1, 3, Sized(d))
  <2>1. s1 \in Seq(Int) /\ Len(s1) = Len(head) + Len(Sized(d))
    BY <1>1, <1>3, JoinedLength
  <2>2. Holds(s1, 0, head) /\ Holds(s1, Len(head), Sized(d))
    BY <1>1, <1>3, JoinedHolds
  <2> QED BY <1>1, <1>3, <2>1, <2>2
<1> HIDE DEF s1
<1>5. /\ s2 \in Seq(Int) /\ Len(s2) = 5 + Len(d) + Len(a)
      /\ Holds(s2, 0, head) /\ Holds(s2, 3, Sized(d)) /\ Holds(s2, 4 + Len(d), Sized(a))
  <2>1. s2 \in Seq(Int) /\ Len(s2) = Len(s1) + Len(Sized(a))
    BY <1>3, <1>4, JoinedLength
  <2>2. Holds(s2, Len(s1), Sized(a))
    BY <1>3, <1>4, JoinedHolds
  <2>3. Holds(s2, 0, head) /\ Holds(s2, 3, Sized(d))
    BY <1>3, <1>4, HeldInJoined
  <2> QED BY <1>3, <1>4, <2>1, <2>2, <2>3
<1> HIDE DEF s2
<1>6. /\ s3 \in Seq(Int) /\ Len(s3) = 6 + Len(d) + Len(a) + Len(u)
      /\ Holds(s3, 0, head) /\ Holds(s3, 3, Sized(d)) /\ Holds(s3, 4 + Len(d), Sized(a))
      /\ Holds(s3, 5 + Len(d) + Len(a), Sized(u))
  <2>1. s3 \in Seq(Int) /\ Len(s3) = Len(s2) + Len(Sized(u))
    BY <1>3, <1>5, JoinedLength
  <2>2. Holds(s3, Len(s2), Sized(u))
    BY <1>3, <1>5, JoinedHolds
  <2>3. Holds(s3, 0, head) /\ Holds(s3, 3, Sized(d)) /\ Holds(s3, 4 + Len(d), Sized(a))
    BY <1>3, <1>5, HeldInJoined
  <2> QED BY <1>3, <1>5, <2>1, <2>2, <2>3
<1> HIDE DEF s3
<1>7. /\ b \in Seq(Int) /\ Len(b) = 7 + Len(d) + Len(a) + Len(u)
      /\ Holds(b, 0, head) /\ Holds(b, 3, Sized(d)) /\ Holds(b, 4 + Len(d), Sized(a))
      /\ Holds(b, 5 + Len(d) + Len(a), Sized(u)) /\ Holds(b, 6 + Len(d) + Len(a) + Len(u), end)
  <2>1. b \in Seq(Int) /\ Len(b) = Len(s3) + Len(end)
    <3>1. s3 \in Seq(Int) /\ end \in Seq(Int)
      BY <1>1, <1>6
    <3>2. Joined(s3, end) \in Seq(Int) /\ Len(Joined(s3, end)) = Len(s3) + Len(end)
      BY <3>1, JoinedLength
    <3> QED BY <1>2, <3>2, Zenon
  <2>2. Holds(b, Len(s3), end)
    BY <1>1, <1>2, <1>6, JoinedHolds
  <2>3. /\ Holds(b, 0, head) /\ Holds(b, 3, Sized(d)) /\ Holds(b, 4 + Len(d), Sized(a))
        /\ Holds(b, 5 + Len(d) + Len(a), Sized(u))
    BY <1>1, <1>2, <1>6, HeldInJoined
  <2> QED BY <1>1, <1>3, <1>6, <2>1, <2>2, <2>3
<1> HIDE DEF Vector
<1>8. b[1] = class /\ b[2] = oid /\ b[3] = count /\ b[Len(b)] = last
  <2>1. \A i \in 1..3 : b[0 + i] = head[i]
    BY <1>1, <1>7 DEF Holds
  <2>2. b[1] = class /\ b[2] = oid /\ b[3] = count
    BY <1>1, <2>1
  <2>3. b[(6 + Len(d) + Len(a) + Len(u)) + 1] = end[1]
    BY <1>1, <1>7 DEF Holds
  <2>4. (6 + Len(d) + Len(a) + Len(u)) + 1 = Len(b)
    BY <1>3, <1>7
  <2> QED BY <1>1, <2>2, <2>3, <2>4
<1> DEFINE P == Parts(b)
           x1 == 4 + Len(d)
           x2 == 5 + Len(d) + Len(a)
           x3 == 6 + Len(d) + Len(a) + Len(u)
<1>9. P[0] = 3 + 1 /\ P[1] = NextItem(b, P[0]) /\ P[2] = NextItem(b, P[1]) /\ P[3] = NextItem(b, P[2])
  <2>1. P[0] = 4 /\ \A k \in 1..3 : P[k] = NextItem(b, P[k - 1])
    BY AfterItemsSteps DEF Parts
  <2> HIDE DEF P
  <2> QED BY <2>1
<1>10. /\ x1 \in Nat /\ x1 = 3 + 1 + Len(d) /\ x2 \in Nat /\ x2 = x1 + 1 + Len(a)
       /\ x3 \in Nat /\ x3 = x2 + 1 + Len(u) /\ Len(b) = x3 + 1 /\ x3 >= 3 /\ 3 \in Nat
  <2> DEFINE ld == Len(d)
             la == Len(a)
             lu == Len(u)
             lb == Len(b)
  <2>1. ld \in Nat /\ la \in Nat /\ lu \in Nat /\ lb = 7 + ld + la + lu
    BY <1>3, <1>7
  <2> HIDE DEF ld, la, lu, lb
  <2>2. /\ 4 + ld \in Nat /\ 4 + ld = 3 + 1 + ld /\ 5 + ld + la \in Nat /\ 5 + ld + la = (4 + ld) + 1 + la
        /\ 6 + ld + la + lu \in Nat /\ 6 + ld + la + lu = (5 + ld + la) + 1 + lu
        /\ lb = (6 + ld + la + lu) + 1 /\ 6 + ld + la + lu >= 3 /\ 3 \in Nat
    BY <2>1
  <2> QED BY <2>2, Zenon DEF ld, la, lu, lb
<1>11. Holds(b, 3, Sized(d)) /\ Holds(b, x1, Sized(a)) /\ Holds(b, x2, Sized(u))
  BY <1>7
<1> HIDE DEF P, x1, x2, x3
<1>12. P[1] = x1 + 1 /\ SubSeq(b, P[0] + 1, P[1] - 1) = d
  <2>1. ReadsItem(b, 3 + 1, x1 + 1, d)
    BY <1>10, <1>11, SizedRead, Zenon
  <2>2. NextItem(b, 3 + 1) = x1 + 1 /\ SubSeq(b, (3 + 1) + 1, (x1 + 1) - 1) = d
    BY <2>1 DEF ReadsItem
  <2> QED BY <1>9, <2>2
<1>13. P[2] = x2 + 1 /\ SubSeq(b, P[1] + 1, P[2] - 1) = a
  <2>1. ReadsItem(b, x1 + 1, x2 + 1, a)
    BY <1>10, <1>11, SizedRead, Zenon
  <2>2. NextItem(b, x1 + 1) = x2 + 1 /\ SubSeq(b, (x1 + 1) + 1, (x2 + 1) - 1) = a
    BY <2>1 DEF ReadsItem
  <2> QED BY <1>9, <1>12, <2>2
<1>14. P[3] = x3 + 1 /\ SubSeq(b, P[2] + 1, P[3] - 1) = u
  <2>1. ReadsItem(b, x2 + 1, x3 + 1, u)
    BY <1>10, <1>11, SizedRead, Zenon
  <2>2. NextItem(b, x2 + 1) = x3 + 1 /\ SubSeq(b, (x2 + 1) + 1, (x3 + 1) - 1) = u
    BY <2>1 DEF ReadsItem
  <2> QED BY <1>9, <1>13, <2>2
<1>15. Part(b, 1) = d /\ Part(b, 2) = a /\ Part(b, 3) = u
  <2>1. 1 - 1 = 0 /\ 2 - 1 = 1 /\ 3 - 1 = 2
    OBVIOUS
  <2> QED BY <1>12, <1>13, <1>14, <2>1 DEF Part, P
<1>16. Len(b) >= 4 /\ P[3] = Len(b)
  BY <1>10, <1>14
<1> QED BY <1>7, <1>8, <1>15, <1>16 DEF View, ViewedAs, P

-----------------------------------------------------------------------------
(* The null bitmap. *)

LEMMA Distributes ==
  ASSUME NEW x \in Int, NEW y \in Int, NEW z \in Int
  PROVE  x * (y + z) = x * y + x * z /\ x * (2 * y) = 2 * (x * y) /\ x * y \in Int
OBVIOUS

LEMMA Quotient ==
  ASSUME NEW d \in Nat \ {0}, NEW q \in Int, NEW r \in 0..(d - 1) PROVE (d * q + r) \div d = q
OBVIOUS

LEMMA OddEven == ASSUME NEW h \in Int PROVE (2 * h + 1) % 2 = 1 /\ (2 * h + 0) % 2 = 0
OBVIOUS

\* Where a number of the bitmap is found.
LEMMA Division ==
  ASSUME NEW d \in Nat \ {0}, NEW x \in Nat
  PROVE  x \div d \in Nat /\ x % d \in 0..(d - 1) /\ x = d * (x \div d) + (x % d)
<1>1. x \div d \in Nat /\ x % d \in 0..(d - 1)
  OBVIOUS
<1>2. x = d * (x \div d) + (x % d)
  OBVIOUS
<1> QED BY <1>1, <1>2

\* A bit of a word is set for exactly the rows that the word was made of.
LEMMA WordBit ==
  ASSUME NEW S, NEW w \in Nat, NEW b \in 0..(WordBits - 1)
  PROVE  (Word(S, w) \div BitValue[b]) % 2 = 1 <=> w * WordBits + b \in S
<1> DEFINE value == [k \in 1..WordBits |-> IF w * WordBits + k - 1 \in S THEN BitValue[k - 1] ELSE 0]
           A == Sums(value, WordBits)
           B == BitValue
           W == WordBits
<1>1. /\ W \in Nat \ {0} /\ B[0] = 1 /\ \A k \in 1..W : B[k] = 2 * B[k - 1]
      /\ \A k \in 0..W : B[k] \in Nat \ {0}
  BY BitValueSteps
<1>2. A[0] = 0 /\ \A k \in 1..W : A[k] = A[k - 1] + value[k]
  BY <1>1, SumsSteps
<1>3. Word(S, w) = A[W]
  BY DEF Word
<1>4. \A k \in 1..W : value[k] = IF w * W + k - 1 \in S THEN B[k - 1] ELSE 0
  OBVIOUS
<1> HIDE DEF A, B, W, value
<1>5. ASSUME NEW k \in 0..(W - 1)
      PROVE  k + 1 \in 1..W /\ k \in 0..W /\ k + 1 \in 0..W /\ (k + 1) - 1 = k
  BY <1>1
\* The bits below b count less than b does.
<1>6. \A k \in 0..W : A[k] \in 0..(B[k] - 1)
  <2> DEFINE T == {k \in Nat : k <= W => A[k] \in 0..(B[k] - 1)}
  <2>1. 0 \in T
    BY <1>1, <1>2
  <2>2. ASSUME NEW k \in Nat, k \in T PROVE k + 1 \in T
    <3> SUFFICES ASSUME k + 1 <= W PROVE A[k + 1] \in 0..(B[k + 1] - 1)
      OBVIOUS
    <3>1. k \in 0..(W - 1) /\ A[k] \in 0..(B[k] - 1)
      BY <1>1, <2>2
    <3>2. /\ A[k + 1] = A[k] + value[k + 1] /\ B[k + 1] = 2 * B[k] /\ B[k] \in Nat \ {0}
          /\ value[k + 1] \in {0, B[k]}
      BY <1>1, <1>2, <1>4, <1>5, <3>1
    <3> DEFINE x == A[k]
               y == B[k]
               z == value[k + 1]
    <3>3. x \in 0..(y - 1) /\ y \in Nat \ {0} /\ z \in {0, y} /\ A[k + 1] = x + z /\ B[k + 1] = 2 * y
      BY <3>1, <3>2
    <3> HIDE DEF x, y, z
    <3>4. x + z \in 0..(2 * y - 1)
      BY <3>3
    <3> QED BY <3>3, <3>4
  <2> HIDE DEF T
  <2>3. Nat \subseteq T
    BY <2>1, <2>2, CountingUp
  <2> QED BY <1>1, <2>3 DEF T
\* The bits above b count in multiples of twice what b does.
<1> DEFINE c == b + 1
           Above(k) == \E g \in Nat : \E h \in Nat : A[k] = A[c] + B[c] * g /\ B[k] = B[c] * h
           U == {j \in Nat : c + j <= W => Above(c + j)}
<1>7. b \in 0..(W - 1) /\ c \in 1..W /\ c \in 0..W /\ c \in Nat
  BY <1>1 DEF W
<1>8. A[c] \in Nat /\ B[c] \in Nat \ {0} /\ B[b] \in Nat \ {0} /\ B[c] = 2 * B[b] /\ A[b] \in 0..(B[b] - 1)
  <2>1. c - 1 = b /\ b \in 0..W
    BY <1>1, <1>7
  <2> HIDE DEF c
  <2>2. B[c] = 2 * B[b] /\ B[c] \in Nat \ {0} /\ B[b] \in Nat \ {0}
    BY <1>1, <1>7, <2>1
  <2>3. A[c] \in 0..(B[c] - 1) /\ A[b] \in 0..(B[b] - 1)
    BY <1>6, <1>7, <2>1
  <2>4. A[c] \in Nat
    BY <2>2, <2>3
  <2> QED BY <2>2, <2>3, <2>4
<1> HIDE DEF c
<1>9. 0 \in U
  <2>1. A[c] = A[c] + B[c] * 0 /\ B[c] = B[c] * 1 /\ c + 0 = c
    BY <1>7, <1>8
  <2>2. Above(c)
    BY <2>1
  <2> QED BY <2>1, <2>2
<1>10. ASSUME NEW j \in Nat, j \in U PROVE j + 1 \in U
  <2> SUFFICES ASSUME c + (j + 1) <= W PROVE Above(c + (j + 1))
    OBVIOUS
  <2> DEFINE k == c + j
  <2>1. k \in 0..(W - 1) /\ c + (j + 1) = k + 1 /\ c + j <= W
    BY <1>1, <1>7
  <2>2. Above(k)
    BY <1>10, <2>1
  <2> HIDE DEF k
  <2>3. PICK g \in Nat, h \in Nat : A[k] = A[c] + B[c] * g /\ B[k] = B[c] * h
    BY <2>2
  <2>4. /\ A[k + 1] = A[k] + value[k + 1] /\ B[k + 1] = 2 * B[k] /\ value[k + 1] \in {0, B[k]}
        /\ B[k] \in Nat
    BY <1>1, <1>2, <1>4, <1>5, <2>1
  <2> DEFINE x == A[c]
             y == B[c]
  <2> HIDE DEF x, y
  <2>5. x \in Nat /\ y \in Nat /\ A[k] = x + y * g /\ B[k] = y * h
    BY <1>8, <2>3 DEF x, y
  <2>6. B[k + 1] = y * (2 * h) /\ 2 * h \in Nat
    <3>1. y * (2 * h) = 2 * (y * h)
      BY <2>5, Distributes
    <3> QED BY <2>4, <2>5, <3>1
  <2>7. \E g2 \in Nat : A[k + 1] = x + y * g2
    <3>1. CASE value[k + 1] = 0
      <4>1. A[k + 1] = x + y * g
        <5>1. x + y * g \in Int
          BY <2>5
        <5> QED BY <2>4, <2>5, <3>1, <5>1
      <4> QED BY <4>1
    <3>2. CASE value[k + 1] = B[k]
      <4>1. y * (g + h) = y * g + y * h /\ y * g \in Int /\ y * h \in Int
        BY <2>5, Distributes
      <4> DEFINE yg == y * g
                 yh == y * h
      <4>2. A[k + 1] = (x + yg) + yh
        BY <2>4, <2>5, <3>2
      <4>3. yg \in Int /\ yh \in Int /\ y * (g + h) = yg + yh
        BY <4>1
      <4> HIDE DEF yg, yh
      <4>4. (x + yg) + yh = x + (yg + yh)
        BY <2>5, <4>3
      <4>5. A[k + 1] = x + y * (g + h) /\ g + h \in Nat
        BY <4>2, <4>3, <4>4
      <4> QED BY <4>5
    <3> QED BY <2>4, <3>1, <3>2
  <2>8. Above(k + 1)
    BY <2>6, <2>7 DEF x, y
  <2> QED BY <2>1, <2>8
<1> HIDE DEF U
<1>11. Nat \subseteq U
  BY <1>9, <1>10, CountingUp
<1>12. Above(W)
  <2>1. W - c \in Nat /\ c + (W - c) = W
    BY <1>1, <1>7
  <2>2. W - c \in U
    BY <1>11, <2>1
  <2> HIDE DEF Above
  <2>3. c + (W - c) <= W => Above(c + (W - c))
    BY <2>2 DEF U
  <2> QED BY <1>1, <2>1, <2>3
<1>13. PICK g \in Nat : A[W] = A[c] + B[c] * g
  BY <1>12
<1> DEFINE e == IF w * W + b \in S THEN 1 ELSE 0
           x == A[b]
           y == B[b]
<1>14. A[c] = x + y * e
  <2>1. c \in 1..W /\ c - 1 = b
    BY <1>7 DEF c
  <2>2. A[c] = A[b] + value[c] /\ value[c] = IF w * W + c - 1 \in S THEN B[b] ELSE 0
    BY <1>2, <1>4, <2>1
  <2>3. w * W + c - 1 = w * W + b
    <3>1. w * W \in Int
      BY <1>1
    <3> DEFINE wW == w * W
    <3> HIDE DEF wW
    <3>2. wW + c - 1 = wW + b
      BY <1>7, <2>1, <3>1 DEF wW, c
    <3> QED BY <3>2 DEF wW
  <2>4. value[c] = IF w * W + b \in S THEN B[b] ELSE 0
    BY <2>2, <2>3
  <2>5. y * 1 = y /\ y * 0 = 0
    BY <1>8
  <2> QED BY <2>2, <2>4, <2>5
<1>15. x \in 0..(y - 1) /\ y \in Nat \ {0} /\ e \in {0, 1} /\ A[W] = (x + y * e) + (2 * y) * g
  BY <1>8, <1>13, <1>14
<1>16. (w * W + b \in S) <=> e = 1
  OBVIOUS
<1> HIDE DEF x, y, e
<1>17. A[W] = y * (2 * g + e) + x
  <2>1. y * (2 * g + e) = y * (2 * g) + y * e /\ y * (2 * g) = 2 * (y * g) /\ y * e \in Int /\ y * g \in Int
    BY <1>15, Distributes
  <2>2. (2 * y) * g = 2 * (y * g)
    BY <1>15
  <2> DEFINE ye == y * e
             yg == y * g
  <2>3. ye \in Int /\ yg \in Int /\ A[W] = (x + ye) + 2 * yg /\ y * (2 * g + e) = 2 * yg + ye
    BY <1>15, <2>1, <2>2
  <2> HIDE DEF ye, yg
  <2> QED BY <1>15, <2>3
<1>18. A[W] \div y = 2 * g + e
  <2>1. 2 * g + e \in Int
    BY <1>15
  <2> QED BY <1>15, <1>17, <2>1, Quotient
<1>19. (A[W] \div y) % 2 = e
  <2>1. CASE e = 1
    BY <1>18, <2>1, OddEven
  <2>2. CASE e = 0
    BY <1>18, <2>2, OddEven
  <2> QED BY <1>15, <2>1, <2>2
<1>20. (A[W] \div y) % 2 = 1 <=> w * W + b \in S
  BY <1>16, <1>19
<1> QED BY <1>3, <1>20 DEF y, B, W

\* The bitmap has a bit for every row.
LEMMA WordsSuffice == ASSUME NEW n \in Nat PROVE n <= Words(n) * WordBits /\ Words(n) \in Nat
<1> DEFINE W == WordBits
           x == n + W - 1
           q == x \div W
           r == x % W
<1>1. W \in Nat \ {0} /\ x \in Nat
  BY BitValueSteps
<1>2. q \in Nat /\ r \in 0..(W - 1) /\ x = W * q + r
  BY <1>1, Division
<1>3. Words(n) = q
  BY DEF Words
<1>4. x = n + W - 1
  OBVIOUS
<1> HIDE DEF W, x, q, r
<1>5. W * q \in Int /\ W * q = q * W
  BY <1>1, <1>2
<1>6. n <= W * q
  BY <1>1, <1>2, <1>4, <1>5
<1> QED BY <1>2, <1>3, <1>5, <1>6 DEF W

LEMMA NullRowsInside ==
  ASSUME NEW C, NEW rs \in Seq(C)
  PROVE  /\ NullRows(rs) \subseteq 0..(Len(rs) - 1)
         /\ Cardinality(NullRows(rs)) \in 0..Len(rs)
         /\ \A r \in 1..Len(rs) : r - 1 \in NullRows(rs) <=> rs[r].null
<1> DEFINE n == Len(rs)
           S == NullRows(rs)
<1>1. n \in Nat /\ DOMAIN rs = 1..n
  OBVIOUS
<1>2. S \subseteq 0..(n - 1)
  BY <1>1 DEF NullRows
<1>3. IsFiniteSet(0..(n - 1)) /\ Cardinality(0..(n - 1)) = n
  <2>1. IsFiniteSet(0..(n - 1)) /\ Cardinality(0..(n - 1)) = IF 0 > n - 1 THEN 0 ELSE (n - 1) - 0 + 1
    <3>1. 0 \in Int /\ n - 1 \in Int
      BY <1>1
    <3> QED BY <3>1, FS_Interval, Zenon
  <2> QED BY <1>1, <2>1
<1>4. Cardinality(S) \in Nat /\ Cardinality(S) <= n
  <2>1. IsFiniteSet(S) /\ Cardinality(S) <= Cardinality(0..(n - 1))
    BY <1>2, <1>3, FS_Subset
  <2>2. Cardinality(S) \in Nat
    BY <2>1, FS_CardinalityType
  <2> QED BY <1>3, <2>1, <2>2
<1>5. ASSUME NEW r \in 1..n PROVE r - 1 \in S <=> rs[r].null
  <2>1. ASSUME r - 1 \in S PROVE rs[r].null
    <3>1. PICK q \in 1..n : rs[q].null /\ r - 1 = q - 1
      BY <1>1, <2>1 DEF NullRows
    <3>2. q = r
      BY <1>1, <3>1
    <3> QED BY <3>1, <3>2
  <2>2. ASSUME rs[r].null PROVE r - 1 \in S
    BY <1>1, <2>2 DEF NullRows
  <2> QED BY <2>1, <2>2
<1>6. Cardinality(S) \in 0..n
  BY <1>1, <1>4
<1> QED BY <1>2, <1>5, <1>6

\* The null bitmap of encode_nulls is accepted by parse_column, and the bits that fill_column
\* tests are those of the rows that are null, whatever the number of rows and of their words.
THEOREM NullsReadBack ==
  ASSUME NEW C, NEW rs \in Seq(C), NullRows(rs) # {}
  PROVE  NullBits(Nulls(rs)) = NullRows(rs) /\ NullsFit(Nulls(rs), Len(rs))
<1> DEFINE S == NullRows(rs)
           n == Len(rs)
           W == WordBits
           m == Words(n)
           words == [w \in 1..m |-> Word(S, w - 1)]
           head == <<Cardinality(S), n, m>>
           u == Nulls(rs)
<1>1. n \in Nat /\ m \in Nat /\ n <= m * W /\ W \in Nat \ {0} /\ m * W \in Nat
  <2>1. n \in Nat
    OBVIOUS
  <2>2. m \in Nat /\ n <= m * W /\ W \in Nat \ {0}
    BY <2>1, WordsSuffice, BitValueSteps
  <2> QED BY <2>1, <2>2
<1>2. S \subseteq 0..(n - 1) /\ Cardinality(S) \in 0..n
  BY NullRowsInside
<1>3. u = Joined(head, words)
  BY DEF Nulls, Joined
<1>4. head \in Seq(Int) /\ Len(head) = 3 /\ head[1] = Cardinality(S) /\ head[2] = n /\ head[3] = m
  BY <1>1, <1>2
<1>5. words \in Seq(Int) /\ Len(words) = m /\ \A w \in 1..m : words[w] = Word(S, w - 1)
  <2>1. \A w \in 1..m : Word(S, w - 1) \in Int
    BY <1>1, WordTyped
  <2> HIDE DEF m
  <2> QED BY <1>1, <2>1
<1> HIDE DEF head, words, u, m, W, n
<1>6. /\ u \in Seq(Int) /\ Len(u) = 3 + m
      /\ \A i \in 1..3 : u[0 + i] = head[i]
      /\ \A i \in 1..m : u[3 + i] = words[i]
  <2>1. Holds(Joined(head, words), 0, head) /\ Holds(Joined(head, words), Len(head), words)
    BY <1>4, <1>5, JoinedHolds
  <2>2. Joined(head, words) \in Seq(Int) /\ Len(Joined(head, words)) = Len(head) + Len(words)
    BY <1>4, <1>5, JoinedLength
  <2> QED BY <1>3, <1>4, <1>5, <2>1, <2>2 DEF Holds
<1>7. u[1] = Cardinality(S) /\ u[2] = n /\ u[3] = m
  BY <1>4, <1>6
<1>8. (Len(u) - 3) * W - 1 = m * W - 1
  <2>1. Len(u) - 3 = m
    BY <1>1, <1>6
  <2> QED BY <2>1
<1>9. ASSUME NEW i \in 0..(m * W - 1)
      PROVE  (u[4 + i \div W] \div BitValue[i % W]) % 2 = 1 <=> i \in S
  <2> DEFINE q == i \div W
             r == i % W
  <2>1. i \in Nat
    BY <1>1
  <2>2. q \in Nat /\ r \in 0..(W - 1) /\ i = W * q + r
    BY <1>1, <2>1, Division
  <2> HIDE DEF q, r
  <2>3. q < m
    <3> SUFFICES ASSUME q >= m PROVE FALSE
      BY <1>1, <2>2
    <3>1. PICK k \in Nat : q = m + k
      <4>1. q - m \in Nat /\ q = m + (q - m)
        BY <1>1, <2>2
      <4> QED BY <4>1
    <3>2. W * (m + k) = W * m + W * k /\ W * m \in Int /\ W * k \in Nat /\ W * m = m * W
      BY <1>1
    <3>3. i = (m * W + W * k) + r
      BY <2>2, <3>1, <3>2
    <3> DEFINE mW == m * W
               Wk == W * k
    <3>4. mW \in Nat /\ Wk \in Nat /\ i = (mW + Wk) + r /\ i \in 0..(mW - 1)
      BY <1>1, <3>2, <3>3
    <3> HIDE DEF mW, Wk
    <3> QED BY <2>2, <3>4
  <2>4. u[4 + q] = Word(S, q)
    <3>1. q + 1 \in 1..m /\ 4 + q = 3 + (q + 1) /\ (q + 1) - 1 = q
      BY <1>1, <2>2, <2>3
    <3>2. u[3 + (q + 1)] = words[q + 1] /\ words[q + 1] = Word(S, (q + 1) - 1)
      BY <1>5, <1>6, <3>1
    <3> QED BY <3>1, <3>2
  <2>5. (Word(S, q) \div BitValue[r]) % 2 = 1 <=> q * WordBits + r \in S
    BY <2>2, WordBit DEF W
  <2>6. q * WordBits + r = i
    BY <1>1, <2>2 DEF W
  <2>7. (u[4 + q] \div BitValue[r]) % 2 = 1 <=> i \in S
    BY <2>4, <2>5, <2>6
  <2> QED BY <2>7 DEF q, r
<1>10. NullBits(u) = S
  <2>1. NullBits(u) = {i \in 0..(m * W - 1) : (u[4 + i \div W] \div BitValue[i % W]) % 2 = 1}
    BY <1>8 DEF NullBits, W
  <2>2. NullBits(u) = {i \in 0..(m * W - 1) : i \in S}
    BY <1>9, <2>1
  <2>3. S \subseteq 0..(m * W - 1)
    <3> DEFINE mW == m * W
    <3>1. mW \in Nat /\ n <= mW
      BY <1>1
    <3> HIDE DEF mW
    <3>2. 0..(n - 1) \subseteq 0..(mW - 1)
      BY <1>1, <3>1
    <3> QED BY <1>2, <3>2 DEF mW, n
  <2> QED BY <2>2, <2>3
<1>11. NullsFit(u, n)
  <2>1. Len(u) >= 3 /\ u[1] \in 0..n /\ u[2] >= n /\ u[3] = Len(u) - 3
    BY <1>1, <1>2, <1>6, <1>7 DEF n
  <2>2. u[3] = Words(u[2])
    BY <1>7 DEF m
  <2>3. NullBits(u) \subseteq 0..(n - 1) /\ Cardinality(NullBits(u)) = u[1]
    BY <1>2, <1>7, <1>10 DEF n
  <2> QED BY <2>1, <2>2, <2>3 DEF NullsFit
<1> QED BY <1>10, <1>11 DEF u, n

-----------------------------------------------------------------------------
(* The texts in their varlenas and in the area. *)

\* The text that a varlena stands for.
TextOf(d, area) == IF IsInline(d) THEN SubSeq(Tail(d), 1, d[1]) ELSE SubSeq(area, d[2] + 1, d[2] + d[3])

BigTexts(rs) == [r \in DOMAIN rs |-> IF IsBig(rs[r]) THEN rs[r].v ELSE <<>>]
BigSizes(rs) == [r \in DOMAIN rs |-> IF IsBig(rs[r]) THEN Len(rs[r].v) ELSE 0]

LEMMA BigPieces ==
  ASSUME NEW rs \in Seq(Cells(Varchar)) PROVE Pieces(Int, Len(rs), BigTexts(rs), BigSizes(rs))
<1>1. Len(rs) \in Nat /\ DOMAIN rs = 1..Len(rs)
  OBVIOUS
<1>2. ASSUME NEW r \in 1..Len(rs) PROVE rs[r].v \in Seq(Int)
  <2>1. rs[r] \in Cells(Varchar)
    BY <1>1
  <2> QED BY <2>1 DEF Cells
<1>3. BigTexts(rs) \in [1..Len(rs) -> Seq(Int)]
  BY <1>1, <1>2 DEF BigTexts
<1>4. \A r \in 1..Len(rs) : BigSizes(rs)[r] = Len(BigTexts(rs)[r])
  BY <1>1, <1>2 DEF BigTexts, BigSizes
<1> QED BY <1>3, <1>4 DEF Pieces

\* A long text is found in the area at the offset that its varlena names.
LEMMA AreaHolds ==
  ASSUME NEW rs \in Seq(Cells(Varchar)), NEW r \in 1..Len(rs), IsBig(rs[r])
  PROVE  Holds(Area(rs), Len(Area(SubSeq(rs, 1, r - 1))), rs[r].v)
<1> DEFINE n == Len(rs)
           before == SubSeq(rs, 1, r - 1)
           size == BigSizes(rs)
           old == BigSizes(before)
<1>1. n \in Nat /\ DOMAIN rs = 1..n /\ r - 1 \in 0..n /\ r - 1 \in Nat /\ r - 1 <= n
  OBVIOUS
<1>2. /\ before \in Seq(Cells(Varchar)) /\ Len(before) = r - 1
      /\ \A k \in 1..(r - 1) : before[k] = rs[k]
  <2>1. \A k \in 1..(r - 1) : rs[k] \in Cells(Varchar)
    OBVIOUS
  <2>2. before \in Seq(Cells(Varchar)) /\ Len(before) = IF 1 <= r - 1 THEN (r - 1) - 1 + 1 ELSE 0
    BY <2>1, SubSeqProperties
  <2>3. Len(before) = r - 1
    BY <1>1, <2>2
  <2>4. \A k \in 1..(r - 1) : before[k] = rs[k]
    OBVIOUS
  <2> QED BY <2>2, <2>3, <2>4
<1>3. Len(Area(before)) = Sums(old, r - 1)[r - 1]
  BY <1>2, AreaLength DEF BigSizes
<1>4. \A k \in 1..(r - 1) : old[k] = size[k]
  <2>1. DOMAIN before = 1..(r - 1)
    BY <1>2
  <2> HIDE DEF before
  <2> QED BY <1>1, <1>2, <2>1 DEF BigSizes
<1> HIDE DEF old, size, before
<1>5. Sums(old, r - 1)[r - 1] = Sums(size, n)[r - 1]
  BY <1>1, <1>4, SumsAgree
<1>6. Holds(FlattenSeq(BigTexts(rs)), Sums(size, n)[r - 1], BigTexts(rs)[r])
  <2>1. Pieces(Int, n, BigTexts(rs), size)
    BY BigPieces DEF size
  <2> QED BY <1>1, <2>1, PieceHeld
<1>7. BigTexts(rs)[r] = rs[r].v /\ Area(rs) = FlattenSeq(BigTexts(rs))
  BY <1>1 DEF BigTexts, Area
<1> QED BY <1>3, <1>5, <1>6, <1>7 DEF before

LEMMA TextReads ==
  ASSUME NEW rs \in Seq(Cells(Varchar)), NEW r \in 1..Len(rs)
  PROVE  /\ DescriptorFits(Varlena(rs, r), Area(rs))
         /\ ~rs[r].null => TextOf(Varlena(rs, r), Area(rs)) = rs[r].v
<1> DEFINE text == rs[r].v
           d == Varlena(rs, r)
           area == Area(rs)
<1>1. rs[r] \in Cells(Varchar) /\ text \in Seq(Int) /\ Len(text) \in Nat
  <2>1. rs[r] \in Cells(Varchar)
    OBVIOUS
  <2> QED BY <2>1 DEF Cells
<1>2. VarlenaSize \in 3..99 /\ InlineMax = VarlenaSize - 1
  BY CodecAssumption DEF InlineMax, BigMarker
<1>3. d \in Seq(Int) /\ Len(d) = VarlenaSize
  BY VarlenaLength
<1>4. CASE rs[r].null
  <2>1. d = Zeros(VarlenaSize)
    BY <1>4 DEF Varlena
  <2>2. d[1] = 0
    BY <1>2, <2>1 DEF Zeros
  <2>3. IsInline(d)
    BY <1>2, <2>2 DEF IsInline
  <2> QED BY <1>4, <2>3 DEF DescriptorFits
<1>5. CASE ~rs[r].null /\ IsBig(rs[r])
  <2> DEFINE at == Len(Area(SubSeq(rs, 1, r - 1)))
             head == <<BigMarker, at, Len(text)>>
             rest == Zeros(VarlenaSize - 3)
  <2>1. Holds(area, at, text)
    BY <1>5, AreaHolds
  <2>2. d = Joined(head, rest)
    BY <1>5 DEF Varlena, Joined
  <2> HIDE DEF at, area, text
  <2>3. at \in Nat /\ at + Len(text) <= Len(area) /\ Len(area) \in Nat
    BY <2>1 DEF Holds
  <2>4. head \in Seq(Int) /\ Len(head) = 3 /\ head[1] = 99 /\ head[2] = at /\ head[3] = Len(text)
    BY <1>1, <2>3 DEF BigMarker
  <2>5. rest \in Seq(Int)
    BY <1>2, ZerosLength
  <2> HIDE DEF head, rest, d
  <2>6. d[1] = 99 /\ d[2] = at /\ d[3] = Len(text)
    <3>1. Holds(d, 0, head)
      BY <2>2, <2>4, <2>5, JoinedHolds
    <3>2. \A i \in 1..3 : d[0 + i] = head[i]
      BY <2>4, <3>1 DEF Holds
    <3>3. d[0 + 1] = head[1] /\ d[0 + 2] = head[2] /\ d[0 + 3] = head[3]
      BY <3>2
    <3>4. 0 + 1 = 1 /\ 0 + 2 = 2 /\ 0 + 3 = 3
      OBVIOUS
    <3> QED BY <2>4, <3>3, <3>4
  <2>7. ~IsInline(d)
    BY <1>2, <2>6 DEF IsInline
  <2>8. DescriptorFits(d, area)
    BY <1>1, <2>3, <2>6 DEF DescriptorFits, BigMarker
  <2>9. TextOf(d, area) = text
    <3>1. SubSeq(area, at + 1, at + Len(text)) = text
      BY <2>1, HeldSlice, Zenon
    <3> QED BY <2>6, <2>7, <3>1 DEF TextOf
  <2> QED BY <2>8, <2>9 DEF d, area, text
<1>6. CASE ~rs[r].null /\ ~IsBig(rs[r])
  <2> DEFINE head == <<Len(text)>>
             rest == Zeros(InlineMax - Len(text))
             s1 == Joined(head, text)
  <2>1. Len(text) \in 0..InlineMax
    BY <1>1, <1>2, <1>6 DEF IsBig
  <2>2. d = Joined(s1, rest)
    BY <1>6 DEF Varlena, Joined
  <2> HIDE DEF text
  <2>3. head \in Seq(Int) /\ Len(head) = 1 /\ head[1] = Len(text)
    BY <1>1
  <2>4. rest \in Seq(Int)
    BY <1>2, <2>1, ZerosLength
  <2> HIDE DEF head, rest
  <2>5. s1 \in Seq(Int) /\ Holds(s1, 0, head) /\ Holds(s1, 1, text)
    <3>1. Holds(s1, 0, head) /\ Holds(s1, Len(head), text)
      BY <1>1, <2>3, JoinedHolds
    <3>2. s1 \in Seq(Int)
      BY <1>1, <2>3, JoinedLength
    <3> QED BY <2>3, <3>1, <3>2
  <2> HIDE DEF s1, d
  <2>6. Holds(d, 0, head)
    BY <2>2, <2>4, <2>5, HeldInJoined
  <2>7. Holds(d, 1, text)
    BY <2>2, <2>4, <2>5, HeldInJoined
  <2>8. d[1] = Len(text)
    <3>1. d[0 + 1] = head[1]
      BY <2>3, <2>6 DEF Holds
    <3> QED BY <2>3, <3>1
  <2>9. IsInline(d)
    BY <2>1, <2>8 DEF IsInline
  <2>10. SubSeq(Tail(d), 1, Len(text)) = text
    <3> DEFINE t == Tail(d)
    <3>1. d # <<>> /\ Len(d) \in Nat
      BY <1>2, <1>3
    <3>2. t \in Seq(Int) /\ Len(t) = Len(d) - 1 /\ \A i \in 1..Len(t) : t[i] = d[i + 1]
      BY <1>3, <3>1, HeadTailProperties
    <3> HIDE DEF t
    <3>3. /\ 1 + Len(text) <= Len(d) /\ \A i \in 1..Len(text) : d[1 + i] = text[i]
      BY <2>7 DEF Holds
    <3>4. ASSUME NEW i \in 1..Len(text) PROVE t[0 + i] = text[i]
      <4>1. i \in 1..Len(t) /\ 0 + i = i /\ i + 1 = 1 + i
        BY <1>1, <3>1, <3>2, <3>3
      <4> QED BY <3>2, <3>3, <4>1
    <3>5. 0 + Len(text) <= Len(t)
      BY <1>1, <3>1, <3>2, <3>3
    <3>6. Holds(t, 0, text)
      BY <1>1, <3>2, <3>4, <3>5 DEF Holds
    <3>7. SubSeq(t, 0 + 1, 0 + Len(text)) = text
      BY <3>6, HeldSlice, Zenon
    <3>8. 0 + 1 = 1 /\ 0 + Len(text) = Len(text)
      BY <1>1
    <3> QED BY <3>7, <3>8 DEF t
  <2>11. TextOf(d, area) = text
    BY <2>8, <2>9, <2>10 DEF TextOf
  <2>12. DescriptorFits(d, area)
    BY <2>9 DEF DescriptorFits
  <2> QED BY <2>11, <2>12 DEF d, text
<1> QED BY <1>4, <1>5, <1>6

-----------------------------------------------------------------------------
(* One column, in its two forms. *)

\* What row r of the values in a view reads.
ValueRead(v, r) ==
  IF v.oid = Varchar THEN TextOf(Descriptor(v, r), v.area) ELSE v.data[r] - Epoch

LEMMA CellRead ==
  ASSUME NEW v, NEW r
  PROVE  /\ ReadsNull(v, r) => ReadCell(v, r) = [null |-> TRUE, v |-> <<>>]
         /\ ~ReadsNull(v, r) => ReadCell(v, r) = [null |-> FALSE, v |-> ValueRead(v, SourceRow(v, r))]
<1> DEFINE R == SourceRow(v, r)
           d == Descriptor(v, R)
           s == Source(v, r)
<1>1. CASE ReadsNull(v, r)
  BY <1>1 DEF ReadCell
<1>2. CASE ~ReadsNull(v, r)
  <2>1. CASE v.oid # Varchar
    <3>1. s = [of |-> v.data, from |-> R, to |-> R]
      BY <2>1 DEF Source
    <3>2. s.of[s.from] = v.data[R]
      BY <3>1
    <3> QED BY <1>2, <2>1, <3>2 DEF ReadCell, ValueRead
  <2>2. CASE v.oid = Varchar /\ IsInline(d)
    <3>1. s = [of |-> Tail(d), from |-> 1, to |-> d[1]]
      BY <2>2 DEF Source
    <3>2. SubSeq(s.of, s.from, s.to) = TextOf(d, v.area)
      <4>1. TextOf(d, v.area) = SubSeq(Tail(d), 1, d[1])
        BY <2>2 DEF TextOf
      <4> HIDE DEF s, d
      <4>2. s.of = Tail(d) /\ s.from = 1 /\ s.to = d[1]
        BY <3>1
      <4> QED BY <4>1, <4>2
    <3> QED BY <1>2, <2>2, <3>2 DEF ReadCell, ValueRead
  <2>3. CASE v.oid = Varchar /\ ~IsInline(d)
    <3>1. s = [of |-> v.area, from |-> d[2] + 1, to |-> d[2] + d[3]]
      BY <2>3 DEF Source
    <3>2. SubSeq(s.of, s.from, s.to) = TextOf(d, v.area)
      <4>1. TextOf(d, v.area) = SubSeq(v.area, d[2] + 1, d[2] + d[3])
        BY <2>3 DEF TextOf
      <4> HIDE DEF s, d
      <4>2. s.of = v.area /\ s.from = d[2] + 1 /\ s.to = d[2] + d[3]
        BY <3>1
      <4> QED BY <4>1, <4>2
    <3> QED BY <1>2, <2>3, <3>2 DEF ReadCell, ValueRead
  <2> QED BY <2>1, <2>2, <2>3
<1> QED BY <1>1, <1>2

\* The values of rows that are not null are read back.
LEMMA DataReads ==
  ASSUME NEW oid \in Int, NEW rs \in Seq(Cells(oid)), NEW v, v.oid = oid,
         v.data = Data(oid, rs), v.area = AreaOf(oid, rs), NEW r \in 1..Len(rs)
  PROVE  /\ oid = Varchar => DescriptorFits(Descriptor(v, r), v.area)
         /\ ~rs[r].null => ValueRead(v, r) = rs[r].v
<1> DEFINE n == Len(rs)
           V == VarlenaSize
<1>1. n \in Nat /\ DOMAIN rs = 1..n
  OBVIOUS
<1>2. CASE oid = Varchar
  <2> DEFINE seqs == [q \in DOMAIN rs |-> Varlena(rs, q)]
             size == [q \in 1..n |-> V]
  <2>1. \A q \in 1..n : Varlena(rs, q) \in Seq(Int) /\ Len(Varlena(rs, q)) = V
    BY <1>2, VarlenaLength
  <2>2. Pieces(Int, n, seqs, size)
    <3>1. seqs \in [1..n -> Seq(Int)] /\ \A q \in 1..n : size[q] = Len(seqs[q])
      BY <1>1, <2>1
    <3> QED BY <3>1 DEF Pieces
  <2>3. \A q \in 1..n : size[q] = V
    OBVIOUS
  <2>4. v.data = FlattenSeq(seqs) /\ v.area = Area(rs) /\ seqs[r] = Varlena(rs, r)
    BY <1>1, <1>2 DEF Data, AreaOf
  <2> HIDE DEF seqs, size, n
  <2>5. r \in 1..n /\ V \in Nat
    BY SizesTyped DEF n
  <2>6. Holds(v.data, Sums(size, n)[r - 1], Varlena(rs, r))
    <3>1. Holds(FlattenSeq(seqs), Sums(size, n)[r - 1], seqs[r])
      BY <1>1, <2>2, <2>5, PieceHeld
    <3> QED BY <2>4, <3>1
  <2>7. Sums(size, n)[r - 1] = (r - 1) * V
    <3>1. \A k \in 0..n : Sums(size, n)[k] = k * V
      BY <1>1, <2>3, <2>5, SumsOfConstant
    <3>2. r - 1 \in 0..n
      BY <1>1, <2>5
    <3> QED BY <3>1, <3>2
  <2>8. SubSeq(v.data, (r - 1) * V + 1, (r - 1) * V + Len(Varlena(rs, r))) = Varlena(rs, r)
    BY <2>6, <2>7, HeldSlice, Zenon
  <2>9. (r - 1) * V + Len(Varlena(rs, r)) = r * V
    <3>1. Len(Varlena(rs, r)) = V
      BY <2>1, <2>5
    <3>2. r - 1 \in Int /\ r = (r - 1) + 1
      BY <1>1, <2>5
    <3>3. (r - 1) * V + V = r * V
      BY <1>1, <2>5
    <3> QED BY <3>1, <3>3
  <2>10. Descriptor(v, r) = Varlena(rs, r)
    BY <2>8, <2>9 DEF Descriptor
  <2>11. /\ DescriptorFits(Varlena(rs, r), Area(rs))
         /\ ~rs[r].null => TextOf(Varlena(rs, r), Area(rs)) = rs[r].v
    BY <1>2, TextReads
  <2> QED BY <1>2, <2>4, <2>10, <2>11 DEF ValueRead
<1>3. CASE oid # Varchar
  <2>1. rs[r].v \in Int
    <3>1. rs[r] \in Cells(oid)
      BY <1>1
    <3> QED BY <1>3, <3>1 DEF Cells
  <2>2. v.data[r] = IF rs[r].null THEN 0 ELSE rs[r].v + Epoch
    BY <1>1, <1>3 DEF Data
  <2>3. Epoch \in Int
    BY CodecAssumption
  <2>4. ~rs[r].null => v.data[r] - Epoch = rs[r].v
    BY <2>1, <2>2, <2>3
  <2> QED BY <1>3, <2>4 DEF ValueRead
<1> QED BY <1>2, <1>3

\* The vector is accepted, and its rows read as these cells.
ReadsAs(b, n, oid, cells) ==
  /\ b \in Seq(Int) /\ ColumnAccepted(b, n, oid)
  /\ \A r \in 1..n : SameCell(ReadCell(View(b), r), cells[r])

LEMMA AreaTyped == ASSUME NEW oid \in Int, NEW rs \in Seq(Cells(oid)) PROVE AreaOf(oid, rs) \in Seq(Int)
<1>1. CASE oid = Varchar
  BY <1>1, AreaLength DEF AreaOf
<1>2. CASE oid # Varchar
  BY <1>2 DEF AreaOf
<1> QED BY <1>1, <1>2

\* A column that was encoded is accepted and read back: fill_column after encode.
LEMMA ColumnReadsBack ==
  ASSUME NEW oid \in Int, NEW rs \in Seq(Cells(oid))
  PROVE  ReadsAs(EncodeColumn(oid, rs), Len(rs), oid, rs)
<1> DEFINE n == Len(rs)
           b == EncodeColumn(oid, rs)
           d == Data(oid, rs)
           a == AreaOf(oid, rs)
           u == Nulls(rs)
           v == View(b)
<1>1. n \in Nat /\ DOMAIN rs = 1..n
  OBVIOUS
<1>2. d \in Seq(Int) /\ Len(d) = n * TypeSize(oid) /\ a \in Seq(Int) /\ u \in Seq(Int)
  <2>1. d \in Seq(Int) /\ Len(d) = n * TypeSize(oid)
    BY DataLength
  <2>2. a \in Seq(Int)
    BY AreaTyped
  <2>3. u \in Seq(Int)
    BY NullsLength
  <2> QED BY <2>1, <2>2, <2>3
<1>3. b = Vector(Flat, oid, n, d, a, u, 0)
  BY DEF EncodeColumn, AreaOf, Vector, Joined
<1>4. ViewedAs(b, [class |-> Flat, oid |-> oid, rows |-> n, data |-> d, area |-> a, nulls |-> u, sorted |-> 0])
  <2>1. Flat \in Int /\ n \in Int /\ 0 \in Int
    BY <1>1 DEF Flat
  <2> HIDE DEF b, d, a, u, n
  <2> QED BY <1>2, <1>3, <2>1, VectorViewed, Zenon
<1>5. b \in Seq(Int) /\ Len(b) >= 4 /\ Parts(b)[3] = Len(b)
  BY <1>4 DEF ViewedAs
<1> HIDE DEF v, b
<1>6. /\ v.class = Flat /\ v.class # Constant /\ v.oid = oid /\ v.rows = n /\ v.data = d /\ v.area = a /\ v.nulls = u
      /\ v.sorted = 0
  BY <1>4 DEF ViewedAs, Flat, Constant, v
<1>7. NullsFit(u, n) /\ \A r \in 1..n : IsNull(v, r) <=> rs[r].null
  <2>1. \A r \in 1..n : r - 1 \in NullRows(rs) <=> rs[r].null
    BY NullRowsInside
  <2>2. CASE NullRows(rs) = {}
    <3>1. u = <<>>
      BY <2>2 DEF Nulls
    <3> QED BY <1>6, <2>1, <2>2, <3>1 DEF NullsFit, IsNull
  <2>3. CASE NullRows(rs) # {}
    <3>1. NullBits(u) = NullRows(rs) /\ NullsFit(u, n)
      BY <2>3, NullsReadBack
    <3>2. u # <<>>
      <4>1. Len(u) = 3 + Words(n) /\ Words(n) \in Nat
        BY <1>1, <2>3, NullsLength, WordsTyped
      <4> HIDE DEF u
      <4>2. Len(u) # 0
        BY <4>1
      <4> QED BY <4>2
    <3> HIDE DEF u, n
    <3> QED BY <1>6, <2>1, <3>1, <3>2 DEF IsNull, n
  <2> QED BY <2>2, <2>3
<1>8. ASSUME NEW r \in 1..n
      PROVE  /\ oid = Varchar => DescriptorFits(Descriptor(v, r), v.area)
             /\ SameCell(ReadCell(v, r), rs[r])
  <2>1. /\ oid = Varchar => DescriptorFits(Descriptor(v, r), v.area)
        /\ ~rs[r].null => ValueRead(v, r) = rs[r].v
    BY <1>6, DataReads
  <2>2. ReadsNull(v, r) <=> rs[r].null
    BY <1>6, <1>7 DEF ReadsNull
  <2>3. SourceRow(v, r) = r
    BY <1>6 DEF SourceRow
  <2>4. rs[r].null \in BOOLEAN
    <3>1. rs[r] \in Cells(oid)
      BY <1>1
    <3> QED BY <3>1 DEF Cells
  <2>5. CASE rs[r].null
    <3>1. ReadCell(v, r) = [null |-> TRUE, v |-> <<>>]
      BY <2>2, <2>5, CellRead
    <3> QED BY <2>1, <2>4, <2>5, <3>1 DEF SameCell
  <2>6. CASE ~rs[r].null
    <3>1. ReadCell(v, r) = [null |-> FALSE, v |-> ValueRead(v, r)]
      BY <2>2, <2>3, <2>6, CellRead
    <3>2. ReadCell(v, r).null = FALSE /\ ReadCell(v, r).v = ValueRead(v, r)
      BY <3>1
    <3>3. rs[r].null = FALSE /\ ValueRead(v, r) = rs[r].v
      BY <2>1, <2>4, <2>6
    <3> QED BY <2>1, <3>2, <3>3 DEF SameCell
  <2> QED BY <2>5, <2>6
<1>9. ColumnAccepted(b, n, oid)
  <2>1. DataFits(v)
    <3>1. v.area = <<>> \/ v.oid = Varchar
      BY <1>6 DEF AreaOf
    <3> QED BY <1>2, <1>6, <3>1 DEF DataFits
  <2>2. PhysicalRows(v) = n
    BY <1>6 DEF PhysicalRows
  <2> HIDE DEF n, d, a, u
  <2>3. /\ v.class \in {Flat, Constant} /\ v.oid = oid /\ v.rows = n /\ v.sorted \in {0, 1}
        /\ DataFits(v) /\ NullsFit(v.nulls, n)
        /\ oid = Varchar => \A r \in 1..PhysicalRows(v) : DescriptorFits(Descriptor(v, r), v.area)
    BY <1>6, <1>7, <1>8, <2>1, <2>2
  <2> QED BY <1>5, <2>3 DEF ColumnAccepted, v
<1> QED BY <1>5, <1>8, <1>9 DEF ReadsAs, v, b

\* A vector of one constant is accepted and reads it in every row.
LEMMA ConstantReadsBack ==
  ASSUME NEW oid \in Int, NEW cell \in Cells(oid), NEW n \in Nat
  PROVE  ReadsAs(ConstantVector(oid, cell, n), n, oid, [r \in 1..n |-> cell])
<1> DEFINE b == ConstantVector(oid, cell, n)
           rs == <<cell>>
           d == IF cell.null THEN <<>> ELSE Data(oid, rs)
           a == AreaOf(oid, rs)
           u == <<>>
           v == View(b)
<1>1. rs \in Seq(Cells(oid)) /\ Len(rs) = 1 /\ rs[1] = cell /\ DOMAIN rs = 1..1
  OBVIOUS
<1>2. cell.null \in BOOLEAN
  BY DEF Cells
<1>3. b = Vector(Constant, oid, n, d, a, u, 1)
  BY DEF ConstantVector, AreaOf, Vector, Joined
<1> HIDE DEF rs
<1>4. Data(oid, rs) \in Seq(Int) /\ Len(Data(oid, rs)) = TypeSize(oid) /\ TypeSize(oid) \in Nat \ {0}
  <2>1. TypeSize(oid) \in Nat \ {0}
    BY SizesTyped
  <2>2. Data(oid, rs) \in Seq(Int) /\ Len(Data(oid, rs)) = 1 * TypeSize(oid)
    BY <1>1, DataLength
  <2> QED BY <2>1, <2>2
<1>5. d \in Seq(Int) /\ (d = <<>> <=> cell.null) /\ (~cell.null => d = Data(oid, rs) /\ Len(d) = TypeSize(oid))
  <2>1. CASE cell.null
    BY <2>1
  <2>2. CASE ~cell.null
    <3>1. d = Data(oid, rs)
      BY <2>2
    <3>2. d # <<>>
      BY <1>4, <3>1
    <3> QED BY <1>4, <2>2, <3>1, <3>2
  <2> QED BY <2>1, <2>2
<1>6. a \in Seq(Int) /\ u \in Seq(Int)
  BY <1>1, AreaTyped
<1> HIDE DEF d, a
<1>7. ViewedAs(b, [class |-> Constant, oid |-> oid, rows |-> n, data |-> d, area |-> a, nulls |-> u, sorted |-> 1])
  <2>1. Constant \in Int /\ n \in Int /\ 1 \in Int
    BY DEF Constant
  <2> HIDE DEF b, u
  <2> QED BY <1>3, <1>5, <1>6, <2>1, VectorViewed, Zenon
<1>8. b \in Seq(Int) /\ Len(b) >= 4 /\ Parts(b)[3] = Len(b)
  BY <1>7 DEF ViewedAs
<1> HIDE DEF v, b
<1>9. /\ v.class = Constant /\ v.oid = oid /\ v.rows = n /\ v.data = d /\ v.area = a /\ v.nulls = <<>> /\ v.sorted = 1
  BY <1>7 DEF ViewedAs, v
<1>10. ~cell.null => /\ oid = Varchar => DescriptorFits(Descriptor(v, 1), v.area)
                     /\ ValueRead(v, 1) = cell.v
  <2> SUFFICES ASSUME ~cell.null
               PROVE  /\ oid = Varchar => DescriptorFits(Descriptor(v, 1), v.area)
                      /\ ValueRead(v, 1) = cell.v
    OBVIOUS
  <2>1. v.data = Data(oid, rs) /\ v.area = AreaOf(oid, rs) /\ 1 \in 1..Len(rs) /\ ~rs[1].null
    BY <1>1, <1>5, <1>9 DEF a
  <2>2. /\ oid = Varchar => DescriptorFits(Descriptor(v, 1), v.area)
        /\ ~rs[1].null => ValueRead(v, 1) = rs[1].v
    BY <1>1, <1>9, <2>1, DataReads
  <2> QED BY <1>1, <2>1, <2>2
<1>11. ASSUME NEW r \in 1..n PROVE SameCell(ReadCell(v, r), cell)
  <2>1. ReadsNull(v, r) <=> cell.null
    BY <1>5, <1>9 DEF ReadsNull, IsNull
  <2>2. SourceRow(v, r) = 1
    BY <1>9 DEF SourceRow
  <2>3. CASE cell.null
    <3>1. ReadCell(v, r) = [null |-> TRUE, v |-> <<>>]
      BY <2>1, <2>3, CellRead
    <3> QED BY <1>2, <2>3, <3>1 DEF SameCell
  <2>4. CASE ~cell.null
    <3>1. ReadCell(v, r) = [null |-> FALSE, v |-> ValueRead(v, 1)]
      BY <2>1, <2>2, <2>4, CellRead
    <3>2. ReadCell(v, r).null = FALSE /\ ReadCell(v, r).v = ValueRead(v, 1)
      BY <3>1
    <3>3. cell.null = FALSE /\ ValueRead(v, 1) = cell.v
      BY <1>2, <1>10, <2>4
    <3> QED BY <3>2, <3>3 DEF SameCell
  <2> QED BY <2>3, <2>4
<1>12. ColumnAccepted(b, n, oid)
  <2>1. DataFits(v)
    <3>1. v.area = <<>> \/ v.oid = Varchar
      BY <1>9 DEF AreaOf, a
    <3>2. Len(v.data) = IF v.data = <<>> THEN 0 ELSE TypeSize(v.oid)
      <4>1. CASE cell.null
        BY <1>5, <1>9, <4>1
      <4>2. CASE ~cell.null
        BY <1>5, <1>9, <4>2
      <4> QED BY <4>1, <4>2
    <3> QED BY <1>9, <3>1, <3>2 DEF DataFits
  <2>2. oid = Varchar => \A r \in 1..PhysicalRows(v) : DescriptorFits(Descriptor(v, r), v.area)
    <3>1. CASE cell.null
      <4>1. PhysicalRows(v) = 0
        BY <1>5, <1>9, <3>1 DEF PhysicalRows
      <4> QED BY <4>1
    <3>2. CASE ~cell.null
      <4>1. PhysicalRows(v) = 1
        BY <1>5, <1>9, <3>2 DEF PhysicalRows
      <4>2. \A r \in 1..1 : r = 1
        OBVIOUS
      <4> QED BY <1>10, <3>2, <4>1, <4>2
    <3> QED BY <3>1, <3>2
  <2>3. /\ v.class \in {Flat, Constant} /\ v.oid = oid /\ v.rows = n /\ v.sorted \in {0, 1}
        /\ NullsFit(v.nulls, n)
    BY <1>9 DEF NullsFit
  <2> QED BY <1>8, <2>1, <2>2, <2>3 DEF ColumnAccepted, v
<1> QED BY <1>8, <1>11, <1>12 DEF ReadsAs, v, b

-----------------------------------------------------------------------------
(* A batch. *)

LEMMA RowCount == ASSUME GoodBatch(batch) PROVE AllRows \in Nat
<1>1. 1 \in DOMAIN batch.schema
  BY DEF GoodBatch
<1>2. batch.columns[1] \in Seq(Cells(batch.schema[1].oid))
  BY <1>1 DEF GoodBatch
<1> QED BY <1>2 DEF AllRows

LEMMA ZerosHeld ==
  ASSUME NEW p, NEW at, NEW m \in Nat, Holds(p, at, Zeros(m)), NEW i \in (at + 1)..(at + m) PROVE p[i] = 0
<1>1. at \in Nat /\ Len(Zeros(m)) = m
  BY ZerosLength DEF Holds
<1>2. i - at \in 1..m /\ at + (i - at) = i
  BY <1>1
<1>3. p[at + (i - at)] = Zeros(m)[i - at]
  BY <1>1, <1>2 DEF Holds
<1>4. Zeros(m)[i - at] = 0
  BY <1>2 DEF Zeros
<1> QED BY <1>2, <1>3, <1>4

\* The payload is accepted and its rows read as these cells.
BatchReadsAs(p, oids, count, cells) ==
  /\ BatchAccepted(p, oids) /\ p[1] = count
  /\ \A c \in DOMAIN oids : \A r \in 1..count : SameCell(ReadBatch(p, oids)[c][r], cells[c][r])

\* The row count, the number of columns and the sized vectors stand at the beginning of p; the
\* attribute names, if there are any, and three zeros at its end.
Laid(p, count, n, items) ==
  LET a == 3 + Len(FlattenSeq(items)) IN
  /\ Holds(p, 0, <<count, n>>) /\ Holds(p, 2, FlattenSeq(items))
  /\ a <= Len(p) /\ p[a] \in {0, n} /\ AfterItems(p, a + 1, p[a])[p[a]] = Len(p) - 2
  /\ \A i \in (Len(p) - 2)..Len(p) : p[i] = 0

LEMMA BatchRead ==
  ASSUME NEW n \in Nat, NEW oids, DOMAIN oids = 1..n, Len(oids) = n, NEW count \in Nat \ {0},
         NEW vecs \in [1..n -> Seq(Int)], NEW cells,
         \A c \in 1..n : ReadsAs(vecs[c], count, oids[c], cells[c]),
         NEW p \in Seq(Int), NEW items, items = [c \in 1..n |-> Sized(vecs[c])], Laid(p, count, n, items)
  PROVE  BatchReadsAs(p, oids, count, cells)
<1> DEFINE flat == FlattenSeq(items)
           A == AfterItems(p, 3, n)
           a == A[n]
<1>1. p[1] = count /\ p[2] = n /\ Len(p) >= 2 /\ Len(p) \in Nat
  <2> DEFINE head == <<count, n>>
  <2>1. head \in Seq(Int) /\ Len(head) = 2 /\ head[1] = count /\ head[2] = n
    OBVIOUS
  <2>2. Holds(p, 0, head)
    BY DEF Laid
  <2> HIDE DEF head
  <2>3. p[0 + 1] = head[1] /\ p[0 + 2] = head[2] /\ 0 + 2 <= Len(p)
    BY <2>1, <2>2 DEF Holds
  <2>4. 0 + 1 = 1 /\ 0 + 2 = 2
    OBVIOUS
  <2> QED BY <2>1, <2>3, <2>4
<1>2. a = 3 + Len(flat) /\ \A k \in 1..n : SubSeq(p, A[k - 1] + 1, A[k] - 1) = vecs[k]
  <2>1. Holds(p, 2, flat)
    BY DEF Laid
  <2>2. 2 \in Nat /\ 2 + 1 = 3
    OBVIOUS
  <2>3. ItemsReadAs(p, 2 + 1, n, Len(FlattenSeq(items)), vecs)
    BY <2>1, <2>2, ItemsRead, Zenon
  <2> QED BY <2>2, <2>3 DEF ItemsReadAs
<1>3. \A c \in 1..n : Vectors(p, n)[c] = vecs[c]
  BY <1>2 DEF Vectors
<1>4. /\ a <= Len(p) /\ p[a] \in {0, n} /\ AfterItems(p, a + 1, p[a])[p[a]] = Len(p) - 2
      /\ \A i \in (Len(p) - 2)..Len(p) : p[i] = 0
  BY <1>2 DEF Laid
<1>5. \A c \in 1..n : ColumnAccepted(vecs[c], count, oids[c])
  BY DEF ReadsAs
<1>6. \A c \in 1..n : ColumnAccepted(Vectors(p, n)[c], p[1], oids[c])
  BY <1>1, <1>3, <1>5
<1>7. BatchAccepted(p, oids)
  <2>1. p[1] > 0
    BY <1>1
  <2> HIDE DEF flat
  <2> QED BY <1>1, <1>4, <1>6, <2>1 DEF BatchAccepted
<1>8. ASSUME NEW c \in 1..n, NEW r \in 1..count PROVE SameCell(ReadBatch(p, oids)[c][r], cells[c][r])
  <2>1. ReadBatch(p, oids)[c][r] = ReadCell(View(Vectors(p, n)[c]), r)
    BY <1>1 DEF ReadBatch
  <2>2. SameCell(ReadCell(View(vecs[c]), r), cells[c][r])
    BY DEF ReadsAs
  <2>3. Vectors(p, n)[c] = vecs[c]
    BY <1>3
  <2> QED BY <2>1, <2>2, <2>3
<1> QED BY <1>1, <1>7, <1>8 DEF BatchReadsAs

\* The schema of a good batch.
LEMMA OidsTyped ==
  ASSUME GoodBatch(batch)
  PROVE  /\ Len(batch.schema) \in Nat \ {0} /\ DOMAIN batch.schema = 1..Len(batch.schema)
         /\ DOMAIN Oids = 1..Len(batch.schema) /\ Len(Oids) = Len(batch.schema)
         /\ \A c \in 1..Len(batch.schema) :
              /\ Oids[c] = batch.schema[c].oid /\ Oids[c] \in Int
              /\ batch.columns[c] \in Seq(Cells(Oids[c])) /\ Len(batch.columns[c]) = AllRows
<1> DEFINE n == Len(batch.schema)
<1>1. n \in Nat \ {0} /\ DOMAIN batch.schema = 1..n
  BY DEF GoodBatch
<1>2. batch.schema \in Seq([oid : Int, required : BOOLEAN])
  BY DEF GoodBatch
<1> HIDE DEF n
<1>3. DOMAIN Oids = 1..n /\ Len(Oids) = n /\ \A c \in 1..n : Oids[c] = batch.schema[c].oid
  BY <1>1 DEF Oids
<1>4. ASSUME NEW c \in 1..n
      PROVE Oids[c] \in Int /\ batch.columns[c] \in Seq(Cells(Oids[c])) /\ Len(batch.columns[c]) = AllRows
  <2>1. batch.schema[c] \in [oid : Int, required : BOOLEAN]
    BY <1>2, ElementOfSeq DEF n
  <2>2. batch.columns[c] \in Seq(Cells(batch.schema[c].oid)) /\ Len(batch.columns[c]) = Len(batch.columns[1])
    BY <1>1 DEF GoodBatch
  <2> QED BY <1>3, <2>1, <2>2 DEF AllRows
<1> QED BY <1>1, <1>3, <1>4 DEF n

\* What native_result_batch_encoder::encode makes of a range of rows is accepted by
\* native_batch_view, and fill_column reads those rows of it: nulls, texts within their
\* varlena or in the area, and dates.
THEOREM EncodedReadsBack ==
  ASSUME GoodBatch(batch), NEW o \in Nat, NEW k \in Nat \ {0}, o + k <= AllRows
  PROVE  BatchReadsAs(Encode(batch, o, k), Oids, k, [c \in DOMAIN Oids |-> RowRange(batch.columns[c], o, k)])
<1> DEFINE n == Len(batch.schema)
           cells == [c \in DOMAIN Oids |-> RowRange(batch.columns[c], o, k)]
           vecs == [c \in DOMAIN batch.schema |-> EncodeColumn(batch.schema[c].oid, RowRange(batch.columns[c], o, k))]
           items == [c \in 1..n |-> Sized(vecs[c])]
           flat == FlattenSeq(items)
           p == Encode(batch, o, k)
           head == <<k, n>>
<1>1. /\ n \in Nat \ {0} /\ DOMAIN batch.schema = 1..n /\ DOMAIN Oids = 1..n /\ Len(Oids) = n
      /\ \A c \in 1..n : Oids[c] = batch.schema[c].oid /\ Oids[c] \in Int
  BY OidsTyped
<1>2. ASSUME NEW c \in 1..n
      PROVE  /\ vecs[c] = EncodeColumn(Oids[c], cells[c])
             /\ cells[c] \in Seq(Cells(Oids[c])) /\ Len(cells[c]) = k
  <2>1. cells[c] = RowRange(batch.columns[c], o, k) /\ Oids[c] = batch.schema[c].oid
    BY <1>1
  <2>2. vecs[c] = EncodeColumn(batch.schema[c].oid, RowRange(batch.columns[c], o, k))
    BY <1>1
  <2>3. /\ RowRange(batch.columns[c], o, k) \in Seq(Cells(batch.schema[c].oid))
        /\ Len(RowRange(batch.columns[c], o, k)) = k
    BY ColumnTyped DEF AllRows
  <2> QED BY <2>1, <2>2, <2>3
<1>3. DOMAIN vecs = 1..n /\ Len(vecs) = n /\ vecs = [c \in 1..n |-> vecs[c]] /\ p = Assemble(k, vecs)
  BY <1>1 DEF Encode
<1> HIDE DEF vecs, cells, n
<1>4. \A c \in 1..n : ReadsAs(vecs[c], k, Oids[c], cells[c])
  <2> SUFFICES ASSUME NEW c \in 1..n PROVE ReadsAs(vecs[c], k, Oids[c], cells[c])
    OBVIOUS
  <2>1. ReadsAs(EncodeColumn(Oids[c], cells[c]), Len(cells[c]), Oids[c], cells[c])
    BY <1>1, <1>2, ColumnReadsBack
  <2> QED BY <1>2, <2>1
<1>5. vecs \in [1..n -> Seq(Int)]
  BY <1>3, <1>4 DEF ReadsAs
<1>6. items \in [1..n -> Seq(Int)]
  BY <1>5, SizedLength
<1>7. flat \in Seq(Int) /\ Len(flat) \in Nat
  <2>1. flat \in Seq(Int)
    BY <1>1, <1>6, FlattenTyped
  <2> QED BY <2>1
<1> DEFINE s1 == Joined(head, flat)
<1>8. p = Joined(s1, Zeros(4))
  <2>1. [c \in DOMAIN vecs |-> Sized(vecs[c])] = items
    BY <1>3
  <2> QED BY <1>3, <2>1 DEF Assemble, Joined
<1>9. head \in Seq(Int) /\ Len(head) = 2 /\ Zeros(4) \in Seq(Int) /\ Len(Zeros(4)) = 4
  <2>1. n \in Int /\ k \in Int /\ 4 \in Nat
    BY <1>1
  <2>2. head \in Seq(Int) /\ Len(head) = 2
    BY <2>1
  <2>3. Zeros(4) \in Seq(Int) /\ Len(Zeros(4)) = 4
    BY <2>1, ZerosLength
  <2> QED BY <2>2, <2>3
<1> HIDE DEF flat, items, head, p
<1>10. s1 \in Seq(Int) /\ Len(s1) = 2 + Len(flat) /\ Holds(s1, 0, head) /\ Holds(s1, 2, flat)
  <2>1. s1 \in Seq(Int) /\ Len(s1) = Len(head) + Len(flat)
    BY <1>7, <1>9, JoinedLength
  <2>2. Holds(s1, 0, head) /\ Holds(s1, Len(head), flat)
    BY <1>7, <1>9, JoinedHolds
  <2> QED BY <1>9, <2>1, <2>2
<1> HIDE DEF s1
<1>11. p \in Seq(Int) /\ Len(p) = Len(s1) + 4 /\ Holds(p, 0, head) /\ Holds(p, 2, flat) /\ Holds(p, Len(s1), Zeros(4))
  <2>1. p \in Seq(Int) /\ Len(p) = Len(s1) + Len(Zeros(4))
    BY <1>8, <1>9, <1>10, JoinedLength
  <2>2. Holds(p, Len(s1), Zeros(4))
    BY <1>8, <1>9, <1>10, JoinedHolds
  <2>3. Holds(p, 0, head)
    BY <1>8, <1>9, <1>10, HeldInJoined
  <2>4. Holds(p, 2, flat)
    BY <1>8, <1>9, <1>10, HeldInJoined
  <2> QED BY <1>9, <2>1, <2>2, <2>3, <2>4
<1> DEFINE x == Len(s1)
           a == 3 + Len(flat)
<1>12. x \in Nat /\ a = x + 1 /\ Len(p) = x + 4 /\ x = 2 + Len(flat) /\ a \in Nat
  BY <1>7, <1>10, <1>11
<1>13. \A i \in (x + 1)..(x + 4) : p[i] = 0
  BY <1>11, ZerosHeld
<1> HIDE DEF x, a
<1>14. p[a] = 0 /\ a <= Len(p)
  BY <1>12, <1>13
<1>15. AfterItems(p, a + 1, p[a])[p[a]] = Len(p) - 2
  <2>1. AfterItems(p, a + 1, 0)[0] = a + 1
    BY AfterItemsSteps
  <2>2. a + 1 = Len(p) - 2
    BY <1>12
  <2> QED BY <1>14, <2>1, <2>2
<1>16. \A i \in (Len(p) - 2)..Len(p) : p[i] = 0
  BY <1>12, <1>13
<1>17. Laid(p, k, n, items)
  BY <1>11, <1>14, <1>15, <1>16 DEF Laid, a, flat, head
<1>18. items = [c \in 1..n |-> Sized(vecs[c])]
  BY DEF items
<1>19. BatchReadsAs(p, Oids, k, cells)
  BY <1>1, <1>4, <1>5, <1>11, <1>17, <1>18, BatchRead
<1> QED BY <1>19 DEF p, cells

\* A batch of constant vectors with attribute names, as MatrixOne sends it, is accepted by
\* native_batch_view, and fill_column reads the constant in every row.
THEOREM ConstantBatchReadsBack ==
  ASSUME GoodBatch(batch), AllRows >= 1
  PROVE  BatchReadsAs(ConstantBatch, Oids, AllRows,
           [c \in DOMAIN Oids |-> [r \in 1..AllRows |-> batch.columns[c][1]]])
<1> DEFINE n == Len(batch.schema)
           k == AllRows
           cells == [c \in DOMAIN Oids |-> [r \in 1..k |-> batch.columns[c][1]]]
           vecs == [c \in DOMAIN Oids |-> ConstantVector(Oids[c], batch.columns[c][1], k)]
           items == [c \in 1..n |-> Sized(vecs[c])]
           names == [c \in 1..n |-> <<c>>]
           named == [c \in 1..n |-> Sized(names[c])]
           flat == FlattenSeq(items)
           list == FlattenSeq(named)
           p == ConstantBatch
           head == <<k, n>>
           many == <<n>>
<1>1. /\ n \in Nat \ {0} /\ DOMAIN Oids = 1..n /\ Len(Oids) = n
      /\ \A c \in 1..n : /\ Oids[c] \in Int /\ batch.columns[c] \in Seq(Cells(Oids[c]))
                         /\ Len(batch.columns[c]) = AllRows
  BY OidsTyped
<1>2. k \in Nat \ {0}
  BY RowCount
<1>3. ASSUME NEW c \in 1..n PROVE ReadsAs(vecs[c], k, Oids[c], cells[c])
  <2> DEFINE cell == batch.columns[c][1]
  <2>1. cell \in Cells(Oids[c]) /\ Oids[c] \in Int
    <3>1. 1 \in 1..Len(batch.columns[c]) /\ batch.columns[c] \in Seq(Cells(Oids[c]))
      BY <1>1, <1>2
    <3> QED BY <1>1, <3>1, ElementOfSeq
  <2>2. vecs[c] = ConstantVector(Oids[c], cell, k) /\ cells[c] = [r \in 1..k |-> cell]
    BY <1>1
  <2> HIDE DEF cell, k
  <2>3. k \in Nat
    BY <1>2
  <2>4. ReadsAs(ConstantVector(Oids[c], cell, k), k, Oids[c], [r \in 1..k |-> cell])
    BY <2>1, <2>3, ConstantReadsBack
  <2> QED BY <2>2, <2>4
<1>4. vecs \in [1..n -> Seq(Int)]
  BY <1>1, <1>3 DEF ReadsAs
<1>5. p = Joined(Joined(Joined(Joined(head, flat), many), list), Zeros(3))
  <2>1. [c \in DOMAIN Oids |-> Sized(vecs[c])] = items
    BY <1>1
  <2>2. [c \in DOMAIN Oids |-> Sized(<<c>>)] = named
    BY <1>1
  <2> QED BY <1>1, <2>1, <2>2 DEF ConstantBatch, Joined
<1>6. names \in [1..n -> Seq(Int)]
  BY <1>1
<1> HIDE DEF n, vecs, names, k
<1>7. items \in [1..n -> Seq(Int)]
  BY <1>4, SizedLength
<1>8. named \in [1..n -> Seq(Int)]
  BY <1>6, SizedLength
<1>9. flat \in Seq(Int) /\ Len(flat) \in Nat /\ list \in Seq(Int) /\ Len(list) \in Nat
  <2>1. flat \in Seq(Int)
    BY <1>1, <1>7, FlattenTyped
  <2>2. list \in Seq(Int)
    BY <1>1, <1>8, FlattenTyped
  <2> QED BY <2>1, <2>2
<1>10. /\ head \in Seq(Int) /\ Len(head) = 2 /\ many \in Seq(Int) /\ Len(many) = 1 /\ many[1] = n
       /\ Zeros(3) \in Seq(Int) /\ Len(Zeros(3)) = 3
  <2>1. n \in Int /\ k \in Int /\ 3 \in Nat
    BY <1>1, <1>2
  <2>2. head \in Seq(Int) /\ Len(head) = 2 /\ many \in Seq(Int) /\ Len(many) = 1 /\ many[1] = n
    BY <2>1
  <2>3. Zeros(3) \in Seq(Int) /\ Len(Zeros(3)) = 3
    BY <2>1, ZerosLength
  <2> QED BY <2>2, <2>3
<1> DEFINE s1 == Joined(head, flat)
           s2 == Joined(s1, many)
           s3 == Joined(s2, list)
           x1 == Len(s1)
           x2 == Len(s2)
           x3 == Len(s3)
<1> HIDE DEF flat, list, items, named, head, many, p
<1>11. s1 \in Seq(Int) /\ x1 = 2 + Len(flat) /\ Holds(s1, 0, head) /\ Holds(s1, 2, flat)
  <2>1. s1 \in Seq(Int) /\ Len(s1) = Len(head) + Len(flat)
    BY <1>9, <1>10, JoinedLength
  <2>2. Holds(s1, 0, head) /\ Holds(s1, Len(head), flat)
    BY <1>9, <1>10, JoinedHolds
  <2> QED BY <1>10, <2>1, <2>2
<1> HIDE DEF s1
<1>12. s2 \in Seq(Int) /\ x2 = x1 + 1 /\ Holds(s2, 0, head) /\ Holds(s2, 2, flat) /\ Holds(s2, x1, many)
  <2>1. s2 \in Seq(Int) /\ Len(s2) = Len(s1) + Len(many)
    BY <1>10, <1>11, JoinedLength
  <2>2. Holds(s2, x1, many)
    BY <1>10, <1>11, JoinedHolds
  <2>3. Holds(s2, 0, head)
    BY <1>10, <1>11, HeldInJoined
  <2>4. Holds(s2, 2, flat)
    BY <1>10, <1>11, HeldInJoined
  <2> QED BY <1>10, <2>1, <2>2, <2>3, <2>4
<1> HIDE DEF s2, x1
<1>13. /\ s3 \in Seq(Int) /\ x3 = x2 + Len(list)
       /\ Holds(s3, 0, head) /\ Holds(s3, 2, flat) /\ Holds(s3, x1, many) /\ Holds(s3, x2, list)
  <2>1. s3 \in Seq(Int) /\ Len(s3) = Len(s2) + Len(list)
    BY <1>9, <1>12, JoinedLength
  <2>2. Holds(s3, x2, list)
    BY <1>9, <1>12, JoinedHolds
  <2>3. Holds(s3, 0, head)
    BY <1>9, <1>12, HeldInJoined
  <2>4. Holds(s3, 2, flat)
    BY <1>9, <1>12, HeldInJoined
  <2>5. Holds(s3, x1, many)
    BY <1>9, <1>12, HeldInJoined
  <2> QED BY <2>1, <2>2, <2>3, <2>4, <2>5
<1> HIDE DEF s3, x2
<1>14. /\ p \in Seq(Int) /\ Len(p) = x3 + 3 /\ Holds(p, 0, head) /\ Holds(p, 2, flat)
       /\ Holds(p, x1, many) /\ Holds(p, x2, list) /\ Holds(p, x3, Zeros(3))
  <2>1. p = Joined(s3, Zeros(3))
    BY <1>5 DEF s1, s2, s3
  <2>2. p \in Seq(Int) /\ Len(p) = Len(s3) + Len(Zeros(3))
    BY <1>10, <1>13, <2>1, JoinedLength
  <2>3. Holds(p, x3, Zeros(3))
    BY <1>10, <1>13, <2>1, JoinedHolds
  <2>4. Holds(p, 0, head)
    BY <1>10, <1>13, <2>1, HeldInJoined
  <2>5. Holds(p, 2, flat)
    BY <1>10, <1>13, <2>1, HeldInJoined
  <2>6. Holds(p, x1, many)
    BY <1>10, <1>13, <2>1, HeldInJoined
  <2>7. Holds(p, x2, list)
    BY <1>10, <1>13, <2>1, HeldInJoined
  <2> QED BY <1>10, <2>2, <2>3, <2>4, <2>5, <2>6, <2>7
<1> HIDE DEF x3
<1> DEFINE m == Len(flat)
           l == Len(list)
           a == 3 + m
<1>15. /\ x1 \in Nat /\ x2 \in Nat /\ x3 \in Nat /\ a = x1 + 1 /\ a = x2 /\ x3 = a + Len(list) /\ a \in Nat
       /\ Len(p) = x3 + 3
  <2>1. m \in Nat /\ l \in Nat /\ x1 = 2 + m /\ x2 = x1 + 1 /\ x3 = x2 + l /\ Len(p) = x3 + 3
    BY <1>9, <1>11, <1>12, <1>13, <1>14
  <2> HIDE DEF m, l
  <2>2. x1 \in Nat /\ x2 \in Nat /\ x3 \in Nat /\ a = x1 + 1 /\ a = x2 /\ x3 = a + l /\ a \in Nat
    BY <2>1
  <2> QED BY <2>1, <2>2 DEF l
<1>16. \A i \in (x3 + 1)..(x3 + 3) : p[i] = 0
  BY <1>14, ZerosHeld
<1> HIDE DEF a
<1>17. p[a] = n /\ a <= Len(p)
  <2>1. p[x1 + 1] = many[1]
    BY <1>10, <1>14 DEF Holds
  <2>2. a <= Len(p)
    BY <1>9, <1>15
  <2> QED BY <1>10, <1>15, <2>1, <2>2
<1>18. AfterItems(p, a + 1, p[a])[p[a]] = Len(p) - 2
  <2>1. Holds(p, a, FlattenSeq(named)) /\ named = [c \in 1..n |-> Sized(names[c])] /\ n \in Nat
    BY <1>1, <1>14, <1>15 DEF list, named
  <2>2. ItemsReadAs(p, a + 1, n, Len(FlattenSeq(named)), names)
    BY <1>6, <1>15, <2>1, ItemsRead, Zenon
  <2>3. AfterItems(p, a + 1, n)[n] = a + 1 + Len(list)
    BY <2>2 DEF list, ItemsReadAs
  <2>4. a + 1 + Len(list) = Len(p) - 2
    BY <1>9, <1>15
  <2> QED BY <1>17, <2>3, <2>4
<1>19. \A i \in (Len(p) - 2)..Len(p) : p[i] = 0
  BY <1>15, <1>16
<1>20. Laid(p, k, n, items)
  BY <1>14, <1>17, <1>18, <1>19 DEF Laid, a, m, flat, head
<1>21. items = [c \in 1..n |-> Sized(vecs[c])]
  BY DEF items
<1> HIDE DEF cells
<1>22. BatchReadsAs(p, Oids, k, cells)
  BY <1>1, <1>2, <1>3, <1>4, <1>14, <1>20, <1>21, BatchRead
<1> QED BY <1>22 DEF p, cells, k

-----------------------------------------------------------------------------
(* Every step of consume_batch and of an upload. *)

BatchInv ==
  /\ GoodBatch(batch) /\ limit \in Nat /\ gpu \in BOOLEAN /\ (gpu => GpuPacks(batch))

\* The rows that are next are rows of the batch that were not sent.
CursorInv ==
  /\ offset \in Nat /\ rows \in Nat /\ offset + rows <= AllRows
  /\ phase = "consume" => offset = 0
  /\ phase = "fit" => rows > 0
  /\ phase = "row too large" => offset < AllRows

\* The frames are consecutive ranges of rows, from the first to where consume_batch is, each
\* encoded with the batch's columns and numbered in order; at the end they are the whole batch.
SentInOrder ==
  /\ \E cuts \in [0..Len(frames) -> 0..AllRows] :
       /\ cuts[0] = 0 /\ cuts[Len(frames)] = offset
       /\ \A f \in 1..Len(frames) :
            /\ cuts[f - 1] < cuts[f]
            /\ frames[f] = SerializeFrame(f, Encode(batch, cuts[f - 1], cuts[f] - cuts[f - 1]))
  /\ phase \in {"sent", "upload", "damaged"} => offset = AllRows

FramesTyped == frames \in Seq(Seq(Int))

UploadInv == upload \in [whole : BOOLEAN, constant : BOOLEAN, frame : Seq(Int)]

CodecInv == BatchInv /\ CursorInv /\ SentInOrder /\ FramesTyped /\ UploadInv /\ LimitRespected

LEMMA BatchesGood == ASSUME NEW b \in Batches PROVE GoodBatch(b)
BY BatchesAssumption DEF GoodBatch, Cells

LEMMA FrameTyped ==
  ASSUME NEW number \in Int, NEW p \in Seq(Int)
  PROVE  /\ SerializeFrame(number, p) \in Seq(Int)
         /\ SerializeFrame(number, p)[5] = Len(p)
<1> DEFINE head == <<Magic, Version, 0, number, Len(p)>>
<1>1. head \in Seq(Int) /\ Len(head) = 5 /\ head[5] = Len(p)
  BY DEF Magic, Version
<1> HIDE DEF head
<1>2. head \o p \in Seq(Int) /\ (head \o p)[5] = head[5]
  <2>1. 5 \in 1..(Len(head) + Len(p)) /\ 5 <= Len(head)
    BY <1>1
  <2> QED BY <1>1, <2>1, ConcatProperties
<1> QED BY <1>1, <1>2 DEF SerializeFrame, head

\* The steps that leave the batch, the offset and the frames as they are.
LEMMA SentKept ==
  ASSUME SentInOrder, batch' = batch, frames' = frames, offset' = offset,
         phase' \in {"sent", "upload", "damaged"} => offset = AllRows
  PROVE  SentInOrder'
BY DEF SentInOrder, AllRows

LEMMA LimitKept ==
  ASSUME LimitRespected, batch' = batch, frames' = frames, offset' = offset, limit' = limit,
         phase' # "batch too large", phase' # "row too large" \/ phase' = phase
  PROVE  LimitRespected'
BY DEF LimitRespected, RowNeeds, Oids, AllRows

LEMMA BatchKept == ASSUME BatchInv, batch' = batch, limit' = limit, gpu' = gpu PROVE BatchInv'
BY DEF BatchInv

LEMMA InitInv == CodecInit => CodecInv
<1> SUFFICES ASSUME CodecInit PROVE CodecInv
  OBVIOUS
<1>1. batch \in Batches /\ limit \in Limits /\ phase = "consume" /\ offset = 0 /\ rows = 0 /\ frames = <<>>
      /\ upload = NoUpload
  BY DEF CodecInit
<1>2. GoodBatch(batch)
  BY <1>1, BatchesGood
<1>3. AllRows \in Nat
  BY <1>2, RowCount
<1>4. BatchInv
  BY <1>1, <1>2, BatchesAssumption DEF BatchInv, CodecInit
<1>5. CursorInv
  BY <1>1, <1>3 DEF CursorInv
<1>6. SentInOrder
  <2> DEFINE cuts == [f \in 0..0 |-> 0]
  <2>1. Len(frames) = 0
    BY <1>1
  <2>2. cuts \in [0..0 -> 0..AllRows] /\ cuts[0] = 0
    BY <1>3
  <2>3. \A f \in 1..0 : FALSE
    OBVIOUS
  <2> HIDE DEF cuts
  <2> QED BY <1>1, <2>1, <2>2, <2>3 DEF SentInOrder
<1>7. FramesTyped
  BY <1>1 DEF FramesTyped
<1>8. UploadInv
  BY <1>1 DEF UploadInv, NoUpload
<1>9. LimitRespected
  BY <1>1 DEF LimitRespected
<1> QED BY <1>4, <1>5, <1>6, <1>7, <1>8, <1>9 DEF CodecInv

LEMMA ConsumeInv == ASSUME CodecInv, Consume PROVE CodecInv'
<1>1. /\ phase = "consume" /\ rows' = AllRows /\ offset' = offset /\ frames' = frames
      /\ batch' = batch /\ limit' = limit /\ gpu' = gpu /\ upload' = upload
  BY DEF Consume, Stays
<1>2. AllRows \in Nat /\ AllRows' = AllRows /\ offset = 0
  BY <1>1, RowCount DEF CodecInv, BatchInv, AllRows, CursorInv
<1>3. \/ AllRows = 0 /\ phase' = "sent"
      \/ AllRows # 0 /\ phase' = "fit"
      \/ phase' = "cancelled"
      \/ phase' = "invalid batch"
  BY DEF Consume
<1>4. BatchInv'
  BY <1>1, BatchKept DEF CodecInv
<1>5. CursorInv'
  <2>1. 0 + AllRows <= AllRows
    BY <1>2
  <2>2. offset' = 0 /\ rows' = AllRows /\ AllRows' = AllRows
    BY <1>1, <1>2
  <2>3. offset' \in Nat /\ rows' \in Nat /\ offset' + rows' <= AllRows'
    BY <1>2, <2>1, <2>2
  <2>4. phase' # "consume" /\ phase' # "row too large" /\ (phase' = "fit" => rows' > 0)
    <3>1. AllRows # 0 => AllRows > 0
      BY <1>2
    <3> QED BY <1>3, <2>2, <3>1
  <2> QED BY <2>3, <2>4 DEF CursorInv
<1>6. SentInOrder'
  <2>1. phase' \in {"sent", "upload", "damaged"} => offset = AllRows
    BY <1>2, <1>3
  <2> QED BY <1>1, <2>1, SentKept DEF CodecInv
<1>7. FramesTyped' /\ UploadInv'
  BY <1>1 DEF CodecInv, FramesTyped, UploadInv
<1>8. LimitRespected'
  BY <1>1, <1>3, LimitKept DEF CodecInv
<1> QED BY <1>4, <1>5, <1>6, <1>7, <1>8 DEF CodecInv

LEMMA HalveInv == ASSUME CodecInv, Halve PROVE CodecInv'
<1> USE DEF CodecInv
<1>1. /\ phase = "fit" /\ rows > 1 /\ rows' = rows \div 2 /\ offset' = offset /\ frames' = frames
      /\ batch' = batch /\ limit' = limit /\ gpu' = gpu /\ upload' = upload /\ phase' = phase
  BY DEF Halve, Stays
<1>2. AllRows \in Nat /\ AllRows' = AllRows
  BY <1>1, RowCount DEF BatchInv, AllRows
<1>3. BatchInv'
  BY <1>1, BatchKept
<1>4. CursorInv'
  <2>1. rows \in Nat /\ offset \in Nat /\ offset + rows <= AllRows
    BY DEF CursorInv
  <2>2. rows' \in Nat /\ rows' > 0 /\ rows' <= rows
    BY <1>1, <2>1
  <2> QED BY <1>1, <1>2, <2>1, <2>2 DEF CursorInv
<1>5. SentInOrder'
  BY <1>1, <1>2, SentKept
<1>6. FramesTyped' /\ UploadInv'
  BY <1>1 DEF FramesTyped, UploadInv
<1>7. LimitRespected'
  BY <1>1, LimitKept
<1> QED BY <1>3, <1>4, <1>5, <1>6, <1>7

LEMMA ThrowInv == ASSUME CodecInv, Throw PROVE CodecInv'
<1> USE DEF CodecInv
<1>1. /\ phase = "fit" /\ rows' = rows /\ offset' = offset /\ frames' = frames
      /\ batch' = batch /\ limit' = limit /\ gpu' = gpu /\ upload' = upload
      /\ (TooLarge /\ rows = 1 /\ phase' = "row too large") \/ phase' = "not encodable"
  BY DEF Throw, Stays
<1>2. AllRows \in Nat /\ AllRows' = AllRows
  BY <1>1, RowCount DEF BatchInv, AllRows
<1>3. BatchInv'
  BY <1>1, BatchKept
<1>4. offset \in Nat /\ rows \in Nat /\ offset + rows <= AllRows
  BY DEF CursorInv
<1>5. CursorInv'
  <2>1. rows = 1 => offset < AllRows
    BY <1>2, <1>4
  <2> QED BY <1>1, <1>2, <1>4, <2>1 DEF CursorInv
<1>6. SentInOrder'
  BY <1>1, <1>2, SentKept
<1>7. FramesTyped' /\ UploadInv'
  BY <1>1 DEF FramesTyped, UploadInv
<1>8. LimitRespected'
  <2>1. CASE phase' = "not encodable"
    BY <1>1, <2>1, LimitKept
  <2>2. CASE TooLarge /\ rows = 1 /\ phase' = "row too large"
    <3>1. EncodedSize(batch, gpu, offset, 1) > limit
      BY <2>2 DEF TooLarge
    <3>2. /\ RowNeeds(offset + 1) \in Int
          /\ EncodedSize(batch, gpu, offset, 1) <= RowNeeds(offset + 1)
      BY <1>4, <2>2, OneRowNeeds DEF BatchInv
    <3>3. EncodedSize(batch, gpu, offset, 1) \in Int
      <4> DEFINE k == 1
      <4>1. k \in Nat /\ offset + k <= Len(batch.columns[1])
        BY <1>4, <2>2 DEF AllRows
      <4> HIDE DEF k
      <4>2. EncodedSize(batch, gpu, offset, k) \in Int
        BY <1>4, <4>1, EstimateSuffices DEF BatchInv
      <4> QED BY <4>2 DEF k
    <3>4. RowNeeds(offset + 1) > limit
      BY <3>1, <3>2, <3>3 DEF BatchInv
    <3>5. RowNeeds(offset + 1)' = RowNeeds(offset + 1)
      BY <1>1 DEF RowNeeds, Oids, AllRows
    <3> QED BY <1>1, <2>2, <3>4, <3>5 DEF LimitRespected
  <2> QED BY <1>1, <2>1, <2>2
<1> QED BY <1>3, <1>5, <1>6, <1>7, <1>8

\* A frame more: the range of rows that was encoded follows the ranges before it.
LEMMA PublishedInOrder ==
  ASSUME CodecInv, phase = "fit", batch' = batch,
         frames' = Append(frames, SerializeFrame(Len(frames) + 1, Encode(batch, offset, rows))),
         Encode(batch, offset, rows) \in Seq(Int),
         offset' = offset + rows, phase' = "sent" => offset' = AllRows, phase' \in {"sent", "fit"}
  PROVE  SentInOrder'
<1> DEFINE n == Len(frames)
           frame == SerializeFrame(n + 1, Encode(batch, offset, rows))
<1>1. n \in Nat /\ frames \in Seq(Seq(Int)) /\ AllRows \in Nat /\ AllRows' = AllRows
  BY RowCount DEF CodecInv, FramesTyped, BatchInv, AllRows
<1>2. offset \in Nat /\ rows \in Nat /\ rows > 0 /\ offset + rows \in 0..AllRows
  BY <1>1 DEF CodecInv, CursorInv
<1>3. frame \in Seq(Int)
  BY <1>1, FrameTyped
<1>4. PICK cuts \in [0..n -> 0..AllRows] :
        /\ cuts[0] = 0 /\ cuts[n] = offset
        /\ \A f \in 1..n : /\ cuts[f - 1] < cuts[f]
                           /\ frames[f] = SerializeFrame(f, Encode(batch, cuts[f - 1], cuts[f] - cuts[f - 1]))
  BY DEF CodecInv, SentInOrder
<1> DEFINE more == [f \in 0..(n + 1) |-> IF f <= n THEN cuts[f] ELSE offset + rows]
<1>5. frames' = Append(frames, frame)
  OBVIOUS
<1> HIDE DEF n, frame
<1>6. Len(frames') = n + 1 /\ frames'[n + 1] = frame /\ \A f \in 1..n : frames'[f] = frames[f]
  BY <1>1, <1>3, <1>5, AppendProperties DEF n
<1>7. more \in [0..(n + 1) -> 0..AllRows]
  BY <1>1, <1>2, <1>4
<1>8. more[0] = 0 /\ more[n + 1] = offset + rows /\ more[n] = offset /\ \A f \in 0..n : more[f] = cuts[f]
  BY <1>1, <1>4
<1> HIDE DEF more
<1>9. ASSUME NEW f \in 1..(n + 1)
      PROVE  /\ more[f - 1] < more[f]
             /\ frames'[f] = SerializeFrame(f, Encode(batch, more[f - 1], more[f] - more[f - 1]))
  <2>1. CASE f \in 1..n
    <3>1. more[f] = cuts[f] /\ more[f - 1] = cuts[f - 1] /\ frames'[f] = frames[f]
      BY <1>1, <1>6, <1>8, <2>1, SMTT(30)
    <3> QED BY <1>4, <2>1, <3>1
  <2>2. CASE f = n + 1
    <3>1. f - 1 = n /\ more[f] = offset + rows /\ more[f - 1] = offset
      BY <1>1, <1>8, <2>2
    <3>2. (offset + rows) - offset = rows
      BY <1>2
    <3>3. more[f] - more[f - 1] = rows /\ more[f - 1] < more[f]
      BY <1>2, <3>1, <3>2
    <3>4. frames'[f] = SerializeFrame(f, Encode(batch, offset, rows))
      BY <1>6, <2>2 DEF frame
    <3>5. Encode(batch, more[f - 1], more[f] - more[f - 1]) = Encode(batch, offset, rows)
      BY <3>1, <3>3, Zenon
    <3> QED BY <3>3, <3>4, <3>5, Zenon
  <2>3. f \in 1..n \/ f = n + 1
    BY <1>1
  <2> QED BY <2>1, <2>2, <2>3, Zenon
<1>10. \E c \in [0..(n + 1) -> 0..AllRows] :
         /\ c[0] = 0 /\ c[n + 1] = offset + rows
         /\ \A f \in 1..(n + 1) :
              /\ c[f - 1] < c[f]
              /\ frames'[f] = SerializeFrame(f, Encode(batch, c[f - 1], c[f] - c[f - 1]))
  BY <1>7, <1>8, <1>9
<1>11. \E c \in [0..Len(frames') -> 0..AllRows'] :
         /\ c[0] = 0 /\ c[Len(frames')] = offset'
         /\ \A f \in 1..Len(frames') :
              /\ c[f - 1] < c[f]
              /\ frames'[f] = SerializeFrame(f, Encode(batch', c[f - 1], c[f] - c[f - 1]))
  BY <1>1, <1>6, <1>10, ZenonT(30)
<1>12. phase' \in {"sent", "upload", "damaged"} => offset' = AllRows'
  BY <1>1
<1> QED BY <1>11, <1>12 DEF SentInOrder

LEMMA SendInv == ASSUME CodecInv, Send PROVE CodecInv'
<1> DEFINE payload == Encode(batch, offset, rows)
<1>1. /\ phase = "fit" /\ ~TooLarge
      /\ batch' = batch /\ limit' = limit /\ gpu' = gpu /\ upload' = upload
      /\ IF Len(payload) > limit
         THEN phase' = "batch too large" /\ offset' = offset /\ rows' = rows /\ frames' = frames
         ELSE \/ /\ frames' = Append(frames, SerializeFrame(Len(frames) + 1, payload))
                 /\ offset' = offset + rows
                 /\ rows' = AllRows - offset'
                 /\ phase' = IF rows' = 0 THEN "sent" ELSE "fit"
              \/ phase' = "cancelled" /\ offset' = offset /\ rows' = rows /\ frames' = frames
  BY DEF Send, Stays
<1>2. AllRows \in Nat /\ AllRows' = AllRows /\ limit \in Nat
  BY <1>1, RowCount DEF CodecInv, BatchInv, AllRows
<1>3. offset \in Nat /\ rows \in Nat /\ rows > 0 /\ offset + rows <= AllRows
  BY <1>1 DEF CodecInv, CursorInv
<1>4. BatchInv'
  BY <1>1, BatchKept DEF CodecInv
<1>5. payload \in Seq(Int) /\ Len(payload) <= limit
  <2>1. offset + rows <= Len(batch.columns[1])
    BY <1>3 DEF AllRows
  <2>2. /\ payload \in Seq(Int) /\ EncodedSize(batch, gpu, offset, rows) \in Int
        /\ Len(payload) <= EncodedSize(batch, gpu, offset, rows)
    BY <1>3, <2>1, EstimateSuffices DEF CodecInv, BatchInv
  <2>3. ~(EncodedSize(batch, gpu, offset, rows) > limit)
    BY <1>1 DEF TooLarge
  <2>4. Len(payload) \in Nat
    BY <2>2
  <2> QED BY <1>2, <2>2, <2>3, <2>4
<1> HIDE DEF payload
<1>6. UploadInv'
  BY <1>1 DEF CodecInv, UploadInv
<1>7. Len(payload) \in Nat /\ ~(Len(payload) > limit)
  BY <1>2, <1>5
<1>8. CASE phase' = "cancelled" /\ offset' = offset /\ rows' = rows /\ frames' = frames
  <2>1. CursorInv'
    BY <1>2, <1>3, <1>8 DEF CursorInv
  <2>2. SentInOrder'
    BY <1>1, <1>8, SentKept DEF CodecInv
  <2>3. FramesTyped'
    BY <1>8 DEF CodecInv, FramesTyped
  <2>4. LimitRespected'
    BY <1>1, <1>8, LimitKept DEF CodecInv
  <2> QED BY <1>4, <1>6, <2>1, <2>2, <2>3, <2>4 DEF CodecInv
<1>9. CASE /\ frames' = Append(frames, SerializeFrame(Len(frames) + 1, payload))
           /\ offset' = offset + rows /\ rows' = AllRows - offset'
           /\ phase' = IF rows' = 0 THEN "sent" ELSE "fit"
  <2> DEFINE frame == SerializeFrame(Len(frames) + 1, payload)
  <2>1. CursorInv' /\ (phase' = "sent" => offset' = AllRows) /\ phase' \in {"sent", "fit"}
    BY <1>2, <1>3, <1>9 DEF CursorInv
  <2>2. SentInOrder'
    BY <1>1, <1>5, <1>9, <2>1, PublishedInOrder DEF payload
  <2>3. frames \in Seq(Seq(Int)) /\ Len(frames) \in Nat
    BY DEF CodecInv, FramesTyped
  <2>4. frame \in Seq(Int) /\ frame[5] = Len(payload)
    BY <1>5, <2>3, FrameTyped
  <2> HIDE DEF frame
  <2>5. /\ frames' \in Seq(Seq(Int)) /\ Len(frames') = Len(frames) + 1
        /\ frames'[Len(frames) + 1] = frame /\ \A f \in 1..Len(frames) : frames'[f] = frames[f]
    BY <1>9, <2>3, <2>4, AppendProperties DEF frame
  <2>6. FramesTyped'
    BY <2>5 DEF FramesTyped
  <2>7. LimitRespected'
    <3>1. ASSUME NEW f \in DOMAIN frames' PROVE frames'[f][5] <= limit'
      <4>1. f \in 1..(Len(frames) + 1)
        BY <2>5
      <4>2. CASE f \in 1..Len(frames)
        <5>1. f \in DOMAIN frames /\ frames'[f] = frames[f]
          BY <2>3, <2>5, <4>2
        <5> QED BY <1>1, <5>1 DEF CodecInv, LimitRespected
      <4>3. CASE f = Len(frames) + 1
        BY <1>1, <1>5, <2>4, <2>5, <4>3
      <4> QED BY <2>3, <4>1, <4>2, <4>3
    <3> QED BY <2>1, <3>1 DEF LimitRespected
  <2> QED BY <1>4, <1>6, <2>1, <2>2, <2>6, <2>7 DEF CodecInv
<1> QED BY <1>1, <1>7, <1>8, <1>9

LEMMA ConstantTyped == ASSUME GoodBatch(batch), AllRows >= 1 PROVE ConstantBatch \in Seq(Int)
<1> DEFINE n == Len(batch.schema)
           vectors == [c \in DOMAIN Oids |-> ConstantVector(Oids[c], batch.columns[c][1], AllRows)]
           items == [c \in DOMAIN Oids |-> Sized(vectors[c])]
           names == [c \in DOMAIN Oids |-> Sized(<<c>>)]
<1>1. /\ n \in Nat /\ DOMAIN batch.schema = 1..n /\ DOMAIN Oids = 1..n /\ Len(Oids) = n
      /\ \A c \in 1..n : Oids[c] = batch.schema[c].oid
  <2>1. n \in Nat /\ DOMAIN batch.schema = 1..n
    BY DEF GoodBatch
  <2> HIDE DEF n
  <2> QED BY <2>1 DEF Oids
<1>2. AllRows \in Nat
  BY RowCount
<1>3. ASSUME NEW c \in 1..n PROVE vectors[c] \in Seq(Int)
  <2> DEFINE oid == Oids[c]
             cell == batch.columns[c][1]
             head == <<Constant, oid, AllRows>>
             d == IF cell.null THEN <<>> ELSE Data(oid, <<cell>>)
             a == AreaOf(oid, <<cell>>)
             s1 == Joined(head, Sized(d))
             s2 == Joined(s1, Sized(a))
             s3 == Joined(s2, Sized(<<>>))
  <2>1. oid \in Int /\ batch.columns[c] \in Seq(Cells(oid)) /\ Len(batch.columns[c]) = AllRows
    <3>1. batch.schema \in Seq([oid : Int, required : BOOLEAN])
      BY DEF GoodBatch
    <3>2. batch.schema[c] \in [oid : Int, required : BOOLEAN]
      BY <3>1, ElementOfSeq
    <3> QED BY <1>1, <3>2 DEF GoodBatch, AllRows
  <2>2. cell \in Cells(oid)
    BY <1>2, <2>1
  <2>3. vectors[c] = Joined(s3, <<1>>)
    BY <1>1 DEF ConstantVector, Joined, AreaOf
  <2> HIDE DEF oid, cell
  <2>4. <<cell>> \in Seq(Cells(oid))
    BY <2>2
  <2>5. d \in Seq(Int)
    <3>1. Data(oid, <<cell>>) \in Seq(Int)
      BY <2>1, <2>4, DataLength
    <3>2. CASE cell.null
      BY <3>2
    <3>3. CASE ~cell.null
      BY <3>1, <3>3
    <3> QED BY <3>2, <3>3
  <2>6. a \in Seq(Int)
    <3>1. CASE oid = Varchar
      BY <2>4, <3>1, AreaLength DEF AreaOf
    <3>2. CASE oid # Varchar
      BY <3>2 DEF AreaOf
    <3> QED BY <3>1, <3>2
  <2>7. head \in Seq(Int) /\ <<1>> \in Seq(Int) /\ <<>> \in Seq(Int)
    BY <1>2, <2>1 DEF Constant
  <2> HIDE DEF head, d, a
  <2>8. Sized(d) \in Seq(Int) /\ Sized(a) \in Seq(Int) /\ Sized(<<>>) \in Seq(Int)
    BY <2>5, <2>6, <2>7, SizedLength
  <2>9. s1 \in Seq(Int)
    BY <2>7, <2>8, JoinedLength
  <2> HIDE DEF s1
  <2>10. s2 \in Seq(Int)
    BY <2>8, <2>9, JoinedLength
  <2> HIDE DEF s2
  <2>11. s3 \in Seq(Int)
    BY <2>8, <2>10, JoinedLength
  <2> HIDE DEF s3
  <2> QED BY <2>3, <2>7, <2>11, JoinedLength
<1>4. items \in [1..n -> Seq(Int)]
  <2> HIDE DEF vectors
  <2>1. \A c \in 1..n : Sized(vectors[c]) \in Seq(Int)
    BY <1>3, SizedLength
  <2> QED BY <1>1, <2>1
<1>5. names \in [1..n -> Seq(Int)]
  <2>1. \A c \in 1..n : <<c>> \in Seq(Int)
    OBVIOUS
  <2>2. \A c \in 1..n : Sized(<<c>>) \in Seq(Int)
    BY <2>1, SizedLength
  <2> QED BY <1>1, <2>2
<1> DEFINE head == <<AllRows, Len(Oids)>>
           s1 == Joined(head, FlattenSeq(items))
           s2 == Joined(s1, <<Len(Oids)>>)
           s3 == Joined(s2, FlattenSeq(names))
<1>6. ConstantBatch = Joined(s3, Zeros(3))
  BY DEF ConstantBatch, Joined
<1>7. head \in Seq(Int) /\ <<Len(Oids)>> \in Seq(Int)
  BY <1>1, <1>2
<1> HIDE DEF items, names, head, n
<1>8. FlattenSeq(items) \in Seq(Int)
  BY <1>1, <1>4, FlattenTyped
<1>9. FlattenSeq(names) \in Seq(Int)
  BY <1>1, <1>5, FlattenTyped
<1>10. s1 \in Seq(Int)
  BY <1>7, <1>8, JoinedLength
<1> HIDE DEF s1
<1>11. s2 \in Seq(Int)
  BY <1>7, <1>10, JoinedLength
<1> HIDE DEF s2
<1>12. s3 \in Seq(Int)
  BY <1>9, <1>11, JoinedLength
<1> HIDE DEF s3
<1>13. Zeros(3) \in Seq(Int)
  BY ZerosLength
<1> QED BY <1>6, <1>12, <1>13, JoinedLength

LEMMA UploadStepInv == ASSUME CodecInv, Upload PROVE CodecInv'
<1>1. /\ phase = "sent" /\ phase' = "upload" /\ AllRows \in 1..DamagedRows
      /\ rows' = rows /\ offset' = offset /\ frames' = frames
      /\ batch' = batch /\ limit' = limit /\ gpu' = gpu
  BY DEF Upload
<1>2. AllRows \in Nat /\ AllRows' = AllRows /\ AllRows >= 1
  BY <1>1, RowCount, BatchesAssumption DEF CodecInv, BatchInv, AllRows
<1>3. BatchInv'
  BY <1>1, BatchKept DEF CodecInv
<1>4. CursorInv'
  BY <1>1, <1>2 DEF CodecInv, CursorInv
<1>5. offset = AllRows
  BY <1>1 DEF CodecInv, SentInOrder
<1>6. SentInOrder'
  BY <1>1, <1>5, SentKept DEF CodecInv
<1>7. FramesTyped'
  BY <1>1 DEF CodecInv, FramesTyped
<1>8. LimitRespected'
  BY <1>1, LimitKept DEF CodecInv
<1>9. UploadInv'
  <2>1. frames[1] \in Seq(Int)
    <3>1. frames \in Seq(Seq(Int)) /\ Len(frames) \in Nat
      BY DEF CodecInv, FramesTyped
    <3>2. Len(frames) # 0
      BY <1>2, <1>5 DEF CodecInv, SentInOrder
    <3> QED BY <3>1, <3>2, ElementOfSeq
  <2>2. SerializeFrame(1, ConstantBatch) \in Seq(Int)
    BY <1>2, ConstantTyped, FrameTyped DEF CodecInv, BatchInv
  <2> DEFINE flat == frames[1]
             constant == SerializeFrame(1, ConstantBatch)
  <2>3. \/ upload' = [whole |-> TRUE, constant |-> FALSE, frame |-> flat]
        \/ upload' = [whole |-> TRUE, constant |-> TRUE, frame |-> constant]
    BY DEF Upload
  <2> HIDE DEF flat, constant
  <2>4. flat \in Seq(Int) /\ constant \in Seq(Int)
    BY <2>1, <2>2 DEF flat, constant
  <2>5. upload' \in [whole : BOOLEAN, constant : BOOLEAN, frame : Seq(Int)]
    <3>1. CASE upload' = [whole |-> TRUE, constant |-> FALSE, frame |-> flat]
      BY <2>4, <3>1
    <3>2. CASE upload' = [whole |-> TRUE, constant |-> TRUE, frame |-> constant]
      BY <2>4, <3>2
    <3> QED BY <2>3, <3>1, <3>2
  <2> QED BY <2>5 DEF UploadInv
<1> QED BY <1>3, <1>4, <1>6, <1>7, <1>8, <1>9 DEF CodecInv

LEMMA DamageInv == ASSUME CodecInv, Damage PROVE CodecInv'
<1>1. /\ phase = "upload" /\ phase' = "damaged"
      /\ rows' = rows /\ offset' = offset /\ frames' = frames
      /\ batch' = batch /\ limit' = limit /\ gpu' = gpu
  BY DEF Damage
<1>2. AllRows' = AllRows
  BY <1>1 DEF AllRows
<1>3. BatchInv'
  BY <1>1, BatchKept DEF CodecInv
<1>4. CursorInv'
  BY <1>1, <1>2 DEF CodecInv, CursorInv
<1>5. offset = AllRows
  BY <1>1 DEF CodecInv, SentInOrder
<1>6. SentInOrder'
  BY <1>1, <1>5, SentKept DEF CodecInv
<1>7. FramesTyped'
  BY <1>1 DEF CodecInv, FramesTyped
<1>8. LimitRespected'
  BY <1>1, LimitKept DEF CodecInv
<1>9. UploadInv'
  <2>1. upload \in [whole : BOOLEAN, constant : BOOLEAN, frame : Seq(Int)]
    BY DEF CodecInv, UploadInv
  <2> DEFINE frame == upload.frame
  <2>2. frame \in Seq(Int) /\ Len(frame) \in Nat
    BY <2>1
  <2>3. CASE \E i \in DOMAIN upload.frame, d \in Damages :
               upload' = [upload EXCEPT !.whole = FALSE, !.frame[i] = d]
    <3>1. PICK i \in DOMAIN frame, d \in Damages : upload' = [upload EXCEPT !.whole = FALSE, !.frame[i] = d]
      BY <2>3
    <3>2. d \in Int
      BY BatchesAssumption
    <3>3. [frame EXCEPT ![i] = d] \in Seq(Int)
      BY <2>2, <3>2, ExceptSeq
    <3> QED BY <2>1, <3>1, <3>3 DEF UploadInv
  <2>4. CASE \E m \in 0..(Len(upload.frame) - FrameHeader - 1) :
               upload' = [upload EXCEPT !.whole = FALSE,
                            !.frame = SerializeFrame(1, SubSeq(PayloadOf(@), 1, m))]
    <3>1. PICK m \in 0..(Len(frame) - 5 - 1) :
            upload' = [upload EXCEPT !.whole = FALSE, !.frame = SerializeFrame(1, SubSeq(PayloadOf(frame), 1, m))]
      BY <2>4 DEF FrameHeader
    <3>2. Len(frame) >= 6 /\ m \in Nat /\ m <= Len(frame) - 5
      BY <2>2, <3>1
    <3> DEFINE p == PayloadOf(frame)
    <3>3. p \in Seq(Int) /\ Len(p) = Len(frame) - 5
      <4>1. /\ SubSeq(frame, 6, Len(frame)) \in Seq(Int)
            /\ Len(SubSeq(frame, 6, Len(frame))) = IF 6 <= Len(frame) THEN Len(frame) - 6 + 1 ELSE 0
        BY <2>2, SliceTyped
      <4> QED BY <2>2, <3>2, <4>1 DEF PayloadOf, FrameHeader
    <3> HIDE DEF p
    <3>4. SubSeq(p, 1, m) \in Seq(Int)
      BY <2>2, <3>2, <3>3, SliceTyped
    <3>5. SerializeFrame(1, SubSeq(p, 1, m)) \in Seq(Int)
      <4> DEFINE cut == SubSeq(p, 1, m)
      <4>1. cut \in Seq(Int) /\ 1 \in Int
        BY <3>4
      <4> HIDE DEF cut
      <4>2. SerializeFrame(1, cut) \in Seq(Int)
        BY <4>1, FrameTyped
      <4> QED BY <4>2 DEF cut
    <3> QED BY <2>1, <3>1, <3>5 DEF UploadInv, p
  <2> QED BY <2>3, <2>4 DEF Damage
<1> QED BY <1>3, <1>4, <1>6, <1>7, <1>8, <1>9 DEF CodecInv

LEMMA CodecInvHolds == CodecSpec => []CodecInv
<1>1. CodecInit => CodecInv
  BY InitInv
<1>2. CodecInv /\ [CodecNext]_codecVars => CodecInv'
  <2> SUFFICES ASSUME CodecInv, [CodecNext]_codecVars PROVE CodecInv'
    OBVIOUS
  <2>1. CASE CodecNext
    BY <2>1, ConsumeInv, HalveInv, ThrowInv, SendInv, UploadStepInv, DamageInv DEF CodecNext
  <2>2. CASE UNCHANGED codecVars
    <3>1. /\ batch' = batch /\ limit' = limit /\ gpu' = gpu /\ phase' = phase
          /\ offset' = offset /\ rows' = rows /\ frames' = frames /\ upload' = upload
      BY <2>2 DEF codecVars
    <3>2. BatchInv' /\ CursorInv' /\ FramesTyped' /\ UploadInv'
      BY <3>1 DEF CodecInv, BatchInv, CursorInv, FramesTyped, UploadInv, AllRows
    <3>3. SentInOrder'
      BY <3>1, SentKept DEF CodecInv, SentInOrder
    <3>4. LimitRespected'
      BY <3>1, LimitKept DEF CodecInv, LimitRespected
    <3> QED BY <3>2, <3>3, <3>4 DEF CodecInv
  <2> QED BY <2>1, <2>2
<1> QED BY <1>1, <1>2, PTL DEF CodecSpec

\* No frame exceeds the limit that was negotiated, the check of a payload that was encoded
\* never fails, and only a row that is too large by itself ends the result: encoded_size and
\* the halving of consume_batch for batches of every shape and every limit.
THEOREM LimitIsKept == CodecSpec => []LimitRespected
<1>1. CodecInv => LimitRespected
  BY DEF CodecInv
<1> QED BY <1>1, CodecInvHolds, PTL

\* consume_batch sends every row once and in order, wherever it splits the batch.
THEOREM RowsAreSentOnce == CodecSpec => []SentInOrder
<1>1. CodecInv => SentInOrder
  BY DEF CodecInv
<1> QED BY <1>1, CodecInvHolds, PTL

\* fill_column reads nothing outside an accepted upload, whole or damaged in any one cell or cut.
THEOREM UploadsAreReadInside == CodecSpec => []DecoderSafe
<1>1. CodecInv => DecoderSafe
  BY EveryUploadIsSafe DEF CodecInv, BatchInv, GoodBatch, UploadInv
<1> QED BY <1>1, CodecInvHolds, PTL

-----------------------------------------------------------------------------
(* The frames of a batch, read one after the other. *)

\* What parse_frame finds in the frame that serialize_frame made.
FrameOf(frame, number, p) ==
  /\ Len(frame) = 5 + Len(p) /\ PayloadOf(frame) = p
  /\ frame[1] = Magic /\ frame[2] = Version /\ frame[3] = 0 /\ frame[4] = number /\ frame[5] = Len(p)

LEMMA FrameRead ==
  ASSUME NEW number \in Int, NEW p \in Seq(Int)
  PROVE  FrameOf(SerializeFrame(number, p), number, p)
<1> DEFINE head == <<Magic, Version, 0, number, Len(p)>>
           frame == Joined(head, p)
<1>1. /\ head \in Seq(Int) /\ Len(head) = 5 /\ head[1] = Magic /\ head[2] = Version /\ head[3] = 0
      /\ head[4] = number /\ head[5] = Len(p) /\ Len(p) \in Nat
  BY DEF Magic, Version
<1>2. SerializeFrame(number, p) = frame
  BY DEF SerializeFrame, Joined
<1> HIDE DEF head
<1>3. frame \in Seq(Int) /\ Len(frame) = 5 + Len(p) /\ \A i \in 1..5 : frame[i] = head[i]
  <2>1. frame \in Seq(Int) /\ Len(frame) = Len(head) + Len(p)
    BY <1>1, JoinedLength
  <2>2. Holds(frame, 0, head)
    BY <1>1, JoinedHolds
  <2> HIDE DEF frame
  <2>3. \A i \in 1..5 : frame[0 + i] = head[i]
    BY <1>1, <2>2 DEF Holds
  <2>4. \A i \in 1..5 : 0 + i = i
    OBVIOUS
  <2> QED BY <1>1, <2>1, <2>3, <2>4
<1>4. Holds(frame, 5, p)
  BY <1>1, JoinedHolds
<1> HIDE DEF frame
<1>5. SubSeq(frame, 5 + 1, 5 + Len(p)) = p
  BY <1>4, HeldSlice
<1>6. PayloadOf(frame) = p
  BY <1>3, <1>5 DEF PayloadOf, FrameHeader
<1>7. 1 \in 1..5 /\ 2 \in 1..5 /\ 3 \in 1..5 /\ 4 \in 1..5 /\ 5 \in 1..5
  OBVIOUS
<1>8. FrameOf(frame, number, p)
  BY <1>1, <1>3, <1>6, <1>7 DEF FrameOf
<1> QED BY <1>2, <1>8

\* cuts splits the numbers from 1 to cuts[n] into n ranges.
Splits(cuts, n) ==
  /\ cuts[0] = 0 /\ \A f \in 0..n : cuts[f] \in Nat
  /\ \A f \in 1..n : cuts[f - 1] < cuts[f]

LEMMA RangeOf ==
  ASSUME NEW n \in Nat, NEW cuts, Splits(cuts, n), NEW r \in 1..cuts[n]
  PROVE  \E f \in 1..n : \E i \in 1..(cuts[f] - cuts[f - 1]) : r = cuts[f - 1] + i
<1> DEFINE T == {f \in Nat : f <= n /\ r <= cuts[f]}
<1>1. n \in 0..n /\ cuts[n] \in Nat /\ r \in Nat \ {0} /\ r <= cuts[n]
  <2>1. n \in 0..n /\ cuts[n] \in Nat
    BY DEF Splits
  <2> QED BY <2>1
<1>2. T \in SUBSET Nat /\ T # {}
  BY <1>1
<1>3. PICK f \in T : \A k \in T : f <= k
  BY <1>2, LeastNumber
<1>4. f # 0
  BY <1>1, <1>3 DEF Splits
<1>5. f \in 1..n /\ f - 1 \in 0..n /\ f \in 0..n /\ f - 1 \in Nat
  BY <1>3, <1>4
<1>6. cuts[f] \in Nat /\ cuts[f - 1] \in Nat /\ r <= cuts[f]
  BY <1>3, <1>5 DEF Splits
<1>7. cuts[f - 1] < r
  <2> SUFFICES ASSUME ~(cuts[f - 1] < r) PROVE FALSE
    OBVIOUS
  <2>1. f - 1 \in T
    BY <1>1, <1>5, <1>6
  <2> QED BY <1>3, <1>5, <2>1
<1> DEFINE x == cuts[f - 1]
           y == cuts[f]
<1>8. x \in Nat /\ y \in Nat /\ r \in Nat /\ x < r /\ r <= y
  BY <1>1, <1>6, <1>7
<1> HIDE DEF x, y
<1>9. r - x \in 1..(y - x) /\ r = x + (r - x)
  BY <1>8
<1> QED BY <1>5, <1>9 DEF x, y

\* The parts of a column, each read from its frame.
PartsRead(n, cuts, seqs, column) ==
  /\ DOMAIN seqs = 1..n
  /\ \A f \in 1..n :
       /\ seqs[f] = [r \in 1..(cuts[f] - cuts[f - 1]) |-> seqs[f][r]]
       /\ \A r \in 1..(cuts[f] - cuts[f - 1]) : SameCell(seqs[f][r], column[cuts[f - 1] + r])

ReadsColumn(s, n, column) == Len(s) = n /\ \A r \in 1..n : SameCell(s[r], column[r])

LEMMA PartsJoined ==
  ASSUME NEW n \in Nat, NEW cuts, Splits(cuts, n), NEW seqs, seqs = [f \in 1..n |-> seqs[f]], NEW column,
         PartsRead(n, cuts, seqs, column)
  PROVE  ReadsColumn(FlattenSeq(seqs), cuts[n], column)
<1> DEFINE size == [f \in 1..n |-> cuts[f] - cuts[f - 1]]
           E == UNION {{seqs[f][r] : r \in 1..size[f]} : f \in 1..n}
           flat == FlattenSeq(seqs)
<1>1. \A f \in 1..n : f - 1 \in 0..n /\ f \in 0..n /\ size[f] = cuts[f] - cuts[f - 1] /\ size[f] \in Nat
  BY DEF Splits
<1>2. ASSUME NEW f \in 1..n PROVE seqs[f] \in Seq(E) /\ size[f] = Len(seqs[f])
  <2> DEFINE k == size[f]
             s == seqs[f]
  <2>1. k \in Nat /\ s = [r \in 1..k |-> s[r]]
    BY <1>1 DEF PartsRead
  <2>2. \A r \in 1..k : s[r] \in E
    OBVIOUS
  <2> HIDE DEF k, s, E
  <2>3. s \in Seq(E) /\ k = Len(s)
    BY <2>1, <2>2
  <2> QED BY <2>3 DEF k, s
<1> HIDE DEF E
<1>3. seqs \in [1..n -> Seq(E)]
  BY <1>2
<1>4. Pieces(E, n, seqs, size)
  BY <1>2, <1>3 DEF Pieces
<1>5. IsConcat(flat, E, n, seqs, size)
  BY <1>4, FlattenAt, Zenon
<1>6. \A k \in 0..n : Sums(size, n)[k] = cuts[k]
  <2>1. cuts[0] = 0 /\ \A k \in 0..n : cuts[k] \in Int
    BY DEF Splits
  <2>2. \A k \in 1..n : size[k] = cuts[k] - cuts[k - 1]
    BY <1>1
  <2> HIDE DEF size
  <2> QED BY <2>1, <2>2, SumsTelescope
<1> HIDE DEF flat
<1>7. Len(flat) = cuts[n]
  BY <1>5, <1>6 DEF IsConcat
<1>8. ASSUME NEW r \in 1..cuts[n] PROVE SameCell(flat[r], column[r])
  <2>1. PICK f \in 1..n : \E i \in 1..(cuts[f] - cuts[f - 1]) : r = cuts[f - 1] + i
    BY RangeOf
  <2>2. PICK i \in 1..(cuts[f] - cuts[f - 1]) : r = cuts[f - 1] + i
    BY <2>1
  <2>3. SameCell(seqs[f][i], column[cuts[f - 1] + i])
    BY DEF PartsRead
  <2>4. i \in 1..Len(seqs[f]) /\ Sums(size, n)[f - 1] = cuts[f - 1]
    BY <1>1, <1>2, <1>6
  <2> HIDE DEF size
  <2>5. flat[Sums(size, n)[f - 1] + i] = seqs[f][i]
    BY <1>5, <2>4 DEF IsConcat
  <2> QED BY <2>2, <2>3, <2>4, <2>5
<1> QED BY <1>7, <1>8 DEF ReadsColumn, flat

\* The payload and the rows of one frame.
FrameReads(f, frame, o, k) ==
  LET p == PayloadOf(frame) IN
  /\ FrameOf(frame, f, p) /\ p \in Seq(Int)
  /\ BatchReadsAs(p, Oids, k, [c \in DOMAIN Oids |-> RowRange(batch.columns[c], o, k)])

LEMMA SentFrame ==
  ASSUME GoodBatch(batch), NEW f \in Int, NEW o \in Nat, NEW k \in Nat \ {0}, o + k <= AllRows,
         NEW frame, frame = SerializeFrame(f, Encode(batch, o, k))
  PROVE  FrameReads(f, frame, o, k)
<1> DEFINE p == Encode(batch, o, k)
<1>1. p \in Seq(Int)
  <2>1. FALSE \in BOOLEAN /\ (FALSE => GpuPacks(batch)) /\ k \in Nat /\ o + k <= Len(batch.columns[1])
    BY DEF AllRows
  <2> QED BY <2>1, EstimateSuffices
<1>2. BatchReadsAs(p, Oids, k, [c \in DOMAIN Oids |-> RowRange(batch.columns[c], o, k)])
  BY EncodedReadsBack
<1> HIDE DEF p
<1>3. FrameOf(frame, f, p)
  BY <1>1, FrameRead DEF p
<1>4. PayloadOf(frame) = p
  BY <1>3 DEF FrameOf
<1> QED BY <1>1, <1>2, <1>3, <1>4 DEF FrameReads

\* The frames read back: their numbers and sizes, their payloads, and the columns.
FramesReadBack ==
  LET read == [f \in DOMAIN frames |-> ReadBatch(PayloadOf(frames[f]), Oids)]
      column(c) == FlattenSeq([f \in DOMAIN frames |-> read[f][c]])
  IN /\ \A f \in DOMAIN frames :
          /\ frames[f][4] = f /\ frames[f][5] = Len(PayloadOf(frames[f]))
          /\ BatchAccepted(PayloadOf(frames[f]), Oids)
     /\ \A c \in DOMAIN Oids :
          /\ Len(column(c)) = offset
          /\ \A r \in 1..offset : SameCell(column(c)[r], batch.columns[c][r])

LEMMA SentReadsBack == ASSUME BatchInv, SentInOrder, FramesTyped PROVE FramesReadBack
<1> DEFINE n == Len(frames)
<1>1. GoodBatch(batch) /\ AllRows \in Nat /\ n \in Nat /\ DOMAIN frames = 1..n
  BY RowCount DEF BatchInv, FramesTyped
<1>2. PICK cuts \in [0..n -> 0..AllRows] :
        /\ cuts[0] = 0 /\ cuts[n] = offset
        /\ \A f \in 1..n :
             /\ cuts[f - 1] < cuts[f]
             /\ frames[f] = SerializeFrame(f, Encode(batch, cuts[f - 1], cuts[f] - cuts[f - 1]))
  BY DEF SentInOrder
<1> HIDE DEF n
<1>3. Splits(cuts, n)
  BY <1>1, <1>2 DEF Splits
<1>4. ASSUME NEW f \in 1..n
      PROVE  /\ cuts[f - 1] \in Nat /\ cuts[f] - cuts[f - 1] \in Nat \ {0}
             /\ cuts[f - 1] + (cuts[f] - cuts[f - 1]) <= AllRows
             /\ f - 1 \in 0..n /\ f \in 0..n
  <2>1. f - 1 \in 0..n /\ f \in 0..n /\ cuts[f - 1] < cuts[f]
    BY <1>1, <1>2
  <2>2. cuts[f - 1] \in 0..AllRows /\ cuts[f] \in 0..AllRows
    BY <2>1
  <2> QED BY <1>1, <2>1, <2>2
<1>5. ASSUME NEW f \in 1..n PROVE FrameReads(f, frames[f], cuts[f - 1], cuts[f] - cuts[f - 1])
  <2> DEFINE o == cuts[f - 1]
             k == cuts[f] - cuts[f - 1]
  <2>1. o \in Nat /\ k \in Nat \ {0} /\ o + k <= AllRows /\ f \in Int
    BY <1>1, <1>4
  <2>2. frames[f] = SerializeFrame(f, Encode(batch, o, k))
    BY <1>2
  <2> HIDE DEF o, k
  <2>3. FrameReads(f, frames[f], o, k)
    BY <1>1, <2>1, <2>2, SentFrame
  <2> QED BY <2>3 DEF o, k
<1>6. ASSUME NEW f \in DOMAIN frames
      PROVE  /\ frames[f][4] = f /\ frames[f][5] = Len(PayloadOf(frames[f]))
             /\ BatchAccepted(PayloadOf(frames[f]), Oids)
  BY <1>1, <1>5 DEF FrameReads, FrameOf, BatchReadsAs
<1>7. ASSUME NEW c \in DOMAIN Oids
      PROVE  ReadsColumn(FlattenSeq([f \in DOMAIN frames |->
               [g \in DOMAIN frames |-> ReadBatch(PayloadOf(frames[g]), Oids)][f][c]]), offset, batch.columns[c])
  <2> DEFINE seqs == [f \in 1..n |-> ReadBatch(PayloadOf(frames[f]), Oids)[c]]
  <2>1. [f \in DOMAIN frames |-> [g \in DOMAIN frames |-> ReadBatch(PayloadOf(frames[g]), Oids)][f][c]] = seqs
    BY <1>1
  <2>2. ASSUME NEW f \in 1..n
        PROVE  /\ seqs[f] = [r \in 1..(cuts[f] - cuts[f - 1]) |-> seqs[f][r]]
               /\ \A r \in 1..(cuts[f] - cuts[f - 1]) : SameCell(seqs[f][r], batch.columns[c][cuts[f - 1] + r])
    <3> DEFINE o == cuts[f - 1]
               k == cuts[f] - cuts[f - 1]
               p == PayloadOf(frames[f])
    <3>1. /\ BatchReadsAs(p, Oids, k, [d \in DOMAIN Oids |-> RowRange(batch.columns[d], o, k)])
          /\ o \in Nat /\ k \in Nat /\ o + k <= AllRows
      BY <1>4, <1>5 DEF FrameReads
    <3>2. seqs[f] = ReadBatch(p, Oids)[c]
      OBVIOUS
    <3> HIDE DEF o, k, p, seqs
    <3>3. p[1] = k /\ \A r \in 1..k : SameCell(ReadBatch(p, Oids)[c][r], RowRange(batch.columns[c], o, k)[r])
      BY <3>1 DEF BatchReadsAs
    <3>4. ReadBatch(p, Oids)[c] = [r \in 1..k |-> ReadBatch(p, Oids)[c][r]]
      BY <3>3 DEF ReadBatch
    <3>5. \A r \in 1..k : RowRange(batch.columns[c], o, k)[r] = batch.columns[c][o + r]
      <4>1. batch.columns[c] \in Seq(Cells(Oids[c])) /\ Len(batch.columns[c]) = AllRows
        BY <1>1, OidsTyped
      <4> QED BY <3>1, <4>1, RangeTyped
    <3>6. seqs[f] = [r \in 1..k |-> seqs[f][r]]
      BY <3>2, <3>4
    <3>7. \A r \in 1..k : SameCell(seqs[f][r], batch.columns[c][o + r])
      BY <3>2, <3>3, <3>5
    <3> QED BY <3>6, <3>7 DEF o, k
  <2>3. seqs = [f \in 1..n |-> seqs[f]] /\ DOMAIN seqs = 1..n
    OBVIOUS
  <2> HIDE DEF seqs
  <2>4. PartsRead(n, cuts, seqs, batch.columns[c])
    BY <2>2, <2>3 DEF PartsRead
  <2>5. ReadsColumn(FlattenSeq(seqs), cuts[n], batch.columns[c])
    BY <1>1, <1>3, <2>3, <2>4, PartsJoined, Zenon
  <2> QED BY <1>2, <2>1, <2>5
<1> QED BY <1>6, <1>7 DEF FramesReadBack, ReadsColumn

-----------------------------------------------------------------------------
(* Uploads, read back. *)

\* What an upload was before it was damaged.
Original == IF upload.constant THEN SerializeFrame(1, ConstantBatch) ELSE frames[1]

\* An upload is a frame of the batch or a frame of constants, until one of its cells is
\* something else or its payload was cut.
UploadMade ==
  /\ upload.whole => phase = "upload"
  /\ phase \in {"upload", "damaged"} => AllRows >= 1
  /\ phase = "upload" => upload.frame = Original
  /\ phase = "damaged" =>
       \/ Len(upload.frame) = Len(Original)
       \/ \E m \in 0..(Len(PayloadOf(Original)) - 1) :
            upload.frame = SerializeFrame(1, SubSeq(PayloadOf(Original), 1, m))

\* The steps of consume_batch.
LEMMA UploadNotMade ==
  ASSUME UploadMade, phase \notin {"upload", "damaged"}, upload' = upload, phase' \notin {"upload", "damaged"}
  PROVE  UploadMade'
BY DEF UploadMade

LEMMA MadeByUpload == ASSUME CodecInv, Upload PROVE UploadMade'
<1>1. /\ phase' = "upload" /\ AllRows \in 1..DamagedRows /\ frames' = frames /\ batch' = batch
  BY DEF Upload
<1>2. AllRows' = AllRows /\ AllRows >= 1 /\ ConstantBatch' = ConstantBatch
  BY <1>1, BatchesAssumption DEF AllRows, ConstantBatch, Oids
<1>3. CASE upload' = [whole |-> TRUE, constant |-> FALSE, frame |-> frames[1]]
  BY <1>1, <1>2, <1>3 DEF UploadMade, Original
<1>4. CASE upload' = [whole |-> TRUE, constant |-> TRUE, frame |-> SerializeFrame(1, ConstantBatch)]
  BY <1>1, <1>2, <1>4 DEF UploadMade, Original
<1> QED BY <1>3, <1>4 DEF Upload

LEMMA KeptByDamage == ASSUME CodecInv, UploadMade, Damage PROVE UploadMade'
<1>1. phase = "upload" /\ phase' = "damaged" /\ frames' = frames /\ batch' = batch
  BY DEF Damage
<1>2. AllRows' = AllRows /\ AllRows >= 1 /\ ConstantBatch' = ConstantBatch /\ upload.frame = Original
  BY <1>1 DEF AllRows, ConstantBatch, Oids, UploadMade
<1>3. upload \in [whole : BOOLEAN, constant : BOOLEAN, frame : Seq(Int)]
  BY DEF CodecInv, UploadInv
<1> DEFINE frame == upload.frame
<1>4. frame \in Seq(Int) /\ Len(frame) \in Nat
  BY <1>3
<1>5. ASSUME upload'.constant = upload.constant, upload'.whole = FALSE,
             \/ Len(upload'.frame) = Len(frame)
             \/ \E m \in 0..(Len(PayloadOf(frame)) - 1) :
                  upload'.frame = SerializeFrame(1, SubSeq(PayloadOf(frame), 1, m))
      PROVE  UploadMade'
  <2>1. Original' = Original
    BY <1>1, <1>2, <1>5 DEF Original
  <2> QED BY <1>1, <1>2, <1>5, <2>1 DEF UploadMade
<1>6. CASE \E i \in DOMAIN upload.frame, d \in Damages :
             upload' = [upload EXCEPT !.whole = FALSE, !.frame[i] = d]
  <2>1. PICK i \in DOMAIN frame, d \in Damages : upload' = [upload EXCEPT !.whole = FALSE, !.frame[i] = d]
    BY <1>6
  <2>2. d \in Int
    BY BatchesAssumption
  <2>3. [frame EXCEPT ![i] = d] \in Seq(Int) /\ Len([frame EXCEPT ![i] = d]) = Len(frame)
    BY <1>4, <2>2, ExceptSeq
  <2>4. upload'.constant = upload.constant /\ upload'.whole = FALSE /\ upload'.frame = [frame EXCEPT ![i] = d]
    BY <1>3, <2>1
  <2> QED BY <1>5, <2>3, <2>4
<1>7. CASE \E m \in 0..(Len(upload.frame) - FrameHeader - 1) :
             upload' = [upload EXCEPT !.whole = FALSE,
                          !.frame = SerializeFrame(1, SubSeq(PayloadOf(@), 1, m))]
  <2>1. PICK m \in 0..(Len(frame) - 5 - 1) :
          upload' = [upload EXCEPT !.whole = FALSE, !.frame = SerializeFrame(1, SubSeq(PayloadOf(frame), 1, m))]
    BY <1>7 DEF FrameHeader
  <2>2. Len(frame) >= 6 /\ m \in Nat /\ m <= Len(frame) - 5 - 1
    BY <1>4, <2>1
  <2>3. Len(PayloadOf(frame)) = Len(frame) - 5
    <3>1. Len(SubSeq(frame, 6, Len(frame))) = IF 6 <= Len(frame) THEN Len(frame) - 6 + 1 ELSE 0
      BY <1>4, SliceTyped
    <3> QED BY <1>4, <2>2, <3>1 DEF PayloadOf, FrameHeader
  <2>4. m \in 0..(Len(PayloadOf(frame)) - 1)
    BY <1>4, <2>2, <2>3
  <2> DEFINE cut == SerializeFrame(1, SubSeq(PayloadOf(frame), 1, m))
  <2>5. upload' = [upload EXCEPT !.whole = FALSE, !.frame = cut]
    BY <2>1
  <2> HIDE DEF cut
  <2>6. upload'.constant = upload.constant /\ upload'.whole = FALSE /\ upload'.frame = cut
    BY <1>3, <2>5
  <2> QED BY <1>5, <2>4, <2>6 DEF cut
<1> QED BY <1>6, <1>7 DEF Damage

LEMMA UploadMadeHolds == CodecSpec => []UploadMade
<1>1. CodecInit => UploadMade
  BY DEF CodecInit, UploadMade, NoUpload
<1>2. CodecInv /\ UploadMade /\ [CodecNext]_codecVars => UploadMade'
  <2> SUFFICES ASSUME CodecInv, UploadMade, [CodecNext]_codecVars PROVE UploadMade'
    OBVIOUS
  <2>1. CASE Consume
    BY <2>1, UploadNotMade DEF Consume, Stays
  <2>2. CASE Halve
    BY <2>2, UploadNotMade DEF Halve, Stays
  <2>3. CASE Throw
    BY <2>3, UploadNotMade DEF Throw, Stays
  <2>4. CASE Send
    BY <2>4, UploadNotMade DEF Send, Stays
  <2>5. CASE Upload
    BY <2>5, MadeByUpload
  <2>6. CASE Damage
    BY <2>6, KeptByDamage
  <2>7. CASE UNCHANGED codecVars
    <3>1. phase' = phase /\ upload' = upload /\ batch' = batch /\ frames' = frames
      BY <2>7 DEF codecVars
    <3>2. AllRows' = AllRows /\ ConstantBatch' = ConstantBatch
      BY <3>1 DEF AllRows, ConstantBatch, Oids
    <3>3. Original' = Original
      BY <3>1, <3>2 DEF Original
    <3> QED BY <3>1, <3>2, <3>3 DEF UploadMade
  <2> QED BY <2>1, <2>2, <2>3, <2>4, <2>5, <2>6, <2>7 DEF CodecNext
<1> QED BY <1>1, <1>2, CodecInvHolds, PTL DEF CodecSpec

\* The payload of an upload before it was damaged.
OriginalReads(p) ==
  /\ FrameOf(Original, 1, p) /\ p \in Seq(Int) /\ Len(p) > 0 /\ BatchAccepted(p, Oids)
  /\ upload.constant => \A c \in DOMAIN Oids : \A r \in 1..AllRows :
       SameCell(ReadBatch(p, Oids)[c][r], batch.columns[c][1])

LEMMA OriginalReadsBack ==
  ASSUME CodecInv, phase \in {"upload", "damaged"}, AllRows >= 1 PROVE OriginalReads(PayloadOf(Original))
<1>1. GoodBatch(batch) /\ AllRows \in Nat
  BY RowCount DEF CodecInv, BatchInv
<1>2. CASE upload.constant
  <2> DEFINE p == ConstantBatch
             cells == [c \in DOMAIN Oids |-> [r \in 1..AllRows |-> batch.columns[c][1]]]
  <2>1. p \in Seq(Int)
    BY <1>1, ConstantTyped
  <2>2. BatchReadsAs(p, Oids, AllRows, cells)
    BY <1>1, ConstantBatchReadsBack
  <2> HIDE DEF p
  <2>3. FrameOf(Original, 1, p) /\ PayloadOf(Original) = p
    <3>1. FrameOf(SerializeFrame(1, p), 1, p)
      BY <2>1, FrameRead
    <3>2. Original = SerializeFrame(1, p)
      BY <1>2 DEF Original, p
    <3> QED BY <3>1, <3>2 DEF FrameOf
  <2>4. BatchAccepted(p, Oids) /\ Len(p) > 0
    BY <2>1, <2>2 DEF BatchReadsAs, BatchAccepted
  <2>5. ASSUME NEW c \in DOMAIN Oids, NEW r \in 1..AllRows
        PROVE  SameCell(ReadBatch(p, Oids)[c][r], batch.columns[c][1])
    BY <2>2 DEF BatchReadsAs
  <2> QED BY <2>1, <2>3, <2>4, <2>5 DEF OriginalReads
<1>3. CASE ~upload.constant
  <2>1. Original = frames[1]
    BY <1>3 DEF Original
  <2>2. offset = AllRows
    BY DEF CodecInv, SentInOrder
  <2>3. frames \in Seq(Seq(Int)) /\ Len(frames) \in Nat /\ Len(frames) # 0
    BY <1>1, <2>2 DEF CodecInv, FramesTyped, SentInOrder
  <2>4. PICK cuts \in [0..Len(frames) -> 0..AllRows] :
          frames[1] = SerializeFrame(1, Encode(batch, cuts[0], cuts[1] - cuts[0])) /\ cuts[0] < cuts[1]
    <3>1. 1 \in 1..Len(frames) /\ 1 - 1 = 0
      BY <2>3
    <3> QED BY <3>1 DEF CodecInv, SentInOrder
  <2> DEFINE o == cuts[0]
             k == cuts[1] - cuts[0]
             p == PayloadOf(frames[1])
  <2>5. o \in Nat /\ k \in Nat \ {0} /\ o + k <= AllRows
    <3>1. cuts[0] \in 0..AllRows /\ cuts[1] \in 0..AllRows
      <4>1. 0 \in 0..Len(frames) /\ 1 \in 0..Len(frames)
        BY <2>3
      <4> QED BY <4>1
    <3> QED BY <1>1, <2>4, <3>1
  <2> HIDE DEF o, k
  <2>6. FrameReads(1, frames[1], o, k)
    <3>1. frames[1] = SerializeFrame(1, Encode(batch, o, k)) /\ 1 \in Int
      BY <2>4 DEF o, k
    <3> QED BY <1>1, <2>5, <3>1, SentFrame
  <2>7. FrameOf(Original, 1, p) /\ p \in Seq(Int) /\ BatchAccepted(p, Oids)
    BY <2>1, <2>6 DEF FrameReads, BatchReadsAs
  <2> HIDE DEF p
  <2>8. Len(p) > 0
    BY <2>7 DEF BatchAccepted
  <2>9. OriginalReads(p)
    BY <1>3, <2>7, <2>8 DEF OriginalReads
  <2> QED BY <2>1, <2>9 DEF p
<1> QED BY <1>2, <1>3

LEMMA WholeUpload ==
  ASSUME CodecInv, UploadMade, upload.whole
  PROVE  /\ Accepted(upload.frame) \/ Len(PayloadOf(upload.frame)) > MaxUpload
         /\ upload.constant => \A c \in DOMAIN Oids : \A r \in 1..AllRows :
              SameCell(ReadBatch(PayloadOf(upload.frame), Oids)[c][r], batch.columns[c][1])
<1> DEFINE frame == upload.frame
           p == PayloadOf(Original)
<1>1. frame = Original /\ OriginalReads(p)
  BY OriginalReadsBack DEF UploadMade
<1> HIDE DEF p
<1>2. p \in Seq(Int) /\ Len(p) \in Nat /\ Len(p) > 0 /\ BatchAccepted(p, Oids) /\ FrameOf(frame, 1, p)
  BY <1>1 DEF OriginalReads
<1>3. PayloadOf(frame) = p
  BY <1>2 DEF FrameOf
<1>4. MaxUpload \in Nat
  BY CodecAssumption
<1>5. CASE Len(p) <= MaxUpload
  <2>1. ParsesFrame(frame)
    BY <1>2, <1>4, <1>5 DEF FrameOf, ParsesFrame, FrameHeader
  <2> QED BY <1>1, <1>2, <1>3, <2>1 DEF Accepted, OriginalReads
<1>6. CASE ~(Len(p) <= MaxUpload)
  <2>1. Len(PayloadOf(frame)) > MaxUpload
    BY <1>2, <1>3, <1>4, <1>6
  <2> QED BY <1>1, <1>3, <2>1 DEF OriginalReads
<1> QED BY <1>5, <1>6

LEMMA CutUpload == ASSUME CodecInv, UploadMade PROVE CutRejected
<1> SUFFICES ASSUME phase = "damaged", Accepted(upload.frame) PROVE Len(upload.frame) = Len(Original)
  BY DEF CutRejected, Original
<1> DEFINE p == PayloadOf(Original)
<1>1. OriginalReads(p)
  BY OriginalReadsBack DEF UploadMade
<1>2. SUFFICES ASSUME NEW m \in 0..(Len(p) - 1), upload.frame = SerializeFrame(1, SubSeq(p, 1, m)) PROVE FALSE
  BY DEF UploadMade
<1> HIDE DEF p
<1>3. p \in Seq(Int) /\ Len(p) \in Nat /\ BatchAccepted(p, Oids)
  BY <1>1 DEF OriginalReads
<1> DEFINE q == SubSeq(p, 1, m)
<1>4. q \in Seq(Int)
  BY <1>3, SliceTyped
<1>5. ~BatchAccepted(q, Oids)
  <2>1. Len(Oids) \in Nat
    BY OidsTyped DEF CodecInv, BatchInv
  <2> QED BY <1>3, <2>1, NoPrefixAccepted
<1> HIDE DEF q
<1>6. PayloadOf(upload.frame) = q
  <2>1. FrameOf(SerializeFrame(1, q), 1, q)
    BY <1>4, FrameRead
  <2> QED BY <1>2, <2>1 DEF FrameOf, q
<1> QED BY <1>5, <1>6 DEF Accepted

\* consume_batch and serialize_frame against native_batch_view and fill_column: whatever the
\* batch, the limit and the splits, the rows that were sent are read back, each once and in
\* order, with its nulls, texts and dates; a whole upload is accepted unless it is larger
\* than uploads may be, and one that was cut is not taken for a shorter one.
THEOREM EveryRowReadsBack == CodecSpec => []RowsReadBack
<1>1. CodecInv /\ UploadMade => RowsReadBack
  <2> SUFFICES ASSUME CodecInv, UploadMade PROVE RowsReadBack
    OBVIOUS
  <2>1. FramesReadBack
    BY SentReadsBack DEF CodecInv
  <2>2. phase = "sent" => offset = AllRows
    BY DEF CodecInv, SentInOrder
  <2>3. CutRejected
    BY CutUpload
  <2>4. upload.whole =>
          /\ Accepted(upload.frame) \/ Len(PayloadOf(upload.frame)) > MaxUpload
          /\ upload.constant => \A c \in DOMAIN Oids : \A r \in 1..AllRows :
               SameCell(ReadBatch(PayloadOf(upload.frame), Oids)[c][r], batch.columns[c][1])
    BY WholeUpload
  <2> QED BY <2>1, <2>2, <2>3, <2>4, Zenon DEF RowsReadBack, FramesReadBack
<1> QED BY <1>1, CodecInvHolds, UploadMadeHolds, PTL
=============================================================================
