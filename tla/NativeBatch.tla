---------------------------- MODULE NativeBatch ----------------------------
(***************************************************************************)
(* The MatrixOne native batch: the encoder of results (native_result.cpp), *)
(* its estimate of the encoded size, the MOB1 frame around a batch         *)
(* (protocol.cpp) and the decoder of uploads (stream_input.cpp).           *)
(*                                                                         *)
(* Bytes are scaled down to cells that hold one integer each: a length, a  *)
(* type, a date, a word of the null bitmap, a character.  Sizes count      *)
(* cells, on both sides.  A type is a date, which stands for the types of  *)
(* fixed width (its conversion can fail, like those of uint32 and of the   *)
(* decimals), or a varchar.  A column of a result is a sequence of         *)
(* [null, v] where a null text may have characters beneath it.             *)
(***************************************************************************)
EXTENDS Integers, SequencesExt, FiniteSets

CONSTANTS
  VarlenaSize,   \* cells of a varlena: marker, offset and length, or an inline text
  WordBits,      \* bits of a word of the null bitmap
  Epoch,         \* MO_UNIX_EPOCH_DAYS
  MaxDate,       \* the largest int32
  MaxUpload      \* k_max_stream_input_batch_bytes

Flat == 0
Constant == 1
Date == 50
Varchar == 61
Magic == 7
Version == 1
BigMarker == 99

\* The marker of a long text is no length of an inline one.
ASSUME CodecAssumption ==
  VarlenaSize \in 3..BigMarker /\ {WordBits, Epoch, MaxDate, MaxUpload} \subseteq Nat \ {0}

InlineMax == VarlenaSize - 1
TypeSize(oid) == IF oid = Varchar THEN VarlenaSize ELSE 1
Words(n) == (n + WordBits - 1) \div WordBits
Zeros(n) == [i \in 1..n |-> 0]

\* The sum of the first k numbers of f, for every k up to n.
Sums(f, n) ==
  LET upTo[k \in 0..n] == IF k = 0 THEN 0 ELSE upTo[k - 1] + f[k]
  IN upTo

-----------------------------------------------------------------------------
(* The encoder.  rows is the range of a column that is encoded. *)

IsBig(cell) == ~cell.null /\ Len(cell.v) > InlineMax
Area(rows) == FlattenSeq([r \in DOMAIN rows |-> IF IsBig(rows[r]) THEN rows[r].v ELSE <<>>])

Varlena(rows, r) ==
  LET text == rows[r].v IN
  IF rows[r].null THEN Zeros(VarlenaSize)
  ELSE IF IsBig(rows[r])
    THEN <<BigMarker, Len(Area(SubSeq(rows, 1, r - 1))), Len(text)>> \o Zeros(VarlenaSize - 3)
    ELSE <<Len(text)>> \o text \o Zeros(InlineMax - Len(text))

Data(oid, rows) ==
  IF oid = Varchar
  THEN FlattenSeq([r \in DOMAIN rows |-> Varlena(rows, r)])
  ELSE [r \in DOMAIN rows |-> IF rows[r].null THEN 0 ELSE rows[r].v + Epoch]

\* What bit b of a word counts.
BitValue[b \in 0..WordBits] == IF b = 0 THEN 1 ELSE 2 * BitValue[b - 1]

\* read_nulls and encode_nulls: nothing at all when no row of the range is null.
NullRows(rows) == {r - 1 : r \in {q \in DOMAIN rows : rows[q].null}}
Word(S, w) ==
  LET value == [b \in 1..WordBits |-> IF w * WordBits + b - 1 \in S THEN BitValue[b - 1] ELSE 0]
  IN Sums(value, WordBits)[WordBits]
Nulls_OneWord(rows) ==
  LET S == NullRows(rows) IN
  IF S = {} THEN <<>> ELSE <<Cardinality(S), Len(rows), 1, Word(S, 0)>>
Nulls(rows) ==
  LET S == NullRows(rows) IN
  IF S = {} THEN <<>>
  ELSE <<Cardinality(S), Len(rows), Words(Len(rows))>> \o [w \in 1..Words(Len(rows)) |-> Word(S, w - 1)]

Sized(s) == <<Len(s)>> \o s

EncodeColumn(oid, rows) ==
  <<Flat, oid, Len(rows)>> \o Sized(Data(oid, rows))
    \o Sized(IF oid = Varchar THEN Area(rows) ELSE <<>>) \o Sized(Nulls(rows)) \o <<0>>

\* A batch is [schema, columns]; the schema says of each column [oid, required].
RowRange(column, offset, count) == SubSeq(column, offset + 1, offset + count)

Assemble(count, vectors) ==
  <<count, Len(vectors)>> \o FlattenSeq([c \in DOMAIN vectors |-> Sized(vectors[c])]) \o Zeros(4)

Encode(batch, offset, count) ==
  Assemble(count, [c \in DOMAIN batch.schema |->
    EncodeColumn(batch.schema[c].oid, RowRange(batch.columns[c], offset, count))])

\* A null in a required column, or a value that MatrixOne's type cannot hold.
Encodable(batch, offset, count) ==
  \A c \in DOMAIN batch.schema : \A r \in (offset + 1)..(offset + count) :
    LET cell == batch.columns[c][r] IN
    /\ batch.schema[c].required => ~cell.null
    /\ (batch.schema[c].oid = Date /\ ~cell.null) => cell.v <= MaxDate - Epoch

\* native_result_batch_encoder::encoded_size.  It counts a long text beneath a null;
\* the GPU packs only batches without texts and nulls.
LongTexts(oid, rows) ==
  LET size == [r \in DOMAIN rows |-> IF oid = Varchar /\ Len(rows[r].v) > InlineMax THEN Len(rows[r].v) ELSE 0]
  IN Sums(size, Len(rows))[Len(rows)]

ColumnSize_NoNulls(oid, rows, gpu) ==
  8 + Len(rows) * TypeSize(oid) + (IF gpu THEN 0 ELSE LongTexts(oid, rows))
ColumnSize(oid, rows, gpu) ==
  LET nulls == IF NullRows(rows) # {} THEN 3 + Words(Len(rows)) ELSE 0
  IN 8 + Len(rows) * TypeSize(oid) + (IF gpu THEN 0 ELSE LongTexts(oid, rows) + nulls)

EncodedSize(batch, gpu, offset, count) ==
  LET size == [c \in DOMAIN batch.schema |->
                 ColumnSize(batch.schema[c].oid, RowRange(batch.columns[c], offset, count), gpu)]
  IN 6 + Sums(size, Len(batch.schema))[Len(batch.schema)]

\* can_pack_mo_native_result_on_gpu
GpuPacks(batch) ==
  \A c \in DOMAIN batch.schema : batch.schema[c].oid # Varchar /\ NullRows(batch.columns[c]) = {}

-----------------------------------------------------------------------------
(* The frame. *)

FrameHeader == 5

SerializeFrame(sequence, payload) == <<Magic, Version, 0, sequence, Len(payload)>> \o payload

ParsesFrame(frame) ==
  /\ Len(frame) >= FrameHeader
  /\ frame[1] = Magic /\ frame[2] = Version /\ frame[3] = 0
  /\ frame[4] # 0 /\ frame[5] \in 1..MaxUpload
  /\ frame[5] = Len(frame) - FrameHeader

PayloadOf(frame) == SubSeq(frame, FrameHeader + 1, Len(frame))

-----------------------------------------------------------------------------
(* The decoder.  A length that is negative as a cell is a huge unsigned     *)
(* one: the cursor's read throws.                                          *)

\* Where the cursor is after the sized item at p[here]: past the end of p if the item does
\* not fit.
NextItem(p, here) ==
  IF here <= Len(p) /\ p[here] \in 0..(Len(p) - here) THEN here + 1 + p[here] ELSE Len(p) + 2

\* Where it is after k of the n sized items that start at p[at].
AfterItems(p, at, n) ==
  LET after[k \in 0..n] == IF k = 0 THEN at ELSE NextItem(p, after[k - 1])
  IN after

\* The data, area and null bitmap of a vector, each with its size, and one last cell.
Parts(b) == AfterItems(b, 4, 3)
Part(b, k) == SubSeq(b, Parts(b)[k - 1] + 1, Parts(b)[k] - 1)
View(b) ==
  [class |-> b[1], oid |-> b[2], rows |-> b[3], data |-> Part(b, 1), area |-> Part(b, 2),
   nulls |-> Part(b, 3), sorted |-> b[Len(b)]]

DataFits(v) ==
  /\ Len(v.data) = IF v.class = Constant
                   THEN IF v.data = <<>> THEN 0 ELSE TypeSize(v.oid)
                   ELSE v.rows * TypeSize(v.oid)
  /\ v.oid # Varchar => v.area = <<>>

NullBits(nulls) ==
  {i \in 0..((Len(nulls) - 3) * WordBits - 1) :
     (nulls[4 + i \div WordBits] \div BitValue[i % WordBits]) % 2 = 1}

NullsFit(nulls, rows) ==
  \/ nulls = <<>>
  \/ /\ Len(nulls) >= 3
     /\ nulls[1] \in 0..rows /\ nulls[2] >= rows
     /\ nulls[3] = Len(nulls) - 3 /\ nulls[3] = Words(nulls[2])
     /\ NullBits(nulls) \subseteq 0..(rows - 1)
     /\ Cardinality(NullBits(nulls)) = nulls[1]

PhysicalRows(v) ==
  IF v.class = Constant THEN IF v.data = <<>> THEN 0 ELSE 1 ELSE v.rows

Descriptor(v, r) == SubSeq(v.data, (r - 1) * VarlenaSize + 1, r * VarlenaSize)
IsInline(d) == d[1] \in 0..InlineMax

DescriptorFits_OffsetOnly(d, area) == IsInline(d) \/ (d[1] = BigMarker /\ d[2] \in 0..Len(area) /\ d[3] >= 0)
DescriptorFits(d, area) ==
  IsInline(d) \/ (d[1] = BigMarker /\ d[2] \in 0..Len(area) /\ d[3] \in 0..(Len(area) - d[2]))

\* parse_column
ColumnAccepted(b, rows, oid) ==
  /\ Len(b) >= 4 /\ Parts(b)[3] = Len(b)
  /\ LET v == View(b) IN
     /\ v.class \in {Flat, Constant} /\ v.oid = oid /\ v.rows = rows /\ v.sorted \in {0, 1}
     /\ DataFits(v)
     /\ NullsFit(v.nulls, rows)
     /\ oid = Varchar => \A r \in 1..PhysicalRows(v) : DescriptorFits(Descriptor(v, r), v.area)

\* native_batch_view: row count, columns, then no attribute names or one for each column,
\* and three empty lists that end the batch.
Vectors(p, n) == LET at == AfterItems(p, 3, n) IN [c \in 1..n |-> SubSeq(p, at[c - 1] + 1, at[c] - 1)]

BatchAccepted(p, oids) ==
  LET n == Len(oids) IN
  /\ Len(p) >= 2 /\ p[1] > 0 /\ p[2] = n
  /\ LET attributes == AfterItems(p, 3, n)[n] IN
     /\ attributes <= Len(p)
     /\ \A c \in 1..n : ColumnAccepted(Vectors(p, n)[c], p[1], oids[c])
     /\ p[attributes] \in {0, n}
     /\ LET rest == AfterItems(p, attributes + 1, p[attributes])[p[attributes]] IN
        rest = Len(p) - 2 /\ \A i \in rest..Len(p) : p[i] = 0

\* fill_column: what row r of a column reads.
IsNull(v, r) == v.nulls # <<>> /\ (r - 1) \in NullBits(v.nulls)
ReadsNull(v, r) == IF v.class = Constant THEN v.data = <<>> \/ IsNull(v, 1) ELSE IsNull(v, r)
SourceRow(v, r) == IF v.class = Constant THEN 1 ELSE r

\* The cells of its source that row r copies: an inline text, a part of the area, or one value.
Source(v, r) ==
  LET d == Descriptor(v, SourceRow(v, r)) IN
  IF v.oid = Varchar
  THEN IF IsInline(d) THEN [of |-> Tail(d), from |-> 1, to |-> d[1]]
                      ELSE [of |-> v.area, from |-> d[2] + 1, to |-> d[2] + d[3]]
  ELSE [of |-> v.data, from |-> SourceRow(v, r), to |-> SourceRow(v, r)]

ReadCell(v, r) ==
  LET s == Source(v, r) IN
  IF ReadsNull(v, r) THEN [null |-> TRUE, v |-> <<>>]
  ELSE [null |-> FALSE, v |-> IF v.oid = Varchar THEN SubSeq(s.of, s.from, s.to) ELSE s.of[s.from] - Epoch]

ReadBatch(p, oids) ==
  [c \in DOMAIN oids |-> [r \in 1..p[1] |-> ReadCell(View(Vectors(p, Len(oids))[c]), r)]]
=============================================================================
