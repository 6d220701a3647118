---------------------------- MODULE ResultStream ----------------------------
(***************************************************************************)
(* What goes over the wire as native batches.  consume_batch splits one    *)
(* batch of a result into frames that fit max_batch_bytes; and a frame of  *)
(* the same format that a client uploads is decoded, whole or damaged.     *)
(* Who waits for whom between two frames is in ExecutionEntry.             *)
(***************************************************************************)
EXTENDS NativeBatch

CONSTANTS
  Batches,          \* the result batches that are tried
  Limits,           \* max_batch_bytes
  DamagedRows,      \* bound: batches of at most so many rows are also uploaded
  Damages           \* the values that a damaged cell takes

\* The columns of a batch have a type, the same number of rows, and values of their type.
ASSUME BatchesAssumption ==
  /\ Limits \subseteq Nat /\ DamagedRows \in Nat /\ Damages \subseteq Int
  /\ \A b \in Batches :
       /\ b.schema \in Seq([oid : Int, required : BOOLEAN]) /\ Len(b.schema) > 0
       /\ DOMAIN b.columns = DOMAIN b.schema
       /\ \A c \in DOMAIN b.schema :
            /\ b.columns[c] \in Seq([null : BOOLEAN, v : IF b.schema[c].oid = Varchar THEN Seq(Int) ELSE Int])
            /\ Len(b.columns[c]) = Len(b.columns[1])

VARIABLES
  batch, limit, gpu,   \* the result batch, the negotiated limit, packed on the GPU
  phase, offset, rows, \* consume_batch and its local variables
  frames,              \* the frames published, and the payloads' sizes with them
  upload               \* the frame uploaded: whether whole, in its constant form, and its cells

codecVars == <<batch, limit, gpu, phase, offset, rows, frames, upload>>

NoUpload == [whole |-> FALSE, constant |-> FALSE, frame |-> <<>>]
AllRows == Len(batch.columns[1])
Oids == [c \in DOMAIN batch.schema |-> batch.schema[c].oid]

CodecInit ==
  /\ batch \in Batches /\ limit \in Limits
  /\ gpu \in IF GpuPacks(batch) THEN BOOLEAN ELSE {FALSE}
  /\ phase = "consume" /\ offset = 0 /\ rows = 0
  /\ frames = <<>> /\ upload = NoUpload

-----------------------------------------------------------------------------
(* consume_batch. *)

Stays == UNCHANGED <<batch, limit, gpu, upload>>

\* The deadline is looked at once, before the batch is touched.  The encoder's constructor
\* refuses storage that does not match the schema or cannot be brought to the host.  Of a
\* batch without rows nothing is sent.
Consume ==
  /\ phase = "consume"
  /\ phase' \in {IF AllRows = 0 THEN "sent" ELSE "fit", "cancelled", "invalid batch"}
  /\ rows' = AllRows
  /\ UNCHANGED <<offset, frames>> /\ Stays

TooLarge == EncodedSize(batch, gpu, offset, rows) > limit

Halve ==
  /\ phase = "fit" /\ TooLarge /\ rows > 1
  /\ rows' = rows \div 2
  /\ UNCHANGED <<phase, offset, frames>> /\ Stays

\* One row that does not fit, or a row that cannot be encoded.
Throw ==
  /\ phase = "fit"
  /\ \/ TooLarge /\ rows = 1 /\ phase' = "row too large"
     \/ ~TooLarge /\ ~Encodable(batch, offset, rows) /\ phase' = "not encodable"
  /\ UNCHANGED <<offset, rows, frames>> /\ Stays

\* publish hands the frame over, finds the payload too large after all, or finds the
\* execution at its end.  What was not sent starts again with all that is left.
Send ==
  LET payload == Encode(batch, offset, rows) IN
  /\ phase = "fit" /\ ~TooLarge /\ Encodable(batch, offset, rows)
  /\ IF Len(payload) > limit
     THEN phase' = "batch too large" /\ UNCHANGED <<offset, rows, frames>>
     ELSE \/ /\ frames' = Append(frames, SerializeFrame(Len(frames) + 1, payload))
             /\ offset' = offset + rows
             /\ rows' = AllRows - offset'
             /\ phase' = IF rows' = 0 THEN "sent" ELSE "fit"
          \/ phase' = "cancelled" /\ UNCHANGED <<offset, rows, frames>>
  /\ Stays

-----------------------------------------------------------------------------
(* Uploads.  MatrixOne, which is external, sends batches in this format,    *)
(* also with columns of one constant and with attribute names.              *)

ConstantVector(oid, cell, n) ==
  <<Constant, oid, n>>
    \o Sized(IF cell.null THEN <<>> ELSE Data(oid, <<cell>>))
    \o Sized(IF oid = Varchar THEN Area(<<cell>>) ELSE <<>>) \o Sized(<<>>) \o <<1>>

ConstantBatch ==
  LET vectors == [c \in DOMAIN Oids |-> ConstantVector(Oids[c], batch.columns[c][1], AllRows)]
      names == [c \in DOMAIN Oids |-> Sized(<<c>>)]
  IN <<AllRows, Len(Oids)>> \o FlattenSeq([c \in DOMAIN Oids |-> Sized(vectors[c])])
       \o <<Len(Oids)>> \o FlattenSeq(names) \o Zeros(3)

Upload ==
  /\ phase = "sent" /\ AllRows \in 1..DamagedRows
  /\ phase' = "upload"
  /\ \/ upload' = [whole |-> TRUE, constant |-> FALSE, frame |-> frames[1]]
     \/ upload' = [whole |-> TRUE, constant |-> TRUE, frame |-> SerializeFrame(1, ConstantBatch)]
  /\ UNCHANGED <<batch, limit, gpu, offset, rows, frames>>

\* One cell is something else, or the payload is cut and the frame agrees with that.
Damage ==
  /\ phase = "upload"
  /\ phase' = "damaged"
  /\ \/ \E i \in DOMAIN upload.frame, d \in Damages :
          upload' = [upload EXCEPT !.whole = FALSE, !.frame[i] = d]
     \/ \E n \in 0..(Len(upload.frame) - FrameHeader - 1) :
          upload' = [upload EXCEPT !.whole = FALSE,
                       !.frame = SerializeFrame(1, SubSeq(PayloadOf(@), 1, n))]
  /\ UNCHANGED <<batch, limit, gpu, offset, rows, frames>>

CodecNext == Consume \/ Halve \/ Throw \/ Send \/ Upload \/ Damage

CodecSpec == CodecInit /\ [][CodecNext]_codecVars

-----------------------------------------------------------------------------
(* Properties. *)

Accepted(frame) == ParsesFrame(frame) /\ BatchAccepted(PayloadOf(frame), Oids)

SameCell(a, b) == a.null = b.null /\ (~a.null => a.v = b.v)

\* A payload that was cut is not accepted, although the frame around it agrees with its size
\* (native_batch_view reads to the very end of the batch).
CutRejected ==
  phase = "damaged" /\ Accepted(upload.frame) =>
    Len(upload.frame) = Len(IF upload.constant THEN SerializeFrame(1, ConstantBatch) ELSE frames[1])

\* Frame by frame, the rows of the batch are sent once and in order, whatever the sizes of
\* the splits: decoding gives back each row with its nulls, texts and dates, and at the end
\* none is missing.  A whole upload is accepted and reads back as well, a constant in every row;
\* one that was cut anywhere is not taken for a shorter one.
RowsReadBack ==
  LET read == [f \in DOMAIN frames |-> ReadBatch(PayloadOf(frames[f]), Oids)]
      column(c) == FlattenSeq([f \in DOMAIN frames |-> read[f][c]])
      uploaded == ReadBatch(PayloadOf(upload.frame), Oids)
  IN /\ \A f \in DOMAIN frames :
          /\ frames[f][4] = f /\ frames[f][5] = Len(PayloadOf(frames[f]))
          /\ BatchAccepted(PayloadOf(frames[f]), Oids)
     /\ \A c \in DOMAIN Oids :
          /\ Len(column(c)) = offset
          /\ \A r \in 1..offset : SameCell(column(c)[r], batch.columns[c][r])
     /\ phase = "sent" => offset = AllRows
     /\ upload.whole =>
          /\ Accepted(upload.frame) \/ Len(PayloadOf(upload.frame)) > MaxUpload
          /\ upload.constant => \A c \in DOMAIN Oids : \A r \in 1..AllRows :
               SameCell(uploaded[c][r], batch.columns[c][1])
     /\ CutRejected

\* What a row needs by itself, with the characters beneath its nulls.
RowNeeds(r) ==
  LET shown == [schema |-> batch.schema, columns |->
                  [c \in DOMAIN Oids |-> [q \in 1..AllRows |-> [null |-> FALSE, v |-> batch.columns[c][q].v]]]]
  IN Len(Encode(shown, r - 1, 1)) + 4 * Cardinality({c \in DOMAIN Oids : batch.columns[c][r].null})

\* No frame exceeds the negotiated limit, the estimate that decides the splits is never too
\* small for what is then encoded, and a batch fails for its size only when the next row alone
\* is too large for the limit (encoded_size against encode, and the halving of consume_batch).
LimitRespected ==
  /\ \A f \in DOMAIN frames : frames[f][5] <= limit
  /\ phase # "batch too large"
  /\ phase = "row too large" => RowNeeds(offset + 1) > limit

\* What fill_column reads of an accepted payload: the null bits are those of rows, and each row
\* that is not null reads cells of its column's data, and of the area if its text is there.
ReadsInside(p, oids) ==
  \A c \in DOMAIN oids : LET v == View(Vectors(p, Len(oids))[c]) IN
    /\ v.nulls # <<>> => \A i \in NullBits(v.nulls) : i < p[1]
    /\ \A r \in 1..p[1] : ~ReadsNull(v, r) =>
         /\ SourceRow(v, r) * TypeSize(v.oid) <= Len(v.data)
         /\ LET s == Source(v, r) IN s.from >= 1 /\ s.to <= Len(s.of)

\* Whatever cell of an upload is damaged and wherever it is cut, fill_column reads no cell
\* outside the data or the area of a payload that parse_column has accepted, a constant
\* vector, a null and a text in the area included.
DecoderSafe ==
  phase = "damaged" /\ Accepted(upload.frame) => ReadsInside(PayloadOf(upload.frame), Oids)
=============================================================================
