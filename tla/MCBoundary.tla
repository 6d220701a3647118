----------------------------- MODULE MCBoundary -----------------------------
(***************************************************************************)
(* Model-checking instance of what crosses the sidecar's boundary, in      *)
(* three families of behaviours that share no state: a message is read     *)
(* (WireMessages), a result batch is sent and an upload decoded            *)
(* (ResultStream), the reads of a plan are resolved (ReadResolver).        *)
(* FieldModulus stands for 2^32 and is larger than every known field.  Two *)
(* TaeReads and one StreamRead are the smallest plan in which a read of    *)
(* either kind can fail with a read of either kind resolved.               *)
(***************************************************************************)
EXTENDS WireMessages, ResultStream, ReadResolver

Column(oid, required) == [oid |-> oid, required |-> required]
Cell(v) == [null |-> FALSE, v |-> v]
NullOver(v) == [null |-> TRUE, v |-> v]

\* 3 is a date that MatrixOne's type cannot hold.
Dates == {Cell(-1), Cell(3), NullOver(0)}
\* Inline, inline and full, long, and a null over a long text.
Texts == {Cell(<<>>), Cell(<<4, 5>>), Cell(<<4, 5, 6>>), NullOver(<<5, 6, 4, 5>>)}

\* Up to three rows of a date and a text, and up to five dates or none, required or not.
Mixed == {[schema |-> <<Column(Date, FALSE), Column(Varchar, FALSE)>>, columns |-> <<d, t>>] :
            <<d, t>> \in UNION {[1..n -> Dates] \X [1..n -> Texts] : n \in 1..3}}
DatesOnly == {[schema |-> <<Column(Date, required)>>, columns |-> <<d>>] :
                d \in UNION {[1..n -> Dates] : n \in 0..5}, required \in BOOLEAN}
MCBatches == Mixed \cup DatesOnly

NoCodec ==
  /\ batch = CHOOSE b \in DatesOnly : TRUE
  /\ limit = 0 /\ gpu = FALSE /\ phase = "idle" /\ offset = 0 /\ rows = 0 /\ frames = <<>> /\ upload = NoUpload

NoMessage ==
  /\ kind = "none" /\ value = [f \in Fields |-> "absent"] /\ columns = 0 /\ outcome = "idle"
  /\ count = [n \in Numbers |-> 0]

NoPlan ==
  /\ entry = "gone" /\ current = NoRead /\ step = "idle"
  /\ request = [r \in Reads |-> "good"] /\ answer = [r \in TaeReads |-> "none"]
  /\ file = [r \in TaeReads |-> "none"] /\ view = {} /\ token = {}
  /\ input = [r \in StreamReads |-> "none"] /\ connection = FALSE

MCInit ==
  \/ Init /\ NoCodec /\ NoPlan
  \/ CodecInit /\ NoMessage /\ NoPlan
  \/ ResolverInit /\ NoMessage /\ NoCodec

MCNext ==
  \/ Next /\ UNCHANGED <<codecVars, resolverVars>>
  \/ CodecNext /\ UNCHANGED <<vars, resolverVars>>
  \/ ResolverNext /\ UNCHANGED <<vars, codecVars>>

MCSpec == MCInit /\ [][MCNext]_<<vars, codecVars, resolverVars>>
=============================================================================
