------------------------- MODULE ReadResolverProofs -------------------------
(***************************************************************************)
(* The properties of ReadResolver for every set of reads.  A failure can   *)
(* leave the constructor with any reads resolved and one half-way, so the  *)
(* invariant says who owns each manifest, view and input at every step:    *)
(* the resolver for the current read, or the token of a resolved one.      *)
(***************************************************************************)
EXTENDS ReadResolver, TLAPS

\* What the resolver holds for the read it is working on.
CurrentInv ==
  /\ current = NoRead <=> step = "idle"
  /\ current # NoRead =>
       /\ entry = "building" /\ current \notin token
       /\ request[current] = "good"
       /\ current \in TaeReads /\ step = "called" => answer[current] # "none"
       /\ current \in TaeReads /\ step \in {"verified", "acquired", "bound"} => answer[current] = "good"
       /\ current \in TaeReads /\ step \in {"acquired", "bound"} => file[current] = "temporary"
       /\ current \in StreamReads /\ step \in {"acquired", "bound"} => input[current] = "open"
       /\ step = "bound" => current \in view

\* Who is going to unlink a manifest.
FileInv ==
  \A t \in TaeReads :
    /\ file[t] = "temporary" => t = current
    /\ file[t] = "owned" => t \in token

\* What a token stands for.
TokenInv ==
  \A r \in token :
    /\ request[r] = "good"
    /\ r \in TaeReads => answer[r] = "good" /\ file[r] = "owned"
    /\ r \in StreamReads => input[r] = "open"
    /\ entry \in {"building", "ready"} => r \in view

\* The order in which things go away.
LifeInv ==
  /\ token # {} => connection
  /\ ~connection => view = {}
  /\ entry \in {"building", "ready"} => connection
  /\ entry = "ready" => token = Reads
  /\ entry = "gone" => token = {} /\ ~connection

IInv == TypeOK /\ CurrentInv /\ FileInv /\ TokenInv /\ LifeInv

-----------------------------------------------------------------------------
LEMMA InvInit == ResolverInit => IInv
BY ReadsAssumption DEF ResolverInit, IInv, TypeOK, CurrentInv, FileInv, TokenInv, LifeInv, Reads, NoRead

\* An exception leaves nothing temporary behind and keeps what tokens own.
LEMMA ThrowKeeps ==
  ASSUME IInv, ResolveThrows, entry = "building",
         UNCHANGED <<request, answer, view, token, connection>>,
         input' \in [StreamReads -> {"none", "open", "cancelled"}],
         \A s \in StreamReads : s \in token => input'[s] = input[s]
  PROVE  IInv'
<1>1. TypeOK'
  BY DEF IInv, TypeOK, ResolveThrows, Unlinked, Reads
<1>2. CurrentInv'
  BY DEF IInv, TypeOK, CurrentInv, ResolveThrows
<1>3. FileInv'
  BY DEF IInv, TypeOK, FileInv, ResolveThrows, Unlinked
<1>4. TokenInv'
  BY DEF IInv, TypeOK, TokenInv, ResolveThrows, Unlinked, Reads
<1>5. LifeInv'
  BY DEF IInv, TypeOK, LifeInv, ResolveThrows
<1> QED BY <1>1, <1>2, <1>3, <1>4, <1>5 DEF IInv

LEMMA InvResolve == ASSUME IInv, NEW r \in Reads, Resolve(r) PROVE IInv'
<1> USE ReadsAssumption DEF Reads
<1>1. CASE Begin(r)
  <2>1. CASE request[r] = "good"
    BY <1>1, <2>1 DEF Begin, IInv, TypeOK, CurrentInv, FileInv, TokenInv, LifeInv
  <2>2. CASE request[r] # "good"
    BY <1>1, <2>2, ThrowKeeps DEF Begin, IInv, TypeOK
  <2> QED BY <2>1, <2>2
<1>2. CASE CallService(r)
  <2>1. PICK a \in {"good"} \cup AnswerFaults : answer' = [answer EXCEPT ![r] = a]
    BY <1>2 DEF CallService
  <2>2. a # "none"
    BY DEF AnswerFaults
  <2>3. TypeOK' /\ CurrentInv'
    BY <1>2, <2>1, <2>2 DEF CallService, At, GoesOn, resourceVars, IInv, TypeOK, CurrentInv
  <2>4. FileInv' /\ TokenInv' /\ LifeInv'
    BY <1>2, <2>1 DEF CallService, At, GoesOn, resourceVars, IInv, TypeOK, CurrentInv, FileInv, TokenInv, LifeInv
  <2> QED BY <2>3, <2>4 DEF IInv
<1>3. CASE Verify(r)
  <2>1. CASE Acceptable(r)
    <3>1. answer[r] \in {"none", "good"}
      BY <1>3, <2>1 DEF Acceptable, Verify, IInv, TypeOK
    <3>2. answer[r] = "none" => FALSE
      BY <1>3 DEF Verify, At, IInv, CurrentInv
    <3> QED BY <1>3, <2>1, <3>1, <3>2 DEF Verify, At, GoesOn, IInv, TypeOK, CurrentInv, FileInv, TokenInv, LifeInv
  <2>2. CASE ~Acceptable(r)
    BY <1>3, <2>2, ThrowKeeps DEF Verify, At, IInv, TypeOK
  <2> QED BY <2>1, <2>2
<1>4. CASE WriteManifest(r)
  <2>1. CASE ResolveThrows
    BY <1>4, <2>1, ThrowKeeps DEF WriteManifest, At, IInv, TypeOK
  <2>2. CASE GoesOn("acquired") /\ file' = [file EXCEPT ![r] = "temporary"]
    BY <1>4, <2>2 DEF WriteManifest, At, GoesOn, IInv, TypeOK, CurrentInv, FileInv, TokenInv, LifeInv
  <2> QED BY <1>4, <2>1, <2>2 DEF WriteManifest
<1>5. CASE CreateInput(r)
  <2>1. CASE ResolveThrows /\ UNCHANGED input
    BY <1>5, <2>1, ThrowKeeps DEF CreateInput, At, IInv, TypeOK
  <2>2. CASE GoesOn("acquired") /\ input' = [input EXCEPT ![r] = "open"] /\ UNCHANGED file
    BY <1>5, <2>2 DEF CreateInput, At, GoesOn, IInv, TypeOK, CurrentInv, FileInv, TokenInv, LifeInv
  <2> QED BY <1>5, <2>1, <2>2 DEF CreateInput
<1>6. CASE BindView(r)
  BY <1>6 DEF BindView, At, GoesOn, IInv, TypeOK, CurrentInv, FileInv, TokenInv, LifeInv
<1>7. CASE BindFails(r)
  <2>1. r \notin token
    BY <1>7 DEF BindFails, At, IInv, CurrentInv
  <2> QED BY <1>7, <2>1, ThrowKeeps DEF BindFails, At, IInv, TypeOK
<1>8. CASE Resolved(r)
  BY <1>8 DEF Resolved, At, IInv, TypeOK, CurrentInv, FileInv, TokenInv, LifeInv
<1> QED BY <1>1, <1>2, <1>3, <1>4, <1>5, <1>6, <1>7, <1>8 DEF Resolve

LEMMA InvNext == IInv /\ [ResolverNext]_resolverVars => IInv'
<1> SUFFICES ASSUME IInv, [ResolverNext]_resolverVars PROVE IInv'
  OBVIOUS
<1> USE ReadsAssumption DEF Reads
<1>1. ASSUME NEW r \in Reads, Resolve(r) PROVE IInv'
  BY <1>1, InvResolve
<1>2. CASE Constructed
  <2>1. CASE ResolveThrows
    BY <1>2, <2>1, ThrowKeeps DEF Constructed, IInv, TypeOK
  <2>2. CASE token = Reads /\ entry' = "ready" /\ UNCHANGED <<current, step, file>>
    BY <1>2, <2>2 DEF Constructed, IInv, TypeOK, CurrentInv, FileInv, TokenInv, LifeInv
  <2> QED BY <1>2, <2>1, <2>2 DEF Constructed
<1>3. CASE DestroyEntry
  BY <1>3 DEF DestroyEntry, resourceVars, IInv, TypeOK, CurrentInv, FileInv, TokenInv, LifeInv
<1>4. ASSUME NEW r \in Reads, DropToken(r) PROVE IInv'
  BY <1>4 DEF DropToken, IInv, TypeOK, CurrentInv, FileInv, TokenInv, LifeInv
<1>5. CASE CloseConnection
  BY <1>5 DEF CloseConnection, TokensGone, IInv, TypeOK, CurrentInv, FileInv, TokenInv, LifeInv
<1>6. CASE Gone
  BY <1>6 DEF Gone, resourceVars, IInv, TypeOK, CurrentInv, FileInv, TokenInv, LifeInv
<1>7. CASE UNCHANGED resolverVars
  BY <1>7 DEF resolverVars, resourceVars, IInv, TypeOK, CurrentInv, FileInv, TokenInv, LifeInv
<1> QED BY <1>1, <1>2, <1>3, <1>4, <1>5, <1>6, <1>7 DEF ResolverNext

LEMMA Invariant == ResolverSpec => []IInv
BY InvInit, InvNext, PTL DEF ResolverSpec

-----------------------------------------------------------------------------
\* Whatever fails while an execution_entry is constructed, and in whatever order its
\* tokens are destroyed, no manifest file and no view outlives it.
THEOREM EverythingReturned == ResolverSpec => []NothingLeaks
<1>1. IInv => NothingLeaks
  BY ReadsAssumption DEF IInv, TypeOK, CurrentInv, FileInv, LifeInv, NothingLeaks, Reads
<1> QED BY <1>1, Invariant, PTL

\* A ready execution has an existing view, manifest and input for each of its reads.
THEOREM ReadyHasItsReads == ResolverSpec => []ReadyIsBacked
<1>1. IInv => ReadyIsBacked
  BY ReadsAssumption DEF IInv, TypeOK, TokenInv, LifeInv, ReadyIsBacked, Reads
<1> QED BY <1>1, Invariant, PTL

\* Every read of a ready execution passed every check of resolve().
THEOREM ReadyIsAuthenticated == ResolverSpec => []OnlyAuthenticated
<1>1. IInv => OnlyAuthenticated
  BY DEF IInv, TokenInv, LifeInv, OnlyAuthenticated, Reads
<1> QED BY <1>1, Invariant, PTL
=============================================================================
