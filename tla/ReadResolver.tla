---------------------------- MODULE ReadResolver ----------------------------
(***************************************************************************)
(* What an execution_entry acquires while it is being constructed and has  *)
(* to give back however its life goes: matrixone_tae_read_resolver         *)
(* resolves every read of the plan inside prepare_substrait, each TaeRead  *)
(* through the MatrixOne read service into a private manifest file and a   *)
(* view, each StreamRead into an input and a view; the resolved relations  *)
(* (tokens) drop them.  The constructor is sequential, but nearly every    *)
(* step of it can throw with earlier reads resolved.                       *)
(***************************************************************************)
EXTENDS Naturals, FiniteSets

CONSTANTS TaeReads, StreamReads

Reads == TaeReads \cup StreamReads
NoRead == "no read"

ASSUME ReadsAssumption == TaeReads \cap StreamReads = {} /\ NoRead \notin Reads

\* Requests and answers are told apart by the first check they fail.
RequestFaults == {"identity", "capability", "schema digest"}
AnswerFaults == {"transport", "denied", "malformed", "echo", "manifest digest", "canonical schema"}

VARIABLES
  entry,        \* building, ready, unwinding, destroying or gone
  current, step,  \* the read being resolved, and how far
  request, answer,
  file,         \* manifest: "none", "temporary", "owned" by a token, "deleted"
  view,         \* reads whose view exists
  token,        \* reads whose resolved relation exists
  input,        \* stream_input of a StreamRead: "none", "open" or "cancelled"
  connection    \* connection_ and its transaction are open

resourceVars == <<file, view, token, input, connection>>
resolverVars == <<entry, current, step, request, answer, resourceVars>>

ResolverInit ==
  /\ entry = "building" /\ current = NoRead /\ step = "idle"
  /\ request \in [Reads -> {"good"} \cup RequestFaults]
  /\ answer = [r \in TaeReads |-> "none"]
  /\ file = [r \in TaeReads |-> "none"]
  /\ view = {} /\ token = {}
  /\ input = [r \in StreamReads |-> "none"]
  /\ connection = TRUE

-----------------------------------------------------------------------------
At(r, s) == entry = "building" /\ current = r /\ step = s

\* ~temporary_manifest on the way out: a manifest that was not released is unlinked.
Unlinked == [r \in TaeReads |-> IF file[r] = "temporary" THEN "deleted" ELSE file[r]]

\* An exception leaves the resolver, and with it prepare_substrait and the constructor.
ResolveThrows ==
  /\ entry' = "unwinding"
  /\ current' = NoRead /\ step' = "idle"
  /\ file' = Unlinked

GoesOn(s) == step' = s /\ UNCHANGED <<entry, current>>

\* resolve(): the checks before anything is acquired.
Begin(r) ==
  /\ entry = "building" /\ current = NoRead /\ r \notin token
  /\ IF request[r] = "good"
     THEN current' = r /\ step' = "checked" /\ UNCHANGED <<entry, file>>
     ELSE ResolveThrows
  /\ UNCHANGED <<request, answer, view, token, input, connection>>

\* call_read_service, with whatever the service does.
CallService(r) ==
  /\ r \in TaeReads /\ At(r, "checked")
  /\ GoesOn("called")
  /\ \E a \in {"good"} \cup AnswerFaults : answer' = [answer EXCEPT ![r] = a]
  /\ UNCHANGED <<request, resourceVars>>

\* The HTTP status, parse_resolve_response, the echo, both digests and the schema.
Acceptable_IgnoresManifest(r) == answer[r] \in {"good", "manifest digest"}
Acceptable(r) == answer[r] \notin AnswerFaults

Verify(r) ==
  /\ r \in TaeReads /\ At(r, "called")
  /\ IF Acceptable(r) THEN GoesOn("verified") /\ UNCHANGED file ELSE ResolveThrows
  /\ UNCHANGED <<request, answer, view, token, input, connection>>

\* temporary_manifest; a failed write or close unlinks what there is.
WriteManifest(r) ==
  /\ r \in TaeReads /\ At(r, "verified")
  /\ \/ GoesOn("acquired") /\ file' = [file EXCEPT ![r] = "temporary"]
     \/ ResolveThrows
  /\ UNCHANGED <<request, answer, view, token, input, connection>>

\* stream_input_registry::create refuses a duplicate reference and too many inputs.
CreateInput(r) ==
  /\ r \in StreamReads /\ At(r, "checked")
  /\ \/ GoesOn("acquired") /\ input' = [input EXCEPT ![r] = "open"] /\ UNCHANGED file
     \/ ResolveThrows /\ UNCHANGED input
  /\ UNCHANGED <<request, answer, view, token, connection>>

\* random_relation_name and CreateView: the view is there, or nothing is.
BindView(r) ==
  /\ At(r, "acquired")
  /\ GoesOn("bound")
  /\ view' = view \cup {r}
  /\ UNCHANGED <<request, answer, file, token, input, connection>>

\* A bind that fails cancels the input; a name that cannot be drawn does not.
BindFails(r) ==
  /\ At(r, "acquired")
  /\ ResolveThrows
  /\ input' \in {input, [s \in StreamReads |-> IF s = r THEN "cancelled" ELSE input[s]]}
  /\ UNCHANGED <<request, answer, view, token, connection>>

\* The resolved relation takes over the manifest (release) and the view.
Resolved_NotReleased(r) ==
  /\ At(r, "bound")
  /\ current' = NoRead /\ step' = "idle"
  /\ token' = token \cup {r}
  /\ file' = Unlinked
  /\ UNCHANGED <<entry, request, answer, view, input, connection>>
Resolved(r) ==
  /\ At(r, "bound")
  /\ current' = NoRead /\ step' = "idle"
  /\ token' = token \cup {r}
  /\ file' = [s \in TaeReads |-> IF s = r THEN "owned" ELSE file[s]]
  /\ UNCHANGED <<entry, request, answer, view, input, connection>>

\* prepare_substrait and the check of the result schema end the constructor.
Constructed ==
  /\ entry = "building" /\ current = NoRead
  /\ \/ token = Reads /\ entry' = "ready" /\ UNCHANGED <<current, step, file>>
     \/ ResolveThrows
  /\ UNCHANGED <<request, answer, view, token, input, connection>>

-----------------------------------------------------------------------------
\* The last reference to the entry goes away.
DestroyEntry ==
  /\ entry = "ready"
  /\ entry' = "destroying"
  /\ UNCHANGED <<current, step, request, answer, resourceVars>>

\* ~resolved_tae_relation and ~resolved_stream_relation: drop the view, which may
\* fail silently, then unlink the manifest.
DropToken_KeepsFile(r) ==
  /\ entry \in {"unwinding", "destroying"} /\ r \in token
  /\ view' \in {view, view \ {r}}
  /\ token' = token \ {r}
  /\ UNCHANGED <<entry, current, step, request, answer, file, input, connection>>
DropToken(r) ==
  /\ entry \in {"unwinding", "destroying"} /\ r \in token
  /\ view' \in {view, view \ {r}}
  /\ token' = token \ {r}
  /\ file' = [s \in TaeReads |-> IF s = r THEN "deleted" ELSE file[s]]
  /\ UNCHANGED <<entry, current, step, request, answer, input, connection>>

\* execution_ is declared after connection_ and so destroyed before it.
TokensGone == token = {}

\* connection_ goes: its transaction rolls back, and the remaining views with it.
CloseConnection ==
  /\ entry \in {"unwinding", "destroying"} /\ TokensGone /\ connection
  /\ connection' = FALSE
  /\ view' = {}
  /\ UNCHANGED <<entry, current, step, request, answer, file, token, input>>

Gone ==
  /\ entry \in {"unwinding", "destroying"} /\ token = {} /\ ~connection
  /\ entry' = "gone"
  /\ UNCHANGED <<current, step, request, answer, resourceVars>>

Resolve(r) ==
  \/ Begin(r) \/ CallService(r) \/ Verify(r) \/ WriteManifest(r) \/ CreateInput(r)
  \/ BindView(r) \/ BindFails(r) \/ Resolved(r)

ResolverNext ==
  \/ \E r \in Reads : Resolve(r)
  \/ Constructed
  \/ DestroyEntry
  \/ \E r \in Reads : DropToken(r)
  \/ CloseConnection
  \/ Gone

ResolverSpec == ResolverInit /\ [][ResolverNext]_resolverVars

-----------------------------------------------------------------------------
(* Properties. *)

\* Type correctness.
TypeOK ==
  /\ entry \in {"building", "ready", "unwinding", "destroying", "gone"}
  /\ current \in Reads \cup {NoRead}
  /\ step \in {"idle", "checked", "called", "verified", "acquired", "bound"}
  /\ request \in [Reads -> {"good"} \cup RequestFaults]
  /\ answer \in [TaeReads -> {"none", "good"} \cup AnswerFaults]
  /\ file \in [TaeReads -> {"none", "temporary", "owned", "deleted"}]
  /\ view \subseteq Reads /\ token \subseteq Reads
  /\ input \in [StreamReads -> {"none", "open", "cancelled"}]
  /\ connection \in BOOLEAN

\* A query never starts over a read that was not authenticated: in an entry that is
\* ready every request and every answer passed all checks, whatever else was
\* resolved around it (resolve(), in the order of its checks).
OnlyAuthenticated ==
  entry = "ready" =>
    /\ \A r \in Reads : request[r] = "good"
    /\ \A r \in TaeReads : answer[r] = "good"

\* As long as the query can run, each of its views is there and leads to an existing
\* manifest or an open input (release of the temporary manifest to the token, and
\* the destructors of everything that failed before).
ReadyIsBacked ==
  entry = "ready" =>
    /\ view = Reads
    /\ \A r \in TaeReads : file[r] = "owned"
    /\ \A r \in StreamReads : input[r] = "open"

\* Nothing outlives the entry, however its construction or destruction went: no
\* manifest file in /tmp, also of a read that failed half-way, and no view.
NothingLeaks ==
  entry = "gone" => view = {} /\ \A r \in TaeReads : file[r] \in {"none", "deleted"}
=============================================================================
