------------------------------ MODULE HttpServer ------------------------------
(***************************************************************************)
(* The way of a request through the http server of the gateway: routes,    *)
(* middlewares, binding, the call of the api and the rendering of what it  *)
(* returns, with concurrent requests and the key provider.  The work of    *)
(* the api itself is in the modules EduSeal, Metrics and HealthProbe; here *)
(* it is what it may return, and what Mongo says is left open.             *)
(***************************************************************************)
EXTENDS JWTAuth

CONSTANTS
    Tx,         \* transaction ids
    Files,      \* configuration files an operator may name
    Inputs      \* what each request may be

Guarded == {"sign", "fetch", "validate", "revoke"}

Routes == Guarded \cup {"health", "metrics", "none"}

\* decoded: what the decoder makes of the body.  body, query and path: the
\* transaction id each of them has.
Input == [route : Routes,
          accept : BOOLEAN,
          authorization : BOOLEAN,
          token : Token,
          decoded : {"ok", "type", "syntax"},
          json : BOOLEAN,
          body : Tx \cup {None},
          query : Tx \cup {None},
          path : Tx]

ASSUME InputsAssumption ==
    /\ None \notin Tx
    /\ Files \subseteq File
    /\ \A r \in Requests : Inputs[r] \subseteq Input

VARIABLES
    epc,        \* where the endpoint is
    bound       \* the TransactionID of the bound request

endpointVars == <<epc, bound>>
vars == <<chainVars, cfg, jwks, authVars, offered, endpointVars>>

Chain(route) ==
    CASE route = "none" -> <<"RequestID", "Logger", "Crash", "NoRoute">>
      [] route \in Guarded /\ cfg.jwt_enabled ->
            <<"RequestID", "Logger", "Crash", "JWTAuth", "Endpoint">>
      [] OTHER -> <<"RequestID", "Logger", "Crash", "Endpoint">>

\* The titles of helpers.Error that the api returns.
OwnErrors == {"empty_pdf", "document_is_revoked"}

Errors == OwnErrors \cup {"json_type", "json_syntax", "plain"}

\* Mutant: errors are rendered as they come.
TitleAsItIs(e) == e

\* NewErrorFromError
Title(e) ==
    CASE e \in OwnErrors -> e
      [] e = "json_type" -> "json_type_error"
      [] e = "json_syntax" -> "json_syntax_error"
      [] OTHER -> "internal_server_error"

Titles == OwnErrors \cup {"json_type_error", "json_syntax_error", "internal_server_error"}

Results == {"health", "metrics", "sealing", "verdict", "document", "revoked", "not_revoked"}

Bodies == Titles \cup Results \cup {"unauthorized", "not_acceptable", "not_found"}

Reply == [status : {200, 400, 401, 404, 406, 500}, body : Bodies]

TypeOK ==
    /\ request \in [Requests -> Input]
    /\ handlers \in [Requests -> {Chain(route) : route \in Routes}]
    /\ index \in [Requests -> Nat]
    /\ at \in [Requests -> {"idle", "handler", "done", "broken"}]
    /\ deferred \in [Requests -> BOOLEAN]
    /\ replies \in [Requests -> Seq(Reply)]
    /\ AuthTypeOK
    /\ epc \in [Requests -> {"bind", "call", "get", "over"}]
    /\ bound \in [Requests -> Tx \cup {None}]

Init ==
    /\ \E file \in Files : cfg \in Parse(file)
    /\ request \in [Requests -> UNION {Inputs[r] : r \in Requests}]
    /\ \A r \in Requests : request[r] \in Inputs[r]
    /\ handlers = [r \in Requests |-> Chain(request[r].route)]
    /\ index = [r \in Requests |-> 1]
    /\ at = [r \in Requests |-> "idle"]
    /\ deferred = [r \in Requests |-> FALSE]
    /\ replies = [r \in Requests |-> <<>>]
    /\ AuthInit
    /\ epc = [r \in Requests |-> "bind"]
    /\ bound = [r \in Requests |-> None]

-----------------------------------------------------------------------------
(* The chain *)

Arrive(r) ==
    /\ at[r] = "idle"
    /\ at' = [at EXCEPT ![r] = "handler"]
    /\ offered' = [offered EXCEPT ![r] = jwks]
    /\ UNCHANGED <<request, handlers, index, deferred, replies, cfg, jwks, authVars, endpointVars>>

ElseUnchanged == UNCHANGED <<request, handlers, cfg, jwks, authVars, offered>>

\* middlewareRequestID and middlewareLogger have no state here.
PassOn(r) ==
    /\ Runs(r, "RequestID") \/ Runs(r, "Logger")
    /\ GoOn(r)
    /\ ElseUnchanged
    /\ UNCHANGED <<deferred, replies, endpointVars>>

DeferRecover(r) ==
    /\ Runs(r, "Crash")
    /\ deferred' = [deferred EXCEPT ![r] = TRUE]
    /\ GoOn(r)
    /\ ElseUnchanged
    /\ UNCHANGED <<replies, endpointVars>>

\* The reply to an unknown path does not ask what the client accepts.
NoRoute(r) ==
    /\ Runs(r, "NoRoute")
    /\ replies' = [replies EXCEPT ![r] = Append(@, [status |-> 404, body |-> "not_found"])]
    /\ GoOn(r)
    /\ ElseUnchanged
    /\ UNCHANGED <<deferred, endpointVars>>

-----------------------------------------------------------------------------
(* The endpoints *)

Serves(r, routes, step) ==
    /\ Runs(r, "Endpoint")
    /\ request[r].route \in routes
    /\ epc[r] = step
    /\ ElseUnchanged

Continue(r, step) ==
    /\ epc' = [epc EXCEPT ![r] = step]
    /\ UNCHANGED <<index, at, deferred, replies>>

\* Mutant: without the return after an error is rendered.
RespondTwice(r, result) ==
    /\ epc' = [epc EXCEPT ![r] = "over"]
    /\ GoOn(r)
    /\ LET failure == IF result \in Errors THEN <<[status |-> 400, body |-> Title(result)]>> ELSE <<>>
       IN  replies' = [replies EXCEPT ![r] = @ \o Append(failure, [status |-> 200, body |-> "verdict"])]
    /\ UNCHANGED <<deferred, bound>>

\* What regEndpoint makes of what a handler returns.
Respond(r, result) ==
    /\ epc' = [epc EXCEPT ![r] = "over"]
    /\ GoOn(r)
    /\ IF result \in Errors THEN Render(r, 400, Title(result)) ELSE Render(r, 200, result)
    /\ UNCHANGED <<deferred, bound>>

\* What sonic reports, depending on how it was built: errors of its own or
\* those of encoding/json.
DecodeErrors(decoded) ==
    CASE decoded = "type" -> {"json_type", "plain"}
      [] decoded = "syntax" -> {"json_syntax", "plain"}
      [] OTHER -> {}

BindBody(r) ==
    /\ Serves(r, {"sign", "validate"}, "bind")
    /\ request[r].decoded = "ok"
    /\ Continue(r, "call")
    /\ UNCHANGED bound

BindBodyFails(r) ==
    /\ Serves(r, {"sign", "validate"}, "bind")
    /\ \E e \in DecodeErrors(request[r].decoded) : Respond(r, e)

Override(old, new) == IF new = None THEN old ELSE new

\* Mutant: the query is bound after the path.
BoundQueryLast(in) ==
    Override(Override(IF in.json THEN in.body ELSE None, in.path), in.query)

\* bindRequest lets each source overwrite the ones before, and the path last.
\* bindRequestQuery fills only fields that are maps; these requests have none.
Bound(in) ==
    Override(Override(IF in.json THEN in.body ELSE None, in.query), in.path)

BindRequest(r) ==
    /\ Serves(r, {"fetch", "revoke"}, "bind")
    /\ bound' = [bound EXCEPT ![r] = Bound(request[r])]
    /\ Continue(r, "call")

\* Health and Metrics have nothing to bind.
BindNothing(r) ==
    /\ Serves(r, {"health", "metrics"}, "bind")
    /\ Continue(r, "call")
    /\ UNCHANGED bound

Returned(route) ==
    CASE route = "health" -> {"health"}
      [] route = "metrics" -> {"metrics", "plain"}
      [] route = "sign" -> {"sealing", "empty_pdf", "plain"}
      [] OTHER -> {"verdict", "plain"}

CallApi(r) ==
    /\ Serves(r, {"health", "metrics", "sign", "validate"}, "call")
    /\ \E result \in Returned(request[r].route) : Respond(r, result)

\* The deferred Close of a connection that was not made.
ValidatePanics(r) ==
    /\ Serves(r, {"validate"}, "call")
    /\ epc' = [epc EXCEPT ![r] = "over"]
    /\ Panic(r)
    /\ UNCHANGED bound

\* What IsRevoked may report: without Mongo it is not asked.  Whether Mongo has
\* what Revoke wrote is left open, as no configuration that Check accepts has
\* Mongo.
Revoked == IF cfg.mongo_disable THEN {FALSE} ELSE BOOLEAN

\* PDFGetSigned asks Mongo, when there is one, and then the store.
LookUp(r) ==
    /\ Serves(r, {"fetch"}, "call")
    /\ \E revoked \in Revoked :
        IF revoked
            THEN Respond(r, "document_is_revoked")
            ELSE Continue(r, "get") /\ UNCHANGED bound

GetSigned(r) ==
    /\ Serves(r, {"fetch"}, "get")
    /\ \E result \in {"document", "plain"} : Respond(r, result)

\* A command to Mongo may fail.
RevokeResults == IF cfg.mongo_disable THEN {"not_revoked"} ELSE {"revoked", "plain"}

PDFRevoke(r) ==
    /\ Serves(r, {"revoke"}, "call")
    /\ \E result \in RevokeResults : Respond(r, result)

-----------------------------------------------------------------------------
Endpoint(r) ==
    \/ BindBody(r)
    \/ BindBodyFails(r)
    \/ BindRequest(r)
    \/ BindNothing(r)
    \/ CallApi(r)
    \/ ValidatePanics(r)
    \/ LookUp(r)
    \/ GetSigned(r)
    \/ PDFRevoke(r)

Authenticate(r) == AuthNext(r) /\ UNCHANGED endpointVars

Step(r) ==
    \/ PassOn(r)
    \/ DeferRecover(r)
    \/ NoRoute(r)
    \/ Authenticate(r)
    \/ Endpoint(r)

Publish(published) ==
    /\ Rotate(published)
    /\ UNCHANGED endpointVars

Next ==
    \/ \E r \in Requests : Arrive(r) \/ Step(r)
    \/ \E published \in KeySets : Publish(published)

Spec == Init /\ [][Next]_vars

\* The handlers of a request run on: keyfunc gives up on a provider after ten
\* seconds, and what the api waits for ends (see the other modules).
FairSpec == Spec /\ \A r \in Requests : WF_vars(Step(r))

-----------------------------------------------------------------------------
(* Properties *)

Handled(r) == epc[r] # "bind" \/ Runs(r, "Endpoint")

\* Who may pass middlewareJWTAuth: a key published since the request arrived
\* signed the token, its organization is configured, and an entry of the
\* requested access is what the organization is granted, with none before it
\* that cannot be read.
Entitled(r) ==
    /\ TokenOf(r).key \in offered[r]
    /\ KnownOrganization(r)
    /\ TokenOf(r).listed
    /\ \E i \in DOMAIN TokenOf(r).access :
        /\ TokenOf(r).access[i] = Granted(r)
        /\ \A j \in 1 .. i : TokenOf(r).access[j] # "malformed"

\* With JWTAuth enabled, a document handler is called only for a request that
\* is entitled, whatever the key provider does meanwhile and whatever keys other
\* requests were served with.  The exception is what the chain does after a
\* panic of the check itself: middlewareCrash does not abort it.
GuardedHandlers ==
    \A r \in Requests :
        cfg.jwt_enabled /\ request[r].route \in Guarded /\ Handled(r) =>
            Entitled(r) \/ verdict[r] = "panicked"

\* A request that is told 401 has no effect: no handler was called for it, and
\* none will be.
RefusedLeavesNoTrace ==
    \A r \in Requests :
        (\E i \in DOMAIN replies[r] : replies[r][i].status = 401) =>
            ~Handled(r) /\ at[r] = "done"

\* A request that ended was answered exactly once, on every way through the
\* middlewares, the binding and the endpoints.  The exception is again the
\* chain that goes on after a panic: the handler answers after the 500, or
\* panics too, and then nobody recovers.
AnsweredOnce ==
    \A r \in Requests :
        /\ at[r] = "done" =>
              Len(replies[r]) = IF verdict[r] = "panicked" THEN 2 ELSE 1
        /\ at[r] = "broken" => Len(replies[r]) = 1 /\ verdict[r] = "panicked"

\* A fetch or a revocation is about the document its path names, whatever the
\* body or the query of the request say.
AddressedByPath ==
    \A r \in Requests :
        request[r].route \in {"fetch", "revoke"} /\ epc[r] # "bind" =>
            bound[r] = request[r].path

\* Every request that arrives comes to an end, although the key provider may
\* change its keys or go away at any time.
RequestsEnd ==
    \A r \in Requests : at[r] = "handler" ~> at[r] \in {"done", "broken"}

=============================================================================
