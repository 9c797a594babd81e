-------------------------- MODULE HttpServer_proofs ---------------------------
(***************************************************************************)
(* Proofs about the http server, for any number of requests, tokens and    *)
(* keys: who reaches a document handler, what a refusal leaves, how often  *)
(* a request is answered.                                                  *)
(***************************************************************************)
EXTENDS HttpServer, TLAPS

\* Whether the chain of a request has middlewareJWTAuth.
Checked(r) == cfg.jwt_enabled /\ request[r].route \in Guarded

Passed(r) == verdict[r] \in {"allowed", "panicked"}

\* How far a request is, and what it has been told.
PositionInv(r) ==
    /\ handlers[r] = Chain(request[r].route)
    /\ at[r] = "idle" =>
          /\ index[r] = 1 /\ epc[r] = "bind" /\ verdict[r] = "open" /\ Len(replies[r]) = 0
          /\ jpc[r] = "keys" /\ keys[r] = {} /\ entry[r] = 1
    /\ at[r] = "handler" =>
          /\ index[r] \in 1 .. Len(handlers[r])
          /\ Len(replies[r]) = IF verdict[r] = "panicked" THEN 1 ELSE 0
          /\ index[r] <= 4 => verdict[r] = "open"
          /\ index[r] < Len(handlers[r]) => epc[r] = "bind"
          /\ index[r] > 3 => (deferred[r] <=> verdict[r] # "panicked")
          /\ Checked(r) /\ index[r] = 5 => Passed(r)
    /\ at[r] = "done" => Len(replies[r]) = IF verdict[r] = "panicked" THEN 2 ELSE 1
    /\ at[r] = "broken" => Len(replies[r]) = 1 /\ verdict[r] = "panicked"

\* What the verdict stands for.
VerdictInv(r) ==
    /\ Checked(r) /\ epc[r] # "bind" => Passed(r)
    /\ verdict[r] = "refused" => at[r] = "done" /\ epc[r] = "bind"
    /\ \A i \in 1 .. Len(replies[r]) : replies[r][i].status = 401 => verdict[r] = "refused"
    /\ verdict[r] = "allowed" => Entitled(r)

\* What is known of a token while it is checked.
TokenInv(r) ==
    at[r] = "handler" /\ verdict[r] = "open" =>
        /\ jwks \subseteq offered[r]
        /\ keys[r] \subseteq offered[r]
        /\ jpc[r] \in {"claims", "access"} => TokenOf(r).key \in offered[r]
        /\ jpc[r] = "access" => KnownOrganization(r)
        /\ \A j \in 1 .. entry[r] - 1 : TokenOf(r).access[j] # "malformed"

RequestInv(r) == PositionInv(r) /\ VerdictInv(r) /\ TokenInv(r)

\* What a fetch or a revocation that is bound is about.
AddressInv(r) ==
    request[r].route \in {"fetch", "revoke"} /\ epc[r] # "bind" => bound[r] = request[r].path

\* The inductive invariant.
Inv ==
    /\ TypeOK
    /\ \A r \in Requests : RequestInv(r)
    /\ \A r \in Requests : AddressInv(r)

-----------------------------------------------------------------------------
(* Types *)

\* What every chain looks like.
LEMMA ChainShape ==
    ASSUME NEW route \in Routes
    PROVE  /\ Chain(route)[1] = "RequestID"
           /\ Chain(route)[2] = "Logger"
           /\ Chain(route)[3] = "Crash"
           /\ cfg.jwt_enabled /\ route \in Guarded =>
                 Len(Chain(route)) = 5 /\ Chain(route)[4] = "JWTAuth" /\ Chain(route)[5] = "Endpoint"
           /\ ~(cfg.jwt_enabled /\ route \in Guarded) =>
                 Len(Chain(route)) = 4 /\ Chain(route)[4] \in {"NoRoute", "Endpoint"}
<1>1. CASE route = "none"
  BY <1>1 DEF Chain, Guarded
<1>2. CASE route # "none" /\ cfg.jwt_enabled /\ route \in Guarded
  BY <1>2 DEF Chain, Guarded
<1>3. CASE route # "none" /\ ~(cfg.jwt_enabled /\ route \in Guarded)
  BY <1>3 DEF Chain, Guarded
<1> QED
  BY <1>1, <1>2, <1>3

LEMMA RenderTyped ==
    ASSUME replies \in [Requests -> Seq(Reply)], NEW r \in Requests,
           NEW status \in {200, 400, 401, 404, 406, 500}, NEW body \in Bodies, Render(r, status, body)
    PROVE  /\ replies' \in [Requests -> Seq(Reply)]
           /\ Len(replies'[r]) = Len(replies[r]) + 1
           /\ status # 401 => \A i \in 1 .. Len(replies'[r]) :
                 replies'[r][i].status = 401 => i \in 1 .. Len(replies[r]) /\ replies[r][i].status = 401
           /\ \A q \in Requests \ {r} : replies'[q] = replies[q]
<1> DEFINE new == IF request[r].accept
                      THEN [status |-> status, body |-> body]
                      ELSE [status |-> 406, body |-> "not_acceptable"]
<1>1. new \in Reply /\ (status # 401 => new.status # 401)
  BY DEF Reply, Bodies
<1>2. replies' = [replies EXCEPT ![r] = Append(@, new)]
  BY DEF Render
<1> HIDE DEF new
<1>3. replies[r] \in Seq(Reply)
  OBVIOUS
<1>4. replies'[r] = Append(replies[r], new)
  BY <1>2
<1>5. \A i \in 1 .. Len(replies'[r]) :
          replies'[r][i] = IF i = Len(replies[r]) + 1 THEN new ELSE replies[r][i]
  BY <1>1, <1>3, <1>4
<1> QED
  BY <1>1, <1>2, <1>3, <1>4, <1>5

\* What a handler that returns or calls Next does to the chain.
LEMMA GoOnTyped ==
    ASSUME index \in [Requests -> Nat], at \in [Requests -> {"idle", "handler", "done", "broken"}],
           NEW r \in Requests, NEW i \in Nat, GoOnAt(r, i)
    PROVE  /\ index' \in [Requests -> Nat]
           /\ at' \in [Requests -> {"idle", "handler", "done", "broken"}]
           /\ index'[r] = i
           /\ at'[r] = IF i > Len(handlers[r]) THEN "done" ELSE "handler"
           /\ \A q \in Requests \ {r} : index'[q] = index[q] /\ at'[q] = at[q]
BY DEF GoOnAt

\* The part of the state one request has to itself in the chain.
ChainTyped ==
    /\ index \in [Requests -> Nat]
    /\ at \in [Requests -> {"idle", "handler", "done", "broken"}]
    /\ deferred \in [Requests -> BOOLEAN]
    /\ replies \in [Requests -> Seq(Reply)]

LEMMA PanicTyped ==
    ASSUME ChainTyped, NEW r \in Requests, Panic(r)
    PROVE  /\ ChainTyped'
           /\ \A q \in Requests \ {r} :
                 /\ index'[q] = index[q] /\ at'[q] = at[q]
                 /\ deferred'[q] = deferred[q] /\ replies'[q] = replies[q]
           /\ deferred[r] =>
                 /\ index'[r] = index[r] + 1
                 /\ at'[r] = IF index[r] + 1 > Len(handlers[r]) THEN "done" ELSE "handler"
                 /\ ~deferred'[r]
                 /\ Len(replies'[r]) = Len(replies[r]) + 1
           /\ ~deferred[r] =>
                 at'[r] = "broken" /\ index'[r] = index[r] /\ replies'[r] = replies[r]
           /\ \A i \in 1 .. Len(replies'[r]) :
                 replies'[r][i].status = 401 => i \in 1 .. Len(replies[r]) /\ replies[r][i].status = 401
<1>1. CASE deferred[r]
  <2>1. Render(r, 500, "internal_server_error") /\ GoOnAt(r, index[r] + 1)
    BY <1>1 DEF Panic, GoOn
  <2>2. "internal_server_error" \in Bodies /\ index[r] + 1 \in Nat
    BY DEF Bodies, Titles, ChainTyped
  <2>3. deferred' = [deferred EXCEPT ![r] = FALSE]
    BY <1>1 DEF Panic
  <2>4. /\ replies' \in [Requests -> Seq(Reply)]
        /\ Len(replies'[r]) = Len(replies[r]) + 1
        /\ \A i \in 1 .. Len(replies'[r]) :
              replies'[r][i].status = 401 => i \in 1 .. Len(replies[r]) /\ replies[r][i].status = 401
        /\ \A q \in Requests \ {r} : replies'[q] = replies[q]
    BY <2>1, <2>2, RenderTyped DEF ChainTyped
  <2>5. /\ index' \in [Requests -> Nat]
        /\ at' \in [Requests -> {"idle", "handler", "done", "broken"}]
        /\ index'[r] = index[r] + 1
        /\ at'[r] = IF index[r] + 1 > Len(handlers[r]) THEN "done" ELSE "handler"
        /\ \A q \in Requests \ {r} : index'[q] = index[q] /\ at'[q] = at[q]
    BY <2>1, <2>2, GoOnTyped DEF ChainTyped
  <2>6. deferred' \in [Requests -> BOOLEAN] /\ ~deferred'[r] /\ \A q \in Requests \ {r} : deferred'[q] = deferred[q]
    BY <2>3 DEF ChainTyped
  <2> QED
    BY <1>1, <2>4, <2>5, <2>6 DEF ChainTyped
<1>2. CASE ~deferred[r]
  BY <1>2 DEF Panic, ChainTyped
<1> QED
  BY <1>1, <1>2

LEMMA RespondTyped ==
    ASSUME ChainTyped, epc \in [Requests -> {"bind", "call", "get", "over"}],
           NEW r \in Requests, NEW result \in Errors \cup Results, Respond(r, result)
    PROVE  /\ ChainTyped'
           /\ epc' = [epc EXCEPT ![r] = "over"] /\ deferred' = deferred /\ bound' = bound
           /\ index'[r] = index[r] + 1
           /\ at'[r] = IF index[r] + 1 > Len(handlers[r]) THEN "done" ELSE "handler"
           /\ Len(replies'[r]) = Len(replies[r]) + 1
           /\ \A i \in 1 .. Len(replies'[r]) :
                 replies'[r][i].status = 401 => i \in 1 .. Len(replies[r]) /\ replies[r][i].status = 401
           /\ \A q \in Requests \ {r} :
                 index'[q] = index[q] /\ at'[q] = at[q] /\ replies'[q] = replies[q]
<1>1. GoOnAt(r, index[r] + 1) /\ index[r] + 1 \in Nat
  BY DEF Respond, GoOn, ChainTyped
<1>2. PICK status \in {200, 400}, body \in Bodies : Render(r, status, body)
  <2>1. Title(result) \in Bodies
    BY DEF Title, Bodies, Titles
  <2>2. result \notin Errors => result \in Bodies
    BY DEF Bodies
  <2> QED
    BY <2>1, <2>2 DEF Respond
<1>3. /\ replies' \in [Requests -> Seq(Reply)]
      /\ Len(replies'[r]) = Len(replies[r]) + 1
      /\ \A i \in 1 .. Len(replies'[r]) :
            replies'[r][i].status = 401 => i \in 1 .. Len(replies[r]) /\ replies[r][i].status = 401
      /\ \A q \in Requests \ {r} : replies'[q] = replies[q]
  BY <1>2, RenderTyped DEF ChainTyped
<1>4. /\ index' \in [Requests -> Nat]
      /\ at' \in [Requests -> {"idle", "handler", "done", "broken"}]
      /\ index'[r] = index[r] + 1
      /\ at'[r] = IF index[r] + 1 > Len(handlers[r]) THEN "done" ELSE "handler"
      /\ \A q \in Requests \ {r} : index'[q] = index[q] /\ at'[q] = at[q]
  BY <1>1, GoOnTyped DEF ChainTyped
<1>5. epc' = [epc EXCEPT ![r] = "over"] /\ deferred' = deferred /\ bound' = bound
  BY DEF Respond
<1>6. ChainTyped'
  BY <1>3, <1>4, <1>5 DEF ChainTyped
<1> QED
  BY <1>3, <1>4, <1>5, <1>6

-----------------------------------------------------------------------------
(* One step of one request *)

\* What a step of request r leaves alone.
Others(r) ==
    /\ UNCHANGED <<request, handlers, cfg, jwks>>
    /\ \A q \in Requests \ {r} :
        /\ index'[q] = index[q] /\ at'[q] = at[q]
        /\ deferred'[q] = deferred[q] /\ replies'[q] = replies[q]
        /\ jpc'[q] = jpc[q] /\ keys'[q] = keys[q] /\ entry'[q] = entry[q]
        /\ verdict'[q] = verdict[q] /\ offered'[q] = offered[q]
        /\ epc'[q] = epc[q] /\ bound'[q] = bound[q]

LEMMA OthersKept ==
    ASSUME NEW r \in Requests, Others(r), NEW q \in Requests, q # r, RequestInv(q)
    PROVE  RequestInv(q)'
<1>1. Checked(q)' = Checked(q) /\ Passed(q)' = Passed(q) /\ Chain(request[q].route)' = Chain(request[q].route)
  BY DEF Others, Checked, Passed, Chain
<1>2. TokenOf(q)' = TokenOf(q) /\ KnownOrganization(q)' = KnownOrganization(q) /\ Granted(q)' = Granted(q)
  BY DEF Others, TokenOf, KnownOrganization, Granted
<1>3. Entitled(q)' = Entitled(q)
  BY <1>2 DEF Others, Entitled
<1>4. PositionInv(q)'
  BY <1>1 DEF Others, RequestInv, PositionInv
<1>5. VerdictInv(q)'
  BY <1>1, <1>3 DEF Others, RequestInv, VerdictInv
<1>6. TokenInv(q)'
  BY <1>2 DEF Others, RequestInv, TokenInv
<1> QED
  BY <1>4, <1>5, <1>6 DEF RequestInv

\* The request before a step of its chain, as the invariant has it.
LEMMA AtHandler ==
    ASSUME Inv, NEW r \in Requests, at[r] = "handler"
    PROVE  /\ index[r] \in 1 .. Len(handlers[r]) /\ index[r] \in Nat /\ Len(handlers[r]) \in {4, 5}
           /\ Checked(r) <=> Len(handlers[r]) = 5
           /\ Runs(r, "RequestID") <=> index[r] = 1
           /\ Runs(r, "Logger") <=> index[r] = 2
           /\ Runs(r, "Crash") <=> index[r] = 3
           /\ Runs(r, "JWTAuth") <=> Checked(r) /\ index[r] = 4
           /\ Runs(r, "Endpoint") => index[r] = Len(handlers[r])
           /\ Runs(r, "NoRoute") => ~Checked(r) /\ index[r] = 4
           /\ Checked(r) /\ index[r] = 5 => Runs(r, "Endpoint")
<1>1. handlers[r] = Chain(request[r].route) /\ index[r] \in 1 .. Len(handlers[r])
  BY DEF Inv, RequestInv, PositionInv
<1>2. request[r].route \in Routes
  BY DEF Inv, TypeOK, Input
<1>3. index[r] \in Nat
  BY DEF Inv, TypeOK
<1>4. /\ handlers[r][1] = "RequestID" /\ handlers[r][2] = "Logger" /\ handlers[r][3] = "Crash"
      /\ Checked(r) => Len(handlers[r]) = 5 /\ handlers[r][4] = "JWTAuth" /\ handlers[r][5] = "Endpoint"
      /\ ~Checked(r) => Len(handlers[r]) = 4 /\ handlers[r][4] \in {"NoRoute", "Endpoint"}
  BY <1>1, <1>2, ChainShape DEF Checked
<1>5. CASE Checked(r)
  <2>1. Len(handlers[r]) = 5
    BY <1>4, <1>5
  <2>2. index[r] \in {1, 2, 3, 4, 5}
    BY <1>1, <1>3, <2>1
  <2> QED
    BY <1>1, <1>3, <1>4, <1>5, <2>1, <2>2 DEF Runs
<1>6. CASE ~Checked(r)
  <2>1. Len(handlers[r]) = 4
    BY <1>4, <1>6
  <2>2. index[r] \in {1, 2, 3, 4}
    BY <1>1, <1>3, <2>1
  <2> QED
    BY <1>1, <1>3, <1>4, <1>6, <2>1, <2>2 DEF Runs
<1> QED
  BY <1>5, <1>6

LEMMA PassOnKeeps ==
    ASSUME Inv, NEW r \in Requests, PassOn(r) \/ DeferRecover(r)
    PROVE  TypeOK' /\ RequestInv(r)' /\ Others(r)
<1>1. at[r] = "handler" /\ index[r] \in {1, 2, 3} /\ (DeferRecover(r) => index[r] = 3)
  <2>1. at[r] = "handler"
    BY DEF PassOn, DeferRecover, Runs
  <2> QED
    BY <2>1, AtHandler DEF PassOn, DeferRecover
<1>2. Len(handlers[r]) \in {4, 5} /\ (Checked(r) <=> Len(handlers[r]) = 5)
  BY <1>1, AtHandler
<1>3. /\ GoOnAt(r, index[r] + 1) /\ index[r] + 1 \in Nat /\ index[r] + 1 <= 4
      /\ index[r] + 1 \in 1 .. Len(handlers[r]) /\ ~(index[r] + 1 > Len(handlers[r]))
      /\ index[r] + 1 > 3 <=> index[r] = 3
      /\ index[r] < Len(handlers[r])
  <2>1. GoOnAt(r, index[r] + 1)
    BY DEF PassOn, DeferRecover, GoOn
  <2>2. CASE Len(handlers[r]) = 4
    BY <1>1, <2>1, <2>2
  <2>3. CASE Len(handlers[r]) = 5
    BY <1>1, <2>1, <2>3
  <2> QED
    BY <1>2, <2>2, <2>3
<1>4. /\ index' \in [Requests -> Nat]
      /\ at' \in [Requests -> {"idle", "handler", "done", "broken"}]
      /\ index'[r] = index[r] + 1 /\ at'[r] = "handler"
      /\ \A q \in Requests \ {r} : index'[q] = index[q] /\ at'[q] = at[q]
  BY <1>3, GoOnTyped DEF Inv, TypeOK
<1>5. /\ UNCHANGED <<request, handlers, cfg, jwks, replies, jpc, keys, entry, verdict, offered,
                     epc, bound>>
      /\ deferred' = IF DeferRecover(r) THEN [deferred EXCEPT ![r] = TRUE] ELSE deferred
  BY DEF PassOn, DeferRecover, ElseUnchanged, authVars, endpointVars
<1>6. TypeOK'
  BY <1>4, <1>5 DEF Inv, TypeOK, AuthTypeOK, Chain
<1>7. Others(r)
  BY <1>4, <1>5 DEF Others, Inv, TypeOK
<1>8. /\ Checked(r)' = Checked(r) /\ Passed(r)' = Passed(r)
      /\ Entitled(r)' = Entitled(r) /\ TokenOf(r)' = TokenOf(r)
      /\ KnownOrganization(r)' = KnownOrganization(r) /\ Chain(request[r].route)' = Chain(request[r].route)
  BY <1>5 DEF Checked, Passed, Entitled, TokenOf, KnownOrganization, Granted, Chain
<1>9. index[r] = 3 => deferred'[r]
  <2>1. index[r] = 3 => DeferRecover(r)
    BY <1>1, AtHandler DEF PassOn
  <2> QED
    BY <1>5, <2>1 DEF Inv, TypeOK
<1>10. PositionInv(r)'
  <2>1. /\ handlers[r] = Chain(request[r].route) /\ verdict[r] = "open" /\ epc[r] = "bind"
        /\ Len(replies[r]) = 0
    BY <1>1, <1>3 DEF Inv, RequestInv, PositionInv
  <2>2. index'[r] <= 4 /\ index'[r] \in 1 .. Len(handlers[r]) /\ (index'[r] > 3 => deferred'[r])
        /\ index'[r] # 5
    BY <1>1, <1>3, <1>4, <1>9
  <2> QED
    BY <1>4, <1>5, <1>8, <2>1, <2>2 DEF PositionInv
<1>11. VerdictInv(r)'
  BY <1>1, <1>4, <1>5, <1>8 DEF Inv, RequestInv, VerdictInv
<1>12. TokenInv(r)'
  BY <1>1, <1>4, <1>5, <1>8 DEF Inv, RequestInv, TokenInv
<1> QED
  BY <1>6, <1>7, <1>10, <1>11, <1>12 DEF RequestInv

LEMMA ArriveKeeps ==
    ASSUME Inv, NEW r \in Requests, Arrive(r)
    PROVE  TypeOK' /\ RequestInv(r)' /\ Others(r)
<1>1. /\ UNCHANGED <<request, handlers, index, deferred, replies, cfg, jwks, jpc, keys, entry, verdict,
                     epc, bound>>
      /\ at[r] = "idle"
      /\ at' = [at EXCEPT ![r] = "handler"]
      /\ offered' = [offered EXCEPT ![r] = jwks]
  BY DEF Arrive, authVars, endpointVars
<1>2. TypeOK'
  BY <1>1 DEF Inv, TypeOK, AuthTypeOK, Chain
<1>3. Others(r)
  BY <1>1 DEF Others, Inv, TypeOK, AuthTypeOK
<1>4. at'[r] = "handler" /\ offered'[r] = jwks
  BY <1>1 DEF Inv, TypeOK, AuthTypeOK
<1>5. /\ handlers[r] = Chain(request[r].route)
      /\ index[r] = 1 /\ epc[r] = "bind" /\ verdict[r] = "open" /\ Len(replies[r]) = 0
      /\ jpc[r] = "keys" /\ keys[r] = {} /\ entry[r] = 1
  BY <1>1 DEF Inv, RequestInv, PositionInv, TokenInv
<1>6. Len(handlers[r]) \in {4, 5}
  <2>1. request[r].route \in Routes
    BY DEF Inv, TypeOK, Input
  <2> QED
    BY <1>5, <2>1, ChainShape
<1>7. PositionInv(r)'
  <2>1. 1 \in 1 .. Len(handlers[r])
    <3>1. \A n \in {4, 5} : 1 \in 1 .. n
      OBVIOUS
    <3> QED
      BY ONLY <1>6, <3>1, Zenon
  <2>2. Chain(request[r].route)' = Chain(request[r].route)
    <3>1. request' = request /\ cfg' = cfg
      BY <1>1
    <3> QED
      BY ONLY <3>1 DEF Chain, Guarded
  <2>3. /\ handlers'[r] = Chain(request[r].route)'
        /\ index'[r] = 1 /\ epc'[r] = "bind" /\ verdict'[r] = "open" /\ Len(replies'[r]) = 0
        /\ Len(handlers'[r]) = Len(handlers[r])
    BY <1>1, <1>5, <2>2
  <2> QED
    BY <1>4, <2>1, <2>3 DEF PositionInv
<1>8. VerdictInv(r)'
  BY <1>1, <1>4, <1>5 DEF VerdictInv
<1>9. TokenInv(r)'
  <2>1. 1 .. (1 - 1) = {}
    OBVIOUS
  <2> QED
    BY <1>1, <1>4, <1>5, <2>1 DEF TokenInv
<1> QED
  BY <1>2, <1>3, <1>7, <1>8, <1>9 DEF RequestInv

LEMMA RefuseKeeps ==
    ASSUME Inv, NEW r \in Requests, Runs(r, "JWTAuth"), Refuse(r),
           UNCHANGED endpointVars
    PROVE  TypeOK' /\ RequestInv(r)' /\ Others(r)
<1>1. Checked(r) /\ index[r] = 4 /\ at[r] = "handler" /\ Len(handlers[r]) = 5
  BY AtHandler DEF Runs
<1>2. /\ handlers[r] = Chain(request[r].route) /\ epc[r] = "bind" /\ verdict[r] = "open"
      /\ Len(replies[r]) = 0
  <2>1. index[r] <= 4 /\ index[r] < Len(handlers[r])
    BY <1>1
  <2> QED
    BY <1>1, <2>1 DEF Inv, RequestInv, PositionInv
<1>3. /\ UNCHANGED <<request, handlers, cfg, jwks, jpc, keys, entry, offered, deferred,
                     epc, bound>>
      /\ verdict' = [verdict EXCEPT ![r] = "refused"]
      /\ GoOnAt(r, 64) /\ Render(r, 401, "unauthorized")
  BY DEF Refuse, Decides, AbortAndReturn, AbortIndex, endpointVars
<1>4. /\ index' \in [Requests -> Nat]
      /\ at' \in [Requests -> {"idle", "handler", "done", "broken"}]
      /\ at'[r] = "done"
      /\ \A q \in Requests \ {r} : index'[q] = index[q] /\ at'[q] = at[q]
  <2>1. 64 \in Nat /\ 64 > Len(handlers[r])
    BY <1>1
  <2> QED
    BY <1>3, <2>1, GoOnTyped DEF Inv, TypeOK
<1>5. /\ replies' \in [Requests -> Seq(Reply)]
      /\ Len(replies'[r]) = 1
      /\ \A q \in Requests \ {r} : replies'[q] = replies[q]
  <2>1. "unauthorized" \in Bodies
    BY DEF Bodies
  <2>2. replies \in [Requests -> Seq(Reply)]
    BY DEF Inv, TypeOK
  <2>3. Len(replies'[r]) = Len(replies[r]) + 1
    BY <1>3, <2>1, <2>2, RenderTyped
  <2>4. Len(replies'[r]) = 1
    BY <1>2, <2>3
  <2> QED
    BY <1>3, <2>1, <2>2, <2>4, RenderTyped
<1>6. TypeOK'
  <2>1. AuthTypeOK'
    BY <1>3 DEF Inv, TypeOK, AuthTypeOK, Verdicts
  <2> QED
    BY <1>3, <1>4, <1>5, <2>1 DEF Inv, TypeOK, Chain
<1>7. Others(r)
  BY <1>3, <1>4, <1>5 DEF Others, Inv, TypeOK, AuthTypeOK
<1>8. verdict'[r] = "refused"
  BY <1>3 DEF Inv, TypeOK, AuthTypeOK
<1>9. PositionInv(r)'
  <2>1. Chain(request[r].route)' = Chain(request[r].route)
    BY <1>3 DEF Chain
  <2> QED
    BY <1>2, <1>3, <1>4, <1>5, <1>8, <2>1 DEF PositionInv
<1>10. VerdictInv(r)' /\ TokenInv(r)'
  BY <1>2, <1>3, <1>4, <1>8 DEF VerdictInv, TokenInv
<1> QED
  BY <1>6, <1>7, <1>9, <1>10 DEF RequestInv

\* The request in the middleware, before its token is decided upon.
LEMMA AtCheck ==
    ASSUME Inv, NEW r \in Requests, Runs(r, "JWTAuth")
    PROVE  /\ Checked(r) /\ index[r] = 4 /\ at[r] = "handler" /\ Len(handlers[r]) = 5
           /\ handlers[r] = Chain(request[r].route) /\ epc[r] = "bind" /\ verdict[r] = "open"
           /\ Len(replies[r]) = 0 /\ deferred[r]
           /\ \A i \in 1 .. Len(replies[r]) : replies[r][i].status # 401
           /\ jwks \subseteq offered[r] /\ keys[r] \subseteq offered[r]
           /\ jpc[r] \in {"claims", "access"} => TokenOf(r).key \in offered[r]
           /\ jpc[r] = "access" => KnownOrganization(r)
           /\ \A j \in 1 .. entry[r] - 1 : TokenOf(r).access[j] # "malformed"
           /\ TokenOf(r).access \in Seq(Entries)
<1>1. Checked(r) /\ index[r] = 4 /\ at[r] = "handler" /\ Len(handlers[r]) = 5
  BY AtHandler DEF Runs
<1>2. index[r] <= 4 /\ index[r] < Len(handlers[r]) /\ index[r] > 3
  BY <1>1
<1>3. /\ handlers[r] = Chain(request[r].route) /\ epc[r] = "bind" /\ verdict[r] = "open"
      /\ Len(replies[r]) = 0 /\ deferred[r]
  BY <1>1, <1>2 DEF Inv, RequestInv, PositionInv
<1>4. TokenOf(r).access \in Seq(Entries)
  BY DEF Inv, TypeOK, Input, Token, TokenOf
<1>5. TokenInv(r) /\ VerdictInv(r)
  BY DEF Inv, RequestInv
<1> QED
  BY <1>1, <1>3, <1>4, <1>5 DEF TokenInv, VerdictInv

LEMMA ProceedsKeeps ==
    ASSUME Inv, NEW r \in Requests, NEW question \in {"parse", "claims", "access"},
           Runs(r, "JWTAuth"), Proceeds(r, question), UNCHANGED endpointVars,
           NEW k \in SUBSET Keys, keys' = [keys EXCEPT ![r] = k], k \subseteq offered[r],
           NEW i \in Nat \ {0}, entry' = [entry EXCEPT ![r] = i],
           question \in {"claims", "access"} => TokenOf(r).key \in offered[r],
           question = "access" => KnownOrganization(r),
           \A j \in 1 .. i - 1 : TokenOf(r).access[j] # "malformed"
    PROVE  TypeOK' /\ RequestInv(r)' /\ Others(r)
<1>1. /\ UNCHANGED <<request, handlers, index, at, deferred, replies, cfg, jwks, verdict, offered,
                     epc, bound>>
      /\ jpc' = [jpc EXCEPT ![r] = question]
  BY DEF Proceeds, chainVars, endpointVars
<1>2. AuthTypeOK'
  BY <1>1 DEF Inv, TypeOK, AuthTypeOK
<1>3. TypeOK'
  BY <1>1, <1>2 DEF Inv, TypeOK, Chain
<1>4. Others(r)
  BY <1>1 DEF Others, Inv, TypeOK, AuthTypeOK
<1>5. jpc'[r] = question /\ keys'[r] = k /\ entry'[r] = i
  BY <1>1 DEF Inv, TypeOK, AuthTypeOK
<1>6. /\ Checked(r)' = Checked(r) /\ Passed(r)' = Passed(r)
      /\ Entitled(r)' = Entitled(r) /\ TokenOf(r)' = TokenOf(r)
      /\ KnownOrganization(r)' = KnownOrganization(r) /\ Chain(request[r].route)' = Chain(request[r].route)
  BY <1>1 DEF Checked, Passed, Entitled, TokenOf, KnownOrganization, Granted, Chain
<1>7. PositionInv(r)'
  <2>1. at[r] = "handler"
    BY DEF Runs
  <2> QED
    BY <1>1, <1>6, <2>1 DEF Inv, RequestInv, PositionInv
<1>8. VerdictInv(r)'
  BY <1>1, <1>6 DEF Inv, RequestInv, VerdictInv
<1>9. TokenInv(r)'
  BY <1>1, <1>5, <1>6, AtCheck DEF TokenInv
<1> QED
  BY <1>3, <1>4, <1>7, <1>8, <1>9 DEF RequestInv

\* The middleware is left for the endpoint, by a verdict or by a panic.
LEMMA LeavesKeeps ==
    ASSUME Inv, NEW r \in Requests, Runs(r, "JWTAuth"), NEW outcome \in {"allowed", "panicked"},
           Decides(r, outcome), UNCHANGED endpointVars,
           ChainTyped', index'[r] = 5, at'[r] = "handler",
           Len(replies'[r]) = IF outcome = "panicked" THEN 1 ELSE 0,
           deferred'[r] <=> outcome # "panicked",
           \A i \in 1 .. Len(replies'[r]) : replies'[r][i].status # 401,
           \A q \in Requests \ {r} :
               /\ index'[q] = index[q] /\ at'[q] = at[q]
               /\ deferred'[q] = deferred[q] /\ replies'[q] = replies[q],
           outcome = "allowed" => Entitled(r)
    PROVE  TypeOK' /\ RequestInv(r)' /\ Others(r)
<1>1. /\ UNCHANGED <<request, handlers, cfg, jwks, jpc, keys, entry, offered, epc, bound>>
      /\ verdict' = [verdict EXCEPT ![r] = outcome]
  BY DEF Decides, endpointVars
<1>2. AuthTypeOK'
  BY <1>1 DEF Inv, TypeOK, AuthTypeOK, Verdicts
<1>3. TypeOK'
  BY <1>1, <1>2 DEF Inv, TypeOK, Chain, ChainTyped
<1>4. Others(r)
  BY <1>1 DEF Others, Inv, TypeOK, AuthTypeOK
<1>5. verdict'[r] = outcome
  BY <1>1 DEF Inv, TypeOK, AuthTypeOK
<1>6. Checked(r) /\ Len(handlers[r]) = 5 /\ handlers[r] = Chain(request[r].route) /\ epc[r] = "bind"
  BY AtCheck
<1>7. /\ Entitled(r)' = Entitled(r) /\ Chain(request[r].route)' = Chain(request[r].route)
  BY <1>1 DEF Entitled, TokenOf, KnownOrganization, Granted, Chain
<1>8. PositionInv(r)'
  <2>1. index'[r] \in 1 .. Len(handlers[r]) /\ ~(index'[r] <= 4) /\ ~(index'[r] < Len(handlers[r]))
    BY <1>6
  <2> QED
    BY <1>1, <1>5, <1>6, <1>7, <2>1 DEF PositionInv, Passed
<1>9. VerdictInv(r)' /\ TokenInv(r)'
  BY <1>1, <1>5, <1>6, <1>7 DEF VerdictInv, TokenInv
<1> QED
  BY <1>3, <1>4, <1>8, <1>9 DEF RequestInv

LEMMA AuthenticateKeeps ==
    ASSUME Inv, NEW r \in Requests, Authenticate(r)
    PROVE  TypeOK' /\ RequestInv(r)' /\ Others(r)
<1> USE DEF Asks
<1>1. Runs(r, "JWTAuth") /\ UNCHANGED endpointVars
  BY DEF Authenticate, AuthNext, GetKeysFails, GetKeys, Parses, ParseFails, FindsOrganization,
         OrganizationUnknown, AccessPanics, AccessAllowed, AccessGoesOn, AccessRefused
<1>2. /\ keys \in [Requests -> SUBSET Keys] /\ jwks \in SUBSET Keys
      /\ entry \in [Requests -> Nat \ {0}] /\ keys[r] \in SUBSET Keys /\ entry[r] \in Nat \ {0}
  BY DEF Inv, TypeOK, AuthTypeOK
<1>3. /\ index[r] = 4 /\ Len(handlers[r]) = 5 /\ Len(replies[r]) = 0
      /\ jwks \subseteq offered[r] /\ keys[r] \subseteq offered[r]
      /\ jpc[r] \in {"claims", "access"} => TokenOf(r).key \in offered[r]
      /\ \A j \in 1 .. entry[r] - 1 : TokenOf(r).access[j] # "malformed"
  BY <1>1, AtCheck
<1>4. CASE GetKeysFails(r) \/ ParseFails(r) \/ OrganizationUnknown(r) \/ AccessRefused(r)
  <2>1. Refuse(r)
    BY <1>4 DEF GetKeysFails, ParseFails, OrganizationUnknown, AccessRefused
  <2> QED
    BY <1>1, <2>1, RefuseKeeps
<1>5. CASE GetKeys(r)
  <2>1. Proceeds(r, "parse") /\ keys' = [keys EXCEPT ![r] = jwks] /\ entry' = [entry EXCEPT ![r] = entry[r]]
    BY <1>2, <1>5 DEF GetKeys
  <2> QED
    BY <1>1, <1>2, <1>3, <2>1, ProceedsKeeps
<1>6. CASE Parses(r)
  <2>1. /\ Proceeds(r, "claims") /\ keys' = [keys EXCEPT ![r] = Refreshed(r)]
        /\ entry' = [entry EXCEPT ![r] = entry[r]] /\ TokenOf(r).key \in Refreshed(r)
    BY <1>2, <1>6 DEF Parses
  <2>2. Refreshed(r) \in SUBSET Keys /\ Refreshed(r) \subseteq offered[r]
    BY <1>1, <1>2, AtCheck DEF Refreshed
  <2> QED
    BY <1>1, <1>2, <1>3, <2>1, <2>2, ProceedsKeeps
<1>7. CASE FindsOrganization(r)
  <2>1. /\ Proceeds(r, "access") /\ keys' = [keys EXCEPT ![r] = keys[r]]
        /\ entry' = [entry EXCEPT ![r] = entry[r]] /\ KnownOrganization(r) /\ jpc[r] = "claims"
    BY <1>2, <1>7 DEF FindsOrganization
  <2> QED
    BY <1>1, <1>2, <1>3, <2>1, ProceedsKeeps
<1>8. CASE AccessGoesOn(r)
  <2>1. /\ Proceeds(r, "access") /\ keys' = [keys EXCEPT ![r] = keys[r]]
        /\ entry' = [entry EXCEPT ![r] = entry[r] + 1] /\ jpc[r] = "access"
        /\ ~MalformedAt(r, entry[r]) /\ entry[r] <= Len(TokenOf(r).access)
    BY <1>2, <1>8 DEF AccessGoesOn
  <2>2. entry[r] + 1 \in Nat \ {0}
    BY <1>2
  <2>3. TokenOf(r).access[entry[r]] # "malformed"
    BY <2>1 DEF MalformedAt
  <2>4. \A j \in 1 .. (entry[r] + 1) - 1 : j \in 1 .. entry[r] - 1 \/ j = entry[r]
    BY <1>2
  <2>5. \A j \in 1 .. (entry[r] + 1) - 1 : TokenOf(r).access[j] # "malformed"
    BY <1>1, <2>3, <2>4, AtCheck
  <2>6. jpc[r] = "access" => TokenOf(r).key \in offered[r] /\ KnownOrganization(r)
    BY <1>1, AtCheck
  <2>7. keys[r] \subseteq offered[r]
    BY <1>1, AtCheck
  <2> QED
    BY <1>1, <1>2, <2>1, <2>2, <2>5, <2>6, <2>7, ProceedsKeeps
<1>9. CASE AccessAllowed(r)
  <2>1. /\ Decides(r, "allowed") /\ GoOnAt(r, index[r] + 1) /\ jpc[r] = "access"
        /\ ~MalformedAt(r, entry[r]) /\ MatchesAt(r, entry[r]) /\ UNCHANGED <<deferred, replies>>
    BY <1>9 DEF AccessAllowed, GoOn
  <2>2. entry[r] \in DOMAIN TokenOf(r).access /\ TokenOf(r).access[entry[r]] = Granted(r)
    BY <2>1 DEF MatchesAt
  <2>3. entry[r] <= Len(TokenOf(r).access)
    BY <1>1, <1>2, <2>2, AtCheck
  <2>4. TokenOf(r).listed /\ TokenOf(r).access[entry[r]] # "malformed"
    BY <1>1, <2>1, <2>3, AtCheck DEF MalformedAt, Inv, TypeOK, Input, Token, TokenOf
  <2>5. \A j \in 1 .. entry[r] : j \in 1 .. entry[r] - 1 \/ j = entry[r]
    BY <1>2
  <2>6. Entitled(r)
    BY <1>1, <2>1, <2>2, <2>4, <2>5, AtCheck DEF Entitled
  <2>7. /\ index' \in [Requests -> Nat]
        /\ at' \in [Requests -> {"idle", "handler", "done", "broken"}]
        /\ index'[r] = 5 /\ at'[r] = "handler"
        /\ \A q \in Requests \ {r} : index'[q] = index[q] /\ at'[q] = at[q]
    <3>1. index[r] + 1 = 5 /\ ~(5 > Len(handlers[r])) /\ 5 \in Nat
      BY <1>3
    <3>2. GoOnAt(r, 5)
      BY <2>1, <3>1
    <3>3. index \in [Requests -> Nat] /\ at \in [Requests -> {"idle", "handler", "done", "broken"}]
      BY DEF Inv, TypeOK
    <3> QED
      BY <3>1, <3>2, <3>3, GoOnTyped
  <2>8. ChainTyped'
    BY <2>1, <2>7 DEF Inv, TypeOK, ChainTyped
  <2>9. /\ Len(replies'[r]) = 0 /\ deferred'[r]
        /\ \A i \in 1 .. Len(replies'[r]) : replies'[r][i].status # 401
        /\ \A q \in Requests \ {r} : deferred'[q] = deferred[q] /\ replies'[q] = replies[q]
    BY <1>1, <2>1, AtCheck
  <2> QED
    BY <1>1, <2>1, <2>6, <2>7, <2>8, <2>9, LeavesKeeps
<1>10. CASE AccessPanics(r)
  <2>1. Decides(r, "panicked") /\ Panic(r)
    BY <1>10 DEF AccessPanics
  <2>2. ChainTyped
    BY DEF Inv, TypeOK, ChainTyped
  <2>3. /\ ChainTyped'
        /\ \A q \in Requests \ {r} :
              /\ index'[q] = index[q] /\ at'[q] = at[q]
              /\ deferred'[q] = deferred[q] /\ replies'[q] = replies[q]
        /\ index'[r] = index[r] + 1
        /\ at'[r] = IF index[r] + 1 > Len(handlers[r]) THEN "done" ELSE "handler"
        /\ ~deferred'[r]
        /\ Len(replies'[r]) = Len(replies[r]) + 1
        /\ \A i \in 1 .. Len(replies'[r]) :
              replies'[r][i].status = 401 => i \in 1 .. Len(replies[r]) /\ replies[r][i].status = 401
    BY <1>1, <2>1, <2>2, AtCheck, PanicTyped
  <2>4. index'[r] = 5 /\ at'[r] = "handler" /\ Len(replies'[r]) = 1
    <3>1. index[r] + 1 = 5 /\ ~(index[r] + 1 > Len(handlers[r])) /\ Len(replies[r]) + 1 = 1
      BY <1>3
    <3> QED
      BY <2>3, <3>1
  <2>5. \A i \in 1 .. Len(replies'[r]) : replies'[r][i].status # 401
    BY <1>1, <2>3, AtCheck
  <2> QED
    BY <1>1, <2>1, <2>3, <2>4, <2>5, LeavesKeeps
<1> QED
  BY <1>4, <1>5, <1>6, <1>7, <1>8, <1>9, <1>10 DEF Authenticate, AuthNext

\* The request in its last handler.
LEMMA AtLast ==
    ASSUME Inv, NEW r \in Requests, Runs(r, "Endpoint") \/ Runs(r, "NoRoute")
    PROVE  /\ at[r] = "handler" /\ index[r] \in Nat /\ index[r] = Len(handlers[r]) /\ index[r] > 3
           /\ index[r] + 1 > Len(handlers[r])
           /\ handlers[r] = Chain(request[r].route)
           /\ Len(replies[r]) = IF verdict[r] = "panicked" THEN 1 ELSE 0
           /\ deferred[r] <=> verdict[r] # "panicked"
           /\ Checked(r) => Passed(r)
           /\ Runs(r, "NoRoute") => ~Checked(r)
           /\ verdict[r] # "refused"
           /\ \A i \in 1 .. Len(replies[r]) : replies[r][i].status # 401
           /\ VerdictInv(r)
<1>1. at[r] = "handler"
  BY DEF Runs
<1>2. /\ index[r] \in Nat /\ Len(handlers[r]) \in {4, 5} /\ (Checked(r) <=> Len(handlers[r]) = 5)
      /\ (Runs(r, "Endpoint") => index[r] = Len(handlers[r]))
      /\ (Runs(r, "NoRoute") => ~Checked(r) /\ index[r] = 4)
  BY <1>1, AtHandler
<1>3. index[r] = Len(handlers[r]) /\ index[r] > 3 /\ index[r] + 1 > Len(handlers[r])
      /\ (Checked(r) => index[r] = 5)
  <2>1. CASE Len(handlers[r]) = 4
    BY <1>2, <2>1
  <2>2. CASE Len(handlers[r]) = 5
    BY <1>2, <2>2
  <2> QED
    BY <1>2, <2>1, <2>2
<1>4. PositionInv(r) /\ VerdictInv(r)
  BY DEF Inv, RequestInv
<1>5. verdict[r] # "refused"
  BY <1>1, <1>4 DEF VerdictInv
<1>6. \A i \in 1 .. Len(replies[r]) : replies[r][i].status # 401
  BY <1>4, <1>5 DEF VerdictInv
<1>7. /\ handlers[r] = Chain(request[r].route)
      /\ Len(replies[r]) = IF verdict[r] = "panicked" THEN 1 ELSE 0
      /\ deferred[r] <=> verdict[r] # "panicked"
      /\ Checked(r) => Passed(r)
  BY <1>1, <1>3, <1>4 DEF PositionInv
<1> QED
  BY <1>1, <1>2, <1>3, <1>4, <1>5, <1>6, <1>7

\* The endpoint takes a step and does not return.
LEMMA ContinueKeeps ==
    ASSUME Inv, NEW r \in Requests, Runs(r, "Endpoint"), ElseUnchanged,
           NEW step \in {"call", "get"}, Continue(r, step),
           NEW t \in Tx \cup {None}, bound' = [bound EXCEPT ![r] = t]
    PROVE  TypeOK' /\ RequestInv(r)' /\ Others(r)
<1>1. /\ UNCHANGED <<request, handlers, index, at, deferred, replies, cfg, jwks, jpc, keys, entry,
                     verdict, offered>>
      /\ epc' = [epc EXCEPT ![r] = step]
  BY DEF ElseUnchanged, Continue, authVars
<1>2. TypeOK'
  <2>1. AuthTypeOK'
    BY <1>1 DEF Inv, TypeOK, AuthTypeOK
  <2> QED
    BY <1>1, <2>1 DEF Inv, TypeOK, Chain
<1>3. Others(r)
  BY <1>1 DEF Others, Inv, TypeOK
<1>4. epc'[r] = step
  BY <1>1 DEF Inv, TypeOK
<1>5. /\ Checked(r)' = Checked(r) /\ Passed(r)' = Passed(r)
      /\ Entitled(r)' = Entitled(r) /\ TokenOf(r)' = TokenOf(r)
      /\ KnownOrganization(r)' = KnownOrganization(r) /\ Chain(request[r].route)' = Chain(request[r].route)
  BY <1>1 DEF Checked, Passed, Entitled, TokenOf, KnownOrganization, Granted, Chain
<1>6. PositionInv(r)'
  <2>1. at[r] = "handler" /\ ~(index[r] < Len(handlers[r]))
    BY AtLast
  <2> QED
    BY <1>1, <1>5, <2>1 DEF Inv, RequestInv, PositionInv
<1>7. VerdictInv(r)'
  <2>1. /\ (Checked(r) => Passed(r)) /\ verdict[r] # "refused"
        /\ \A i \in 1 .. Len(replies[r]) : replies[r][i].status # 401
    BY AtLast
  <2> QED
    BY <1>1, <1>5, <2>1 DEF Inv, RequestInv, VerdictInv
<1>8. TokenInv(r)'
  BY <1>1, <1>5 DEF Inv, RequestInv, TokenInv
<1> QED
  BY <1>2, <1>3, <1>6, <1>7, <1>8 DEF RequestInv

\* The last handler returns or panics.
LEMMA EndKeeps ==
    ASSUME Inv, NEW r \in Requests, Runs(r, "Endpoint") \/ Runs(r, "NoRoute"), ElseUnchanged,
           ChainTyped', bound' = bound,
           NEW step \in {"bind", "call", "get", "over"}, epc' = [epc EXCEPT ![r] = step],
           \/ at'[r] = "done" /\ Len(replies'[r]) = Len(replies[r]) + 1
           \/ at'[r] = "broken" /\ ~deferred[r] /\ replies'[r] = replies[r],
           \A i \in 1 .. Len(replies'[r]) :
               replies'[r][i].status = 401 => i \in 1 .. Len(replies[r]) /\ replies[r][i].status = 401,
           \A q \in Requests \ {r} :
               /\ index'[q] = index[q] /\ at'[q] = at[q]
               /\ deferred'[q] = deferred[q] /\ replies'[q] = replies[q]
    PROVE  TypeOK' /\ RequestInv(r)' /\ Others(r)
<1>1. UNCHANGED <<request, handlers, cfg, jwks, jpc, keys, entry, verdict, offered, bound>>
  BY DEF ElseUnchanged, authVars
<1>2. TypeOK'
  <2>1. AuthTypeOK'
    BY <1>1 DEF Inv, TypeOK, AuthTypeOK
  <2> QED
    BY <1>1, <2>1 DEF Inv, TypeOK, Chain, ChainTyped
<1>3. Others(r)
  BY <1>1 DEF Others, Inv, TypeOK
<1>4. epc'[r] = step
  BY DEF Inv, TypeOK
<1>5. /\ Checked(r)' = Checked(r) /\ Passed(r)' = Passed(r)
      /\ Entitled(r)' = Entitled(r) /\ Chain(request[r].route)' = Chain(request[r].route)
  BY <1>1 DEF Checked, Passed, Entitled, TokenOf, KnownOrganization, Granted, Chain
<1>6. /\ handlers[r] = Chain(request[r].route) /\ verdict[r] # "refused"
      /\ Len(replies[r]) = IF verdict[r] = "panicked" THEN 1 ELSE 0
      /\ deferred[r] <=> verdict[r] # "panicked"
      /\ Checked(r) => Passed(r)
      /\ \A i \in 1 .. Len(replies[r]) : replies[r][i].status # 401
      /\ VerdictInv(r)
  BY AtLast
<1>7. PositionInv(r)'
  <2>1. at'[r] = "done" => Len(replies'[r]) = IF verdict[r] = "panicked" THEN 2 ELSE 1
    BY <1>6
  <2>2. at'[r] = "broken" => Len(replies'[r]) = 1 /\ verdict[r] = "panicked"
    <3>1. at'[r] = "broken" => ~deferred[r] /\ replies'[r] = replies[r]
      OBVIOUS
    <3>2. ~deferred[r] => verdict[r] = "panicked" /\ Len(replies[r]) = 1
      BY <1>6
    <3> QED
      BY <3>1, <3>2
  <2> QED
    BY <1>1, <1>5, <1>6, <2>1, <2>2 DEF PositionInv
<1>8. VerdictInv(r)' /\ TokenInv(r)'
  BY <1>1, <1>5, <1>6 DEF VerdictInv, TokenInv
<1> QED
  BY <1>2, <1>3, <1>7, <1>8 DEF RequestInv

LEMMA NoRouteKeeps ==
    ASSUME Inv, NEW r \in Requests, NoRoute(r)
    PROVE  TypeOK' /\ RequestInv(r)' /\ Others(r)
<1> DEFINE new == [status |-> 404, body |-> "not_found"]
<1>1. /\ Runs(r, "NoRoute") /\ ElseUnchanged /\ GoOnAt(r, index[r] + 1)
      /\ replies' = [replies EXCEPT ![r] = Append(replies[r], new)]
      /\ UNCHANGED <<deferred, epc, bound>>
  BY DEF NoRoute, GoOn, endpointVars
<1>2. new \in Reply /\ new.status # 401
  BY DEF Reply, Bodies
<1> HIDE DEF new
<1>3. index[r] \in Nat /\ index[r] + 1 > Len(handlers[r])
  BY <1>1, AtLast
<1>4. /\ index' \in [Requests -> Nat]
      /\ at' \in [Requests -> {"idle", "handler", "done", "broken"}]
      /\ at'[r] = "done"
      /\ \A q \in Requests \ {r} : index'[q] = index[q] /\ at'[q] = at[q]
  BY <1>1, <1>3, GoOnTyped DEF Inv, TypeOK
<1>5. replies[r] \in Seq(Reply) /\ replies'[r] = Append(replies[r], new)
  BY <1>1 DEF Inv, TypeOK
<1>6. /\ Len(replies'[r]) = Len(replies[r]) + 1
      /\ \A i \in 1 .. Len(replies'[r]) :
            replies'[r][i].status = 401 => i \in 1 .. Len(replies[r]) /\ replies[r][i].status = 401
  BY <1>2, <1>5
<1>7. replies' \in [Requests -> Seq(Reply)] /\ \A q \in Requests \ {r} : replies'[q] = replies[q]
  BY <1>1, <1>2 DEF Inv, TypeOK
<1>8. ChainTyped' /\ bound' = bound
  BY <1>1, <1>4, <1>7 DEF Inv, TypeOK, ChainTyped
<1>9. PICK step \in {"bind", "call", "get", "over"} : epc' = [epc EXCEPT ![r] = step]
  <2>1. epc' = [epc EXCEPT ![r] = epc[r]] /\ epc[r] \in {"bind", "call", "get", "over"}
    BY <1>1 DEF Inv, TypeOK
  <2> QED
    BY <2>1
<1>10. \A q \in Requests \ {r} :
          /\ index'[q] = index[q] /\ at'[q] = at[q]
          /\ deferred'[q] = deferred[q] /\ replies'[q] = replies[q]
  BY <1>1, <1>4, <1>7
<1>11. \/ at'[r] = "done" /\ Len(replies'[r]) = Len(replies[r]) + 1
       \/ at'[r] = "broken" /\ ~deferred[r] /\ replies'[r] = replies[r]
  BY <1>4, <1>6
<1>12. Runs(r, "Endpoint") \/ Runs(r, "NoRoute")
  BY <1>1
<1>13. ElseUnchanged
  BY <1>1
<1> QED
  BY <1>6, <1>8, <1>9, <1>10, <1>11, <1>12, <1>13, EndKeeps

LEMMA RespondKeeps ==
    ASSUME Inv, NEW r \in Requests, Runs(r, "Endpoint"), ElseUnchanged,
           NEW result \in Errors \cup Results, Respond(r, result)
    PROVE  TypeOK' /\ RequestInv(r)' /\ Others(r)
<1>1. ChainTyped /\ epc \in [Requests -> {"bind", "call", "get", "over"}]
  BY DEF Inv, TypeOK, ChainTyped
<1>2. /\ ChainTyped'
      /\ epc' = [epc EXCEPT ![r] = "over"] /\ deferred' = deferred /\ bound' = bound
      /\ at'[r] = IF index[r] + 1 > Len(handlers[r]) THEN "done" ELSE "handler"
      /\ Len(replies'[r]) = Len(replies[r]) + 1
      /\ \A i \in 1 .. Len(replies'[r]) :
            replies'[r][i].status = 401 => i \in 1 .. Len(replies[r]) /\ replies[r][i].status = 401
      /\ \A q \in Requests \ {r} :
            index'[q] = index[q] /\ at'[q] = at[q] /\ replies'[q] = replies[q]
  BY <1>1, RespondTyped
<1>3. at'[r] = "done"
  BY <1>2, AtLast
<1>4. \A q \in Requests \ {r} :
          /\ index'[q] = index[q] /\ at'[q] = at[q]
          /\ deferred'[q] = deferred[q] /\ replies'[q] = replies[q]
  BY <1>2
<1>5. PICK step \in {"bind", "call", "get", "over"} : epc' = [epc EXCEPT ![r] = step]
  BY <1>2
<1>6. \/ at'[r] = "done" /\ Len(replies'[r]) = Len(replies[r]) + 1
      \/ at'[r] = "broken" /\ ~deferred[r] /\ replies'[r] = replies[r]
  BY <1>2, <1>3
<1> QED
  BY <1>2, <1>4, <1>5, <1>6, EndKeeps

LEMMA ValidatePanicsKeeps ==
    ASSUME Inv, NEW r \in Requests, ValidatePanics(r)
    PROVE  TypeOK' /\ RequestInv(r)' /\ Others(r)
<1>1. /\ Runs(r, "Endpoint") /\ ElseUnchanged /\ Panic(r) /\ epc' = [epc EXCEPT ![r] = "over"]
      /\ UNCHANGED bound
  BY DEF ValidatePanics, Serves
<1>2. ChainTyped /\ bound' = bound
  BY <1>1 DEF Inv, TypeOK, ChainTyped
<1>3. /\ ChainTyped'
      /\ \A q \in Requests \ {r} :
            /\ index'[q] = index[q] /\ at'[q] = at[q]
            /\ deferred'[q] = deferred[q] /\ replies'[q] = replies[q]
      /\ deferred[r] =>
            /\ at'[r] = IF index[r] + 1 > Len(handlers[r]) THEN "done" ELSE "handler"
            /\ Len(replies'[r]) = Len(replies[r]) + 1
      /\ ~deferred[r] => at'[r] = "broken" /\ replies'[r] = replies[r]
      /\ \A i \in 1 .. Len(replies'[r]) :
            replies'[r][i].status = 401 => i \in 1 .. Len(replies[r]) /\ replies[r][i].status = 401
  BY <1>1, <1>2, PanicTyped
<1>4. index[r] + 1 > Len(handlers[r])
  BY <1>1, AtLast
<1>5. \/ at'[r] = "done" /\ Len(replies'[r]) = Len(replies[r]) + 1
      \/ at'[r] = "broken" /\ ~deferred[r] /\ replies'[r] = replies[r]
  BY <1>3, <1>4
<1>6. PICK step \in {"bind", "call", "get", "over"} : epc' = [epc EXCEPT ![r] = step]
  BY <1>1
<1> QED
  BY <1>1, <1>2, <1>3, <1>5, <1>6, EndKeeps

LEMMA EndpointKeeps ==
    ASSUME Inv, NEW r \in Requests, Endpoint(r)
    PROVE  TypeOK' /\ RequestInv(r)' /\ Others(r)
<1>1. request[r] \in Input /\ bound[r] \in Tx \cup {None}
  BY DEF Inv, TypeOK
<1>2. bound = [bound EXCEPT ![r] = bound[r]]
  BY DEF Inv, TypeOK
<1>3. CASE BindBody(r)
  <2>1. Runs(r, "Endpoint") /\ ElseUnchanged /\ Continue(r, "call") /\ bound' = [bound EXCEPT ![r] = bound[r]]
    BY <1>2, <1>3 DEF BindBody, Serves
  <2> QED
    BY <1>1, <2>1, ContinueKeeps
<1>4. CASE BindBodyFails(r)
  <2>1. Runs(r, "Endpoint") /\ ElseUnchanged
    BY <1>4 DEF BindBodyFails, Serves
  <2>2. PICK e \in DecodeErrors(request[r].decoded) : Respond(r, e)
    BY <1>4 DEF BindBodyFails
  <2>3. e \in Errors \cup Results
    BY <2>2 DEF DecodeErrors, Errors
  <2> QED
    BY <2>1, <2>2, <2>3, RespondKeeps
<1>5. CASE BindRequest(r)
  <2>1. /\ Runs(r, "Endpoint") /\ ElseUnchanged /\ Continue(r, "call")
        /\ bound' = [bound EXCEPT ![r] = Bound(request[r])]
    BY <1>5 DEF BindRequest, Serves
  <2>2. Bound(request[r]) \in Tx \cup {None}
    BY <1>1 DEF Bound, Override, Input
  <2> QED
    BY <2>1, <2>2, ContinueKeeps
<1>6. CASE BindNothing(r)
  <2>1. Runs(r, "Endpoint") /\ ElseUnchanged /\ Continue(r, "call") /\ bound' = [bound EXCEPT ![r] = bound[r]]
    BY <1>2, <1>6 DEF BindNothing, Serves
  <2> QED
    BY <1>1, <2>1, ContinueKeeps
<1>7. CASE CallApi(r)
  <2>1. Runs(r, "Endpoint") /\ ElseUnchanged
    BY <1>7 DEF CallApi, Serves
  <2>2. PICK result \in Returned(request[r].route) : Respond(r, result)
    BY <1>7 DEF CallApi
  <2>3. result \in Errors \cup Results
    BY <2>2 DEF Returned, Errors, OwnErrors, Results
  <2> QED
    BY <2>1, <2>2, <2>3, RespondKeeps
<1>8. CASE ValidatePanics(r)
  BY <1>8, ValidatePanicsKeeps
<1>9. CASE LookUp(r)
  <2>1. Runs(r, "Endpoint") /\ ElseUnchanged
    BY <1>9 DEF LookUp, Serves
  <2>2. CASE Respond(r, "document_is_revoked")
    <3>1. "document_is_revoked" \in Errors \cup Results
      BY DEF Errors, OwnErrors
    <3> QED
      BY <2>1, <2>2, <3>1, RespondKeeps
  <2>3. CASE Continue(r, "get") /\ UNCHANGED bound
    <3>1. bound' = [bound EXCEPT ![r] = bound[r]]
      BY <1>2, <2>3
    <3> QED
      BY <1>1, <2>1, <2>3, <3>1, ContinueKeeps
  <2> QED
    BY <1>9, <2>2, <2>3 DEF LookUp
<1>10. CASE GetSigned(r)
  <2>1. Runs(r, "Endpoint") /\ ElseUnchanged
    BY <1>10 DEF GetSigned, Serves
  <2>2. PICK result \in {"document", "plain"} : Respond(r, result)
    BY <1>10 DEF GetSigned
  <2>3. result \in Errors \cup Results
    BY <2>2 DEF Errors, Results
  <2> QED
    BY <2>1, <2>2, <2>3, RespondKeeps
<1>11. CASE PDFRevoke(r)
  <2>1. Runs(r, "Endpoint") /\ ElseUnchanged
    BY <1>11 DEF PDFRevoke, Serves
  <2>2. PICK result \in RevokeResults : Respond(r, result)
    BY <1>11 DEF PDFRevoke
  <2>3. result \in Errors \cup Results
    BY <2>2 DEF RevokeResults, Errors, Results
  <2> QED
    BY <2>1, <2>2, <2>3, RespondKeeps
<1> QED
  BY <1>3, <1>4, <1>5, <1>6, <1>7, <1>8, <1>9, <1>10, <1>11 DEF Endpoint

-----------------------------------------------------------------------------
(* The key provider, and what a request is about *)

LEMMA PublishTyped ==
    ASSUME Inv, NEW published \in KeySets, Publish(published)
    PROVE  TypeOK'
<1>1. /\ UNCHANGED <<request, handlers, index, at, deferred, replies, cfg, jpc, keys, entry, verdict,
                     epc, bound>>
      /\ jwks' = published
      /\ offered' = [q \in Requests |->
            IF at[q] = "handler" /\ verdict[q] = "open" THEN offered[q] \cup published ELSE offered[q]]
  BY DEF Publish, Rotate, chainVars, authVars, endpointVars
<1>2. published \in SUBSET Keys
  BY KeysAssumption
<1>3. AuthTypeOK'
  BY <1>1, <1>2 DEF Inv, TypeOK, AuthTypeOK
<1> QED
  BY <1>1, <1>3 DEF Inv, TypeOK, Chain

LEMMA PublishKeeps ==
    ASSUME Inv, NEW published \in KeySets, Publish(published), NEW r \in Requests
    PROVE  RequestInv(r)'
<1>1. /\ UNCHANGED <<request, handlers, index, at, deferred, replies, cfg, jpc, keys, entry, verdict,
                     epc, bound>>
      /\ jwks' = published
      /\ offered' = [q \in Requests |->
            IF at[q] = "handler" /\ verdict[q] = "open" THEN offered[q] \cup published ELSE offered[q]]
  BY DEF Publish, Rotate, chainVars, authVars, endpointVars
<1>2. /\ Checked(r)' = Checked(r) /\ Passed(r)' = Passed(r) /\ TokenOf(r)' = TokenOf(r)
      /\ KnownOrganization(r)' = KnownOrganization(r) /\ Granted(r)' = Granted(r)
      /\ Chain(request[r].route)' = Chain(request[r].route)
  BY <1>1 DEF Checked, Passed, TokenOf, KnownOrganization, Granted, Chain
<1>3. offered[r] \subseteq offered'[r] /\ (at[r] = "handler" /\ verdict[r] = "open" => published \subseteq offered'[r])
  BY <1>1
<1>4. Entitled(r) => Entitled(r)'
  BY <1>1, <1>2, <1>3 DEF Entitled
<1>5. PositionInv(r)'
  BY <1>1, <1>2 DEF Inv, RequestInv, PositionInv
<1>6. VerdictInv(r)'
  BY <1>1, <1>2, <1>4 DEF Inv, RequestInv, VerdictInv
<1>7. TokenInv(r)'
  BY <1>1, <1>2, <1>3 DEF Inv, RequestInv, TokenInv
<1> QED
  BY <1>5, <1>6, <1>7 DEF RequestInv

LEMMA AddressKept ==
    ASSUME Inv, [Next]_vars, NEW q \in Requests
    PROVE  AddressInv(q)'
<1> USE DEF AddressInv
<1>1. AddressInv(q) /\ request[q] \in Input /\ bound \in [Requests -> Tx \cup {None}]
  BY DEF Inv, TypeOK
<1>2. CASE UNCHANGED <<request, epc, bound>>
  BY <1>1, <1>2
<1>3. ASSUME NEW r \in Requests, Endpoint(r)
      PROVE  AddressInv(q)'
  <2>1. CASE r # q
    BY <1>1, <1>3, <2>1, EndpointKeeps DEF Others
  <2>2. CASE r = q /\ BindRequest(r)
    <3>1. request' = request /\ bound'[q] = Bound(request[q])
      BY <1>1, <2>2 DEF BindRequest, Serves, ElseUnchanged
    <3>2. Bound(request[q]) = request[q].path
      BY <1>1, InputsAssumption DEF Bound, Override, Input
    <3> QED
      BY <3>1, <3>2
  <2>3. CASE r = q /\ (BindBody(r) \/ BindBodyFails(r) \/ BindNothing(r) \/ CallApi(r) \/ ValidatePanics(r))
    <3>1. request' = request /\ request[q].route \notin {"fetch", "revoke"}
      BY <2>3 DEF BindBody, BindBodyFails, BindNothing, CallApi, ValidatePanics, Serves, ElseUnchanged
    <3> QED
      BY <3>1
  <2>4. CASE r = q /\ (LookUp(r) \/ GetSigned(r) \/ PDFRevoke(r))
    <3>1. request' = request /\ bound' = bound /\ epc[q] # "bind"
      BY <2>4 DEF LookUp, GetSigned, PDFRevoke, Serves, ElseUnchanged, Continue, Respond
    <3> QED
      BY <1>1, <3>1
  <2> QED
    BY <1>3, <2>1, <2>2, <2>3, <2>4 DEF Endpoint
<1>4. ASSUME NEW r \in Requests, Arrive(r) \/ PassOn(r) \/ DeferRecover(r) \/ NoRoute(r)
      PROVE  UNCHANGED <<request, epc, bound>>
  BY <1>4 DEF Arrive, PassOn, DeferRecover, NoRoute, ElseUnchanged, endpointVars
<1>5. ASSUME NEW r \in Requests, Authenticate(r)
      PROVE  UNCHANGED <<request, epc, bound>>
  <2>1. Others(r)
    BY <1>5, AuthenticateKeeps
  <2> QED
    BY <1>5, <2>1 DEF Others, Authenticate, endpointVars
<1>6. ASSUME NEW published \in KeySets, Publish(published)
      PROVE  UNCHANGED <<request, epc, bound>>
  BY <1>6 DEF Publish, Rotate, chainVars, endpointVars
<1>7. UNCHANGED vars => UNCHANGED <<request, epc, bound>>
  BY DEF vars, chainVars, endpointVars
<1> QED
  BY <1>2, <1>3, <1>4, <1>5, <1>6, <1>7 DEF Next, Step

-----------------------------------------------------------------------------
(* The invariant and the properties *)

LEMMA InitInv == Init => Inv
<1> SUFFICES ASSUME Init
             PROVE  Inv
  OBVIOUS
<1>1. cfg \in Cfg
  BY InputsAssumption DEF Init, Parse, File
<1>2. \A r \in Requests : request[r] \in Input /\ request[r].route \in Routes
  BY InputsAssumption DEF Init, Input
<1>3. AuthTypeOK
  <2>1. jwks \in SUBSET Keys
    BY KeysAssumption DEF Init, AuthInit
  <2> QED
    BY <1>1, <2>1 DEF Init, AuthInit, AuthTypeOK, Verdicts
<1>4. replies \in [Requests -> Seq(Reply)] /\ \A r \in Requests : Len(replies[r]) = 0
  BY DEF Init
<1>5. request \in [Requests -> Input]
  BY <1>2 DEF Init
<1>6. handlers \in [Requests -> {Chain(route) : route \in Routes}]
  BY <1>2 DEF Init
<1>7. TypeOK
  BY <1>3, <1>4, <1>5, <1>6 DEF Init, TypeOK
<1>8. ASSUME NEW r \in Requests
      PROVE  RequestInv(r) /\ AddressInv(r)
  <2>1. /\ at[r] = "idle" /\ index[r] = 1 /\ epc[r] = "bind" /\ verdict[r] = "open" /\ Len(replies[r]) = 0
        /\ jpc[r] = "keys" /\ keys[r] = {} /\ entry[r] = 1 /\ handlers[r] = Chain(request[r].route)
    BY <1>4 DEF Init, AuthInit
  <2> QED
    BY <2>1 DEF RequestInv, PositionInv, VerdictInv, TokenInv, AddressInv
<1> QED
  BY <1>7, <1>8 DEF Inv

LEMMA StepKeeps ==
    ASSUME Inv, NEW r \in Requests, Arrive(r) \/ Step(r)
    PROVE  TypeOK' /\ RequestInv(r)' /\ Others(r)
BY ArriveKeeps, PassOnKeeps, NoRouteKeeps, AuthenticateKeeps, EndpointKeeps DEF Step

LEMMA NextInv == Inv /\ [Next]_vars => Inv'
<1> SUFFICES ASSUME Inv, [Next]_vars
             PROVE  Inv'
  OBVIOUS
<1>1. TypeOK' /\ \A r \in Requests : RequestInv(r)'
  <2>1. ASSUME NEW r \in Requests, Arrive(r) \/ Step(r)
        PROVE  TypeOK' /\ \A q \in Requests : RequestInv(q)'
    <3>1. TypeOK' /\ RequestInv(r)' /\ Others(r)
      BY <2>1, StepKeeps
    <3>2. \A q \in Requests : q # r => RequestInv(q)'
      BY <3>1, OthersKept DEF Inv
    <3> QED
      BY <3>1, <3>2
  <2>2. ASSUME NEW published \in KeySets, Publish(published)
        PROVE  TypeOK' /\ \A q \in Requests : RequestInv(q)'
    BY <2>2, PublishTyped, PublishKeeps
  <2>3. CASE UNCHANGED vars
    <3>1. TypeOK' = TypeOK
      BY <2>3 DEF vars, chainVars, authVars, endpointVars, TypeOK, AuthTypeOK, Chain
    <3>2. \A r \in Requests : RequestInv(r)' = RequestInv(r)
      BY <2>3 DEF vars, chainVars, authVars, endpointVars, RequestInv, PositionInv, VerdictInv, TokenInv,
         Checked, Passed, Entitled, TokenOf, KnownOrganization, Granted, Chain
    <3> QED
      BY <3>1, <3>2 DEF Inv
  <2> QED
    BY <2>1, <2>2, <2>3 DEF Next
<1>2. \A r \in Requests : AddressInv(r)'
  BY AddressKept
<1> QED
  BY <1>1, <1>2 DEF Inv

THEOREM InvHolds == Spec => []Inv
BY InitInv, NextInv, PTL DEF Spec

\* The types of the http server's state.
THEOREM TypeCorrect == Spec => []TypeOK
<1>1. Inv => TypeOK
  BY DEF Inv
<1> QED
  BY <1>1, InvHolds, PTL

\* middlewareJWTAuth in front of the endpoints of documents: none is called
\* for a request that is not entitled, unless the check itself panicked.
THEOREM DocumentsAreGuarded == Spec => []GuardedHandlers
<1>1. Inv => GuardedHandlers
  <2> SUFFICES ASSUME Inv, NEW r \in Requests, Checked(r), Handled(r)
               PROVE  Entitled(r) \/ verdict[r] = "panicked"
    BY DEF GuardedHandlers, Checked
  <2>1. Passed(r)
    BY AtLast DEF Handled, Inv, RequestInv, VerdictInv
  <2> QED
    BY <2>1 DEF Passed, Inv, RequestInv, VerdictInv
<1> QED
  BY <1>1, InvHolds, PTL

\* A 401 of middlewareJWTAuth ends the request: no handler was called, and
\* the chain is over.
THEOREM RefusalsLeaveNoTrace == Spec => []RefusedLeavesNoTrace
<1>1. Inv => RefusedLeavesNoTrace
  <2> SUFFICES ASSUME Inv, NEW r \in Requests, NEW i \in DOMAIN replies[r], replies[r][i].status = 401
               PROVE  ~Handled(r) /\ at[r] = "done"
    BY DEF RefusedLeavesNoTrace
  <2>1. replies[r] \in Seq(Reply)
    BY DEF Inv, TypeOK
  <2>2. i \in 1 .. Len(replies[r])
    BY <2>1
  <2>3. at[r] = "done" /\ epc[r] = "bind"
    BY <2>2 DEF Inv, RequestInv, VerdictInv
  <2> QED
    BY <2>3 DEF Handled, Runs
<1> QED
  BY <1>1, InvHolds, PTL

\* How often the server writes an answer, for every way through middlewares,
\* binding and endpoints.
THEOREM RequestsAreAnsweredOnce == Spec => []AnsweredOnce
<1>1. Inv => AnsweredOnce
  BY DEF Inv, RequestInv, PositionInv, AnsweredOnce
<1> QED
  BY <1>1, InvHolds, PTL

\* bindRequest lets the path have the last word.
THEOREM PathsAddress == Spec => []AddressedByPath
<1>1. Inv => AddressedByPath
  BY DEF Inv, AddressInv, AddressedByPath
<1> QED
  BY <1>1, InvHolds, PTL

-----------------------------------------------------------------------------
(* How far a request is from its end *)

HandlersLeft(r) == Len(handlers[r]) + 1 - index[r]

EntriesLeft(r) ==
    IF entry[r] <= Len(TokenOf(r).access) THEN Len(TokenOf(r).access) + 1 - entry[r] ELSE 0

QuestionsLeft(question) ==
    CASE question = "keys" -> 3
      [] question = "parse" -> 2
      [] question = "claims" -> 1
      [] OTHER -> 0

CheckLeft(r) == IF verdict[r] = "open" THEN QuestionsLeft(jpc[r]) + EntriesLeft(r) ELSE 0

EndpointLeft(r) ==
    CASE epc[r] = "bind" -> 3
      [] epc[r] = "call" -> 2
      [] epc[r] = "get" -> 1
      [] OTHER -> 0

\* More steps than this a request cannot take.
Left(r) == IF at[r] = "handler" THEN HandlersLeft(r) + CheckLeft(r) + EndpointLeft(r) ELSE 0

Own(r) == <<index[r], at[r], deferred[r], replies[r], jpc[r], keys[r], entry[r], verdict[r],
            epc[r], bound[r]>>

\* A step leaves a request that is under way alone or takes it nearer to its
\* end: no handler runs twice, the loop over requested_access only goes on, and
\* after a panic the chain goes on with the next handler and not with one it has
\* had.  It is the part of RequestsEnd that needs no fairness.
ChainsAdvance ==
    [][\A r \in Requests : at[r] = "handler" =>
          /\ Left(r)' \in Nat
          /\ Left(r)' < Left(r) \/ UNCHANGED Own(r)]_vars

LEMMA LeftTyped ==
    Inv => \A r \in Requests :
              /\ CheckLeft(r) \in Nat /\ EndpointLeft(r) \in Nat
              /\ at[r] = "handler" => HandlersLeft(r) \in Nat /\ HandlersLeft(r) > 0
<1> SUFFICES ASSUME Inv, NEW r \in Requests
             PROVE  /\ CheckLeft(r) \in Nat /\ EndpointLeft(r) \in Nat
                    /\ at[r] = "handler" => HandlersLeft(r) \in Nat /\ HandlersLeft(r) > 0
  OBVIOUS
<1>1. entry[r] \in Nat /\ Len(TokenOf(r).access) \in Nat
  BY DEF Inv, TypeOK, AuthTypeOK, TokenOf, Input, Token
<1>2. EntriesLeft(r) \in Nat
  BY <1>1 DEF EntriesLeft
<1>3. QuestionsLeft(jpc[r]) \in Nat
  BY DEF QuestionsLeft
<1>4. ASSUME at[r] = "handler" PROVE HandlersLeft(r) \in Nat /\ HandlersLeft(r) > 0
  BY <1>4, AtHandler DEF HandlersLeft
<1> QED
  BY <1>2, <1>3, <1>4 DEF CheckLeft, EndpointLeft

LEMMA LeftTypedNext ==
    (Inv => \A r \in Requests :
              /\ CheckLeft(r) \in Nat /\ EndpointLeft(r) \in Nat
              /\ at[r] = "handler" => HandlersLeft(r) \in Nat /\ HandlersLeft(r) > 0)'
BY LeftTyped, PTL

\* What it takes to be nearer to the end.
LEMMA Nearer ==
    ASSUME Inv, Inv', NEW r \in Requests, at[r] = "handler", handlers' = handlers,
           CheckLeft(r)' <= CheckLeft(r), EndpointLeft(r)' <= EndpointLeft(r),
           \/ at'[r] # "handler"
           \/ index'[r] = index[r] + 1
           \/ index'[r] = index[r] /\ (\/ CheckLeft(r)' < CheckLeft(r)
                                       \/ EndpointLeft(r)' < EndpointLeft(r))
    PROVE  Left(r)' \in Nat /\ Left(r)' < Left(r)
<1> DEFINE a == HandlersLeft(r)
<1> DEFINE b == CheckLeft(r)
<1> DEFINE c == EndpointLeft(r)
<1>1. b \in Nat /\ c \in Nat /\ a \in Nat /\ a > 0
  BY LeftTyped
<1>2. b' \in Nat /\ c' \in Nat /\ (at'[r] = "handler" => a' \in Nat)
  BY LeftTypedNext
<1>3. index'[r] = index[r] + 1 => a' = a - 1
  <2>1. index[r] \in Nat /\ Len(handlers[r]) \in Nat
    BY AtHandler
  <2> QED
    BY <2>1 DEF HandlersLeft
<1>4. index'[r] = index[r] => a' = a
  BY DEF HandlersLeft
<1>5. Left(r) = a + b + c /\ Left(r)' = IF at'[r] = "handler" THEN a' + b' + c' ELSE 0
  BY DEF Left
<1> HIDE DEF a, b, c
<1>6. b' <= b /\ c' <= c /\ (\/ at'[r] # "handler" \/ index'[r] = index[r] + 1
                             \/ index'[r] = index[r] /\ (b' < b \/ c' < c))
  BY DEF b, c
<1>7. CASE at'[r] # "handler"
  BY <1>1, <1>5, <1>7
<1>8. CASE at'[r] = "handler"
  BY <1>1, <1>2, <1>3, <1>4, <1>5, <1>6, <1>8
<1> QED
  BY <1>7, <1>8

\* The middleware asks the next question of a token, takes the next entry of
\* it, or is done with it.
LEMMA CheckAdvances ==
    ASSUME Inv, Inv', NEW r \in Requests, Authenticate(r)
    PROVE  Left(r)' \in Nat /\ Left(r)' < Left(r)
<1> USE DEF Asks
<1>1. Runs(r, "JWTAuth") /\ UNCHANGED <<request, handlers, epc>>
  BY DEF Authenticate, AuthNext, GetKeysFails, GetKeys, Parses, ParseFails, FindsOrganization,
         OrganizationUnknown, AccessPanics, AccessAllowed, AccessGoesOn, AccessRefused,
         Refuse, Decides, Proceeds, chainVars, endpointVars
<1>2. /\ index[r] = 4 /\ at[r] = "handler" /\ Len(handlers[r]) = 5 /\ verdict[r] = "open" /\ deferred[r]
  BY <1>1, AtCheck
<1>3. /\ entry \in [Requests -> Nat \ {0}] /\ verdict \in [Requests -> Verdicts]
      /\ jpc \in [Requests -> {"keys", "parse", "claims", "access"}]
      /\ index \in [Requests -> Nat] /\ at \in [Requests -> {"idle", "handler", "done", "broken"}]
      /\ Len(TokenOf(r).access) \in Nat
  <2>1. TypeOK
    BY DEF Inv
  <2>2. TokenOf(r) \in Token
    BY <2>1 DEF TypeOK, TokenOf, Input
  <2>3. Len(TokenOf(r).access) \in Nat
    BY <2>2 DEF Token
  <2> QED
    BY <2>1, <2>3 DEF TypeOK, AuthTypeOK
<1>4. EndpointLeft(r)' <= EndpointLeft(r) /\ TokenOf(r)' = TokenOf(r) /\ CheckLeft(r) \in Nat
  BY <1>1, LeftTyped DEF EndpointLeft, TokenOf
<1>5. ASSUME verdict'[r] # "open" PROVE CheckLeft(r)' <= CheckLeft(r)
  <2>1. CheckLeft(r)' = 0
    BY <1>5 DEF CheckLeft
  <2> QED
    BY <1>4, <2>1
<1>6. CASE GetKeysFails(r) \/ ParseFails(r) \/ OrganizationUnknown(r) \/ AccessRefused(r)
  <2>1. Refuse(r)
    BY <1>6 DEF GetKeysFails, ParseFails, OrganizationUnknown, AccessRefused
  <2>2. verdict'[r] # "open" /\ at'[r] # "handler"
    BY <1>2, <1>3, <2>1 DEF Refuse, Decides, AbortAndReturn, GoOnAt, AbortIndex
  <2> QED
    BY <1>1, <1>2, <1>4, <1>5, <2>2, Nearer
<1>7. CASE AccessPanics(r) \/ AccessAllowed(r)
  <2>1. verdict'[r] # "open" /\ index'[r] = index[r] + 1
    BY <1>2, <1>3, <1>7 DEF AccessPanics, AccessAllowed, Panic, Decides, GoOn, GoOnAt
  <2> QED
    BY <1>1, <1>2, <1>4, <1>5, <2>1, Nearer
<1>8. CASE GetKeys(r) \/ Parses(r) \/ FindsOrganization(r) \/ AccessGoesOn(r)
  <2>1. UNCHANGED <<at, index, verdict>>
    BY <1>8 DEF GetKeys, Parses, FindsOrganization, AccessGoesOn, Proceeds, chainVars
  <2>2. ASSUME GetKeys(r) \/ Parses(r) \/ FindsOrganization(r) PROVE CheckLeft(r)' < CheckLeft(r)
    <3>1. QuestionsLeft(jpc'[r]) < QuestionsLeft(jpc[r]) /\ entry' = entry
      BY <1>3, <2>2 DEF GetKeys, Parses, FindsOrganization, Proceeds, QuestionsLeft
    <3>2. EntriesLeft(r)' = EntriesLeft(r) /\ EntriesLeft(r) \in Nat
      BY <1>3, <1>4, <3>1 DEF EntriesLeft
    <3>3. QuestionsLeft(jpc'[r]) \in Nat /\ QuestionsLeft(jpc[r]) \in Nat
      BY DEF QuestionsLeft
    <3> QED
      BY <1>2, <2>1, <3>1, <3>2, <3>3 DEF CheckLeft
  <2>3. ASSUME AccessGoesOn(r) PROVE CheckLeft(r)' < CheckLeft(r)
    <3>1. /\ jpc'[r] = jpc[r] /\ entry'[r] = entry[r] + 1 /\ entry[r] <= Len(TokenOf(r).access)
      BY <1>3, <2>3 DEF AccessGoesOn, Proceeds
    <3>2. EntriesLeft(r)' < EntriesLeft(r) /\ EntriesLeft(r)' \in Nat /\ EntriesLeft(r) \in Nat
      BY <1>3, <1>4, <3>1 DEF EntriesLeft
    <3>3. QuestionsLeft(jpc[r]) \in Nat
      BY DEF QuestionsLeft
    <3> QED
      BY <1>2, <2>1, <3>1, <3>2, <3>3 DEF CheckLeft
  <2>4. CheckLeft(r)' <= CheckLeft(r) /\ CheckLeft(r)' < CheckLeft(r)
    BY <1>4, <1>8, <2>2, <2>3, LeftTypedNext
  <2> QED
    BY <1>1, <1>2, <1>4, <2>1, <2>4, Nearer
<1> QED
  BY <1>6, <1>7, <1>8 DEF Authenticate, AuthNext

\* The endpoint goes to its next step, or responds.
LEMMA EndpointAdvances ==
    ASSUME Inv, Inv', NEW r \in Requests, Endpoint(r)
    PROVE  Left(r)' \in Nat /\ Left(r)' < Left(r)
<1> USE DEF Serves
<1>1. Runs(r, "Endpoint") /\ ElseUnchanged
  BY DEF Endpoint, BindBody, BindBodyFails, BindRequest, BindNothing, CallApi, ValidatePanics,
         LookUp, GetSigned, PDFRevoke
<1>2. at[r] = "handler" /\ index[r] + 1 > Len(handlers[r])
  BY <1>1, AtLast
<1>3. /\ epc \in [Requests -> {"bind", "call", "get", "over"}]
      /\ index \in [Requests -> Nat] /\ at \in [Requests -> {"idle", "handler", "done", "broken"}]
  BY DEF Inv, TypeOK
<1>4. handlers' = handlers /\ CheckLeft(r)' = CheckLeft(r) /\ CheckLeft(r) \in Nat
  BY <1>1, LeftTyped DEF ElseUnchanged, authVars, CheckLeft, EntriesLeft, TokenOf
<1>5. ASSUME NEW result, Respond(r, result)
      PROVE  Left(r)' \in Nat /\ Left(r)' < Left(r)
  <2>1. at'[r] # "handler" /\ epc'[r] = "over"
    BY <1>2, <1>3, <1>5 DEF Respond, GoOn, GoOnAt
  <2>2. EndpointLeft(r)' <= EndpointLeft(r)
    BY <1>3, <2>1 DEF EndpointLeft
  <2> QED
    BY <1>2, <1>4, <2>1, <2>2, Nearer
<1>6. CASE ValidatePanics(r)
  <2>1. at'[r] # "handler" /\ epc'[r] = "over"
    BY <1>2, <1>3, <1>6 DEF ValidatePanics, Panic, GoOn, GoOnAt
  <2>2. EndpointLeft(r)' <= EndpointLeft(r)
    BY <1>3, <2>1 DEF EndpointLeft
  <2> QED
    BY <1>2, <1>4, <2>1, <2>2, Nearer
<1>7. ASSUME NEW step, Continue(r, step),
             \/ epc[r] = "bind" /\ step = "call"
             \/ epc[r] = "call" /\ step = "get"
      PROVE  Left(r)' \in Nat /\ Left(r)' < Left(r)
  <2>1. index' = index /\ epc'[r] = step
    BY <1>3, <1>7 DEF Continue
  <2>2. EndpointLeft(r)' < EndpointLeft(r) /\ EndpointLeft(r)' <= EndpointLeft(r)
    BY <1>7, <2>1 DEF EndpointLeft
  <2> QED
    BY <1>2, <1>4, <2>1, <2>2, Nearer
<1> QED
  BY <1>5, <1>6, <1>7
  DEF Endpoint, BindBody, BindBodyFails, BindRequest, BindNothing, CallApi, LookUp, GetSigned, PDFRevoke

\* The handlers before the check, and the one of an unknown path.
LEMMA ChainAdvances ==
    ASSUME Inv, Inv', NEW r \in Requests, PassOn(r) \/ DeferRecover(r) \/ NoRoute(r)
    PROVE  Left(r)' \in Nat /\ Left(r)' < Left(r)
<1>1. /\ at[r] = "handler" /\ handlers' = handlers /\ index'[r] = index[r] + 1
      /\ UNCHANGED <<request, jpc, entry, verdict, epc>>
  BY DEF Inv, TypeOK, PassOn, DeferRecover, NoRoute, Runs, GoOn, GoOnAt, ElseUnchanged, authVars,
         endpointVars
<1>2. /\ CheckLeft(r)' = CheckLeft(r) /\ EndpointLeft(r)' = EndpointLeft(r)
      /\ CheckLeft(r) \in Nat /\ EndpointLeft(r) \in Nat
  BY <1>1, LeftTyped DEF CheckLeft, EntriesLeft, TokenOf, EndpointLeft
<1> QED
  BY <1>1, <1>2, Nearer

\* Every step of a request takes it nearer to its end, and no other step
\* touches it: with the fairness of its handlers this is why requests end.
THEOREM EveryStepAdvances == Spec => ChainsAdvance
<1>1. ASSUME Inv, Inv', [Next]_vars, NEW r \in Requests, at[r] = "handler"
      PROVE  Left(r)' \in Nat /\ (Left(r)' < Left(r) \/ UNCHANGED Own(r))
  <2>1. CASE Step(r)
    BY <1>1, <2>1, ChainAdvances, CheckAdvances, EndpointAdvances DEF Step
  <2>2. ASSUME UNCHANGED <<handlers[r], request[r]>>, UNCHANGED Own(r)
        PROVE  Left(r)' \in Nat
    <3>1. Left(r)' = Left(r)
      BY <2>2 DEF Left, Own, HandlersLeft, CheckLeft, EntriesLeft, EndpointLeft, TokenOf
    <3>2. CheckLeft(r) \in Nat /\ EndpointLeft(r) \in Nat /\ HandlersLeft(r) \in Nat
      BY <1>1, LeftTyped
    <3> QED
      BY <1>1, <3>1, <3>2 DEF Left
  <2>3. ASSUME NEW q \in Requests, q # r, Arrive(q) \/ Step(q)
        PROVE  UNCHANGED <<handlers[r], request[r]>> /\ UNCHANGED Own(r)
    <3>1. Others(q)
      BY <1>1, <2>3, StepKeeps
    <3> QED
      BY <2>3, <3>1 DEF Others, Own
  <2>4. ASSUME UNCHANGED vars \/ \E published \in KeySets : Publish(published)
        PROVE  UNCHANGED <<handlers[r], request[r]>> /\ UNCHANGED Own(r)
    BY <2>4 DEF vars, Publish, Rotate, chainVars, authVars, endpointVars, Own
  <2>5. ~Arrive(r)
    BY <1>1 DEF Arrive
  <2> QED
    BY <1>1, <2>1, <2>2, <2>3, <2>4, <2>5 DEF Next
<1>2. Inv /\ Inv' /\ [Next]_vars
          => [\A r \in Requests : at[r] = "handler" =>
                 /\ Left(r)' \in Nat
                 /\ Left(r)' < Left(r) \/ UNCHANGED Own(r)]_vars
  BY <1>1
<1> QED
  BY <1>2, InvHolds, PTL DEF Spec, ChainsAdvance

=============================================================================
