----------------------------- MODULE MCHttpServer -----------------------------
(* An instance of HttpServer for TLC. *)
EXTENDS HttpServer

CONSTANTS r1, r2, t1, t2, k1, k2, o1, o2

Config(complete, exporter, disable, enabled) ==
    [complete |-> complete, exporter |-> exporter, mongo_disable |-> disable, jwt_enabled |-> enabled,
     access |-> [o \in {o1, o2} |-> IF o = o1 THEN "seal" ELSE None]]

MCFiles ==
    [kind : {"yaml"}, cfg : {Config(c, x, d, e) : c, x, d, e \in BOOLEAN}]
        \cup [kind : {"unset", "unreadable", "folder", "not_yaml"}, cfg : {Config(TRUE, TRUE, TRUE, TRUE)}]

GoodToken == [key |-> k1, organization |-> o1, listed |-> TRUE, access |-> <<"seal">>]

Plain(route) ==
    [route |-> route, accept |-> TRUE, authorization |-> TRUE, token |-> GoodToken,
     decoded |-> "ok", json |-> FALSE, body |-> None, query |-> None, path |-> t1]

\* One request per route, and then those that differ in one respect.
MCTokens ==
    {[GoodToken EXCEPT !.key = k] : k \in {k2, None}}
        \cup {[GoodToken EXCEPT !.organization = o] : o \in {o2, None}}
        \cup {[GoodToken EXCEPT !.access = a] :
                a \in {<<>>, <<"other", "seal">>, <<"other", "malformed", "seal">>, <<"seal", "malformed">>}}
        \cup {[GoodToken EXCEPT !.listed = FALSE]}

Variants ==
    {Plain(route) : route \in Routes}
        \cup {[Plain("fetch") EXCEPT !.token = token] : token \in MCTokens}
        \cup {[Plain("validate") EXCEPT !.token.listed = FALSE]}
        \cup {[Plain("sign") EXCEPT !.authorization = FALSE]}
        \cup {[Plain("sign") EXCEPT !.decoded = d] : d \in {"type", "syntax"}}
        \cup {[Plain(route) EXCEPT !.accept = FALSE] : route \in {"revoke", "none"}}
        \cup {[Plain("fetch") EXCEPT !.json = TRUE, !.body = t2],
              [Plain("revoke") EXCEPT !.query = t2]}

\* Requests meet in the key set only: one that fetches stands for the others.
MCInputs == [r \in {r1, r2} |-> IF r = r1 THEN Variants ELSE {Plain("fetch")}]

MCKeySets == {{}, {k1}, {k2}}

=============================================================================
