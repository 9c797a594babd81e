------------------------------- MODULE JWTAuth --------------------------------
(***************************************************************************)
(* middlewareJWTAuth, between two requests of which the key provider may   *)
(* change its keys or be away.                                             *)
(*                                                                         *)
(* A token says which key signed it (None: it is not valid under any, or   *)
(* cannot be parsed), the organization, whether requested_access is a      *)
(* list, and its entries by their type ("malformed": not an object).       *)
(***************************************************************************)
EXTENDS GinChain, Configuration

CONSTANTS
    Keys,       \* of the key provider
    KeySets     \* what it may publish at a time, {} while it is away

ASSUME KeysAssumption == KeySets \subseteq SUBSET Keys

Entries == Services \cup {"malformed"}

Token == [key : Keys \cup {None},
          organization : Organizations \cup {None},
          listed : BOOLEAN,
          access : Seq(Entries)]

VARIABLES
    cfg,        \* what Parse returned
    jwks,       \* what the key provider publishes
    jpc,        \* the next thing a request asks of its token
    keys,       \* the key set keyfunc.Get got for it
    entry,      \* the loop over requested_access
    verdict,    \* history: what became of the check
    offered     \* history: the keys published from its arrival to the verdict

authVars == <<jpc, keys, entry, verdict>>

Verdicts == {"open", "allowed", "refused", "panicked"}

AuthTypeOK ==
    /\ cfg \in Cfg
    /\ jwks \in SUBSET Keys
    /\ jpc \in [Requests -> {"keys", "parse", "claims", "access"}]
    /\ keys \in [Requests -> SUBSET Keys]
    /\ entry \in [Requests -> Nat \ {0}]
    /\ verdict \in [Requests -> Verdicts]
    /\ offered \in [Requests -> SUBSET Keys]

AuthInit ==
    /\ jwks \in KeySets
    /\ jpc = [r \in Requests |-> "keys"]
    /\ keys = [r \in Requests |-> {}]
    /\ entry = [r \in Requests |-> 1]
    /\ verdict = [r \in Requests |-> "open"]
    /\ offered = [r \in Requests |-> {}]

\* The provider withdraws keys, publishes others, goes away or comes back.
Rotate(published) ==
    /\ jwks' = published
    /\ offered' = [r \in Requests |->
          IF at[r] = "handler" /\ verdict[r] = "open" THEN offered[r] \cup published ELSE offered[r]]
    /\ UNCHANGED <<chainVars, cfg, authVars>>

-----------------------------------------------------------------------------
Asks(r, question) == Runs(r, "JWTAuth") /\ jpc[r] = question

TokenOf(r) == request[r].token

Granted(r) == cfg.access[TokenOf(r).organization]

Decides(r, outcome) ==
    /\ verdict' = [verdict EXCEPT ![r] = outcome]
    /\ UNCHANGED <<request, handlers, cfg, jwks, jpc, keys, entry, offered>>

\* Each of the refusals renders, aborts and returns.
Refuse(r) ==
    /\ Render(r, 401, "unauthorized")
    /\ AbortAndReturn(r)
    /\ Decides(r, "refused")
    /\ UNCHANGED deferred

Proceeds(r, question) ==
    /\ jpc' = [jpc EXCEPT ![r] = question]
    /\ UNCHANGED <<chainVars, cfg, jwks, verdict, offered>>

\* Without a header nobody is asked for keys.
GetKeysFails(r) ==
    /\ Asks(r, "keys")
    /\ ~request[r].authorization \/ jwks = {}
    /\ Refuse(r)

\* Mutant: the keys of earlier requests are kept.
GetKeysOnce(r) ==
    LET known == UNION {keys[q] : q \in Requests} IN
    /\ Asks(r, "keys")
    /\ request[r].authorization
    /\ jwks # {}
    /\ keys' = [keys EXCEPT ![r] = jwks \cup known]
    /\ Proceeds(r, "parse")
    /\ UNCHANGED entry

\* keyfunc.Get downloads the key set for every request anew.
GetKeys(r) ==
    /\ Asks(r, "keys")
    /\ request[r].authorization
    /\ jwks # {}
    /\ keys' = [keys EXCEPT ![r] = jwks]
    /\ Proceeds(r, "parse")
    /\ UNCHANGED entry

\* RefreshUnknownKID: for a key it does not know it downloads once more.
Refreshed(r) == IF TokenOf(r).key \in keys[r] THEN keys[r] ELSE jwks

Parses(r) ==
    /\ Asks(r, "parse")
    /\ TokenOf(r).key \in Refreshed(r)
    /\ keys' = [keys EXCEPT ![r] = Refreshed(r)]
    /\ Proceeds(r, "claims")
    /\ UNCHANGED entry

ParseFails(r) ==
    /\ Asks(r, "parse")
    /\ TokenOf(r).key \notin Refreshed(r)
    /\ Refuse(r)

KnownOrganization(r) ==
    TokenOf(r).organization \in Organizations /\ Granted(r) # None

FindsOrganization(r) ==
    /\ Asks(r, "claims")
    /\ KnownOrganization(r)
    /\ Proceeds(r, "access")
    /\ UNCHANGED <<keys, entry>>

OrganizationUnknown(r) ==
    /\ Asks(r, "claims")
    /\ ~KnownOrganization(r)
    /\ Refuse(r)

\* Neither assertion on the claim requested_access has an ok.
MalformedAt(r, i) ==
    \/ ~TokenOf(r).listed
    \/ i <= Len(TokenOf(r).access) /\ TokenOf(r).access[i] = "malformed"

MatchesAt(r, i) ==
    i \in DOMAIN TokenOf(r).access /\ TokenOf(r).access[i] = Granted(r)

AccessPanics(r) ==
    /\ Asks(r, "access")
    /\ MalformedAt(r, entry[r])
    /\ Panic(r)
    /\ Decides(r, "panicked")

AccessAllowed(r) ==
    /\ Asks(r, "access")
    /\ ~MalformedAt(r, entry[r])
    /\ MatchesAt(r, entry[r])
    /\ GoOn(r)
    /\ Decides(r, "allowed")
    /\ UNCHANGED <<deferred, replies>>

\* Mutant: the loop stays where it is.
AccessStays(r) ==
    /\ Asks(r, "access")
    /\ ~MalformedAt(r, entry[r])
    /\ ~MatchesAt(r, entry[r])
    /\ entry[r] <= Len(TokenOf(r).access)
    /\ entry' = entry
    /\ Proceeds(r, "access")
    /\ UNCHANGED keys

AccessGoesOn(r) ==
    /\ Asks(r, "access")
    /\ ~MalformedAt(r, entry[r])
    /\ ~MatchesAt(r, entry[r])
    /\ entry[r] <= Len(TokenOf(r).access)
    /\ entry' = [entry EXCEPT ![r] = @ + 1]
    /\ Proceeds(r, "access")
    /\ UNCHANGED keys

AccessRefused(r) ==
    /\ Asks(r, "access")
    /\ ~MalformedAt(r, entry[r])
    /\ entry[r] > Len(TokenOf(r).access)
    /\ Refuse(r)

AuthNext(r) ==
    \/ GetKeysFails(r)
    \/ GetKeys(r)
    \/ Parses(r)
    \/ ParseFails(r)
    \/ FindsOrganization(r)
    \/ OrganizationUnknown(r)
    \/ AccessPanics(r)
    \/ AccessAllowed(r)
    \/ AccessGoesOn(r)
    \/ AccessRefused(r)

=============================================================================
