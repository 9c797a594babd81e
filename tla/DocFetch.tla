------------------------------- MODULE DocFetch -------------------------------
(***************************************************************************)
(* The handler PDFGetSigned of apiv1.  It reads the document with one      *)
(* HGETALL, increments the fetching metric and replies with what it read.  *)
(* A configuration that passes its own validation has Mongo disabled, so   *)
(* the revocation check in front of the read is not reached.               *)
(***************************************************************************)
EXTENDS DocStore

CONSTANT Gets   \* calls of PDFGetSigned

VARIABLES
    getpc,      \* where each call is
    gethost,    \* the process that runs it
    gettx,      \* the transaction it asks for
    got,        \* the document it read
    fetchings   \* the fetching metric in the key-value store

fetchVars == <<getpc, gethost, gettx, got, fetchings>>

GetStates == {"new", "reading", "counting", "ok", "error"}

FetchTypeOK ==
    /\ getpc \in [Gets -> GetStates]
    /\ gethost \in [Gets -> Gateways \cup {None}]
    /\ gettx \in [Gets -> Tx \cup {None}]
    /\ got \in [Gets -> Answer \cup {EmptyDocument}]
    /\ fetchings \in Nat
    /\ \A c \in Gets : getpc[c] = "reading" => gettx[c] \in Tx

FetchInit ==
    /\ getpc = [c \in Gets |-> "new"]
    /\ gethost = [c \in Gets |-> None]
    /\ gettx = [c \in Gets |-> None]
    /\ got = [c \in Gets |-> EmptyDocument]
    /\ fetchings = 0

Fetching(c) == getpc[c] \in {"reading", "counting"}

FetchGoto(c, state) == getpc' = [getpc EXCEPT ![c] = state]

PDFGetSigned(g, c, t) ==
    /\ getpc[c] = "new"
    /\ FetchGoto(c, "reading")
    /\ gethost' = [gethost EXCEPT ![c] = g]
    /\ gettx' = [gettx EXCEPT ![c] = t]
    /\ UNCHANGED <<got, fetchings, faults>>

\* A key that does not exist is no error.
GetSigned(c) ==
    /\ getpc[c] = "reading"
    /\ got' = [got EXCEPT ![c] = doc[gettx[c]]]
    /\ FetchGoto(c, "counting")
    /\ UNCHANGED <<gethost, gettx, fetchings, faults>>

GetSignedFails(c) ==
    /\ Fault("redis")
    /\ getpc[c] = "reading"
    /\ FetchGoto(c, "error")
    /\ UNCHANGED <<gethost, gettx, got, fetchings>>

IncFetching(c) ==
    /\ getpc[c] = "counting"
    /\ fetchings' = fetchings + 1
    /\ FetchGoto(c, "ok")
    /\ UNCHANGED <<gethost, gettx, got, faults>>

\* The document was read and is not returned.
IncFetchingFails(c) ==
    /\ Fault("redis")
    /\ getpc[c] = "counting"
    /\ fetchings' \in {fetchings, fetchings + 1}
    /\ FetchGoto(c, "error")
    /\ UNCHANGED <<gethost, gettx, got>>

FetchCrash(g) ==
    /\ getpc' = [c \in Gets |-> IF Fetching(c) /\ gethost[c] = g
                                THEN "error" ELSE getpc[c]]
    /\ UNCHANGED <<gethost, gettx, got, fetchings>>

FetchNext ==
    \E c \in Gets :
        \/ \E g \in Gateways, t \in Tx : PDFGetSigned(g, c, t)
        \/ GetSigned(c)
        \/ GetSignedFails(c)
        \/ IncFetching(c)
        \/ IncFetchingFails(c)

=============================================================================
