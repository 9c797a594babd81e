----------------------------- MODULE SealRequests -----------------------------
(***************************************************************************)
(* The gateway's side of sealing: the handler PDFSign of apiv1, from the   *)
(* check of the request to its reply, the SEAL stream it publishes to, and *)
(* the signing metric it increments before it replies.                     *)
(*                                                                         *)
(* A call to PDFSign is named by the transaction id uuid.NewString() gives *)
(* it, so that one set Tx names the calls, the ids and the messages.  What *)
(* a client can put in a request is abstracted to the five kinds the rest  *)
(* of the system tells apart:                                              *)
(*   empty      no PDF at all                                              *)
(*   malformed  not base64: what b64decode raises on                       *)
(*   fatal      a PDF signing raises on with an exception Seal does not    *)
(*              catch, as on one whose field Signature1 is filled already  *)
(*   rejected   a PDF Seal answers with an error: unreadable or encrypted  *)
(*   sealable   a PDF that can be sealed                                   *)
(***************************************************************************)
EXTENDS Faults, WorkQueue, FiniteSets

CONSTANTS
    Tx,         \* transaction ids, one per call of PDFSign
    Kinds,      \* the kinds of request clients send
    Gateways,   \* apigw processes
    None        \* no transaction, no message, no backend

AllKinds == {"empty", "malformed", "fatal", "rejected", "sealable"}

\* What takes down every sealer that has a session and works on it.
Poison == {"malformed", "fatal"}

ASSUME RequestsAssumption ==
    /\ Kinds \subseteq AllKinds
    /\ None \notin Tx

VARIABLES
    kind,       \* what the client of each call sends
    signpc,     \* where each call of PDFSign is
    signhost,   \* the process that runs it
    wire,       \* publishes to SEAL on their way to the server
    sealQ,      \* seal_stream; its ids are the transactions it accepted
    signings    \* the signing metric in the key-value store

\* All but the stream, which the sealers share.
callVars == <<kind, signpc, signhost, wire, signings>>

SignStates == {"new", "publishing", "counting", "ok", "error"}

SignTypeOK ==
    /\ kind \in [Tx -> AllKinds]
    /\ signpc \in [Tx -> SignStates]
    /\ signhost \in [Tx -> Gateways \cup {None}]
    /\ wire \subseteq Tx
    /\ sealQ \in Queue(Tx, Tx)
    /\ signings \in Nat

SignInit ==
    /\ kind \in [Tx -> Kinds]
    /\ signpc = [t \in Tx |-> "new"]
    /\ signhost = [t \in Tx |-> None]
    /\ wire = {}
    /\ sealQ = EmptyQueue
    /\ signings = 0

InFlight(t) == signpc[t] \in {"publishing", "counting"}

SignGoto(t, state) == signpc' = [signpc EXCEPT ![t] = state]

-----------------------------------------------------------------------------
(* The handler *)

RejectEmpty(t) ==
    /\ signpc[t] = "new"
    /\ kind[t] = "empty"
    /\ SignGoto(t, "error")
    /\ UNCHANGED <<kind, signhost, wire, sealQ, signings, faults>>

\* bindV2 decodes the body and runs no validator: whatever is not empty is
\* published, base64 or not.
PDFSign(g, t) ==
    /\ signpc[t] = "new"
    /\ kind[t] # "empty"
    /\ SignGoto(t, "publishing")
    /\ signhost' = [signhost EXCEPT ![t] = g]
    /\ wire' = wire \cup {t}
    /\ UNCHANGED <<kind, sealQ, signings, faults>>

PublishAcked(t) ==
    /\ signpc[t] = "publishing"
    /\ t \in sealQ.ids
    /\ SignGoto(t, "counting")
    /\ UNCHANGED <<kind, signhost, wire, sealQ, signings, faults>>

\* The two seconds Publish waits are over, whether the request is still on
\* its way, is stored, or was lost.
PublishTimedOut(t) ==
    /\ signpc[t] = "publishing"
    /\ SignGoto(t, "error")
    /\ UNCHANGED <<kind, signhost, wire, sealQ, signings, faults>>

IncSigning(t) ==
    /\ signpc[t] = "counting"
    /\ signings' = signings + 1
    /\ SignGoto(t, "ok")
    /\ UNCHANGED <<kind, signhost, wire, sealQ, faults>>

\* The reply to INCR is lost and the client library sends INCR again.
IncResent(t) ==
    /\ Fault("redis")
    /\ signpc[t] = "counting"
    /\ signings' = signings + 1
    /\ UNCHANGED <<kind, signpc, signhost, wire, sealQ>>

\* Mutant: a failing increment is logged and the call replies ok.
IncSigningFailsIgnored(t) ==
    /\ Fault("redis")
    /\ signpc[t] = "counting"
    /\ signings' \in {signings, signings + 1}
    /\ SignGoto(t, "ok")
    /\ UNCHANGED <<kind, signhost, wire, sealQ>>

\* INCR fails for good, applied or not: the caller gets an error, and no
\* transaction id, for a request that is in the stream.
IncSigningFails(t) ==
    /\ Fault("redis")
    /\ signpc[t] = "counting"
    /\ signings' \in {signings, signings + 1}
    /\ SignGoto(t, "error")
    /\ UNCHANGED <<kind, signhost, wire, sealQ>>

-----------------------------------------------------------------------------
(* The SEAL stream *)

StoreRequest(t) ==
    /\ t \in wire
    /\ wire' = wire \ {t}
    /\ sealQ' = PublishTo(sealQ, t, t)
    /\ UNCHANGED <<kind, signpc, signhost, signings, faults>>

DropRequest(t) ==
    /\ Fault("nats")
    /\ t \in wire
    /\ wire' = wire \ {t}
    /\ UNCHANGED <<kind, signpc, signhost, sealQ, signings>>

-----------------------------------------------------------------------------
\* What a crash of process g does to its calls: their connections break.
SignCrash(g) ==
    /\ signpc' = [t \in Tx |-> IF InFlight(t) /\ signhost[t] = g
                               THEN "error" ELSE signpc[t]]
    /\ UNCHANGED <<kind, signhost, wire, sealQ, signings>>

SignNext ==
    \E t \in Tx :
        \/ RejectEmpty(t)
        \/ \E g \in Gateways : PDFSign(g, t)
        \/ PublishAcked(t)
        \/ PublishTimedOut(t)
        \/ IncSigning(t)
        \/ IncResent(t)
        \/ IncSigningFails(t)
        \/ StoreRequest(t)
        \/ DropRequest(t)

=============================================================================
