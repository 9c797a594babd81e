-------------------------------- MODULE Sealer --------------------------------
(***************************************************************************)
(* The sealer services (sealer/run.py): each takes one message at a time   *)
(* from SEAL, seals the PDF, publishes the answer to CACHE and             *)
(* acknowledges the message.  No handler catches an exception of a step:   *)
(* it ends the process, and docker starts a new one.                       *)
(***************************************************************************)
EXTENDS CacheStream

VARIABLES
    spc,        \* where each sealer is
    smsg,       \* the request it works on
    sreply,     \* the answer it will publish
    session     \* whether it has a PKCS#11 session

sealerVars == <<spc, smsg, sreply, session>>

SealerStates == {"down", "idle", "seal", "publish", "ack"}

SealerTypeOK ==
    /\ spc \in [Sealers -> SealerStates]
    /\ smsg \in [Sealers -> Tx \cup {None}]
    /\ sreply \in [Sealers -> Answer \cup {EmptyDocument}]
    /\ session \in [Sealers -> BOOLEAN]
    /\ \A s \in Sealers :
        /\ spc[s] \in {"seal", "publish", "ack"} => smsg[s] \in Tx
        /\ spc[s] = "publish" => sreply[s] \in Answer

SealerInit ==
    /\ spc = [s \in Sealers |-> "down"]
    /\ smsg = [s \in Sealers |-> None]
    /\ sreply = [s \in Sealers |-> EmptyDocument]
    /\ session = [s \in Sealers |-> FALSE]

\* The sealer was given the request and has not finished with it.
WorksOn(s, t) == spc[s] \in {"seal", "publish", "ack"} /\ smsg[s] = t

SealerGoto(s, state) == spc' = [spc EXCEPT ![s] = state]

\* The process is in the given state and has no request.
Unburdened(s, state) ==
    /\ SealerGoto(s, state)
    /\ smsg' = [smsg EXCEPT ![s] = None]
    /\ sreply' = [sreply EXCEPT ![s] = EmptyDocument]

-----------------------------------------------------------------------------
Start(s) ==
    /\ spc[s] = "down"
    /\ SealerGoto(s, "idle")
    /\ session' = [session EXCEPT ![s] = TRUE]
    /\ UNCHANGED <<smsg, sreply, cacheVars, sealQ, faults>>

\* UserAlreadyLoggedIn is logged and forgotten: the service runs, without a
\* session, until its next restart.
StartWithoutSession(s) ==
    /\ Fault("hsm")
    /\ spc[s] = "down"
    /\ SealerGoto(s, "idle")
    /\ UNCHANGED <<smsg, sreply, session, cacheVars, sealQ>>

\* Mutant: the loop handles the message of its previous round.
FetchStale(s, t) ==
    /\ spc[s] = "idle"
    /\ t \in Deliverable(sealQ)
    /\ sealQ' = Lease(sealQ, t)
    /\ SealerGoto(s, "seal")
    /\ UNCHANGED <<smsg, sreply, session, cacheVars, faults>>

Fetch(s, t) ==
    /\ spc[s] = "idle"
    /\ t \in Deliverable(sealQ)
    /\ sealQ' = Lease(sealQ, t)
    /\ SealerGoto(s, "seal")
    /\ smsg' = [smsg EXCEPT ![s] = t]
    /\ UNCHANGED <<sreply, session, cacheVars, faults>>

\* Mutant: a PDF that cannot be sealed is answered as if it could.
SealReplyUnchecked(s, t) ==
    [data |-> IF session[s] THEN "sealed" ELSE "empty", backend |-> s]

\* What Seal returns: the sealed PDF, or an error and no data.
SealReply(s, t) ==
    [data |-> IF kind[t] = "sealable" /\ session[s] THEN "sealed" ELSE "empty",
     backend |-> s]

\* Seal raises an exception it does not catch: decoding fails, or signing
\* does, which is tried only with a session.
Raises(s) ==
    \/ kind[smsg[s]] = "malformed"
    \/ kind[smsg[s]] = "fatal" /\ session[s]

\* Mutant: the message is acknowledged before its answer is published.
SealAcksFirst(s) ==
    /\ spc[s] = "seal"
    /\ ~Raises(s)
    /\ sreply' = [sreply EXCEPT ![s] = SealReply(s, smsg[s])]
    /\ sealQ' = Remove(sealQ, smsg[s])
    /\ SealerGoto(s, "publish")
    /\ UNCHANGED <<smsg, session, cacheVars, faults>>

Seal(s) ==
    /\ spc[s] = "seal"
    /\ ~Raises(s)
    /\ sreply' = [sreply EXCEPT ![s] = SealReply(s, smsg[s])]
    /\ SealerGoto(s, "publish")
    /\ UNCHANGED <<smsg, session, cacheVars, sealQ, faults>>

SealRaises(s) ==
    /\ spc[s] = "seal"
    /\ Raises(s)
    /\ Unburdened(s, "down")
    /\ session' = [session EXCEPT ![s] = FALSE]
    /\ UNCHANGED <<cacheVars, sealQ, faults>>

PublishAnswer(s) ==
    /\ spc[s] = "publish"
    /\ StoreAnswer(smsg[s], sreply[s])
    /\ SealerGoto(s, "ack")
    /\ UNCHANGED <<smsg, sreply, session, sealQ, faults>>

\* js.publish raises; the answer may have been stored before.
PublishFails(s) ==
    /\ Fault("nats")
    /\ spc[s] = "publish"
    /\ \/ StoreAnswer(smsg[s], sreply[s])
       \/ UNCHANGED cacheVars
    /\ Unburdened(s, "down")
    /\ session' = [session EXCEPT ![s] = FALSE]
    /\ UNCHANGED sealQ

AckSeal(s) ==
    /\ spc[s] = "ack"
    /\ sealQ' = Remove(sealQ, smsg[s])
    /\ Unburdened(s, "idle")
    /\ UNCHANGED <<session, cacheVars, faults>>

AckSealLost(s) ==
    /\ Fault("nats")
    /\ spc[s] = "ack"
    /\ Unburdened(s, "idle")
    /\ UNCHANGED <<session, cacheVars, sealQ>>

\* A crash, or a SIGTERM: signal_handler closes the connection and stops the
\* loop wherever the handler is.
SealerCrash(s) ==
    /\ Fault("crash")
    /\ spc[s] # "down"
    /\ Unburdened(s, "down")
    /\ session' = [session EXCEPT ![s] = FALSE]
    /\ UNCHANGED <<cacheVars, sealQ>>

-----------------------------------------------------------------------------
(* AckWait of the SEAL stream *)

SealAckWait(t) ==
    /\ t \in sealQ.leased
    /\ \A s \in Sealers : ~WorksOn(s, t)
    /\ sealQ' = Release(sealQ, t)
    /\ UNCHANGED <<sealerVars, cacheVars, faults>>

\* Sealing takes longer than AckWait and the request goes to a second sealer.
SealOverrun(t) ==
    /\ Fault("overrun")
    /\ t \in sealQ.leased
    /\ \E s \in Sealers : WorksOn(s, t)
    /\ sealQ' = Release(sealQ, t)
    /\ UNCHANGED <<sealerVars, cacheVars>>

SealerNext ==
    \/ \E s \in Sealers :
        \/ Start(s)
        \/ StartWithoutSession(s)
        \/ \E t \in Tx : Fetch(s, t)
        \/ Seal(s)
        \/ SealRaises(s)
        \/ PublishAnswer(s)
        \/ PublishFails(s)
        \/ AckSeal(s)
        \/ AckSealLost(s)
        \/ SealerCrash(s)
    \/ \E t \in Tx : SealAckWait(t) \/ SealOverrun(t)

=============================================================================
