------------------------------- MODULE EduSeal --------------------------------
(***************************************************************************)
(* The sealing pipeline of eduSeal: gateway, SEAL stream, sealers, CACHE   *)
(* stream, cache consumer, document store and fetching clients together.   *)
(***************************************************************************)
EXTENDS Sealer, DocFetch

vars == <<callVars, sealQ, sealerVars, cacheVars, docVars, fetchVars, faults>>

Init ==
    /\ FaultsInit
    /\ SignInit
    /\ SealerInit
    /\ CacheInit
    /\ DocInit
    /\ FetchInit

\* Docker restarts the process at once; what it loses is its memory.
GatewayCrash(g) ==
    /\ Fault("crash")
    /\ SignCrash(g)
    /\ CacheCrash(g)
    /\ FetchCrash(g)
    /\ UNCHANGED sealerVars

\* The steps of one part leave the variables of the others alone.
OfSigning(A) == A /\ UNCHANGED <<sealerVars, cacheVars, docVars, fetchVars>>
OfSealers(A) == A /\ UNCHANGED <<callVars, docVars, fetchVars>>
OfCaching(A) == A /\ UNCHANGED <<callVars, sealQ, sealerVars, fetchVars>>
OfFetching(A) == A /\ UNCHANGED <<callVars, sealQ, sealerVars, cacheVars, docVars>>

Expiry(t) ==
    /\ KeyExpires(t)
    /\ UNCHANGED <<callVars, sealQ, sealerVars, cacheVars, fetchVars, faults>>

Next ==
    \/ OfSigning(SignNext)
    \/ OfSealers(SealerNext)
    \/ OfCaching(CacheNext)
    \/ OfFetching(FetchNext)
    \/ \E t \in Tx : Expiry(t)
    \/ \E g \in Gateways : GatewayCrash(g)

Spec == Init /\ [][Next]_vars

-----------------------------------------------------------------------------
(***************************************************************************)
(* Fairness.  A process that is up goes on, docker restarts one that is    *)
(* not, the server delivers what waits, and clocks advance: AckWait and    *)
(* the ten seconds of a document come to their end.  No fault is ever due. *)
(* A request needs more than weak fairness, since another one may take     *)
(* every sealer down again and again: the server does not offer that other *)
(* one for the 30 seconds of its AckWait, and a restart takes less, so     *)
(* each request gets its turn.                                             *)
(***************************************************************************)
SealerProgress(s) ==
    OfSealers(Start(s) \/ Seal(s) \/ SealRaises(s) \/ PublishAnswer(s) \/ AckSeal(s))

CacheProgress(g) ==
    OfCaching(\/ \E m \in inbox[g] : Receive(g, m)
              \/ HSet(g) \/ SetTTL(g) \/ Nak(g) \/ AckCache(g))

CacheServer(t) ==
    OfCaching(\E m \in cacheQ.msgs :
        /\ m.tx = t
        /\ CacheAckWait(m) \/ \E g \in Gateways : Deliver(g, m))

Fairness ==
    /\ \A t \in Tx :
        /\ WF_vars(OfSealers(SealAckWait(t)))
        /\ SF_vars(OfSealers(\E s \in Sealers : Fetch(s, t)))
        /\ WF_vars(CacheServer(t))
        /\ WF_vars(Expiry(t))
    /\ \A s \in Sealers : WF_vars(SealerProgress(s))
    /\ \A g \in Gateways : WF_vars(CacheProgress(g))

FairSpec == Spec /\ Fairness

-----------------------------------------------------------------------------
(* Types *)

\* Every variable of the pipeline stays in its type.
TypeOK ==
    /\ faults \in 0 .. MaxFaults
    /\ SignTypeOK
    /\ DocTypeOK
    /\ CacheTypeOK
    /\ SealerTypeOK
    /\ FetchTypeOK

-----------------------------------------------------------------------------
(* Safety *)

Accepted == sealQ.ids

InCacheQ(t) == \E m \in cacheQ.msgs : m.tx = t

\* A request the SEAL stream accepted, and with it every request the client
\* got an ok for, is at every moment in one of three places: still to be
\* sealed, answered and still to be cached, or it has been in the document
\* store.  Crashes, lost acknowledgements, duplicates and failing commands
\* between them do not lose it.  The exception is the callback of
\* cache_stream.go, which does not return after a Nak it could not send and
\* acknowledges what it failed to save: the fault "nak".
NoLostRequest ==
    "nak" \notin Faults =>
        \A t \in Tx :
            t \in Accepted \/ signpc[t] = "ok" =>
                t \in sealQ.msgs \/ InCacheQ(t) \/ t \in cached

\* The document store and the clients only ever see an answer that some
\* sealer published for that very transaction, and only a request that can be
\* sealed comes back sealed.
OnlyPublishedAnswers ==
    /\ \A t \in Tx : Stored(t) => doc[t] \in answers[t]
    /\ \A c \in Gets :
        getpc[c] \in {"counting", "ok"} /\ got[c].data = "sealed" =>
            got[c] \in answers[gettx[c]] /\ kind[gettx[c]] = "sealable"

\* The signing metric counts every call that replied ok, and nothing but
\* accepted requests and increments the client library repeated.
SigningsAccounted ==
    /\ Cardinality({t \in Tx : signpc[t] = "ok"}) <= signings
    /\ signings <= Cardinality(Accepted) + faults

\* As long as no handler outlives AckWait, a request is worked on by one
\* sealer at a time and an answer is handled by one callback at a time,
\* whatever else crashes or is lost.
ExclusiveHandling ==
    "overrun" \notin Faults =>
        /\ \A t \in Tx : \A s1, s2 \in Sealers :
            WorksOn(s1, t) /\ WorksOn(s2, t) => s1 = s2
        /\ \A m \in cacheQ.msgs : \A g1, g2 \in Gateways :
            Handles(g1, m) /\ Handles(g2, m) => g1 = g2

\* A document without a time to live stays for ever.  SaveSigned creates one
\* between its two commands; unless a handler outlives AckWait there is then
\* a message of that transaction in the stream that will be handled again or
\* is still being saved, so that the time to live is set in the end.
NoImmortalDoc ==
    {"overrun", "nak"} \cap Faults = {} =>
        \A t \in Tx : Stored(t) /\ t \notin expiring =>
            \E m \in cacheQ.msgs :
                /\ m.tx = t
                /\ \A g \in Gateways : ~(cstep[g] = "ack" /\ cmsg[g] = m)

\* The message id makes the answer of a transaction unique while the
\* duplicate window lasts: two clients that fetch the same transaction never
\* read different documents, though several sealers may have sealed it.
FetchesAgree ==
    "lapse" \notin Faults =>
        \A c, d \in Gets :
            (gettx[c] = gettx[d] /\ got[c] # EmptyDocument /\ got[d] # EmptyDocument)
                => got[c] = got[d]

\* What the streams and the store say of a transaction is all there is to it:
\* once both streams are done with a request and its document has gone, no
\* sealer, no buffer and no callback brings it back, unless a handler outlives
\* AckWait.
Settled(t) == t \in Accepted /\ t \notin sealQ.msgs /\ ~InCacheQ(t) /\ ~Stored(t)

SettledForGood ==
    [][\A t \in Tx : "overrun" \notin Faults /\ Settled(t) => Settled(t)']_vars

-----------------------------------------------------------------------------
(* Refinement *)

\* The pipeline implements the service it promises: accepting is the moment
\* the SEAL stream stores a request, deciding the moment the CACHE stream
\* stores an answer, and showing and hiding are HSET and the end of a
\* document's ten seconds.  Everything else is invisible.  While no duplicate
\* window lapses, the service is stable.
Service == INSTANCE SealService WITH
    Answers <- Answer,
    NoDocument <- EmptyDocument,
    Stable <- "lapse" \notin Faults,
    accepted <- Accepted,
    answers <- answers,
    shown <- doc

ImplementsService == Service!Spec

-----------------------------------------------------------------------------
(* Liveness *)

\* A request the stream accepted is in the end sealed and cached, although
\* another one kills the sealer that takes it, every time; only a request that
\* does so itself is not.
EventuallyAnswered ==
    \A t \in Tx :
        (t \in Accepted /\ kind[t] \notin Poison) ~> t \in cached

\* A document leaves the store: none is left behind without a time to live,
\* and none is saved again for ever by redelivered messages.
EventuallyGone ==
    \A t \in Tx : <>[](~Stored(t))

\* The streams drain: in the end nothing waits in them but requests that
\* end the sealer that takes them.
OnlyPoisonRemains ==
    <>[]((\A t \in sealQ.msgs : kind[t] \in Poison) /\ cacheQ.msgs = {})

-----------------------------------------------------------------------------
(* What the source says and the code does not do *)

\* helpers/error.go says that ErrNoDocumentFound is returned when no document
\* is found: a fetch that finds no key would not reply ok.
NoDocumentFoundReported ==
    \A c \in Gets : getpc[c] = "ok" => got[c] # EmptyDocument

=============================================================================
