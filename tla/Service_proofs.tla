---------------------------- MODULE Service_proofs ----------------------------
(***************************************************************************)
(* What clients see: every document comes from a sealer that answered that *)
(* very transaction, and the pipeline implements SealService.              *)
(***************************************************************************)
EXTENDS EduSeal_proofs

\* The conjuncts of Provenance about CACHE, the store and the clients.
DocProvenance == MessagesPublished /\ StoredPublished /\ FetchedPublished

\* Nothing has been published at the start.
LEMMA ProvenanceInit == Init => Provenance
  BY DEF Init, SignInit, SealerInit, CacheInit, DocInit, FetchInit, Provenance,
         MessagesPublished, StoredPublished, FetchedPublished, SealedSealable,
         QueuedAccepted, WorkAccepted, OneAnswer, Stored, WorksOn, EmptyQueue

-----------------------------------------------------------------------------
(* Publishing *)

\* What a publish to CACHE does: nothing when it is taken for a duplicate, and
\* else one more message and one more answer.
LEMMA StoreAnswerCases ==
    ASSUME TypeOK, NEW t \in Tx, NEW a \in Answer, StoreAnswer(t, a)
    PROVE  /\ UNCHANGED <<inbox, cstep, cmsg>>
           /\ \/ UNCHANGED <<cacheQ, answers>> /\ t \in cacheQ.ids
              \/ /\ t \notin cacheQ.ids
                 /\ cacheQ'.ids = cacheQ.ids \cup {t}
                 /\ \A m \in cacheQ'.msgs : m \in cacheQ.msgs \/ (m.tx = t /\ m.answer = a)
                 /\ answers' = [answers EXCEPT ![t] = @ \cup {a}]
  <1> DEFINE m == [tx |-> t, n |-> sequence[t], answer |-> a]
  <1>1. CASE t \in cacheQ.ids
    BY <1>1 DEF StoreAnswer, PublishTo
  <1>2. CASE t \notin cacheQ.ids
    <2>1. /\ cacheQ'.msgs = cacheQ.msgs \cup {m}
          /\ cacheQ'.ids = cacheQ.ids \cup {t}
          /\ answers' = [answers EXCEPT ![t] = @ \cup {a}]
      BY <1>2 DEF StoreAnswer, PublishTo
    <2>2. m.tx = t /\ m.answer = a
      OBVIOUS
    <2> HIDE DEF m
    <2> QED
      BY <1>2, <2>1, <2>2 DEF StoreAnswer
  <1> QED
    BY <1>1, <1>2

\* A publish adds an answer for its own transaction and to nothing else, and
\* within the duplicate window only the first one.
LEMMA ProvenanceStore ==
    ASSUME TypeOK, Provenance, NEW t \in Tx, NEW a \in Answer, StoreAnswer(t, a),
           UNCHANGED <<docVars, fetchVars>>
    PROVE  /\ DocProvenance'
           /\ "lapse" \notin Faults => OneAnswer'
           /\ \A u \in Tx : \A b \in answers'[u] : b \in answers[u] \/ (u = t /\ b = a)
  <1>0. /\ answers \in [Tx -> SUBSET Answer]
        /\ \A m \in cacheQ.msgs : m.tx \in Tx
        /\ \A g \in Gateways : \A m \in inbox[g] : m.tx \in Tx
        /\ \A g \in Gateways : cstep[g] # "idle" => cmsg[g].tx \in Tx
    BY DEF TypeOK, CacheTypeOK, Queue, Message
  <1>1. /\ UNCHANGED <<inbox, cstep, cmsg>>
        /\ \/ UNCHANGED <<cacheQ, answers>> /\ t \in cacheQ.ids
           \/ /\ t \notin cacheQ.ids
              /\ cacheQ'.ids = cacheQ.ids \cup {t}
              /\ \A m \in cacheQ'.msgs : m \in cacheQ.msgs \/ (m.tx = t /\ m.answer = a)
              /\ answers' = [answers EXCEPT ![t] = @ \cup {a}]
    BY StoreAnswerCases
  <1>2. \A u \in Tx : answers'[u] \in {answers[u], answers[u] \cup {a}} /\ answers[u] \subseteq answers'[u]
    BY <1>0, <1>1
  <1>3. \A u \in Tx : \A b \in answers'[u] : b \in answers[u] \/ (u = t /\ b = a)
    BY <1>0, <1>1
  <1>4. MessagesPublished'
    BY <1>0, <1>1, <1>2 DEF Provenance, MessagesPublished
  <1>5. StoredPublished' /\ FetchedPublished'
    BY <1>2 DEF Provenance, StoredPublished, FetchedPublished, Stored, docVars, fetchVars
  <1>6. ASSUME "lapse" \notin Faults PROVE OneAnswer'
    BY <1>0, <1>1, <1>6 DEF Provenance, OneAnswer
  <1> QED
    BY <1>3, <1>4, <1>5, <1>6 DEF DocProvenance

-----------------------------------------------------------------------------
(* The steps of each part *)

\* PDFSign publishes no documents.
LEMMA ProvenanceSign ==
    ASSUME TypeOK, Provenance, OfSigning(SignNext)
    PROVE  Provenance'
  <1>1. UNCHANGED kind /\ sealQ'.msgs \subseteq sealQ.msgs \cup (sealQ'.ids \ sealQ.ids)
        /\ sealQ.ids \subseteq sealQ'.ids
    BY DEF OfSigning, SignNext, RejectEmpty, PDFSign, PublishAcked, PublishTimedOut,
           IncSigning, IncResent, IncSigningFails, StoreRequest, DropRequest, PublishTo
  <1> QED
    BY <1>1 DEF OfSigning, sealerVars, cacheVars, docVars, fetchVars, Provenance,
         MessagesPublished, StoredPublished, FetchedPublished, SealedSealable,
         QueuedAccepted, WorkAccepted, OneAnswer, Stored, WorksOn, Accepted

\* A sealer answers the request it was given, sealed only if it can be sealed.
LEMMA ProvenanceSealer ==
    ASSUME TypeOK, Provenance, OfSealers(SealerNext)
    PROVE  Provenance'
  <1>0. /\ spc \in [Sealers -> SealerStates] /\ smsg \in [Sealers -> Tx \cup {None}]
        /\ sreply \in [Sealers -> Answer \cup {EmptyDocument}]
        /\ \A s \in Sealers : spc[s] \in {"seal", "publish", "ack"} => smsg[s] \in Tx
        /\ \A s \in Sealers : spc[s] = "publish" => sreply[s] \in Answer
    BY DEF TypeOK, SealerTypeOK
  <1>1. sealQ'.ids = sealQ.ids /\ sealQ'.msgs \subseteq sealQ.msgs
    BY DEF OfSealers, SealerNext, Start, StartWithoutSession, Fetch, Seal, SealRaises,
           PublishAnswer, PublishFails, AckSeal, AckSealLost, SealerCrash, SealAckWait,
           SealOverrun, Lease, Release, Remove
  <1>2. QueuedAccepted' /\ UNCHANGED <<kind, docVars, fetchVars>>
    BY <1>1 DEF Provenance, QueuedAccepted, Accepted, OfSealers, callVars
  <1> USE DEF SealerGoto, SealerStates, WorksOn
  <1>3. WorkAccepted'
    <2>1. \A s \in Sealers, t \in Tx : WorksOn(s, t)' => WorksOn(s, t) \/ t \in sealQ.msgs
      <3>1. CASE \E s \in Sealers, t \in Tx : Fetch(s, t)
        BY <1>0, <3>1 DEF Fetch, Deliverable
      <3>2. CASE \E s \in Sealers : \/ Start(s) \/ StartWithoutSession(s) \/ Seal(s)
                                    \/ PublishAnswer(s)
        BY <1>0, <3>2 DEF Start, StartWithoutSession, Seal, PublishAnswer
      <3>3. CASE \E s \in Sealers : \/ SealRaises(s) \/ PublishFails(s) \/ AckSeal(s)
                                    \/ AckSealLost(s) \/ SealerCrash(s)
        BY <1>0, <3>3 DEF SealRaises, PublishFails, AckSeal, AckSealLost, SealerCrash, Unburdened
      <3>4. CASE \E t \in Tx : SealAckWait(t) \/ SealOverrun(t)
        BY <3>4 DEF SealAckWait, SealOverrun, sealerVars
      <3> QED
        BY <3>1, <3>2, <3>3, <3>4 DEF OfSealers, SealerNext
    <2> QED
      BY <1>1, <2>1 DEF Provenance, QueuedAccepted, WorkAccepted, Accepted
  <1>4. \A s \in Sealers : spc'[s] = "publish" /\ sreply'[s].data = "sealed" =>
                               smsg'[s] = smsg[s] /\ kind[smsg[s]] = "sealable"
    <2>1. CASE \E s \in Sealers : Seal(s)
      BY <1>0, <2>1 DEF Seal, SealReply, Provenance, SealedSealable
    <2>2. CASE \E s \in Sealers : \/ Start(s) \/ StartWithoutSession(s) \/ PublishAnswer(s)
                                  \/ \E t \in Tx : Fetch(s, t)
      BY <1>0, <2>2 DEF Start, StartWithoutSession, PublishAnswer, Fetch, Provenance, SealedSealable
    <2>3. CASE \E s \in Sealers : \/ SealRaises(s) \/ PublishFails(s) \/ AckSeal(s)
                                  \/ AckSealLost(s) \/ SealerCrash(s)
      BY <1>0, <2>3 DEF SealRaises, PublishFails, AckSeal, AckSealLost, SealerCrash,
             Unburdened, Provenance, SealedSealable
    <2>4. CASE \E t \in Tx : SealAckWait(t) \/ SealOverrun(t)
      BY <2>4 DEF SealAckWait, SealOverrun, sealerVars, Provenance, SealedSealable
    <2> QED
      BY <2>1, <2>2, <2>3, <2>4 DEF OfSealers, SealerNext
  <1>5. CASE UNCHANGED cacheVars
    <2>1. DocProvenance' /\ ("lapse" \notin Faults => OneAnswer')
      BY <1>2, <1>5 DEF cacheVars, docVars, fetchVars, Provenance, DocProvenance,
             MessagesPublished, StoredPublished, FetchedPublished, OneAnswer, Stored
    <2>2. SealedSealable'
      BY <1>2, <1>4, <1>5 DEF cacheVars, Provenance, SealedSealable
    <2> QED
      BY <1>2, <1>3, <2>1, <2>2 DEF DocProvenance, Provenance
  <1>6. CASE \E s \in Sealers : spc[s] = "publish" /\ StoreAnswer(smsg[s], sreply[s])
    <2>1. PICK s \in Sealers : spc[s] = "publish" /\ StoreAnswer(smsg[s], sreply[s])
      BY <1>6
    <2>2. /\ DocProvenance'
          /\ "lapse" \notin Faults => OneAnswer'
          /\ \A u \in Tx : \A b \in answers'[u] : b \in answers[u] \/ (u = smsg[s] /\ b = sreply[s])
      BY <1>0, <1>2, <2>1, ProvenanceStore
    <2>3. SealedSealable'
      BY <1>2, <1>4, <2>1, <2>2 DEF Provenance, SealedSealable
    <2> QED
      BY <1>2, <1>3, <2>2, <2>3 DEF DocProvenance, Provenance
  <1>7. UNCHANGED cacheVars \/ \E s \in Sealers : spc[s] = "publish" /\ StoreAnswer(smsg[s], sreply[s])
    BY DEF OfSealers, SealerNext, Start, StartWithoutSession, Fetch, Seal, SealRaises,
           PublishAnswer, PublishFails, AckSeal, AckSealLost, SealerCrash, SealAckWait,
           SealOverrun
  <1> QED
    BY <1>5, <1>6, <1>7

\* The cache consumer moves answers and changes none.
LEMMA ProvenanceCaching ==
    ASSUME TypeOK, Provenance, OfCaching(CacheNext)
    PROVE  Provenance'
  <1>0. /\ answers \in [Tx -> SUBSET Answer] /\ doc \in [Tx -> Answer \cup {EmptyDocument}]
        /\ inbox \in [Gateways -> SUBSET Message] /\ cstep \in [Gateways -> CacheSteps]
        /\ cmsg \in [Gateways -> Message \cup {None}]
        /\ \A g \in Gateways : cstep[g] # "idle" => cmsg[g].tx \in Tx
    BY DEF TypeOK, CacheTypeOK, DocTypeOK, Message
  <1>1. UNCHANGED <<callVars, sealQ, sealerVars, fetchVars, answers>>
    BY DEF OfCaching, CacheNext, WindowLapse, Deliver, Receive, HSet, HSetFails, SetTTL,
           SetTTLFails, Nak, NakFails, AckCache, AckCacheLost, CacheAckWait, CacheOverrun,
           CacheGoto, CacheDone
  <1>2. SealedSealable' /\ QueuedAccepted' /\ WorkAccepted' /\ FetchedPublished'
    BY <1>1 DEF callVars, sealerVars, fetchVars, Provenance, SealedSealable,
           QueuedAccepted, WorkAccepted, FetchedPublished, WorksOn, Accepted
  <1>3. ("lapse" \notin Faults => OneAnswer)'
    <2>1. cacheQ'.ids = cacheQ.ids \/ "lapse" \in Faults
      BY DEF OfCaching, CacheNext, WindowLapse, Deliver, Receive, HSet, HSetFails, SetTTL,
             SetTTLFails, Nak, NakFails, AckCache, AckCacheLost, CacheAckWait, CacheOverrun,
             CacheGoto, CacheDone, Fault, Lease, Release, Remove
    <2> QED
      BY <1>1, <2>1 DEF Provenance, OneAnswer
  <1>4. StoredPublished'
    <2>1. CASE \E g \in Gateways : \/ HSet(g) \/ HSetFails(g)
      <3>1. PICK g \in Gateways : HSet(g) \/ HSetFails(g)
        BY <2>1
      <3>2. cstep[g] = "hset" /\ (HSetDoc(cmsg[g].tx, cmsg[g].answer) \/ UNCHANGED docVars)
        BY <3>1 DEF HSet, HSetFails
      <3>3. cmsg[g].answer \in answers[cmsg[g].tx]
        BY <1>0, <3>2 DEF Provenance, MessagesPublished
      <3> QED
        BY <1>0, <1>1, <3>2, <3>3 DEF HSetDoc, docVars, Provenance, StoredPublished, Stored
    <2>2. CASE UNCHANGED doc
      BY <1>1, <2>2 DEF Provenance, StoredPublished, Stored
    <2> QED
      BY <2>1, <2>2 DEF OfCaching, CacheNext, WindowLapse, Deliver, Receive, SetTTL,
             SetTTLFails, Nak, NakFails, AckCache, AckCacheLost, CacheAckWait, CacheOverrun,
             CacheDone, ExpireDoc, docVars
  <1>5. MessagesPublished'
    <2>1. CASE \E g \in Gateways : \E m \in cacheQ.msgs : Deliver(g, m)
      BY <1>0, <1>1, <2>1 DEF Deliver, Lease, Provenance, MessagesPublished
    <2>2. CASE \E g \in Gateways : \E m \in inbox[g] : Receive(g, m)
      BY <1>0, <1>1, <2>2 DEF Receive, Provenance, MessagesPublished
    <2>3. CASE \E g \in Gateways : \/ HSet(g) \/ HSetFails(g) \/ SetTTL(g) \/ SetTTLFails(g)
                                   \/ NakFails(g)
      <3>1. PICK g \in Gateways : \/ HSet(g) \/ HSetFails(g) \/ SetTTL(g) \/ SetTTLFails(g)
                                  \/ NakFails(g)
        BY <2>3
      <3>2. cstep[g] # "idle" /\ \E step \in CacheSteps : CacheGoto(g, step)
        BY <3>1 DEF HSet, HSetFails, SetTTL, SetTTLFails, NakFails, CacheSteps
      <3> QED
        BY <1>0, <1>1, <3>2 DEF CacheGoto, Provenance, MessagesPublished
    <2>4. CASE \E g \in Gateways : \/ Nak(g) \/ AckCache(g) \/ AckCacheLost(g)
      BY <1>0, <1>1, <2>4 DEF Nak, AckCache, AckCacheLost, CacheDone, Release, Remove,
             Provenance, MessagesPublished
    <2>5. CASE (\E t \in Tx : WindowLapse(t)) \/ (\E m \in cacheQ.msgs : CacheAckWait(m) \/ CacheOverrun(m))
      BY <1>1, <2>5 DEF WindowLapse, CacheAckWait, CacheOverrun, Forget, Release,
             Provenance, MessagesPublished
    <2> QED
      BY <2>1, <2>2, <2>3, <2>4, <2>5 DEF OfCaching, CacheNext
  <1> QED
    BY <1>2, <1>3, <1>4, <1>5 DEF Provenance

\* PDFGetSigned reads what the store has for the transaction it asks for.
LEMMA ProvenanceFetch ==
    ASSUME TypeOK, Provenance, OfFetching(FetchNext)
    PROVE  Provenance'
  <1>0. /\ got \in [Gets -> Answer \cup {EmptyDocument}] /\ gettx \in [Gets -> Tx \cup {None}]
        /\ getpc \in [Gets -> GetStates]
        /\ \A c \in Gets : getpc[c] = "reading" => gettx[c] \in Tx
    BY DEF TypeOK, FetchTypeOK
  <1>1. UNCHANGED <<callVars, sealQ, sealerVars, cacheVars, docVars>>
    BY DEF OfFetching
  <1>2. PICK c \in Gets :
            \/ \E g \in Gateways, t \in Tx : PDFGetSigned(g, c, t)
            \/ GetSigned(c)
            \/ GetSignedFails(c) \/ IncFetching(c) \/ IncFetchingFails(c)
    BY DEF OfFetching, FetchNext
  <1>3. FetchedPublished'
    <2>1. CASE \E g \in Gateways, t \in Tx : PDFGetSigned(g, c, t)
      BY <1>0, <1>1, <2>1
      DEF PDFGetSigned, FetchGoto, cacheVars, Provenance, FetchedPublished
    <2>2. CASE GetSigned(c)
      BY <1>0, <1>1, <2>2
      DEF GetSigned, FetchGoto, cacheVars, docVars, Provenance, FetchedPublished,
          StoredPublished, Stored
    <2>3. CASE GetSignedFails(c) \/ IncFetching(c) \/ IncFetchingFails(c)
      <3>1. UNCHANGED <<got, gettx, answers>>
        BY <1>1, <2>3 DEF GetSignedFails, IncFetching, IncFetchingFails, cacheVars
      <3>2. \A d \in Gets : getpc'[d] = "new" => getpc[d] = "new"
        BY <1>0, <2>3 DEF GetSignedFails, IncFetching, IncFetchingFails, FetchGoto
      <3> QED
        BY <3>1, <3>2 DEF Provenance, FetchedPublished
    <2> QED
      BY <1>2, <2>1, <2>2, <2>3
  <1> QED
    BY <1>1, <1>3 DEF callVars, sealerVars, cacheVars, docVars, Provenance,
       MessagesPublished, StoredPublished, SealedSealable, QueuedAccepted, WorkAccepted,
       OneAnswer, Stored, WorksOn, Accepted

\* A crash of a gateway changes no document.
LEMMA ProvenanceCrash ==
    ASSUME TypeOK, Provenance, NEW g \in Gateways, GatewayCrash(g)
    PROVE  Provenance'
  <1>1. UNCHANGED <<kind, sealQ, sealerVars, cacheQ, answers, docVars, got, gettx>>
    BY DEF GatewayCrash, SignCrash, CacheCrash, FetchCrash
  <1>2. MessagesPublished'
    BY <1>1 DEF GatewayCrash, CacheCrash, TypeOK, CacheTypeOK, Provenance, MessagesPublished
  <1>3. FetchedPublished'
    <2>1. \A c \in Gets : getpc'[c] \in {getpc[c], "error"}
      BY DEF GatewayCrash, FetchCrash
    <2> QED
      BY <1>1, <2>1 DEF Provenance, FetchedPublished
  <1> QED
    BY <1>1, <1>2, <1>3 DEF sealerVars, docVars, Provenance, StoredPublished,
       SealedSealable, QueuedAccepted, WorkAccepted, OneAnswer, Stored, WorksOn, Accepted

\* The end of a document changes no other.
LEMMA ProvenanceExpiry ==
    ASSUME TypeOK, Provenance, NEW t \in Tx, Expiry(t)
    PROVE  Provenance'
  <1>1. StoredPublished'
    BY DEF TypeOK, DocTypeOK, Expiry, KeyExpires, cacheVars, Provenance, StoredPublished, Stored
  <1> QED
    BY <1>1 DEF Expiry, callVars, sealerVars, cacheVars, fetchVars, Provenance,
       MessagesPublished, FetchedPublished, SealedSealable, QueuedAccepted, WorkAccepted,
       OneAnswer, WorksOn, Accepted

\* Provenance is inductive.
LEMMA ProvenanceStep == TypeOK /\ Provenance /\ [Next]_vars => Provenance'
  <1> SUFFICES ASSUME TypeOK, Provenance, [Next]_vars PROVE Provenance'
    OBVIOUS
  <1>1. CASE Next
    BY <1>1, ProvenanceSign, ProvenanceSealer, ProvenanceCaching, ProvenanceFetch,
       ProvenanceCrash, ProvenanceExpiry DEF Next
  <1>2. CASE UNCHANGED vars
    BY <1>2 DEF vars, callVars, sealerVars, cacheVars, docVars, fetchVars, Provenance,
       MessagesPublished, StoredPublished, FetchedPublished, SealedSealable,
       QueuedAccepted, WorkAccepted, OneAnswer, Stored, WorksOn, Accepted
  <1> QED
    BY <1>1, <1>2

-----------------------------------------------------------------------------
\* Every document in a message, in the store or with a client was published as
\* an answer to that transaction, by a sealer that was given an accepted
\* request; within the duplicate window there is one such answer.
THEOREM ProvenanceHolds == Spec => []Provenance
  BY ProvenanceInit, ProvenanceStep, TypeCorrect, PTL DEF Spec

\* The store and the clients see only published answers, and what PDFGetSigned
\* returns as sealed is the answer to a request that can be sealed.
THEOREM DocumentsArePublished == Spec => []OnlyPublishedAnswers
  <1>1. TypeOK /\ Provenance => OnlyPublishedAnswers
    <2> SUFFICES ASSUME TypeOK, Provenance PROVE OnlyPublishedAnswers
      OBVIOUS
    <2>1. \A c \in Gets : got[c].data = "sealed" =>
              gettx[c] \in Tx /\ got[c] \in answers[gettx[c]]
      BY DEF Provenance, FetchedPublished, EmptyDocument
    <2> QED
      BY <2>1 DEF Provenance, StoredPublished, SealedSealable, OnlyPublishedAnswers
  <1> QED
    BY <1>1, ProvenanceHolds, TypeCorrect, PTL

\* Two calls of PDFGetSigned for one transaction that find a document find the
\* same one, while no duplicate window lapses.
THEOREM FetchesDoAgree == Spec => []FetchesAgree
  <1>1. Provenance => FetchesAgree
    BY DEF Provenance, FetchedPublished, OneAnswer, FetchesAgree
  <1> QED
    BY <1>1, ProvenanceHolds, PTL

-----------------------------------------------------------------------------
(* The refinement *)

\* The start of the pipeline is a start of the service.
LEMMA ServiceInit == Init => Service!Init
  BY DEF Init, SignInit, CacheInit, DocInit, EmptyQueue, Accepted, Service!Init

\* A request enters the stream, or the clients see no difference.
LEMMA SigningRefines ==
    ASSUME TypeOK, OfSigning(SignNext)
    PROVE  [Service!Next]_(Service!serviceVars)
  <1>1. UNCHANGED <<answers, doc>>
    BY DEF OfSigning, cacheVars, docVars
  <1>2. CASE UNCHANGED sealQ
    BY <1>1, <1>2 DEF Accepted, Service!serviceVars
  <1>3. CASE \E t \in Tx : StoreRequest(t)
    <2>1. PICK t \in Tx : StoreRequest(t)
      BY <1>3
    <2>2. sealQ'.ids = sealQ.ids \cup {t}
      BY <2>1 DEF StoreRequest, PublishTo
    <2>3. Service!Accept(t)
      BY <1>1, <2>2 DEF Service!Accept, Accepted
    <2> QED
      BY <2>3 DEF Service!Next
  <1> QED
    BY <1>2, <1>3 DEF OfSigning, SignNext, RejectEmpty, PDFSign, PublishAcked,
       PublishTimedOut, IncSigning, IncResent, IncSigningFails, DropRequest

\* An answer enters the stream, or the clients see no difference.
LEMMA SealingRefines ==
    ASSUME TypeOK, Provenance, OfSealers(SealerNext)
    PROVE  [Service!Next]_(Service!serviceVars)
  <1>1. UNCHANGED <<Accepted, doc>>
    BY DEF OfSealers, SealerNext, Start, StartWithoutSession, Fetch, Seal, SealRaises,
           PublishAnswer, PublishFails, AckSeal, AckSealLost, SealerCrash, SealAckWait,
           SealOverrun, Lease, Release, Remove, docVars, Accepted
  <1>2. CASE UNCHANGED answers
    BY <1>1, <1>2 DEF Service!serviceVars
  <1>3. CASE \E s \in Sealers : spc[s] = "publish" /\ StoreAnswer(smsg[s], sreply[s])
    <2>1. PICK s \in Sealers : spc[s] = "publish" /\ StoreAnswer(smsg[s], sreply[s])
      BY <1>3
    <2>2. /\ smsg[s] \in Tx /\ sreply[s] \in Answer
          /\ smsg[s] \in Accepted
      BY <2>1 DEF TypeOK, SealerTypeOK, Provenance, WorkAccepted, WorksOn
    <2>3. CASE smsg[s] \in cacheQ.ids
      BY <1>1, <2>1, <2>3 DEF StoreAnswer, Service!serviceVars
    <2>4. CASE smsg[s] \notin cacheQ.ids
      <3>1. answers' = [answers EXCEPT ![smsg[s]] = @ \cup {sreply[s]}]
        BY <2>1, <2>4 DEF StoreAnswer
      <3>2. "lapse" \notin Faults => answers[smsg[s]] = {}
        BY <2>2, <2>4 DEF Provenance, OneAnswer
      <3>3. Service!Decide(smsg[s], sreply[s])
        BY <1>1, <2>2, <3>1, <3>2 DEF Service!Decide
      <3> QED
        BY <2>2, <3>3 DEF Service!Next
    <2> QED
      BY <2>3, <2>4
  <1> QED
    BY <1>2, <1>3 DEF OfSealers, SealerNext, Start, StartWithoutSession, Fetch, Seal,
       SealRaises, PublishAnswer, PublishFails, AckSeal, AckSealLost, SealerCrash,
       SealAckWait, SealOverrun, cacheVars

\* A callback shows a published answer, or the clients see no difference.
LEMMA CachingRefines ==
    ASSUME TypeOK, Provenance, OfCaching(CacheNext)
    PROVE  [Service!Next]_(Service!serviceVars)
  <1>1. UNCHANGED <<Accepted, answers>>
    BY DEF OfCaching, CacheNext, WindowLapse, Deliver, Receive, HSet, HSetFails, SetTTL,
           SetTTLFails, Nak, NakFails, AckCache, AckCacheLost, CacheAckWait, CacheOverrun,
           CacheGoto, CacheDone, Accepted
  <1>2. CASE UNCHANGED doc
    BY <1>1, <1>2 DEF Service!serviceVars
  <1>3. CASE \E g \in Gateways : cstep[g] = "hset" /\ HSetDoc(cmsg[g].tx, cmsg[g].answer)
    <2>1. PICK g \in Gateways : cstep[g] = "hset" /\ HSetDoc(cmsg[g].tx, cmsg[g].answer)
      BY <1>3
    <2>2. /\ cmsg[g].tx \in Tx /\ cmsg[g].answer \in Answer
          /\ cmsg[g].answer \in answers[cmsg[g].tx]
      BY <2>1 DEF TypeOK, CacheTypeOK, Message, Provenance, MessagesPublished
    <2>3. Service!Show(cmsg[g].tx, cmsg[g].answer)
      BY <1>1, <2>1, <2>2 DEF HSetDoc, Service!Show
    <2> QED
      BY <2>2, <2>3 DEF Service!Next
  <1> QED
    BY <1>2, <1>3 DEF OfCaching, CacheNext, WindowLapse, Deliver, Receive, HSet, HSetFails,
       SetTTL, SetTTLFails, Nak, NakFails, AckCache, AckCacheLost, CacheAckWait,
       CacheOverrun, CacheDone, ExpireDoc, docVars

\* Every step of the pipeline is a step of the service or invisible to it.
LEMMA ServiceStep ==
    TypeOK /\ Provenance /\ [Next]_vars => [Service!Next]_(Service!serviceVars)
  <1> SUFFICES ASSUME TypeOK, Provenance, [Next]_vars
               PROVE  [Service!Next]_(Service!serviceVars)
    OBVIOUS
  <1>1. CASE OfSigning(SignNext) \/ OfSealers(SealerNext) \/ OfCaching(CacheNext)
    BY <1>1, SigningRefines, SealingRefines, CachingRefines
  <1>2. CASE \E t \in Tx : Expiry(t)
    <2>1. PICK t \in Tx : Expiry(t)
      BY <1>2
    <2>2. Service!Hide(t)
      BY <2>1 DEF Expiry, KeyExpires, cacheVars, Accepted, Service!Hide
    <2> QED
      BY <2>2 DEF Service!Next
  <1>3. CASE \/ OfFetching(FetchNext)
             \/ \E g \in Gateways : GatewayCrash(g)
             \/ UNCHANGED vars
    <2>1. UNCHANGED <<sealQ, answers, doc>>
      BY <1>3 DEF OfFetching, GatewayCrash, SignCrash, CacheCrash, vars, cacheVars, docVars
    <2> QED
      BY <2>1 DEF Accepted, Service!serviceVars
  <1> QED
    BY <1>1, <1>2, <1>3 DEF Next

\* The pipeline, with all its queues, processes and failures, implements the
\* service that accepts, decides, shows and hides; while no duplicate window
\* lapses, the service decides once.
THEOREM PipelineImplementsService == Spec => ImplementsService
  BY ServiceInit, ServiceStep, ProvenanceHolds, TypeCorrect, PTL
  DEF Spec, ImplementsService, Service!Spec

=============================================================================
