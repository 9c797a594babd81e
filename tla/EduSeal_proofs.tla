---------------------------- MODULE EduSeal_proofs ----------------------------
(***************************************************************************)
(* Theorems about the sealing pipeline, for any number of transactions,    *)
(* gateways, sealers and clients and for any budget of faults.             *)
(***************************************************************************)
EXTENDS EduSealInv, TLAPS

-----------------------------------------------------------------------------
(* Queues *)

\* The operations on a stream keep it a queue.
LEMMA QueueOps ==
    ASSUME NEW Id, NEW Msg, NEW q \in Queue(Id, Msg), NEW id \in Id, NEW m \in Msg
    PROVE  /\ PublishTo(q, id, m) \in Queue(Id, Msg)
           /\ Lease(q, m) \in Queue(Id, Msg)
           /\ Release(q, m) \in Queue(Id, Msg)
           /\ Remove(q, m) \in Queue(Id, Msg)
           /\ Forget(q, id) \in Queue(Id, Msg)
  BY DEF Queue, PublishTo, Lease, Release, Remove, Forget

-----------------------------------------------------------------------------
(* Types *)

\* The program starts in the types.
LEMMA TypeInit == Init => TypeOK
  <1> SUFFICES ASSUME Init PROVE TypeOK
    OBVIOUS
  <1> USE DEF Init
  <1>1. faults \in 0 .. MaxFaults
    BY FaultsAssumption DEF FaultsInit
  <1>2. SignTypeOK
    BY RequestsAssumption DEF SignInit, SignTypeOK, SignStates, EmptyQueue, Queue
  <1>3. DocTypeOK
    BY DEF DocInit, DocTypeOK
  <1>4. CacheTypeOK
    BY DEF CacheInit, CacheTypeOK, CacheSteps, EmptyQueue, Queue
  <1>5. SealerTypeOK
    BY DEF SealerInit, SealerTypeOK, SealerStates
  <1>6. FetchTypeOK
    BY DEF FetchInit, FetchTypeOK, GetStates
  <1> QED
    BY <1>1, <1>2, <1>3, <1>4, <1>5, <1>6 DEF TypeOK

\* PDFSign and the SEAL stream keep the types.
LEMMA SignTypes ==
    ASSUME TypeOK, OfSigning(SignNext)
    PROVE  TypeOK'
  <1> USE DEF OfSigning
  <1>1. PICK t \in Tx :
            \/ RejectEmpty(t)
            \/ \E g \in Gateways : PDFSign(g, t)
            \/ PublishAcked(t)
            \/ PublishTimedOut(t)
            \/ IncSigning(t)
            \/ IncResent(t)
            \/ IncSigningFails(t)
            \/ StoreRequest(t)
            \/ DropRequest(t)
    BY DEF SignNext
  <1>2. faults' \in 0 .. MaxFaults
    BY <1>1, FaultsAssumption DEF TypeOK, Fault, RejectEmpty, PDFSign, PublishAcked, PublishTimedOut, IncSigning, IncResent, IncSigningFails, StoreRequest, DropRequest
  <1>3. SignTypeOK'
    <2> USE DEF SignTypeOK, SignGoto, SignStates
    <2>0. SignTypeOK
      BY DEF TypeOK
    <2>1. CASE RejectEmpty(t)
      BY <2>0, <2>1 DEF RejectEmpty
    <2>2. CASE \E g \in Gateways : PDFSign(g, t)
      BY <2>0, <2>2 DEF PDFSign
    <2>3. CASE PublishAcked(t)
      BY <2>0, <2>3 DEF PublishAcked
    <2>4. CASE PublishTimedOut(t)
      BY <2>0, <2>4 DEF PublishTimedOut
    <2>5. CASE IncSigning(t)
      BY <2>0, <2>5 DEF IncSigning
    <2>6. CASE IncResent(t)
      BY <2>0, <2>6 DEF IncResent
    <2>7. CASE IncSigningFails(t)
      BY <2>0, <2>7 DEF IncSigningFails
    <2>8. CASE StoreRequest(t)
      BY <2>0, <2>8, QueueOps DEF StoreRequest
    <2>9. CASE DropRequest(t)
      BY <2>0, <2>9 DEF DropRequest
    <2> QED
      BY <1>1, <2>1, <2>2, <2>3, <2>4, <2>5, <2>6, <2>7, <2>8, <2>9
  <1>4. (DocTypeOK /\ CacheTypeOK /\ SealerTypeOK /\ FetchTypeOK)'
    BY DEF TypeOK, DocTypeOK, CacheTypeOK, SealerTypeOK, FetchTypeOK,
           docVars, cacheVars, sealerVars, fetchVars
  <1> QED
    BY <1>2, <1>3, <1>4 DEF TypeOK

\* The commands of SaveSigned keep the store in its type.
LEMMA DocStoreTypes ==
    ASSUME DocTypeOK, NEW t \in Tx, NEW a \in Answer
    PROVE  /\ HSetDoc(t, a) => DocTypeOK'
           /\ ExpireDoc(t) => DocTypeOK'
           /\ KeyExpires(t) => DocTypeOK'
           /\ UNCHANGED docVars => DocTypeOK'
  BY DEF DocTypeOK, HSetDoc, ExpireDoc, KeyExpires, docVars

\* A publish to CACHE keeps the stream in its type.
LEMMA StoreAnswerTypes ==
    ASSUME CacheTypeOK, NEW t \in Tx, NEW a \in Answer, StoreAnswer(t, a)
    PROVE  CacheTypeOK'
  <1> DEFINE m == [tx |-> t, n |-> sequence[t], answer |-> a]
  <1>1. m \in Message
    BY DEF CacheTypeOK, Message
  <1>2. cacheQ' \in Queue(Tx, Message)
    <2>1. cacheQ' = PublishTo(cacheQ, t, m)
      BY DEF StoreAnswer
    <2> QED
      BY <1>1, <2>1, QueueOps DEF CacheTypeOK
  <1>3. sequence' \in [Tx -> Nat] /\ answers' \in [Tx -> SUBSET Answer]
    BY DEF CacheTypeOK, StoreAnswer
  <1> QED
    BY <1>2, <1>3 DEF CacheTypeOK, StoreAnswer

\* What a sealer's step can change, typed.
SealerSide ==
    /\ faults \in 0 .. MaxFaults
    /\ sealQ \in Queue(Tx, Tx)
    /\ SealerTypeOK
    /\ CacheTypeOK

\* The sealers keep the types.
LEMMA SealerTypes ==
    ASSUME TypeOK, OfSealers(SealerNext)
    PROVE  TypeOK'
  <1>0. SealerSide
    BY DEF TypeOK, SignTypeOK, SealerSide
  <1> SUFFICES SealerSide'
    BY DEF TypeOK, SealerSide, SignTypeOK, DocTypeOK, FetchTypeOK,
           OfSealers, callVars, docVars, fetchVars
  <1>1. ASSUME UNCHANGED cacheVars PROVE CacheTypeOK'
    BY <1>0, <1>1 DEF SealerSide, CacheTypeOK, cacheVars
  <1>2. ASSUME NEW k, UNCHANGED faults \/ Fault(k) PROVE faults' \in 0 .. MaxFaults
    BY <1>0, <1>2, FaultsAssumption DEF SealerSide, Fault
  <1>3. ASSUME NEW t \in Tx PROVE (/\ Lease(sealQ, t) \in Queue(Tx, Tx)
                                 /\ Release(sealQ, t) \in Queue(Tx, Tx)
                                 /\ Remove(sealQ, t) \in Queue(Tx, Tx))
    BY <1>0, QueueOps DEF SealerSide
  <1>4. ASSUME NEW s \in Sealers, spc[s] \in {"seal", "publish", "ack"}
        PROVE  smsg[s] \in Tx
    BY <1>0, <1>4 DEF SealerSide, SealerTypeOK
  <1> USE DEF SealerTypeOK, SealerStates, SealerGoto
  <1>5. ASSUME NEW s \in Sealers, NEW state \in {"idle", "down"}, Unburdened(s, state),
               UNCHANGED session \/ session' = [session EXCEPT ![s] = FALSE]
        PROVE  SealerTypeOK'
    BY <1>0, <1>5 DEF SealerSide, Unburdened
  <1>6. CASE \E s \in Sealers : Start(s)
    BY <1>0, <1>1, <1>6 DEF SealerSide, Start
  <1>7. CASE \E s \in Sealers : StartWithoutSession(s)
    BY <1>0, <1>1, <1>2, <1>7 DEF SealerSide, StartWithoutSession
  <1>8. CASE \E s \in Sealers, t \in Tx : Fetch(s, t)
    BY <1>0, <1>1, <1>3, <1>8 DEF SealerSide, Fetch
  <1>9. CASE \E s \in Sealers : Seal(s)
    BY <1>0, <1>1, <1>4, <1>9 DEF SealerSide, Seal, SealReply, Answer
  <1>10. CASE \E s \in Sealers : SealRaises(s)
    BY <1>0, <1>1, <1>5, <1>10 DEF SealerSide, SealRaises
  <1>11. CASE \E s \in Sealers : PublishAnswer(s)
    <2>1. PICK s \in Sealers : PublishAnswer(s)
      BY <1>11
    <2>2. CacheTypeOK'
      BY <1>0, <1>4, <2>1, StoreAnswerTypes DEF SealerSide, PublishAnswer
    <2> QED
      BY <1>0, <1>4, <2>1, <2>2 DEF SealerSide, PublishAnswer
  <1>12. CASE \E s \in Sealers : PublishFails(s)
    <2>1. PICK s \in Sealers : PublishFails(s)
      BY <1>12
    <2>2. CacheTypeOK'
      BY <1>0, <1>1, <1>4, <2>1, StoreAnswerTypes DEF SealerSide, PublishFails
    <2> QED
      BY <1>0, <1>2, <1>5, <2>1, <2>2 DEF SealerSide, PublishFails
  <1>13. CASE \E s \in Sealers : AckSeal(s)
    BY <1>0, <1>1, <1>3, <1>4, <1>5, <1>13 DEF SealerSide, AckSeal
  <1>14. CASE \E s \in Sealers : AckSealLost(s)
    BY <1>0, <1>1, <1>2, <1>5, <1>14 DEF SealerSide, AckSealLost
  <1>15. CASE \E s \in Sealers : SealerCrash(s)
    BY <1>0, <1>1, <1>2, <1>5, <1>15 DEF SealerSide, SealerCrash
  <1>16. CASE \E t \in Tx : SealAckWait(t)
    BY <1>0, <1>1, <1>3, <1>16 DEF SealerSide, SealAckWait, sealerVars
  <1>17. CASE \E t \in Tx : SealOverrun(t)
    BY <1>0, <1>1, <1>2, <1>3, <1>17 DEF SealerSide, SealOverrun, sealerVars
  <1> QED
    BY <1>6, <1>7, <1>8, <1>9, <1>10, <1>11, <1>12, <1>13, <1>14, <1>15, <1>16, <1>17
    DEF OfSealers, SealerNext

\* What a step of the cache consumer can change, typed.
CacheSide ==
    /\ faults \in 0 .. MaxFaults
    /\ DocTypeOK
    /\ CacheTypeOK

\* The cache consumer keeps the types.
LEMMA CacheTypes ==
    ASSUME TypeOK, OfCaching(CacheNext)
    PROVE  TypeOK'
  <1>0. CacheSide
    BY DEF TypeOK, CacheSide
  <1> SUFFICES CacheSide'
    BY DEF TypeOK, CacheSide, SignTypeOK, SealerTypeOK, FetchTypeOK,
           OfCaching, callVars, sealerVars, fetchVars
  <1>1. ASSUME NEW k, UNCHANGED faults \/ Fault(k) PROVE faults' \in 0 .. MaxFaults
    BY <1>0, <1>1, FaultsAssumption DEF CacheSide, Fault
  <1>2. ASSUME UNCHANGED docVars PROVE DocTypeOK'
    BY <1>0, <1>2 DEF CacheSide, DocTypeOK, docVars
  <1>3. ASSUME NEW g \in Gateways, cstep[g] # "idle"
        PROVE  cmsg[g] \in Message /\ cmsg[g].tx \in Tx /\ cmsg[g].answer \in Answer
    BY <1>0, <1>3 DEF CacheSide, CacheTypeOK, Message
  <1>4. ASSUME NEW m \in Message PROVE (/\ Lease(cacheQ, m) \in Queue(Tx, Message)
                                      /\ Release(cacheQ, m) \in Queue(Tx, Message)
                                      /\ Remove(cacheQ, m) \in Queue(Tx, Message))
    BY <1>0, QueueOps DEF CacheSide, CacheTypeOK, Message
  <1>5. cacheQ.msgs \subseteq Message /\ cacheQ.leased \subseteq Message
    BY <1>0 DEF CacheSide, CacheTypeOK, Queue
  <1>6. ASSUME NEW g \in Gateways, cstep[g] # "idle",
               NEW step \in CacheSteps, CacheGoto(g, step),
               cached' \in {cached, cached \cup {cmsg[g].tx}}
        PROVE  CacheTypeOK'
    BY <1>0, <1>3, <1>6 DEF CacheSide, CacheTypeOK, CacheGoto, CacheSteps
  <1>7. ASSUME NEW g \in Gateways, CacheDone(g), cacheQ' \in Queue(Tx, Message)
        PROVE  CacheSide' <=> faults' \in 0 .. MaxFaults
    BY <1>0, <1>2, <1>7 DEF CacheSide, CacheTypeOK, CacheDone, CacheSteps
  <1>8. CASE \E t \in Tx : WindowLapse(t)
    <2>1. PICK t \in Tx : WindowLapse(t)
      BY <1>8
    <2>2. Forget(cacheQ, t) \in Queue(Tx, Message)
      BY <1>0 DEF CacheSide, CacheTypeOK, Queue, Forget
    <2> QED
      BY <1>0, <1>1, <1>2, <2>1, <2>2 DEF CacheSide, CacheTypeOK, WindowLapse
  <1>9. CASE \E g \in Gateways : \E m \in cacheQ.msgs : Deliver(g, m)
    BY <1>0, <1>1, <1>2, <1>4, <1>5, <1>9 DEF CacheSide, CacheTypeOK, Deliver
  <1>10. CASE \E g \in Gateways : \E m \in inbox[g] : Receive(g, m)
    BY <1>0, <1>1, <1>2, <1>10 DEF CacheSide, CacheTypeOK, CacheSteps, Receive
  <1>11. CASE \E g \in Gateways : HSet(g) \/ HSetFails(g)
    BY <1>0, <1>1, <1>2, <1>3, <1>6, <1>11, DocStoreTypes
    DEF CacheSide, HSet, HSetFails, CacheSteps
  <1>12. CASE \E g \in Gateways : SetTTL(g) \/ SetTTLFails(g)
    BY <1>0, <1>1, <1>2, <1>3, <1>6, <1>12, DocStoreTypes
    DEF CacheSide, SetTTL, SetTTLFails, CacheSteps
  <1>13. CASE \E g \in Gateways : NakFails(g)
    BY <1>0, <1>1, <1>2, <1>6, <1>13 DEF CacheSide, NakFails, CacheSteps
  <1>14. CASE \E g \in Gateways : Nak(g) \/ AckCache(g)
    BY <1>0, <1>3, <1>4, <1>7, <1>14 DEF CacheSide, Nak, AckCache
  <1>15. CASE \E g \in Gateways : AckCacheLost(g)
    BY <1>0, <1>1, <1>7, <1>15 DEF CacheSide, CacheTypeOK, AckCacheLost
  <1>16. CASE \E m \in cacheQ.msgs : CacheAckWait(m) \/ CacheOverrun(m)
    BY <1>0, <1>1, <1>2, <1>4, <1>5, <1>16
    DEF CacheSide, CacheTypeOK, CacheAckWait, CacheOverrun
  <1> QED
    BY <1>8, <1>9, <1>10, <1>11, <1>12, <1>13, <1>14, <1>15, <1>16
    DEF OfCaching, CacheNext

\* PDFGetSigned keeps the types.
LEMMA FetchTypes ==
    ASSUME TypeOK, OfFetching(FetchNext)
    PROVE  TypeOK'
  <1>0. faults \in 0 .. MaxFaults /\ FetchTypeOK /\ DocTypeOK
    BY DEF TypeOK
  <1> SUFFICES faults' \in 0 .. MaxFaults /\ FetchTypeOK'
    BY DEF TypeOK, SignTypeOK, DocTypeOK, CacheTypeOK, SealerTypeOK,
           OfFetching, callVars, docVars, cacheVars, sealerVars
  <1>1. PICK c \in Gets :
            \/ \E g \in Gateways, t \in Tx : PDFGetSigned(g, c, t)
            \/ GetSigned(c)
            \/ GetSignedFails(c)
            \/ IncFetching(c)
            \/ IncFetchingFails(c)
    BY DEF OfFetching, FetchNext
  <1>2. faults' \in 0 .. MaxFaults
    BY <1>0, <1>1, FaultsAssumption
    DEF Fault, PDFGetSigned, GetSigned, GetSignedFails, IncFetching, IncFetchingFails
  <1> USE DEF FetchTypeOK, GetStates, FetchGoto
  <1>3. CASE \E g \in Gateways, t \in Tx : PDFGetSigned(g, c, t)
    BY <1>0, <1>2, <1>3 DEF PDFGetSigned
  <1>4. CASE GetSigned(c)
    BY <1>0, <1>2, <1>4 DEF GetSigned, DocTypeOK
  <1>5. CASE GetSignedFails(c)
    BY <1>0, <1>2, <1>5 DEF GetSignedFails
  <1>6. CASE IncFetching(c)
    BY <1>0, <1>2, <1>6 DEF IncFetching
  <1>7. CASE IncFetchingFails(c)
    BY <1>0, <1>2, <1>7 DEF IncFetchingFails
  <1> QED
    BY <1>1, <1>3, <1>4, <1>5, <1>6, <1>7

\* The crash of a gateway keeps the types.
LEMMA CrashTypes ==
    ASSUME TypeOK, NEW g \in Gateways, GatewayCrash(g)
    PROVE  TypeOK'
  <1>1. faults' \in 0 .. MaxFaults
    BY FaultsAssumption DEF TypeOK, GatewayCrash, Fault
  <1>2. SignTypeOK'
    BY DEF TypeOK, SignTypeOK, SignStates, GatewayCrash, SignCrash
  <1>3. CacheTypeOK' /\ DocTypeOK'
    BY DEF TypeOK, CacheTypeOK, CacheSteps, DocTypeOK, GatewayCrash, CacheCrash, docVars
  <1>4. FetchTypeOK'
    BY DEF TypeOK, FetchTypeOK, GetStates, GatewayCrash, FetchCrash
  <1>5. SealerTypeOK'
    BY DEF TypeOK, SealerTypeOK, GatewayCrash, sealerVars
  <1> QED
    BY <1>1, <1>2, <1>3, <1>4, <1>5 DEF TypeOK

\* The end of a document keeps the types.
LEMMA ExpiryTypes ==
    ASSUME TypeOK, NEW t \in Tx, Expiry(t)
    PROVE  TypeOK'
  <1>1. DocTypeOK'
    BY DEF TypeOK, DocTypeOK, Expiry, KeyExpires
  <1> QED
    BY <1>1 DEF TypeOK, SignTypeOK, CacheTypeOK, SealerTypeOK, FetchTypeOK,
                Expiry, callVars, sealerVars, cacheVars, fetchVars

\* TypeOK is inductive.
LEMMA TypeStep == TypeOK /\ [Next]_vars => TypeOK'
  <1> SUFFICES ASSUME TypeOK, [Next]_vars PROVE TypeOK'
    OBVIOUS
  <1>1. CASE Next
    BY <1>1, SignTypes, SealerTypes, CacheTypes, FetchTypes, ExpiryTypes, CrashTypes DEF Next
  <1>2. CASE UNCHANGED vars
    BY <1>2 DEF TypeOK, SignTypeOK, DocTypeOK, CacheTypeOK, SealerTypeOK, FetchTypeOK,
                vars, callVars, docVars, cacheVars, sealerVars, fetchVars
  <1> QED
    BY <1>1, <1>2

\* Every variable of the pipeline stays in its type: no handler reaches a step
\* without the message it works on, and no document is stored that no sealer
\* could have answered.
THEOREM TypeCorrect == Spec => []TypeOK
  BY TypeInit, TypeStep, PTL DEF Spec

=============================================================================
