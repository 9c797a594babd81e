---------------------------- MODULE Custody_proofs ----------------------------
(***************************************************************************)
(* Nothing the SEAL stream accepts is lost.  The argument follows the      *)
(* request: each stage lets go of it only when the next one has it.  And   *)
(* the signing metric accounts for what was accepted.                      *)
(***************************************************************************)
EXTENDS EduSeal_proofs, FiniteSetTheorems

\* Nothing is in anyone's custody at the start.
LEMMA CustodyInit == Init => Custody
  BY DEF Init, SignInit, SealerInit, CacheInit, Custody, CountedIsAccepted,
         AcceptedIsKept, AckingIsAnswered, DuplicateIsAnswered, AnsweredIsKept,
         AckingIsCached, Accepted, EmptyQueue

\* The gateway's calls and the way of a request into the SEAL stream.
LEMMA CustodySign ==
    ASSUME TypeOK, Custody, OfSigning(SignNext)
    PROVE  Custody'
  <1>1. PICK t \in Tx :
            \/ RejectEmpty(t)
            \/ \E g \in Gateways : PDFSign(g, t)
            \/ PublishAcked(t)
            \/ PublishTimedOut(t)
            \/ IncSigning(t)
            \/ IncResent(t)
            \/ IncSigningFails(t)
            \/ StoreRequest(t)
            \/ DropRequest(t)
    BY DEF OfSigning, SignNext
  <1>2. (AckingIsAnswered /\ DuplicateIsAnswered
         /\ ("nak" \notin Faults => AnsweredIsKept /\ AckingIsCached))'
    BY DEF OfSigning, Custody, sealerVars, cacheVars, AckingIsAnswered,
           DuplicateIsAnswered, AnsweredIsKept, AckingIsCached, InCacheQ
  <1>3. UNCHANGED answers
    BY DEF OfSigning, cacheVars
  <1>4. CASE StoreRequest(t)
    <2>1. /\ Accepted \subseteq Accepted' /\ sealQ.msgs \subseteq sealQ'.msgs
          /\ Accepted' = Accepted \/ (Accepted' = Accepted \cup {t} /\ t \in sealQ'.msgs)
      BY <1>4 DEF StoreRequest, PublishTo, Accepted
    <2> QED
      BY <1>2, <1>3, <1>4, <2>1 DEF Custody, CountedIsAccepted, AcceptedIsKept, StoreRequest
  <1>5. CASE UNCHANGED sealQ
    <2>1. CountedIsAccepted'
      BY <1>1, <1>5 DEF Custody, CountedIsAccepted, Accepted, TypeOK, SignTypeOK, SignGoto,
             RejectEmpty, PDFSign, PublishAcked, PublishTimedOut, IncSigning, IncResent,
             IncSigningFails, StoreRequest, DropRequest
    <2> QED
      BY <1>2, <1>3, <1>5, <2>1 DEF Custody, AcceptedIsKept, Accepted
  <1> QED
    BY <1>1, <1>4, <1>5 DEF RejectEmpty, PDFSign, PublishAcked, PublishTimedOut,
           IncSigning, IncResent, IncSigningFails, DropRequest

\* Publishing an answer keeps what CACHE has and leaves the transaction
\* answered, whether the server stores the message or takes it for a
\* duplicate.
LEMMA StoreAnswerEffect ==
    ASSUME TypeOK, DuplicateIsAnswered,
           NEW t \in Tx, NEW a, StoreAnswer(t, a)
    PROVE  /\ answers'[t] # {}
           /\ \A u \in Tx : answers[u] # {} => answers'[u] # {}
           /\ \A u \in Tx : InCacheQ(u) => InCacheQ(u)'
           /\ \A u \in Tx : answers'[u] # {} => answers[u] # {} \/ InCacheQ(u)'
           /\ DuplicateIsAnswered'
  <1> DEFINE m == [tx |-> t, n |-> sequence[t], answer |-> a]
  <1>0. answers \in [Tx -> SUBSET Answer] /\ cacheQ.ids \subseteq Tx
    BY DEF TypeOK, CacheTypeOK, Queue
  <1>1. CASE t \in cacheQ.ids
    BY <1>0, <1>1 DEF StoreAnswer, PublishTo, DuplicateIsAnswered, InCacheQ
  <1>2. CASE t \notin cacheQ.ids
    <2>1. /\ cacheQ'.msgs = cacheQ.msgs \cup {m}
          /\ cacheQ'.ids = cacheQ.ids \cup {t}
          /\ answers' = [answers EXCEPT ![t] = @ \cup {a}]
      BY <1>2 DEF StoreAnswer, PublishTo
    <2>2. m.tx = t
      OBVIOUS
    <2> HIDE DEF m
    <2> QED
      BY <1>0, <2>1, <2>2 DEF DuplicateIsAnswered, InCacheQ
  <1> QED
    BY <1>1, <1>2

\* A step of a sealer that neither publishes nor acknowledges.
QuietStep ==
    /\ UNCHANGED cacheVars
    /\ sealQ'.msgs = sealQ.msgs
    /\ \A s \in Sealers : spc'[s] = "ack" => spc[s] = "ack" /\ smsg'[s] = smsg[s]

\* A sealer lets go of a request only after its answer is stored.
LEMMA CustodySealer ==
    ASSUME TypeOK, Custody, OfSealers(SealerNext)
    PROVE  Custody'
  <1>0. /\ spc \in [Sealers -> SealerStates] /\ smsg \in [Sealers -> Tx \cup {None}]
        /\ \A s \in Sealers : spc[s] \in {"seal", "publish", "ack"} => smsg[s] \in Tx
        /\ sealQ.ids \subseteq Tx
    BY DEF TypeOK, SealerTypeOK, SignTypeOK, Queue
  <1>1. UNCHANGED <<signpc, cstep, cmsg, cached>>
    BY DEF OfSealers, callVars, SealerNext, Start, StartWithoutSession, Fetch, Seal,
           SealRaises, PublishAnswer, PublishFails, AckSeal, AckSealLost, SealerCrash,
           SealAckWait, SealOverrun, StoreAnswer, cacheVars
  <1>2. UNCHANGED Accepted
    BY DEF OfSealers, callVars, SealerNext, Start, StartWithoutSession, Fetch, Seal,
           SealRaises, PublishAnswer, PublishFails, AckSeal, AckSealLost, SealerCrash,
           SealAckWait, SealOverrun, Accepted, Lease, Release, Remove
  <1>3. CountedIsAccepted'
    BY <1>1, <1>2 DEF Custody, CountedIsAccepted
  <1>4. ("nak" \notin Faults => AckingIsCached)'
    BY <1>1 DEF Custody, AckingIsCached
  <1>5. CASE \E s \in Sealers : PublishAnswer(s) \/ (PublishFails(s) /\ ~UNCHANGED cacheVars)
    <2>1. PICK s \in Sealers : PublishAnswer(s) \/ (PublishFails(s) /\ ~UNCHANGED cacheVars)
      BY <1>5
    <2>2. spc[s] = "publish" /\ StoreAnswer(smsg[s], sreply[s]) /\ UNCHANGED sealQ
      BY <2>1 DEF PublishAnswer, PublishFails
    <2>3. /\ answers'[smsg[s]] # {}
          /\ \A u \in Tx : answers[u] # {} => answers'[u] # {}
          /\ \A u \in Tx : InCacheQ(u) => InCacheQ(u)'
          /\ \A u \in Tx : answers'[u] # {} => answers[u] # {} \/ InCacheQ(u)'
          /\ DuplicateIsAnswered'
      BY <1>0, <2>2, StoreAnswerEffect DEF Custody
    <2>4. AcceptedIsKept'
      BY <1>0, <2>2, <2>3 DEF Custody, AcceptedIsKept, Accepted
    <2>5. ("nak" \notin Faults => AnsweredIsKept)'
      BY <1>1, <2>3 DEF Custody, AnsweredIsKept
    <2>6. AckingIsAnswered'
      BY <1>0, <2>1, <2>3 DEF Custody, AckingIsAnswered, PublishAnswer, PublishFails,
             SealerGoto, Unburdened, SealerStates
    <2> QED
      BY <1>3, <1>4, <2>3, <2>4, <2>5, <2>6 DEF Custody
  <1>6. CASE \E s \in Sealers : AckSeal(s)
    <2>1. PICK s \in Sealers : AckSeal(s)
      BY <1>6
    <2>2. UNCHANGED <<answers, cacheQ>>
      BY <2>1 DEF AckSeal, cacheVars
    <2>3. answers[smsg[s]] # {}
      BY <2>1 DEF Custody, AckingIsAnswered, AckSeal
    <2>4. \A t \in sealQ.msgs : t \in sealQ'.msgs \/ t = smsg[s]
      BY <2>1 DEF AckSeal, Remove
    <2>5. AcceptedIsKept'
      BY <1>2, <2>2, <2>3, <2>4 DEF Custody, AcceptedIsKept
    <2>6. AckingIsAnswered'
      BY <1>0, <2>1, <2>2 DEF Custody, AckingIsAnswered, AckSeal, Unburdened, SealerGoto
    <2> QED
      BY <1>1, <1>3, <1>4, <2>2, <2>5, <2>6
      DEF Custody, DuplicateIsAnswered, AnsweredIsKept, InCacheQ
  <1>7. CASE QuietStep
    BY <1>1, <1>2, <1>3, <1>4, <1>7
    DEF QuietStep, Custody, AcceptedIsKept, AckingIsAnswered, DuplicateIsAnswered,
        AnsweredIsKept, InCacheQ, cacheVars
  <1> USE DEF QuietStep, SealerGoto, SealerStates
  <1>8. ASSUME NEW s \in Sealers, NEW state \in {"idle", "down"},
               Unburdened(s, state), UNCHANGED <<cacheVars, sealQ>>
        PROVE  QuietStep
    BY <1>0, <1>8 DEF Unburdened
  <1>9. CASE \E s \in Sealers : Start(s) \/ StartWithoutSession(s) \/ Seal(s)
    BY <1>0, <1>7, <1>9 DEF Start, StartWithoutSession, Seal
  <1>10. CASE \E s \in Sealers, t \in Tx : Fetch(s, t)
    BY <1>0, <1>7, <1>10 DEF Fetch, Lease
  <1>11. CASE \E s \in Sealers : \/ SealRaises(s) \/ AckSealLost(s) \/ SealerCrash(s)
                                 \/ (PublishFails(s) /\ UNCHANGED cacheVars)
    BY <1>7, <1>8, <1>11 DEF SealRaises, AckSealLost, SealerCrash, PublishFails
  <1>12. CASE \E t \in Tx : SealAckWait(t) \/ SealOverrun(t)
    BY <1>7, <1>12 DEF SealAckWait, SealOverrun, Release, sealerVars
  <1> QED
    BY <1>5, <1>6, <1>9, <1>10, <1>11, <1>12 DEF OfSealers, SealerNext

\* The cache consumer lets go of an answer only after SaveSigned, unless a Nak
\* fails to be sent.
LEMMA CustodyCaching ==
    ASSUME TypeOK, Custody, OfCaching(CacheNext)
    PROVE  Custody'
  <1>0. /\ cstep \in [Gateways -> CacheSteps] /\ cmsg \in [Gateways -> Message \cup {None}]
        /\ cached \subseteq Tx
        /\ \A g \in Gateways : cstep[g] # "idle" => cmsg[g].tx \in Tx
    BY DEF TypeOK, CacheTypeOK, Message
  <1>1. UNCHANGED <<signpc, sealQ, spc, smsg, answers>>
    BY DEF OfCaching, callVars, sealerVars, CacheNext, WindowLapse, Deliver, Receive,
           HSet, HSetFails, SetTTL, SetTTLFails, Nak, NakFails, AckCache, AckCacheLost,
           CacheAckWait, CacheOverrun, CacheGoto, CacheDone
  <1>2. cacheQ'.ids \subseteq cacheQ.ids
    BY DEF OfCaching, CacheNext, WindowLapse, Deliver, Receive, HSet, HSetFails, SetTTL,
           SetTTLFails, Nak, NakFails, AckCache, AckCacheLost, CacheAckWait, CacheOverrun,
           CacheGoto, CacheDone, Forget, Lease, Release, Remove
  <1>3. (CountedIsAccepted /\ AcceptedIsKept /\ AckingIsAnswered /\ DuplicateIsAnswered)'
    BY <1>1, <1>2 DEF Custody, CountedIsAccepted, AcceptedIsKept, AckingIsAnswered,
                      DuplicateIsAnswered, Accepted
  <1> SUFFICES ASSUME "nak" \notin Faults PROVE (AnsweredIsKept /\ AckingIsCached)'
    BY <1>3 DEF Custody
  <1>4. AnsweredIsKept /\ AckingIsCached
    BY DEF Custody
  <1>5. ASSUME cached \subseteq cached',
               \A u \in Tx : InCacheQ(u) => InCacheQ(u)' \/ u \in cached'
        PROVE  AnsweredIsKept'
    BY <1>1, <1>4, <1>5 DEF AnsweredIsKept
  <1>6. ASSUME NEW g \in Gateways, NEW step \in CacheSteps \ {"ack"}, CacheGoto(g, step)
        PROVE  (\A h \in Gateways : cstep'[h] = "ack" => cstep[h] = "ack" /\ cmsg'[h] = cmsg[h])
    BY <1>0, <1>6 DEF CacheGoto
  <1>7. ASSUME NEW g \in Gateways, CacheDone(g)
        PROVE  (\A h \in Gateways : cstep'[h] = "ack" => cstep[h] = "ack" /\ cmsg'[h] = cmsg[h])
    BY <1>0, <1>7 DEF CacheDone
  <1>8. ASSUME cached \subseteq cached', cacheQ'.msgs = cacheQ.msgs,
               \A h \in Gateways : cstep'[h] = "ack" => cstep[h] = "ack" /\ cmsg'[h] = cmsg[h]
        PROVE  (AnsweredIsKept /\ AckingIsCached)'
    BY <1>4, <1>5, <1>8 DEF InCacheQ, AckingIsCached
  <1>9. CASE \E t \in Tx : WindowLapse(t)
    BY <1>8, <1>9 DEF WindowLapse, Forget
  <1>10. CASE \E g \in Gateways : \E m \in cacheQ.msgs : Deliver(g, m)
    BY <1>8, <1>10 DEF Deliver, Lease
  <1>11. CASE \E g \in Gateways : \E m \in inbox[g] : Receive(g, m)
    <2>1. PICK g \in Gateways : \E m \in inbox[g] : Receive(g, m)
      BY <1>11
    <2>2. \A h \in Gateways : cstep'[h] = "ack" => cstep[h] = "ack" /\ cmsg'[h] = cmsg[h]
      BY <1>0, <2>1 DEF Receive
    <2> QED
      BY <1>8, <2>1, <2>2 DEF Receive
  <1>12. CASE \E g \in Gateways : HSet(g) \/ HSetFails(g) \/ SetTTLFails(g)
    <2>1. PICK g \in Gateways : HSet(g) \/ HSetFails(g) \/ SetTTLFails(g)
      BY <1>12
    <2>2. /\ UNCHANGED <<cacheQ, cached>>
          /\ \E step \in CacheSteps \ {"ack"} : CacheGoto(g, step)
      BY <2>1 DEF HSet, HSetFails, SetTTLFails, CacheGoto, CacheSteps
    <2> QED
      BY <1>6, <1>8, <2>2
  <1>13. CASE \E g \in Gateways : SetTTL(g)
    <2>1. PICK g \in Gateways : SetTTL(g)
      BY <1>13
    <2>2. /\ cstep' = [cstep EXCEPT ![g] = "ack"] /\ UNCHANGED <<cacheQ, cmsg>>
          /\ cached' = cached \cup {cmsg[g].tx}
      BY <2>1 DEF SetTTL, CacheGoto
    <2> QED
      BY <1>0, <1>4, <1>5, <2>2 DEF InCacheQ, AckingIsCached
  <1>14. CASE \E g \in Gateways : Nak(g) \/ AckCacheLost(g)
    <2>1. PICK g \in Gateways : Nak(g) \/ AckCacheLost(g)
      BY <1>14
    <2>2. CacheDone(g) /\ cacheQ'.msgs = cacheQ.msgs
      BY <2>1 DEF Nak, AckCacheLost, Release
    <2> QED
      BY <1>7, <1>8, <2>2 DEF CacheDone
  <1>15. CASE \E g \in Gateways : AckCache(g)
    <2>1. PICK g \in Gateways : AckCache(g)
      BY <1>15
    <2>2. cmsg[g].tx \in cached /\ UNCHANGED cached /\ CacheDone(g)
      BY <1>4, <2>1 DEF AckingIsCached, AckCache, CacheDone
    <2>3. \A m \in cacheQ.msgs : m \in cacheQ'.msgs \/ m = cmsg[g]
      BY <2>1 DEF AckCache, Remove
    <2>4. AnsweredIsKept'
      BY <1>5, <2>2, <2>3 DEF InCacheQ
    <2> QED
      BY <1>4, <1>7, <2>2, <2>4 DEF AckingIsCached
  <1>16. CASE \E m \in cacheQ.msgs : CacheAckWait(m) \/ CacheOverrun(m)
    BY <1>8, <1>16 DEF CacheAckWait, CacheOverrun, Release
  <1>17. ~ \E g \in Gateways : NakFails(g)
    BY DEF NakFails, Fault
  <1> QED
    BY <1>9, <1>10, <1>11, <1>12, <1>13, <1>14, <1>15, <1>16, <1>17 DEF OfCaching, CacheNext

\* A crash of a gateway loses its memory and no more.
LEMMA CustodyCrash ==
    ASSUME TypeOK, Custody, NEW g \in Gateways, GatewayCrash(g)
    PROVE  Custody'
  <1>1. UNCHANGED <<sealQ, spc, smsg, cacheQ, answers, cached>>
    BY DEF GatewayCrash, SignCrash, CacheCrash, sealerVars
  <1>2. CountedIsAccepted'
    BY <1>1 DEF GatewayCrash, SignCrash, Custody, CountedIsAccepted, Accepted
  <1>3. ("nak" \notin Faults => AckingIsCached)'
    BY <1>1 DEF GatewayCrash, CacheCrash, Custody, AckingIsCached, TypeOK, CacheTypeOK
  <1> QED
    BY <1>1, <1>2, <1>3 DEF Custody, AcceptedIsKept, AckingIsAnswered,
           DuplicateIsAnswered, AnsweredIsKept, InCacheQ, Accepted

\* Custody is inductive.
LEMMA CustodyStep == TypeOK /\ Custody /\ [Next]_vars => Custody'
  <1> SUFFICES ASSUME TypeOK, Custody, [Next]_vars PROVE Custody'
    OBVIOUS
  <1>1. CASE OfSigning(SignNext) \/ OfSealers(SealerNext) \/ OfCaching(CacheNext)
    BY <1>1, CustodySign, CustodySealer, CustodyCaching
  <1>2. CASE \E g \in Gateways : GatewayCrash(g)
    BY <1>2, CustodyCrash
  <1>3. CASE UNCHANGED <<callVars, sealQ, sealerVars, cacheVars>>
    BY <1>3 DEF callVars, sealerVars, cacheVars, Custody, CountedIsAccepted, AcceptedIsKept,
           AckingIsAnswered, DuplicateIsAnswered, AnsweredIsKept, AckingIsCached, InCacheQ,
           Accepted
  <1> QED
    BY <1>1, <1>2, <1>3 DEF Next, vars, Expiry, OfFetching

\* At every moment some stage of the pipeline answers for each request.
THEOREM CustodyHolds == Spec => []Custody
  BY CustodyInit, CustodyStep, TypeCorrect, PTL DEF Spec

\* A request the SEAL stream accepted, and every request a client got an ok
\* for, is still to be sealed, still to be cached, or has been cached; the
\* callback of cache_stream.go breaks this only by its Ack after a Nak that
\* could not be sent.
THEOREM RequestsAreNotLost == Spec => []NoLostRequest
  <1>1. Custody => NoLostRequest
    BY DEF Custody, CountedIsAccepted, AcceptedIsKept, AnsweredIsKept, NoLostRequest
  <1> QED
    BY <1>1, CustodyHolds, PTL

-----------------------------------------------------------------------------
(* The signing metric *)

\* The sets the metric is compared with are finite and made of calls.
LEMMA AccountedSets ==
    ASSUME TypeOK, CountedIsAccepted, IsFiniteSet(Accepted)
    PROVE  /\ IsFiniteSet(Replied) /\ IsFiniteSet(Past)
           /\ Cardinality(Replied) \in Nat /\ Cardinality(Past) \in Nat
           /\ Past \subseteq Accepted
<1>1. Replied \subseteq Accepted /\ Past \subseteq Accepted
  BY DEF Replied, Past, CountedIsAccepted
<1> QED
  BY <1>1, FS_Subset, FS_CardinalityType

\* A step that counts nothing takes nothing from the accounts.
LEMMA AccountsKept ==
    ASSUME TypeOK, TypeOK', CountedIsAccepted, CountedIsAccepted', Accounts, IsFiniteSet(Accepted)',
           signings' = signings, faults <= faults', Replied' = Replied, Past \subseteq Past'
    PROVE  Accounts'
<1>1. Cardinality(Past) \in Nat
  BY AccountedSets DEF Accounts
<1>2. IsFiniteSet(Past)' /\ Cardinality(Past)' \in Nat
  <2>1. Past' \subseteq Accepted'
    BY DEF Past
  <2> QED
    BY <2>1, FS_Subset, FS_CardinalityType
<1>3. Cardinality(Past) <= Cardinality(Past)'
  BY <1>2, FS_Subset
<1>4. signings \in Nat /\ faults \in Nat /\ faults' \in Nat
  BY FaultsAssumption DEF TypeOK, SignTypeOK
<1> QED
  BY <1>1, <1>2, <1>3, <1>4 DEF Accounts

\* The three ways an increment ends.
LEMMA AccountsCount ==
    ASSUME TypeOK, CountedIsAccepted, Accounts, NEW t \in Tx,
           IncSigning(t) \/ IncResent(t) \/ IncSigningFails(t)
    PROVE  Accounts'
<1>1. /\ signpc[t] = "counting" /\ sealQ' = sealQ /\ t \in Accepted
      /\ signpc \in [Tx -> SignStates] /\ signings \in Nat /\ faults \in Nat /\ Accepted \subseteq Tx
  BY FaultsAssumption DEF IncSigning, IncResent, IncSigningFails, CountedIsAccepted, TypeOK, SignTypeOK,
     Accepted, Queue
<1>2. t \notin Replied /\ t \notin Past /\ Accepted' = Accepted
  BY <1>1 DEF Replied, Past, Accepted
<1>3. /\ IsFiniteSet(Replied) /\ IsFiniteSet(Past)
      /\ Cardinality(Replied) \in Nat /\ Cardinality(Past) \in Nat
  BY AccountedSets DEF Accounts
<1>4. /\ Cardinality(Replied \cup {t}) = Cardinality(Replied) + 1
      /\ Cardinality(Past \cup {t}) = Cardinality(Past) + 1
  BY <1>2, <1>3, FS_AddElement
<1>5. Cardinality(Replied) <= signings /\ signings <= Cardinality(Past) + faults /\ IsFiniteSet(Accepted)
  BY DEF Accounts
<1>6. CASE IncSigning(t)
  <2>1. signpc' = [signpc EXCEPT ![t] = "ok"] /\ signings' = signings + 1 /\ faults' = faults
    BY <1>6 DEF IncSigning, SignGoto
  <2>2. Replied' = Replied \cup {t} /\ Past' = Past \cup {t}
    BY <1>1, <1>2, <2>1 DEF Replied, Past
  <2> QED
    BY <1>1, <1>2, <1>3, <1>4, <1>5, <2>1, <2>2 DEF Accounts
<1>7. CASE IncResent(t)
  <2>1. signpc' = signpc /\ signings' = signings + 1 /\ faults' = faults + 1
    BY <1>7 DEF IncResent, Fault
  <2>2. Replied' = Replied /\ Past' = Past
    BY <1>2, <2>1 DEF Replied, Past
  <2> QED
    BY <1>1, <1>2, <1>3, <1>5, <2>1, <2>2 DEF Accounts
<1>8. CASE IncSigningFails(t)
  <2>1. /\ signpc' = [signpc EXCEPT ![t] = "error"] /\ faults' = faults + 1
        /\ signings' \in {signings, signings + 1}
    BY <1>8 DEF IncSigningFails, SignGoto, Fault
  <2>2. Replied' = Replied /\ Past' = Past \cup {t}
    BY <1>1, <1>2, <2>1 DEF Replied, Past
  <2> QED
    BY <1>1, <1>2, <1>3, <1>4, <1>5, <2>1, <2>2 DEF Accounts
<1> QED
  BY <1>6, <1>7, <1>8

\* The fault budget is only spent.
LEMMA FaultsSpent ==
    ASSUME TypeOK, [Next]_vars
    PROVE  faults <= faults'
<1>1. faults \in Nat
  BY FaultsAssumption DEF TypeOK
<1> SUFFICES faults' = faults \/ faults' = faults + 1
  BY <1>1
<1> USE DEF Fault
<1>2. CASE OfSigning(SignNext)
  BY <1>2 DEF OfSigning, SignNext, RejectEmpty, PDFSign, PublishAcked, PublishTimedOut, IncSigning, IncResent,
     IncSigningFails, StoreRequest, DropRequest
<1>3. CASE OfSealers(SealerNext)
  BY <1>3 DEF OfSealers, SealerNext, Start, StartWithoutSession, Fetch, Seal, SealRaises, PublishAnswer,
     PublishFails, AckSeal, AckSealLost, SealerCrash, SealAckWait, SealOverrun
<1>4. CASE OfCaching(CacheNext)
  BY <1>4 DEF OfCaching, CacheNext, WindowLapse, Deliver, Receive, HSet, HSetFails, SetTTL, SetTTLFails, Nak,
     NakFails, AckCache, AckCacheLost, CacheAckWait, CacheOverrun
<1>5. CASE OfFetching(FetchNext)
  BY <1>5 DEF OfFetching, FetchNext, PDFGetSigned, GetSigned, GetSignedFails, IncFetching, IncFetchingFails
<1>6. CASE (\E t \in Tx : Expiry(t)) \/ (\E g \in Gateways : GatewayCrash(g)) \/ UNCHANGED vars
  BY <1>6 DEF Expiry, GatewayCrash, vars
<1> QED
  BY <1>2, <1>3, <1>4, <1>5, <1>6 DEF Next

LEMMA AccountsStep == TypeOK /\ TypeOK' /\ Custody /\ Custody' /\ Accounts /\ [Next]_vars => Accounts'
<1> SUFFICES ASSUME TypeOK, TypeOK', Custody, Custody', Accounts, [Next]_vars
             PROVE  Accounts'
  OBVIOUS
<1>1. CountedIsAccepted /\ CountedIsAccepted' /\ faults <= faults'
  BY FaultsSpent DEF Custody
<1>2. signpc \in [Tx -> SignStates] /\ IsFiniteSet(Accepted)
  BY DEF TypeOK, SignTypeOK, Accounts
<1>3. CASE OfSigning(SignNext)
  <2>1. PICK t \in Tx :
            \/ RejectEmpty(t)
            \/ \E g \in Gateways : PDFSign(g, t)
            \/ PublishAcked(t)
            \/ PublishTimedOut(t)
            \/ IncSigning(t)
            \/ IncResent(t)
            \/ IncSigningFails(t)
            \/ StoreRequest(t)
            \/ DropRequest(t)
    BY <1>3 DEF OfSigning, SignNext
  <2>2. CASE IncSigning(t) \/ IncResent(t) \/ IncSigningFails(t)
    BY <1>1, <2>2, AccountsCount
  <2>3. CASE StoreRequest(t)
    <3>1. UNCHANGED <<signpc, signings>> /\ (Accepted' = Accepted \/ Accepted' = Accepted \cup {t})
      BY <2>3 DEF StoreRequest, PublishTo, Accepted
    <3>2. IsFiniteSet(Accepted)'
      BY <1>2, <3>1, FS_AddElement
    <3>3. Replied' = Replied /\ Past \subseteq Past'
      BY <3>1 DEF Replied, Past
    <3> QED
      BY <1>1, <3>1, <3>2, <3>3, AccountsKept
  <2>4. CASE RejectEmpty(t) \/ (\E g \in Gateways : PDFSign(g, t)) \/ PublishAcked(t) \/ PublishTimedOut(t)
             \/ DropRequest(t)
    <3>1. /\ UNCHANGED <<sealQ, signings>>
          /\ signpc' = signpc \/ \E state \in {"publishing", "counting", "error"} :
                signpc[t] \in {"new", "publishing"} /\ signpc' = [signpc EXCEPT ![t] = state]
      BY <2>4 DEF RejectEmpty, PDFSign, PublishAcked, PublishTimedOut, DropRequest, SignGoto
    <3>2. Accepted' = Accepted
      BY <3>1 DEF Accepted
    <3>3. \A u \in Tx : \/ signpc'[u] = signpc[u]
                      \/ /\ signpc[u] \in {"new", "publishing"}
                         /\ signpc'[u] \in {"publishing", "counting", "error"}
      BY <1>2, <3>1
    <3>4. Accepted \subseteq Tx
      BY DEF TypeOK, SignTypeOK, Accepted, Queue
    <3>5. Replied' = Replied /\ Past \subseteq Past'
      BY <3>2, <3>3, <3>4 DEF Replied, Past
    <3> QED
      BY <1>1, <1>2, <3>1, <3>2, <3>5, AccountsKept
  <2> QED
    BY <2>1, <2>2, <2>3, <2>4
<1>4. CASE UNCHANGED <<signpc, signings, Accepted>>
  <2>1. Replied' = Replied /\ Past' = Past
    BY <1>4 DEF Replied, Past
  <2> QED
    BY <1>1, <1>2, <1>4, <2>1, AccountsKept
<1>5. CASE OfSealers(SealerNext)
  <2>1. UNCHANGED Accepted
    BY <1>5 DEF OfSealers, SealerNext, Start, StartWithoutSession, Fetch, Seal,
           SealRaises, PublishAnswer, PublishFails, AckSeal, AckSealLost, SealerCrash,
           SealAckWait, SealOverrun, Accepted, Lease, Release, Remove
  <2> QED
    BY <1>4, <1>5, <2>1 DEF OfSealers, callVars
<1>6. CASE \E g \in Gateways : GatewayCrash(g)
  <2>1. PICK g \in Gateways : GatewayCrash(g)
    BY <1>6
  <2>2. UNCHANGED <<sealQ, signings>>
    BY <2>1 DEF GatewayCrash, SignCrash
  <2>3. \A t \in Tx : signpc'[t] = signpc[t] \/ (InFlight(t) /\ signpc'[t] = "error")
    BY <2>1 DEF GatewayCrash, SignCrash
  <2>4. Accepted' = Accepted /\ Accepted \subseteq Tx
    BY <2>2 DEF Accepted, TypeOK, SignTypeOK, Queue
  <2>5. Replied' = Replied
    BY <2>3 DEF Replied, InFlight
  <2>6. Past \subseteq Past'
    BY <2>3, <2>4 DEF Past
  <2> QED
    BY <1>1, <1>2, <2>2, <2>4, <2>5, <2>6, AccountsKept
<1>7. OfCaching(CacheNext) \/ OfFetching(FetchNext) \/ (\E t \in Tx : Expiry(t)) \/ UNCHANGED vars =>
          UNCHANGED <<signpc, signings, Accepted>>
  BY DEF OfCaching, OfFetching, Expiry, vars, callVars, Accepted
<1> QED
  BY <1>3, <1>4, <1>5, <1>6, <1>7 DEF Next

\* The signing metric counts every call that replied ok, and no more than the
\* requests SEAL accepted and the increments a fault repeated.
THEOREM SigningsAreAccounted == Spec => []SigningsAccounted
<1>1. Init => Accounts
  <2> SUFFICES ASSUME Init
               PROVE  Accounts
    OBVIOUS
  <2>1. Accepted = {} /\ Replied = {} /\ Past = {} /\ signings = 0 /\ faults = 0
    BY DEF Init, SignInit, EmptyQueue, FaultsInit, Accepted, Replied, Past
  <2> QED
    BY <2>1, FS_EmptySet DEF Accounts
<1>2. TypeOK /\ Custody /\ Accounts => SigningsAccounted
  <2> SUFFICES ASSUME TypeOK, Custody, Accounts
               PROVE  SigningsAccounted
    OBVIOUS
  <2>1. IsFiniteSet(Accepted) /\ Past \subseteq Accepted /\ Cardinality(Past) \in Nat
    BY AccountedSets DEF Custody, Accounts
  <2>2. Cardinality(Past) <= Cardinality(Accepted) /\ Cardinality(Accepted) \in Nat
    BY <2>1, FS_Subset, FS_CardinalityType
  <2>3. signings \in Nat /\ faults \in Nat
    BY FaultsAssumption DEF TypeOK, SignTypeOK
  <2> QED
    BY <2>1, <2>2, <2>3 DEF Accounts, SigningsAccounted, Replied
<1> QED
  BY <1>1, <1>2, AccountsStep, CustodyHolds, TypeCorrect, PTL DEF Spec

=============================================================================
