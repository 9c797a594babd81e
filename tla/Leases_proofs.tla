---------------------------- MODULE Leases_proofs -----------------------------
(***************************************************************************)
(* While no handler outlives AckWait, a lease stands for its one holder.   *)
(* From this follow exclusive handling, that what is settled stays so, and *)
(* that every document without a time to live is still in somebody's       *)
(* hands.                                                                  *)
(***************************************************************************)
EXTENDS EduSeal_proofs, Redelivery, FiniteSetTheorems

\* The conjuncts of Leases about CACHE, and those about SEAL.
CacheLeases ==
    /\ HeldIsLeased
    /\ LeasedIsStored
    /\ OneHolder

SealLeases ==
    /\ WorkIsLeased
    /\ OneWorker
    /\ SealLeasedIsStored

\* Leases is what the two streams promise separately.
LEMMA LeasesSplit == Leases <=> ("overrun" \notin Faults => CacheLeases /\ SealLeases)
  BY DEF Leases, CacheLeases, SealLeases

\* Nobody holds anything at the start.
LEMMA LeasesInit == Init => CacheLeases /\ SealLeases
  BY DEF Init, SignInit, SealerInit, CacheInit, CacheLeases, SealLeases, HeldIsLeased, LeasedIsStored,
         OneHolder, WorkIsLeased, OneWorker, SealLeasedIsStored, WorksOn, EmptyQueue

-----------------------------------------------------------------------------
(* The sealers *)

\* A sealer takes only what is not leased, and a lease outlives its holder.
LEMMA SealLeasesSealer ==
    ASSUME TypeOK, SealLeases, "overrun" \notin Faults, OfSealers(SealerNext)
    PROVE  SealLeases'
  <1>0. /\ spc \in [Sealers -> SealerStates] /\ smsg \in [Sealers -> Tx \cup {None}]
        /\ \A s \in Sealers : spc[s] \in {"seal", "publish", "ack"} => smsg[s] \in Tx
    BY DEF TypeOK, SealerTypeOK
  <1> USE DEF SealLeases, WorkIsLeased, OneWorker, SealLeasedIsStored, WorksOn,
              SealerStates, SealerGoto
  <1>1. ASSUME sealQ' = sealQ, \A s \in Sealers, t \in Tx : WorksOn(s, t)' => WorksOn(s, t)
        PROVE  SealLeases'
    BY <1>1
  <1>2. ASSUME NEW s \in Sealers, NEW state \in {"idle", "down"}, Unburdened(s, state)
        PROVE  /\ \A u \in Sealers, t \in Tx : WorksOn(u, t)' => u # s /\ WorksOn(u, t)
    BY <1>0, <1>2 DEF Unburdened
  <1>3. CASE \E s \in Sealers : \/ Start(s) \/ StartWithoutSession(s) \/ Seal(s)
                                \/ PublishAnswer(s)
    BY <1>0, <1>1, <1>3 DEF Start, StartWithoutSession, Seal, PublishAnswer
  <1>4. CASE \E s \in Sealers, t \in Tx : Fetch(s, t)
    <2>1. PICK s \in Sealers, t \in Tx : Fetch(s, t)
      BY <1>4
    <2>2. \A u \in Sealers : ~WorksOn(u, t)
      BY <2>1 DEF Fetch, Deliverable
    <2>3. \A u \in Sealers, w \in Tx : WorksOn(u, w)' => WorksOn(u, w) \/ (u = s /\ w = t)
      BY <1>0, <2>1 DEF Fetch
    <2>4. /\ sealQ'.leased = sealQ.leased \cup {t} /\ t \in sealQ.msgs
          /\ sealQ'.msgs = sealQ.msgs
      BY <2>1 DEF Fetch, Deliverable, Lease
    <2> QED
      BY <2>2, <2>3, <2>4
  <1>5. CASE \E s \in Sealers : SealRaises(s) \/ PublishFails(s) \/ AckSealLost(s) \/ SealerCrash(s)
    BY <1>1, <1>2, <1>5 DEF SealRaises, PublishFails, AckSealLost, SealerCrash
  <1>6. CASE \E s \in Sealers : AckSeal(s)
    <2>1. PICK s \in Sealers : AckSeal(s)
      BY <1>6
    <2>2. \A u \in Sealers, t \in Tx : WorksOn(u, t)' => u # s /\ WorksOn(u, t)
      BY <1>2, <2>1 DEF AckSeal
    <2>3. /\ sealQ'.leased = sealQ.leased \ {smsg[s]} /\ WorksOn(s, smsg[s]) /\ smsg[s] \in Tx
          /\ sealQ'.msgs = sealQ.msgs \ {smsg[s]}
      BY <1>0, <2>1 DEF AckSeal, Remove
    <2> QED
      BY <2>2, <2>3
  <1>7. CASE \E t \in Tx : SealAckWait(t)
    BY <1>7 DEF SealAckWait, Release, sealerVars
  <1>8. ~ \E t \in Tx : SealOverrun(t)
    BY DEF SealOverrun, Fault
  <1> QED
    BY <1>3, <1>4, <1>5, <1>6, <1>7, <1>8 DEF OfSealers, SealerNext

\* Accepting a request leaves the leases as they are.
LEMMA SealLeasesSign ==
    ASSUME SealLeases, OfSigning(SignNext)
    PROVE  SealLeases'
  <1>1. sealQ'.leased = sealQ.leased /\ sealQ.msgs \subseteq sealQ'.msgs
    BY DEF OfSigning, SignNext, RejectEmpty, PDFSign, PublishAcked, PublishTimedOut,
           IncSigning, IncResent, IncSigningFails, StoreRequest, DropRequest, PublishTo
  <1> QED
    BY <1>1 DEF OfSigning, sealerVars, SealLeases, WorkIsLeased, OneWorker,
                SealLeasedIsStored, WorksOn

-----------------------------------------------------------------------------
(* The gateways *)

\* Busy(g): the callback of g has the message cmsg[g].
Busy(g) == cstep[g] # "idle"

\* A publish to CACHE leases nothing.
LEMMA CacheLeasesStore ==
    ASSUME CacheLeases, NEW t, NEW a, StoreAnswer(t, a)
    PROVE  CacheLeases' /\ cacheQ.msgs \subseteq cacheQ'.msgs
  <1>1. cacheQ'.leased = cacheQ.leased /\ cacheQ.msgs \subseteq cacheQ'.msgs
    BY DEF StoreAnswer, PublishTo
  <1> QED
    BY <1>1 DEF StoreAnswer, CacheLeases, HeldIsLeased, LeasedIsStored, OneHolder

\* A sealer's step can only add to the CACHE stream.
LEMMA CacheLeasesSealer ==
    ASSUME CacheLeases, OfSealers(SealerNext)
    PROVE  /\ CacheLeases'
           /\ cacheQ.msgs \subseteq cacheQ'.msgs
           /\ UNCHANGED <<cstep, cmsg, docVars>>
  <1>1. \/ UNCHANGED cacheVars
        \/ \E s \in Sealers : StoreAnswer(smsg[s], sreply[s])
    BY DEF OfSealers, SealerNext, Start, StartWithoutSession, Fetch, Seal, SealRaises,
           PublishAnswer, PublishFails, AckSeal, AckSealLost, SealerCrash, SealAckWait,
           SealOverrun
  <1>2. CASE UNCHANGED cacheVars
    BY <1>2 DEF OfSealers, cacheVars, CacheLeases, HeldIsLeased, LeasedIsStored, OneHolder
  <1>3. CASE \E s \in Sealers : StoreAnswer(smsg[s], sreply[s])
    BY <1>3, CacheLeasesStore DEF OfSealers, StoreAnswer
  <1> QED
    BY <1>1, <1>2, <1>3

\* A gateway fetches only what is not leased, and gives up a message before its
\* lease ends.
LEMMA CacheLeasesCaching ==
    ASSUME TypeOK, CacheLeases, "overrun" \notin Faults, OfCaching(CacheNext)
    PROVE  CacheLeases'
  <1>0. /\ cstep \in [Gateways -> CacheSteps]
        /\ cmsg \in [Gateways -> Message \cup {None}]
        /\ inbox \in [Gateways -> SUBSET Message]
    BY DEF TypeOK, CacheTypeOK
  <1> USE DEF CacheLeases, HeldIsLeased, LeasedIsStored, OneHolder
  <1>1. ASSUME NEW g \in Gateways, Busy(g), CacheDone(g)
        PROVE  /\ UNCHANGED inbox
               /\ \A h \in Gateways : cstep'[h] # "idle" => h # g /\ Busy(h) /\ cmsg'[h] = cmsg[h]
    BY <1>0, <1>1 DEF CacheDone, Busy
  <1>2. CASE \E t \in Tx : WindowLapse(t)
    BY <1>2 DEF WindowLapse, Forget
  <1>3. CASE \E g \in Gateways : \E m \in cacheQ.msgs : Deliver(g, m)
    <2>1. PICK g \in Gateways : \E m \in cacheQ.msgs : Deliver(g, m)
      BY <1>3
    <2>2. PICK m \in cacheQ.msgs : Deliver(g, m)
      BY <2>1
    <2>3. /\ m \notin cacheQ.leased
          /\ cacheQ'.leased = cacheQ.leased \cup {m} /\ cacheQ'.msgs = cacheQ.msgs
          /\ UNCHANGED <<cstep, cmsg>>
          /\ inbox' = [inbox EXCEPT ![g] = @ \cup {m}]
      BY <2>2 DEF Deliver, Deliverable, Lease
    <2>4. \A h \in Gateways : inbox'[h] = IF h = g THEN inbox[h] \cup {m} ELSE inbox[h]
      BY <1>0, <2>3
    <2>5. \A h \in Gateways : m \notin inbox[h] /\ (Busy(h) => cmsg[h] # m)
      BY <2>3 DEF Busy
    <2>6. (HeldIsLeased /\ LeasedIsStored)'
      BY <2>2, <2>3, <2>4
    <2>7. OneHolder'
      BY <2>3, <2>4, <2>5 DEF Busy
    <2> QED
      BY <2>6, <2>7
  <1>4. CASE \E g \in Gateways : \E m \in inbox[g] : Receive(g, m)
    <2>1. PICK g \in Gateways : \E m \in inbox[g] : Receive(g, m)
      BY <1>4
    <2>2. PICK m \in inbox[g] : Receive(g, m)
      BY <2>1
    <2>3. /\ UNCHANGED cacheQ
          /\ \A h \in Gateways : /\ inbox'[h] = IF h = g THEN inbox[h] \ {m} ELSE inbox[h]
                                 /\ cmsg'[h] = IF h = g THEN m ELSE cmsg[h]
                                 /\ h # g => cstep'[h] = cstep[h]
      BY <1>0, <2>2 DEF Receive
    <2>4. \A h \in Gateways : (Busy(h) => cmsg[h] # m) /\ (h # g => m \notin inbox[h])
      BY <2>2 DEF Busy
    <2>5. (HeldIsLeased /\ LeasedIsStored)'
      BY <2>2, <2>3
    <2>6. \A h, k \in Gateways : h # k => inbox'[h] \cap inbox'[k] = {}
      BY <2>3
    <2>7. ASSUME NEW h \in Gateways, NEW k \in Gateways, cstep'[h] # "idle"
          PROVE  cmsg'[h] \notin inbox'[k]
      <3>1. CASE h = g
        BY <2>3, <2>4, <3>1
      <3>2. CASE h # g
        <4>1. cstep[h] # "idle" /\ cmsg'[h] = cmsg[h] /\ inbox'[k] \subseteq inbox[k]
          BY <2>3, <2>7, <3>2
        <4> QED
          BY <4>1
      <3> QED
        BY <3>1, <3>2
    <2>8. ASSUME NEW h \in Gateways, NEW k \in Gateways,
                 cstep'[h] # "idle", cstep'[k] # "idle", cmsg'[h] = cmsg'[k]
          PROVE  h = k
      <3>1. CASE h # g /\ k # g
        <4>1. /\ cstep[h] # "idle" /\ cmsg'[h] = cmsg[h]
              /\ cstep[k] # "idle" /\ cmsg'[k] = cmsg[k]
          BY <2>3, <2>8, <3>1
        <4> QED
          BY <2>8, <4>1
      <3>2. CASE h = g \/ k = g
        <4>1. \A i \in Gateways : i # g /\ cstep'[i] # "idle" => cmsg'[i] # m
          BY <2>3, <2>4 DEF Busy
        <4>2. cmsg'[g] = m
          BY <2>3
        <4> QED
          BY <2>8, <3>2, <4>1, <4>2
      <3> QED
        BY <3>1, <3>2
    <2> QED
      BY <2>5, <2>6, <2>7, <2>8
  <1>5. CASE \E g \in Gateways : HSet(g) \/ HSetFails(g) \/ SetTTL(g) \/ SetTTLFails(g) \/ NakFails(g)
    <2>1. PICK g \in Gateways : HSet(g) \/ HSetFails(g) \/ SetTTL(g) \/ SetTTLFails(g) \/ NakFails(g)
      BY <1>5
    <2>2. /\ UNCHANGED <<cacheQ, inbox, cmsg>>
          /\ \A h \in Gateways : cstep'[h] # "idle" => cstep[h] # "idle"
      BY <1>0, <2>1 DEF HSet, HSetFails, SetTTL, SetTTLFails, NakFails, CacheGoto, CacheSteps
    <2> QED
      BY <2>2
  <1>6. CASE \E g \in Gateways : Nak(g) \/ AckCache(g) \/ AckCacheLost(g)
    <2>1. PICK g \in Gateways : Nak(g) \/ AckCache(g) \/ AckCacheLost(g)
      BY <1>6
    <2>2. Busy(g) /\ CacheDone(g)
      BY <2>1 DEF Nak, AckCache, AckCacheLost, Busy
    <2>3. /\ cacheQ'.leased \in {cacheQ.leased, cacheQ.leased \ {cmsg[g]}}
          /\ cacheQ'.msgs = cacheQ.msgs \/ (/\ cacheQ'.msgs = cacheQ.msgs \ {cmsg[g]}
                                           /\ cacheQ'.leased = cacheQ.leased \ {cmsg[g]})
      BY <2>1 DEF Nak, AckCache, AckCacheLost, Release, Remove
    <2>4. /\ UNCHANGED inbox
          /\ \A h \in Gateways : cstep'[h] # "idle" => h # g /\ Busy(h) /\ cmsg'[h] = cmsg[h]
      BY <1>1, <2>2
    <2>5. OneHolder'
      BY <2>4 DEF Busy
    <2>6. HeldIsLeased'
      BY <2>2, <2>3, <2>4 DEF Busy
    <2> QED
      BY <2>3, <2>5, <2>6
  <1>7. CASE \E m \in cacheQ.msgs : CacheAckWait(m)
    BY <1>7 DEF CacheAckWait, Release, Held, Handles
  <1>8. ~ \E m \in cacheQ.msgs : CacheOverrun(m)
    BY DEF CacheOverrun, Fault
  <1> QED
    BY <1>2, <1>3, <1>4, <1>5, <1>6, <1>7, <1>8 DEF OfCaching, CacheNext

\* A crashed gateway holds nothing.
LEMMA CacheLeasesCrash ==
    ASSUME TypeOK, CacheLeases, NEW g \in Gateways, GatewayCrash(g)
    PROVE  CacheLeases'
  BY DEF TypeOK, CacheTypeOK, CacheLeases, HeldIsLeased, LeasedIsStored, OneHolder,
         GatewayCrash, CacheCrash

\* Leases is inductive.
LEMMA LeasesStep ==
    ASSUME TypeOK, "overrun" \notin Faults, CacheLeases, SealLeases, [Next]_vars
    PROVE  CacheLeases' /\ SealLeases'
  <1> USE DEF vars, callVars, sealerVars, cacheVars, fetchVars, docVars
  <1>1. CASE OfSigning(SignNext)
    BY <1>1, SealLeasesSign
    DEF OfSigning, CacheLeases, HeldIsLeased, LeasedIsStored, OneHolder
  <1>2. CASE OfSealers(SealerNext)
    BY <1>2, SealLeasesSealer, CacheLeasesSealer
  <1>3. ASSUME UNCHANGED <<sealQ, sealerVars>> PROVE SealLeases'
    BY <1>3 DEF SealLeases, WorkIsLeased, OneWorker, SealLeasedIsStored, WorksOn
  <1>4. ASSUME UNCHANGED cacheVars PROVE CacheLeases'
    BY <1>4 DEF CacheLeases, HeldIsLeased, LeasedIsStored, OneHolder
  <1>5. CASE OfCaching(CacheNext)
    BY <1>3, <1>5, CacheLeasesCaching DEF OfCaching
  <1>6. CASE \E g \in Gateways : GatewayCrash(g)
    BY <1>3, <1>6, CacheLeasesCrash DEF GatewayCrash, SignCrash
  <1>7. CASE OfFetching(FetchNext) \/ (\E t \in Tx : Expiry(t)) \/ UNCHANGED vars
    BY <1>3, <1>4, <1>7 DEF OfFetching, Expiry
  <1> QED
    BY <1>1, <1>2, <1>5, <1>6, <1>7 DEF Next

\* While no handler outlives AckWait, what a process holds is leased to it and
\* to nobody else.
THEOREM LeasesHold == Spec => []Leases
  <1>1. Init => Leases
    BY LeasesInit, LeasesSplit
  <1>2. TypeOK /\ Leases /\ [Next]_vars => Leases'
    <2> SUFFICES ASSUME TypeOK, Leases, [Next]_vars, "overrun" \notin Faults
                 PROVE  CacheLeases' /\ SealLeases'
      BY DEF Leases, CacheLeases, SealLeases
    <2> QED
      BY LeasesStep, LeasesSplit
  <1> QED
    BY <1>1, <1>2, TypeCorrect, PTL DEF Spec

\* While no handler outlives AckWait, a request is worked on by one sealer and
\* an answer handled by one callback at a time, whatever crashes or is lost.
THEOREM HandlingIsExclusive == Spec => []ExclusiveHandling
  <1>1. Leases => ExclusiveHandling
    BY DEF Leases, OneWorker, OneHolder, ExclusiveHandling, Handles
  <1> QED
    BY <1>1, LeasesHold, PTL

-----------------------------------------------------------------------------
(* What is settled *)

\* Nothing enters a stream, and no document the store, for a settled request.
LEMMA StaysSettled ==
    ASSUME NEW t \in Tx, Settled(t),
           sealQ.ids \subseteq sealQ'.ids,
           t \notin sealQ'.msgs,
           \A m \in cacheQ'.msgs : m.tx = t => m \in cacheQ.msgs,
           doc'[t] \in {doc[t], EmptyDocument}
    PROVE  Settled(t)'
  BY DEF Settled, Accepted, InCacheQ, Stored

\* The SEAL stream recognises the id of a settled request that arrives again.
LEMMA SettledSigning ==
    ASSUME NEW t \in Tx, Settled(t), OfSigning(SignNext)
    PROVE  Settled(t)'
  <1>1. sealQ.ids \subseteq sealQ'.ids /\ t \notin sealQ'.msgs
    BY DEF OfSigning, SignNext, RejectEmpty, PDFSign, PublishAcked, PublishTimedOut,
           IncSigning, IncResent, IncSigningFails, StoreRequest, DropRequest, PublishTo,
           Settled, Accepted
  <1> QED
    BY <1>1, StaysSettled DEF OfSigning, cacheVars, docVars

\* No sealer works on a settled request any more, and so none answers it.
LEMMA SettledSealing ==
    ASSUME TypeOK, SealLeases, NEW t \in Tx, Settled(t), OfSealers(SealerNext)
    PROVE  Settled(t)'
  <1>1. \A s \in Sealers : ~WorksOn(s, t)
    BY DEF SealLeases, WorkIsLeased, SealLeasedIsStored, Settled
  <1>2. sealQ'.ids = sealQ.ids /\ sealQ'.msgs \subseteq sealQ.msgs
    BY DEF OfSealers, SealerNext, Start, StartWithoutSession, Fetch, Seal, SealRaises,
           PublishAnswer, PublishFails, AckSeal, AckSealLost, SealerCrash, SealAckWait,
           SealOverrun, Lease, Release, Remove
  <1>3. \/ UNCHANGED cacheVars
        \/ \E s \in Sealers : spc[s] = "publish" /\ StoreAnswer(smsg[s], sreply[s])
    BY DEF OfSealers, SealerNext, Start, StartWithoutSession, Fetch, Seal, SealRaises,
           PublishAnswer, PublishFails, AckSeal, AckSealLost, SealerCrash, SealAckWait,
           SealOverrun
  <1>4. CASE UNCHANGED cacheVars
    BY <1>2, <1>4, StaysSettled DEF OfSealers, Settled, cacheVars, docVars
  <1>5. CASE \E s \in Sealers : spc[s] = "publish" /\ StoreAnswer(smsg[s], sreply[s])
    <2>1. PICK s \in Sealers : spc[s] = "publish" /\ StoreAnswer(smsg[s], sreply[s])
      BY <1>5
    <2>2. smsg[s] # t
      BY <1>1, <2>1 DEF WorksOn
    <2>3. \A m \in cacheQ'.msgs : m.tx = t => m \in cacheQ.msgs
      BY <2>1, <2>2 DEF StoreAnswer, PublishTo
    <2> QED
      BY <1>2, <2>3, StaysSettled DEF OfSealers, Settled, docVars
  <1> QED
    BY <1>3, <1>4, <1>5

\* No callback saves the document of a settled request: it would hold one of
\* its messages.
LEMMA SettledCaching ==
    ASSUME TypeOK, CacheLeases, NEW t \in Tx, Settled(t), OfCaching(CacheNext)
    PROVE  Settled(t)'
  <1>0. cmsg \in [Gateways -> Message \cup {None}] /\ doc \in [Tx -> Answer \cup {EmptyDocument}]
    BY DEF TypeOK, CacheTypeOK, DocTypeOK
  <1>1. \A g \in Gateways : Busy(g) => cmsg[g].tx # t
    BY DEF CacheLeases, HeldIsLeased, LeasedIsStored, Settled, InCacheQ, Busy
  <1>2. cacheQ'.msgs \subseteq cacheQ.msgs
    BY DEF OfCaching, CacheNext, WindowLapse, Deliver, Receive, HSet, HSetFails, SetTTL,
           SetTTLFails, Nak, NakFails, AckCache, AckCacheLost, CacheAckWait, CacheOverrun,
           CacheGoto, Lease, Release, Remove, Forget
  <1>3. \/ UNCHANGED doc
        \/ \E g \in Gateways : Busy(g) /\ HSetDoc(cmsg[g].tx, cmsg[g].answer)
    BY DEF OfCaching, CacheNext, WindowLapse, Deliver, Receive, HSet, HSetFails, SetTTL,
           SetTTLFails, Nak, NakFails, AckCache, AckCacheLost, CacheAckWait, CacheOverrun,
           CacheDone, ExpireDoc, docVars, Busy
  <1>4. doc'[t] = doc[t]
    BY <1>0, <1>1, <1>3 DEF HSetDoc
  <1> QED
    BY <1>2, <1>4, StaysSettled DEF OfCaching, Settled

\* While no handler outlives AckWait, every step leaves a settled request
\* settled.
LEMMA SettledStep ==
    ASSUME TypeOK, CacheLeases, SealLeases, [Next]_vars, NEW t \in Tx, Settled(t)
    PROVE  Settled(t)'
  <1> USE DEF vars, callVars, sealerVars, cacheVars, fetchVars, docVars
  <1>1. CASE OfSigning(SignNext) \/ OfSealers(SealerNext) \/ OfCaching(CacheNext)
    BY <1>1, SettledSigning, SettledSealing, SettledCaching
  <1>2. CASE \E u \in Tx : Expiry(u)
    <2>1. doc'[t] \in {doc[t], EmptyDocument}
      BY <1>2 DEF Expiry, KeyExpires, TypeOK, DocTypeOK
    <2> QED
      BY <1>2, <2>1, StaysSettled DEF Expiry, Settled
  <1>3. CASE UNCHANGED <<sealQ, cacheQ, doc>>
    BY <1>3 DEF Settled, Accepted, InCacheQ, Stored
  <1> QED
    BY <1>1, <1>2, <1>3 DEF Next, OfFetching, GatewayCrash, SignCrash, CacheCrash

\* While no handler outlives AckWait, a request both streams and the store are
\* done with is done: no late sealer, buffer or callback brings it back.
THEOREM SettledIsFinal == Spec => SettledForGood
  <1>1. TypeOK /\ Leases /\ [Next]_vars
            => [\A t \in Tx : "overrun" \notin Faults /\ Settled(t) => Settled(t)']_vars
    BY SettledStep, LeasesSplit
  <1> QED
    BY <1>1, TypeCorrect, LeasesHold, PTL DEF Spec, SettledForGood

-----------------------------------------------------------------------------
(* Documents without a time to live *)

\* m is a message whose handling will still set the time to live.
StillToSave(m) ==
    /\ m \in cacheQ.msgs
    /\ \A g \in Gateways : ~(cstep[g] = "ack" /\ cmsg[g] = m)

InGoodHands ==
    \A t \in Tx : Stored(t) /\ t \notin expiring => \E m : StillToSave(m) /\ m.tx = t

\* The cache consumer acknowledges a message only when it has set the time to
\* live of its document, and no other message can have taken it away.
LEMMA InGoodHandsCaching ==
    ASSUME TypeOK, CacheLeases, InGoodHands,
           {"overrun", "nak"} \cap Faults = {}, OfCaching(CacheNext)
    PROVE  InGoodHands'
  <1>0. /\ cstep \in [Gateways -> CacheSteps]
        /\ cmsg \in [Gateways -> Message \cup {None}]
        /\ doc \in [Tx -> Answer \cup {EmptyDocument}]
        /\ expiring \subseteq Tx
        /\ \A g \in Gateways : Busy(g) => cmsg[g].tx \in Tx
    BY DEF TypeOK, CacheTypeOK, DocTypeOK, Busy, Message
  <1>1. \A g \in Gateways : Busy(g) => cmsg[g] \in cacheQ.msgs
    BY DEF CacheLeases, HeldIsLeased, LeasedIsStored, Busy
  <1>2. \A g, h \in Gateways : Busy(g) /\ Busy(h) /\ cmsg[g] = cmsg[h] => g = h
    BY DEF CacheLeases, OneHolder, Busy
  <1>3. ASSUME UNCHANGED docVars, \A m : StillToSave(m) => StillToSave(m)'
        PROVE  InGoodHands'
    BY <1>3 DEF InGoodHands, Stored, docVars
  <1>4. ASSUME UNCHANGED docVars, cacheQ.msgs \subseteq cacheQ'.msgs,
               \A g \in Gateways : cstep'[g] = "ack" => cstep[g] = "ack" /\ cmsg'[g] = cmsg[g]
        PROVE  InGoodHands'
    BY <1>3, <1>4 DEF StillToSave
  <1>5. CASE (\E t \in Tx : WindowLapse(t)) \/ (\E m \in cacheQ.msgs : CacheAckWait(m))
    BY <1>4, <1>5 DEF WindowLapse, CacheAckWait, Forget, Release
  <1>6. CASE \E g \in Gateways : \E m \in cacheQ.msgs : Deliver(g, m)
    BY <1>4, <1>6 DEF Deliver, Lease
  <1>7. CASE \E g \in Gateways : \E m \in inbox[g] : Receive(g, m)
    <2>1. PICK g \in Gateways : \E m \in inbox[g] : Receive(g, m)
      BY <1>7
    <2>2. \A h \in Gateways : cstep'[h] = "ack" => cstep[h] = "ack" /\ cmsg'[h] = cmsg[h]
      BY <1>0, <2>1 DEF Receive
    <2> QED
      BY <1>4, <2>1, <2>2 DEF Receive
  <1>8. CASE \E g \in Gateways : HSet(g) \/ HSetFails(g)
    <2>1. PICK g \in Gateways : HSet(g) \/ HSetFails(g)
      BY <1>8
    <2>2. /\ cstep[g] = "hset" /\ UNCHANGED <<cacheQ, cmsg, expiring>>
          /\ cstep'[g] # "ack" /\ \A h \in Gateways : h # g => cstep'[h] = cstep[h]
          /\ \A t \in Tx : t # cmsg[g].tx => doc'[t] = doc[t]
      BY <1>0, <2>1 DEF HSet, HSetFails, HSetDoc, CacheGoto, docVars
    <2>3. StillToSave(cmsg[g])'
      BY <1>1, <1>2, <2>2 DEF StillToSave, Busy
    <2>4. \A m : StillToSave(m) => StillToSave(m)'
      BY <2>2 DEF StillToSave
    <2>5. cmsg'[g] = cmsg[g] /\ cmsg[g].tx \in Tx
      BY <1>0, <2>2 DEF Busy
    <2> QED
      BY <2>2, <2>3, <2>4, <2>5 DEF InGoodHands, Stored
  <1>9. CASE \E g \in Gateways : SetTTL(g)
    <2>1. PICK g \in Gateways : SetTTL(g)
      BY <1>9
    <2>2. /\ cstep[g] = "expire" /\ UNCHANGED <<cacheQ, cmsg, doc>>
          /\ \A h \in Gateways : h # g => cstep'[h] = cstep[h]
          /\ expiring' = IF Stored(cmsg[g].tx) THEN expiring \cup {cmsg[g].tx} ELSE expiring
      BY <1>0, <2>1 DEF SetTTL, ExpireDoc, CacheGoto
    <2>3. \A m : StillToSave(m) /\ m.tx # cmsg[g].tx => StillToSave(m)'
      BY <2>2 DEF StillToSave
    <2> QED
      BY <2>2, <2>3 DEF InGoodHands, Stored
  <1>10. CASE \E g \in Gateways : SetTTLFails(g)
    <2>1. PICK g \in Gateways : SetTTLFails(g)
      BY <1>10
    <2>2. /\ UNCHANGED <<cacheQ, cmsg, doc>> /\ expiring \subseteq expiring'
          /\ \A h \in Gateways : cstep'[h] = "ack" => cstep[h] = "ack"
      BY <1>0, <2>1 DEF SetTTLFails, ExpireDoc, CacheGoto, docVars
    <2>3. \A m : StillToSave(m) => StillToSave(m)'
      BY <2>2 DEF StillToSave
    <2> QED
      BY <2>2, <2>3 DEF InGoodHands, Stored
  <1>11. CASE \E g \in Gateways : Nak(g) \/ AckCache(g) \/ AckCacheLost(g)
    <2>1. PICK g \in Gateways : Nak(g) \/ AckCache(g) \/ AckCacheLost(g)
      BY <1>11
    <2>2. /\ UNCHANGED docVars
          /\ \A h \in Gateways : cstep'[h] = "ack" => cstep[h] = "ack" /\ cmsg'[h] = cmsg[h]
      BY <1>0, <2>1 DEF Nak, AckCache, AckCacheLost, CacheDone
    <2>3. \A m \in cacheQ.msgs : m \in cacheQ'.msgs \/ (cstep[g] = "ack" /\ cmsg[g] = m)
      BY <2>1 DEF Nak, AckCache, AckCacheLost, Release, Remove
    <2> QED
      BY <1>3, <2>2, <2>3 DEF StillToSave
  <1>12. ~ \E g \in Gateways : NakFails(g)
    BY DEF NakFails, Fault
  <1>13. ~ \E m \in cacheQ.msgs : CacheOverrun(m)
    BY DEF CacheOverrun, Fault
  <1> QED
    BY <1>5, <1>6, <1>7, <1>8, <1>9, <1>10, <1>11, <1>12, <1>13 DEF OfCaching, CacheNext

\* InGoodHands is inductive relative to Leases.
LEMMA InGoodHandsStep ==
    ASSUME TypeOK, CacheLeases, InGoodHands,
           {"overrun", "nak"} \cap Faults = {}, [Next]_vars
    PROVE  InGoodHands'
  <1> USE DEF InGoodHands, StillToSave, Stored
  <1>1. CASE OfSealers(SealerNext)
    BY <1>1, CacheLeasesSealer DEF docVars
  <1>2. CASE OfCaching(CacheNext)
    BY <1>2, InGoodHandsCaching
  <1>3. CASE \E t \in Tx : Expiry(t)
    <2>1. PICK t \in Tx : Expiry(t)
      BY <1>3
    <2>2. /\ UNCHANGED <<cacheQ, cstep, cmsg>>
          /\ doc' = [doc EXCEPT ![t] = EmptyDocument] /\ expiring' = expiring \ {t}
      BY <2>1 DEF Expiry, KeyExpires, cacheVars
    <2>3. doc \in [Tx -> Answer \cup {EmptyDocument}]
      BY DEF TypeOK, DocTypeOK
    <2> QED
      BY <2>2, <2>3
  <1>4. CASE \E g \in Gateways : GatewayCrash(g)
    <2>1. PICK g \in Gateways : GatewayCrash(g)
      BY <1>4
    <2>2. /\ UNCHANGED <<cacheQ, docVars>>
          /\ \A h \in Gateways : cstep'[h] = "ack" => cstep[h] = "ack" /\ cmsg'[h] = cmsg[h]
      BY <2>1 DEF GatewayCrash, CacheCrash, TypeOK, CacheTypeOK
    <2> QED
      BY <2>2 DEF docVars
  <1>5. CASE UNCHANGED <<cacheVars, docVars>>
    BY <1>5 DEF cacheVars, docVars
  <1> QED
    BY <1>1, <1>2, <1>3, <1>4, <1>5 DEF Next, OfSigning, OfFetching, vars

\* While no handler outlives AckWait, every document without a time to live has
\* a message in the stream whose handling will still set it.
THEOREM NoDocumentIsImmortal == Spec => []NoImmortalDoc
  <1>1. InGoodHands => NoImmortalDoc
    BY DEF InGoodHands, StillToSave, NoImmortalDoc
  <1>2. CASE {"overrun", "nak"} \cap Faults = {}
    <2>1. Init => InGoodHands
      BY DEF Init, DocInit, InGoodHands, Stored
    <2>2. TypeOK /\ Leases /\ InGoodHands /\ [Next]_vars => InGoodHands'
      BY <1>2, InGoodHandsStep, LeasesSplit
    <2> QED
      BY <1>1, <2>1, <2>2, TypeCorrect, LeasesHold, PTL DEF Spec
  <1>3. CASE {"overrun", "nak"} \cap Faults # {}
    <2>1. NoImmortalDoc
      BY <1>3 DEF NoImmortalDoc
    <2> QED
      BY <2>1, PTL
  <1> QED
    BY <1>2, <1>3

-----------------------------------------------------------------------------
(* Redeliveries: what the streams hand out again is paid for by faults *)

\* The history starts empty and only ever counts.
LEMMA RedeliveryTypes ==
    /\ RedeliveryInit => RedeliveryTypeOK
    /\ RedeliveryTypeOK /\ [RedeliveryNext]_redeliveryVars => RedeliveryTypeOK'
  BY DEF RedeliveryInit, RedeliveryTypeOK, RedeliveryNext, redeliveryVars, Observe

\* Without its history, a behaviour of Redelivery is one of the pipeline: what is
\* proved of Spec holds in it.
LEMMA RedeliveryIsPipeline == RedeliverySpec => Spec
  <1>1. RedeliveryInit => Init
    BY DEF RedeliveryInit
  <1>2. [RedeliveryNext]_redeliveryVars => [Next]_vars
    BY DEF RedeliveryNext, redeliveryVars
  <1> QED
    BY <1>1, <1>2, PTL DEF RedeliverySpec, Spec

\* A step that leases nothing hands out nothing.
LEMMA NothingHandedOut ==
    ASSUME RedeliveryTypeOK, Observe, NEW t \in Tx
    PROVE  /\ sealQ'.leased \subseteq sealQ.leased => handed'[t] = handed[t]
           /\ cacheQ'.leased \subseteq cacheQ.leased => delivered'[t] = delivered[t]
  BY DEF RedeliveryTypeOK, Observe, IsHanded, IsDelivered

\* A fault pays for the next delivery of every request.
LEMMA FaultPaysHanded ==
    ASSUME TypeOK, RedeliveryTypeOK, Observe, NEW t \in Tx, HandedPaidFor(t),
           faults' = faults + 1, sealQ'.leased \subseteq sealQ.leased,
           sealQ'.msgs \subseteq sealQ.msgs, sealQ'.ids = sealQ.ids
    PROVE  HandedPaidFor(t)'
  <1>1. handed'[t] = handed[t] /\ handed[t] \in Nat /\ faults \in Nat
    BY NothingHandedOut, FaultsAssumption DEF RedeliveryTypeOK, TypeOK
  <1> QED
    BY <1>1 DEF HandedPaidFor, Accepted

\* So is a request that is no more waiting than before.
LEMMA QuietPaysHanded ==
    ASSUME TypeOK, RedeliveryTypeOK, Observe, NEW t \in Tx, HandedPaidFor(t),
           faults' \in {faults, faults + 1}, sealQ'.leased \subseteq sealQ.leased,
           sealQ'.msgs \subseteq sealQ.msgs, sealQ'.ids = sealQ.ids,
           t \in sealQ.leased => t \in sealQ'.leased \/ \A s \in Sealers : ~WorksOn(s, t),
           \A s \in Sealers : WorksOn(s, t) => WorksOn(s, t)' \/ t \notin sealQ'.msgs
    PROVE  HandedPaidFor(t)'
  <1>1. handed'[t] = handed[t] /\ handed[t] \in Nat /\ faults \in Nat
    BY NothingHandedOut, FaultsAssumption DEF RedeliveryTypeOK, TypeOK
  <1>2. t \in sealQ'.msgs /\ (t \in sealQ'.leased => \A s \in Sealers : ~WorksOn(s, t)') =>
            t \in sealQ.msgs /\ (t \in sealQ.leased => \A s \in Sealers : ~WorksOn(s, t))
    OBVIOUS
  <1> QED
    BY <1>1, <1>2 DEF HandedPaidFor, Accepted

\* A request the stream stores for the first time was never handed out.
LEMMA HandedSigning ==
    ASSUME TypeOK, RedeliveryTypeOK, Observe, NEW t \in Tx, HandedPaidFor(t),
           OfSigning(SignNext)
    PROVE  HandedPaidFor(t)'
  <1>0. faults \in Nat
    BY FaultsAssumption DEF TypeOK
  <1>1. UNCHANGED <<spc, smsg>>
    BY DEF OfSigning, sealerVars
  <1>2. CASE UNCHANGED sealQ /\ faults' \in {faults, faults + 1}
    BY <1>1, <1>2, QuietPaysHanded DEF WorksOn
  <1>3. CASE \E u \in Tx : StoreRequest(u)
    <2>1. PICK u \in Tx : StoreRequest(u)
      BY <1>3
    <2>2. sealQ'.leased = sealQ.leased /\ UNCHANGED faults
      BY <2>1 DEF StoreRequest, PublishTo
    <2>3. handed'[t] = handed[t]
      BY <2>2, NothingHandedOut
    <2>4. /\ t # u \/ u \in sealQ.ids =>
                 (t \in sealQ'.msgs <=> t \in sealQ.msgs) /\ (t \in sealQ'.ids <=> t \in sealQ.ids)
          /\ u \in sealQ'.ids
      BY <2>1 DEF StoreRequest, PublishTo
    <2> QED
      BY <1>0, <1>1, <2>2, <2>3, <2>4 DEF HandedPaidFor, Accepted, WorksOn
  <1> QED
    BY <1>2, <1>3
    DEF OfSigning, SignNext, RejectEmpty, PDFSign, PublishAcked, PublishTimedOut,
        IncSigning, IncResent, IncSigningFails, DropRequest, Fault

\* A sealer lets go of a request without a fault only when it has answered it
\* or was killed by it.
LEMMA HandedSealing ==
    ASSUME TypeOK, RedeliveryTypeOK, Observe, NEW t \in Tx, kind[t] \notin Poison,
           HandedPaidFor(t), OfSealers(SealerNext)
    PROVE  HandedPaidFor(t)'
  <1>0. /\ spc \in [Sealers -> SealerStates] /\ smsg \in [Sealers -> Tx \cup {None}]
        /\ faults \in Nat /\ handed \in [Tx -> Nat]
    BY FaultsAssumption DEF TypeOK, SealerTypeOK, RedeliveryTypeOK
  <1> USE DEF WorksOn, SealerStates, SealerGoto
  <1>1. ASSUME NEW s \in Sealers, NEW state \in {"idle", "down"}, Unburdened(s, state)
        PROVE  \A u \in Sealers : WorksOn(u, t)' <=> u # s /\ WorksOn(u, t)
    BY <1>0, <1>1 DEF Unburdened
  <1>2. CASE \E s \in Sealers : Start(s) \/ Seal(s) \/ PublishAnswer(s)
    BY <1>0, <1>2, QuietPaysHanded DEF Start, Seal, PublishAnswer
  <1>3. CASE \E s \in Sealers : StartWithoutSession(s) \/ PublishFails(s) \/ AckSealLost(s) \/ SealerCrash(s)
    BY <1>3, FaultPaysHanded DEF StartWithoutSession, PublishFails, AckSealLost, SealerCrash, Fault
  <1>4. CASE \E s \in Sealers, u \in Tx : Fetch(s, u)
    <2>1. PICK s \in Sealers, u \in Tx : Fetch(s, u)
      BY <1>4
    <2>2. /\ u \in sealQ.msgs /\ u \notin sealQ.leased
          /\ sealQ' = [msgs |-> sealQ.msgs, leased |-> sealQ.leased \cup {u}, ids |-> sealQ.ids]
          /\ UNCHANGED faults
      BY <2>1 DEF Fetch, Deliverable, Lease
    <2>3. handed'[t] = IF t = u THEN handed[t] + 1 ELSE handed[t]
      BY <2>2 DEF Observe, IsHanded
    <2>4. /\ WorksOn(s, u)'
          /\ t # u => \A v \in Sealers : WorksOn(v, t)' <=> WorksOn(v, t)
      BY <1>0, <2>1 DEF Fetch
    <2>5. CASE t = u
      BY <1>0, <2>2, <2>3, <2>4, <2>5 DEF HandedPaidFor, Accepted
    <2>6. CASE t # u
      BY <2>2, <2>3, <2>4, <2>6 DEF HandedPaidFor, Accepted
    <2> QED
      BY <2>5, <2>6
  <1>5. CASE \E s \in Sealers : SealRaises(s)
    <2>1. PICK s \in Sealers : SealRaises(s)
      BY <1>5
    <2>2. smsg[s] # t
      BY <2>1 DEF SealRaises, Raises, Poison
    <2> QED
      BY <1>1, <2>1, <2>2, QuietPaysHanded DEF SealRaises
  <1>6. CASE \E s \in Sealers : AckSeal(s)
    <2>1. PICK s \in Sealers : AckSeal(s)
      BY <1>6
    <2>2. /\ sealQ'.msgs = sealQ.msgs \ {smsg[s]} /\ sealQ'.leased = sealQ.leased \ {smsg[s]}
          /\ sealQ'.ids = sealQ.ids /\ UNCHANGED faults
      BY <2>1 DEF AckSeal, Remove
    <2>3. \A v \in Sealers : WorksOn(v, t)' <=> v # s /\ WorksOn(v, t)
      BY <1>1, <2>1 DEF AckSeal
    <2>4. CASE smsg[s] = t
      <3>1. handed'[t] = handed[t]
        BY <2>2, NothingHandedOut
      <3> QED
        BY <2>2, <2>4, <3>1 DEF HandedPaidFor, Accepted
    <2>5. CASE smsg[s] # t
      BY <2>2, <2>3, <2>5, QuietPaysHanded
    <2> QED
      BY <2>4, <2>5
  <1>7. CASE \E u \in Tx : SealAckWait(u)
    BY <1>7, QuietPaysHanded DEF SealAckWait, Release, sealerVars
  <1>8. CASE \E u \in Tx : SealOverrun(u)
    BY <1>8, FaultPaysHanded DEF SealOverrun, Release, Fault
  <1> QED
    BY <1>2, <1>3, <1>4, <1>5, <1>6, <1>7, <1>8 DEF OfSealers, SealerNext

\* HandedPaid is inductive.
LEMMA HandedStep ==
    ASSUME TypeOK, RedeliveryTypeOK, HandedPaid, [RedeliveryNext]_redeliveryVars
    PROVE  HandedPaid'
  <1> USE DEF vars, callVars, sealerVars, cacheVars, fetchVars, docVars
  <1>0. kind' = kind
    BY DEF RedeliveryNext, redeliveryVars, Next, OfSigning, SignNext, RejectEmpty, PDFSign,
           PublishAcked, PublishTimedOut, IncSigning, IncResent, IncSigningFails,
           StoreRequest, DropRequest, OfSealers, OfCaching, OfFetching, Expiry,
           GatewayCrash, SignCrash
  <1>1. SUFFICES ASSUME NEW t \in Tx, kind[t] \notin Poison, HandedPaidFor(t)
                 PROVE  HandedPaidFor(t)'
    BY <1>0 DEF HandedPaid
  <1>2. CASE UNCHANGED redeliveryVars
    BY <1>1, <1>2 DEF redeliveryVars, HandedPaidFor, Accepted, WorksOn
  <1>3. CASE Observe /\ (OfSigning(SignNext) \/ OfSealers(SealerNext))
    BY <1>1, <1>3, HandedSigning, HandedSealing
  <1>4. CASE /\ Observe
             /\ UNCHANGED <<sealQ, spc, smsg>> /\ faults' \in {faults, faults + 1}
    BY <1>1, <1>4, QuietPaysHanded DEF WorksOn
  <1>5. ASSUME \/ OfCaching(CacheNext) \/ OfFetching(FetchNext)
               \/ (\E u \in Tx : Expiry(u)) \/ (\E g \in Gateways : GatewayCrash(g))
        PROVE  UNCHANGED <<sealQ, spc, smsg>>
    BY <1>5 DEF OfCaching, OfFetching, Expiry, GatewayCrash, SignCrash
  <1>6. ASSUME \/ OfCaching(CacheNext) \/ OfFetching(FetchNext)
               \/ (\E u \in Tx : Expiry(u)) \/ (\E g \in Gateways : GatewayCrash(g))
        PROVE  faults' \in {faults, faults + 1}
    BY <1>6
    DEF OfCaching, CacheNext, WindowLapse, Deliver, Receive, HSet, HSetFails, SetTTL,
        SetTTLFails, Nak, NakFails, AckCache, AckCacheLost, CacheAckWait, CacheOverrun,
        OfFetching, FetchNext, PDFGetSigned, GetSigned, GetSignedFails, IncFetching,
        IncFetchingFails, Expiry, GatewayCrash, Fault
  <1> QED
    BY <1>2, <1>3, <1>4, <1>5, <1>6 DEF RedeliveryNext, Next

\* A fault pays for the next delivery of every answer.
LEMMA FaultPaysDelivered ==
    ASSUME TypeOK, RedeliveryTypeOK, Observe, NEW t \in Tx, DeliveredPaidFor(t),
           faults' = faults + 1, cacheQ'.leased \subseteq cacheQ.leased,
           Naking(t)' \subseteq Naking(t)
    PROVE  DeliveredPaidFor(t)'
  <1>1. delivered'[t] = delivered[t] /\ delivered[t] \in Nat /\ faults \in Nat
    BY NothingHandedOut, FaultsAssumption DEF RedeliveryTypeOK, TypeOK
  <1>2. IsFiniteSet(Naking(t))
    BY DEF DeliveredPaidFor
  <1>3. /\ IsFiniteSet(Naking(t)') /\ Cardinality(Naking(t)') <= Cardinality(Naking(t))
        /\ Cardinality(Naking(t)) \in Nat /\ Cardinality(Naking(t)') \in Nat
    BY <1>2, FS_Subset, FS_CardinalityType
  <1> QED
    BY <1>1, <1>3 DEF DeliveredPaidFor

\* So is an answer that waits no more than before.
LEMMA QuietPaysDelivered ==
    ASSUME TypeOK, RedeliveryTypeOK, Observe, NEW t \in Tx, DeliveredPaidFor(t),
           faults' \in {faults, faults + 1}, cacheQ'.leased \subseteq cacheQ.leased,
           Naking(t)' = Naking(t),
           \A m \in cacheQ'.msgs :
               m.tx = t /\ (m \in cacheQ'.leased => ~Held(m)') =>
                   m \in cacheQ.msgs /\ (m \in cacheQ.leased => ~Held(m))
    PROVE  DeliveredPaidFor(t)'
  <1>1. delivered'[t] = delivered[t] /\ delivered[t] \in Nat /\ faults \in Nat
    BY NothingHandedOut, FaultsAssumption DEF RedeliveryTypeOK, TypeOK
  <1>2. Cardinality(Naking(t)) \in Nat
    BY FS_CardinalityType DEF DeliveredPaidFor
  <1> QED
    BY <1>1, <1>2 DEF DeliveredPaidFor

\* The first answer of a transaction was never delivered; no second one is stored.
LEMMA DeliveredStore ==
    ASSUME TypeOK, RedeliveryTypeOK, Observe, DeliveredPaid, OneMessage,
           NEW u \in Tx, NEW a, StoreAnswer(u, a), faults' \in {faults, faults + 1}
    PROVE  DeliveredPaid' /\ OneMessage'
  <1>0. /\ UNCHANGED <<inbox, cstep, cmsg>> /\ cacheQ'.leased = cacheQ.leased
        /\ \A t \in Tx : delivered'[t] = delivered[t]
    BY NothingHandedOut DEF StoreAnswer, PublishTo
  <1>1. \A t \in Tx : Naking(t)' = Naking(t)
    BY <1>0 DEF Naking
  <1>2. \A m : Held(m)' <=> Held(m)
    BY <1>0 DEF Held, Handles
  <1>3. CASE u \in cacheQ.ids
    <2>1. cacheQ' = cacheQ
      BY <1>3 DEF StoreAnswer, PublishTo
    <2>2. DeliveredPaid'
      BY <1>1, <1>2, <2>1, QuietPaysDelivered DEF DeliveredPaid
    <2> QED
      BY <1>0, <2>1, <2>2 DEF OneMessage
  <1>4. CASE u \notin cacheQ.ids
    <2> DEFINE m == [tx |-> u, n |-> sequence[u], answer |-> a]
    <2>1. cacheQ'.msgs = cacheQ.msgs \cup {m} /\ cacheQ'.ids = cacheQ.ids \cup {u} /\ m.tx = u
      BY <1>4 DEF StoreAnswer, PublishTo
    <2>2. OneMessage'
      <3> HIDE DEF m
      <3> QED
        BY <1>0, <1>4, <2>1 DEF OneMessage
    <2>3. ASSUME NEW t \in Tx, t # u PROVE DeliveredPaidFor(t)'
      <3> HIDE DEF m
      <3> QED
        BY <1>0, <1>1, <1>2, <2>1, <2>3, QuietPaysDelivered DEF DeliveredPaid
    <2>4. DeliveredPaidFor(u)'
      <3>1. Naking(u) = {}
        BY <1>4 DEF Naking, OneMessage
      <3>2. IsFiniteSet(Naking(u)') /\ Cardinality(Naking(u)') = 0
        BY <1>1, <3>1, FS_EmptySet
      <3>3. delivered'[u] = 0
        BY <1>0, <1>4 DEF OneMessage
      <3>4. faults \in Nat /\ faults' \in Nat
        BY FaultsAssumption DEF TypeOK
      <3>5. delivered'[u] + Cardinality(Naking(u)') <= faults'
        BY <3>2, <3>3, <3>4
      <3>6. delivered'[u] + Cardinality(Naking(u)') <= 1 + faults'
        <4> DEFINE after == faults'
        <4>1. after \in Nat
          BY <3>4
        <4> HIDE DEF after
        <4>2. 0 <= 1 + after
          BY <4>1
        <4> QED
          BY <3>2, <3>3, <4>2 DEF after
      <3> QED
        BY <3>2, <3>5, <3>6, Zenon DEF DeliveredPaidFor
    <2> QED
      BY <2>2, <2>3, <2>4 DEF DeliveredPaid
  <1> QED
    BY <1>3, <1>4

\* The consumer hands an answer to a gateway again only when its last holder
\* died, or was denied by a fault of the store or of the network.
LEMMA DeliveredCaching ==
    ASSUME TypeOK, RedeliveryTypeOK, Observe, DeliveredPaid, OneMessage,
           "lapse" \notin Faults, OfCaching(CacheNext)
    PROVE  DeliveredPaid'
  <1>0. /\ cstep \in [Gateways -> CacheSteps] /\ cmsg \in [Gateways -> Message \cup {None}]
        /\ inbox \in [Gateways -> SUBSET Message]
        /\ faults \in Nat /\ delivered \in [Tx -> Nat]
    BY FaultsAssumption DEF TypeOK, CacheTypeOK, RedeliveryTypeOK
  <1> SUFFICES ASSUME NEW t \in Tx, DeliveredPaidFor(t) PROVE DeliveredPaidFor(t)'
    BY DEF DeliveredPaid
  <1> USE DEF CacheSteps
  <1>1. ASSUME NEW g \in Gateways, CacheDone(g)
        PROVE  /\ Naking(t)' = Naking(t) \ {g}
               /\ \A m : Held(m)' => Held(m)
               /\ \A m : Held(m) => Held(m)' \/ Handles(g, m)
    BY <1>0, <1>1 DEF CacheDone, Naking, Held, Handles
  <1>2. ASSUME NEW g \in Gateways, NEW step, CacheGoto(g, step),
               cstep[g] # "idle", step # "idle"
        PROVE  /\ UNCHANGED cacheQ
               /\ \A m : Held(m)' <=> Held(m)
               /\ step # "nak" => Naking(t)' = Naking(t) \ {g}
               /\ step = "nak" /\ cmsg[g].tx = t => Naking(t)' = Naking(t) \cup {g}
               /\ step = "nak" /\ cmsg[g].tx # t => Naking(t)' = Naking(t)
    BY <1>0, <1>2 DEF CacheGoto, Naking, Held, Handles
  <1>3. ASSUME NEW g \in Gateways, cstep[g] # "nak" PROVE g \notin Naking(t)
    BY <1>3 DEF Naking
  <1>4. CASE \E g \in Gateways : \E m \in cacheQ.msgs : Deliver(g, m)
    <2>1. PICK g \in Gateways, m \in cacheQ.msgs : Deliver(g, m)
      BY <1>4
    <2>2. /\ m \notin cacheQ.leased /\ cacheQ'.leased = cacheQ.leased \cup {m}
          /\ cacheQ'.msgs = cacheQ.msgs /\ UNCHANGED <<cstep, cmsg, faults>>
          /\ \A h \in Gateways : inbox'[h] = IF h = g THEN inbox[h] \cup {m} ELSE inbox[h]
      BY <1>0, <2>1 DEF Deliver, Deliverable, Lease
    <2>3. Naking(t)' = Naking(t) /\ Held(m)' /\ \A n : n # m => (Held(n)' <=> Held(n))
      BY <2>2 DEF Naking, Held, Handles
    <2>4. delivered'[t] = IF m.tx = t THEN delivered[t] + 1 ELSE delivered[t]
      BY <2>2 DEF Observe, IsDelivered
    <2>5. Cardinality(Naking(t)) \in Nat
      BY FS_CardinalityType DEF DeliveredPaidFor
    <2>6. CASE m.tx = t
      <3>1. delivered[t] + Cardinality(Naking(t)) <= faults
        BY <2>2, <2>6 DEF DeliveredPaidFor
      <3>2. \A n \in cacheQ.msgs : n.tx = t => n = m
        BY <2>6 DEF OneMessage
      <3> QED
        BY <1>0, <2>2, <2>3, <2>4, <2>5, <2>6, <3>1, <3>2 DEF DeliveredPaidFor
    <2>7. CASE m.tx # t
      BY <2>2, <2>3, <2>4, <2>7 DEF DeliveredPaidFor
    <2> QED
      BY <2>6, <2>7
  <1>5. CASE \E g \in Gateways : \E m \in inbox[g] : Receive(g, m)
    <2>1. PICK g \in Gateways : \E m \in inbox[g] : Receive(g, m)
      BY <1>5
    <2>2. PICK m \in inbox[g] : Receive(g, m)
      BY <2>1
    <2>3. Naking(t)' = Naking(t) /\ \A n : Held(n)' <=> Held(n)
      BY <1>0, <2>2 DEF Receive, Naking, Held, Handles
    <2> QED
      BY <2>2, <2>3, QuietPaysDelivered DEF Receive
  <1>6. CASE \E g \in Gateways : HSet(g) \/ SetTTL(g)
    <2>1. PICK g \in Gateways : HSet(g) \/ SetTTL(g)
      BY <1>6
    <2>2. /\ UNCHANGED cacheQ /\ UNCHANGED faults
          /\ \A m : Held(m)' <=> Held(m)
          /\ Naking(t)' = Naking(t)
      BY <1>2, <1>3, <2>1 DEF HSet, SetTTL
    <2> QED
      BY <2>2, QuietPaysDelivered
  <1>7. CASE \E g \in Gateways : HSetFails(g) \/ SetTTLFails(g)
    <2>1. PICK g \in Gateways : HSetFails(g) \/ SetTTLFails(g)
      BY <1>7
    <2>2. /\ UNCHANGED cacheQ /\ faults' = faults + 1
          /\ \A m : Held(m)' <=> Held(m)
          /\ Naking(t)' \in {Naking(t), Naking(t) \cup {g}}
          /\ g \notin Naking(t)
      BY <1>2, <1>3, <2>1 DEF HSetFails, SetTTLFails, Fault
    <2>3. IsFiniteSet(Naking(t)) /\ Cardinality(Naking(t)) \in Nat
      BY FS_CardinalityType DEF DeliveredPaidFor
    <2>4. /\ IsFiniteSet(Naking(t)')
          /\ Cardinality(Naking(t)') \in {Cardinality(Naking(t)), Cardinality(Naking(t)) + 1}
      BY <2>2, <2>3, FS_AddElement
    <2>5. delivered'[t] = delivered[t]
      BY <2>2, NothingHandedOut
    <2> QED
      BY <1>0, <2>2, <2>3, <2>4, <2>5 DEF DeliveredPaidFor
  <1>8. CASE \E g \in Gateways : Nak(g)
    <2>1. PICK g \in Gateways : Nak(g)
      BY <1>8
    <2>2. /\ Naking(t)' = Naking(t) \ {g} /\ UNCHANGED faults /\ cacheQ'.msgs = cacheQ.msgs
          /\ cacheQ'.leased = cacheQ.leased \ {cmsg[g]}
          /\ \A m : Held(m) => Held(m)' \/ m = cmsg[g]
      BY <1>1, <2>1 DEF Nak, Release, Handles
    <2>3. delivered'[t] = delivered[t]
      BY <2>2, NothingHandedOut
    <2>4. CASE cmsg[g].tx = t
      <3>1. g \in Naking(t)
        BY <2>1, <2>4 DEF Naking, Nak
      <3>2. IsFiniteSet(Naking(t)) /\ Cardinality(Naking(t)) \in Nat
        BY FS_CardinalityType DEF DeliveredPaidFor
      <3>3. IsFiniteSet(Naking(t)') /\ Cardinality(Naking(t)') = Cardinality(Naking(t)) - 1
        BY <2>2, <3>1, <3>2, FS_RemoveElement
      <3>4. delivered'[t] + Cardinality(Naking(t)') <= faults'
        BY <1>0, <2>2, <2>3, <3>2, <3>3 DEF DeliveredPaidFor
      <3>5. delivered'[t] + Cardinality(Naking(t)') <= 1 + faults'
        BY <1>0, <2>2, <2>3, <3>2, <3>3, <3>4
      <3> QED
        BY <3>3, <3>4, <3>5 DEF DeliveredPaidFor
    <2>5. CASE cmsg[g].tx # t
      <3>1. Naking(t)' = Naking(t)
        BY <2>2, <2>5 DEF Naking
      <3> QED
        BY <2>2, <2>5, <3>1, QuietPaysDelivered
    <2> QED
      BY <2>4, <2>5
  <1>9. CASE \E g \in Gateways : AckCache(g)
    <2>1. PICK g \in Gateways : AckCache(g)
      BY <1>9
    <2>2. /\ Naking(t)' = Naking(t) /\ UNCHANGED faults
          /\ cacheQ'.msgs = cacheQ.msgs \ {cmsg[g]}
          /\ cacheQ'.leased = cacheQ.leased \ {cmsg[g]}
          /\ \A m : Held(m) => Held(m)' \/ m = cmsg[g]
      BY <1>1, <1>3, <2>1 DEF AckCache, Remove, Handles
    <2> QED
      BY <2>2, QuietPaysDelivered
  <1>10. CASE \E g \in Gateways : NakFails(g) \/ AckCacheLost(g)
    <2>1. PICK g \in Gateways : NakFails(g) \/ AckCacheLost(g)
      BY <1>10
    <2>2. UNCHANGED cacheQ /\ faults' = faults + 1 /\ Naking(t)' \subseteq Naking(t)
      BY <1>1, <1>2, <2>1 DEF NakFails, AckCacheLost, Fault
    <2> QED
      BY <2>2, FaultPaysDelivered
  <1>11. CASE \E m \in cacheQ.msgs : CacheAckWait(m)
    <2>1. PICK m \in cacheQ.msgs : CacheAckWait(m)
      BY <1>11
    <2>2. /\ UNCHANGED <<cstep, cmsg, inbox, faults>> /\ ~Held(m)
          /\ cacheQ'.msgs = cacheQ.msgs /\ cacheQ'.leased = cacheQ.leased \ {m}
      BY <2>1 DEF CacheAckWait, Release
    <2>3. Naking(t)' = Naking(t) /\ \A n : Held(n)' <=> Held(n)
      BY <2>2 DEF Naking, Held, Handles
    <2> QED
      BY <2>2, <2>3, QuietPaysDelivered
  <1>12. CASE \E m \in cacheQ.msgs : CacheOverrun(m)
    <2>1. /\ UNCHANGED <<cstep, cmsg>> /\ faults' = faults + 1
          /\ cacheQ'.leased \subseteq cacheQ.leased
      BY <1>12 DEF CacheOverrun, Release, Fault
    <2>2. Naking(t)' = Naking(t)
      BY <2>1 DEF Naking
    <2> QED
      BY <2>1, <2>2, FaultPaysDelivered
  <1>13. ~ \E u \in Tx : WindowLapse(u)
    BY DEF WindowLapse, Fault
  <1> QED
    BY <1>4, <1>5, <1>6, <1>7, <1>8, <1>9, <1>10, <1>11, <1>12, <1>13 DEF OfCaching, CacheNext

\* The consumer stores nothing, and takes only what is stored.
LEMMA OneMessageCaching ==
    ASSUME TypeOK, RedeliveryTypeOK, Observe, OneMessage, "lapse" \notin Faults,
           OfCaching(CacheNext)
    PROVE  OneMessage'
  <1>0. /\ cstep \in [Gateways -> CacheSteps] /\ cmsg \in [Gateways -> Message \cup {None}]
        /\ inbox \in [Gateways -> SUBSET Message]
    BY DEF TypeOK, CacheTypeOK
  <1>1. ~ \E u \in Tx : WindowLapse(u)
    BY DEF WindowLapse, Fault
  <1>2. cacheQ'.ids = cacheQ.ids /\ cacheQ'.msgs \subseteq cacheQ.msgs
    BY <1>1 DEF OfCaching, CacheNext, Deliver, Receive, HSet, HSetFails, SetTTL,
           SetTTLFails, Nak, NakFails, AckCache, AckCacheLost, CacheAckWait, CacheOverrun,
           CacheGoto, Lease, Release, Remove
  <1>3. \A m \in cacheQ'.leased \ cacheQ.leased : m \in cacheQ.msgs
    BY <1>1 DEF OfCaching, CacheNext, Deliver, Receive, HSet, HSetFails, SetTTL,
           SetTTLFails, Nak, NakFails, AckCache, AckCacheLost, CacheAckWait, CacheOverrun,
           CacheGoto, Lease, Release, Remove
  <1>4. \A t \in Tx \ cacheQ.ids : delivered'[t] = 0
    BY <1>3 DEF Observe, IsDelivered, OneMessage
  <1>5. \A g \in Gateways : \A m \in inbox'[g] : m \in inbox[g] \/ m \in cacheQ.msgs
    BY <1>0, <1>1 DEF OfCaching, CacheNext, Deliver, Receive, HSet, HSetFails, SetTTL,
           SetTTLFails, Nak, NakFails, AckCache, AckCacheLost, CacheAckWait, CacheOverrun,
           CacheGoto, CacheDone
  <1>6. \A g \in Gateways : cstep'[g] # "idle" =>
            cmsg'[g] \in inbox[g] \/ (cstep[g] # "idle" /\ cmsg'[g] = cmsg[g])
    BY <1>0, <1>1 DEF OfCaching, CacheNext, Deliver, Receive, HSet, HSetFails, SetTTL,
           SetTTLFails, Nak, NakFails, AckCache, AckCacheLost, CacheAckWait, CacheOverrun,
           CacheGoto, CacheDone
  <1> QED
    BY <1>2, <1>4, <1>5, <1>6 DEF OneMessage

\* DeliveredPaid and OneMessage are inductive while no duplicate window lapses.
LEMMA DeliveredStep ==
    ASSUME TypeOK, RedeliveryTypeOK, DeliveredPaid, OneMessage, "lapse" \notin Faults,
           [RedeliveryNext]_redeliveryVars
    PROVE  DeliveredPaid' /\ OneMessage'
  <1> USE DEF vars, callVars, sealerVars, cacheVars, fetchVars, docVars
  <1>1. CASE UNCHANGED redeliveryVars
    BY <1>1 DEF redeliveryVars, DeliveredPaid, DeliveredPaidFor, OneMessage, Naking, Held, Handles
  <1>2. CASE Observe /\ UNCHANGED cacheVars /\ faults' \in {faults, faults + 1}
    <2>1. \A t \in Tx : Naking(t)' = Naking(t) /\ delivered'[t] = delivered[t]
      BY <1>2, NothingHandedOut DEF Naking
    <2>2. \A m : Held(m)' <=> Held(m)
      BY <1>2 DEF Held, Handles
    <2> QED
      BY <1>2, <2>1, <2>2, QuietPaysDelivered DEF DeliveredPaid, OneMessage
  <1>3. CASE Observe /\ (\/ OfSigning(SignNext) \/ OfFetching(FetchNext)
                         \/ \E u \in Tx : Expiry(u))
    <2>1. faults' \in {faults, faults + 1}
      BY <1>3 DEF OfSigning, SignNext, RejectEmpty, PDFSign, PublishAcked, PublishTimedOut,
           IncSigning, IncResent, IncSigningFails, StoreRequest, DropRequest,
           OfFetching, FetchNext, PDFGetSigned, GetSigned, GetSignedFails, IncFetching,
           IncFetchingFails, Expiry, Fault
    <2> QED
      BY <1>2, <1>3, <2>1 DEF OfSigning, OfFetching, Expiry
  <1>4. CASE Observe /\ OfSealers(SealerNext)
    <2>1. faults' \in {faults, faults + 1}
      BY <1>4 DEF OfSealers, SealerNext, Start, StartWithoutSession, Fetch, Seal, SealRaises,
           PublishAnswer, PublishFails, AckSeal, AckSealLost, SealerCrash, SealAckWait,
           SealOverrun, Fault
    <2>2. \/ UNCHANGED cacheVars
          \/ \E s \in Sealers : spc[s] = "publish" /\ StoreAnswer(smsg[s], sreply[s])
      BY <1>4 DEF OfSealers, SealerNext, Start, StartWithoutSession, Fetch, Seal, SealRaises,
           PublishAnswer, PublishFails, AckSeal, AckSealLost, SealerCrash, SealAckWait,
           SealOverrun
    <2>3. \A s \in Sealers : spc[s] = "publish" => smsg[s] \in Tx
      BY DEF TypeOK, SealerTypeOK
    <2> QED
      BY <1>2, <1>4, <2>1, <2>2, <2>3, DeliveredStore
  <1>5. CASE Observe /\ OfCaching(CacheNext)
    BY <1>5, DeliveredCaching, OneMessageCaching
  <1>6. CASE Observe /\ \E g \in Gateways : GatewayCrash(g)
    <2>1. PICK g \in Gateways : GatewayCrash(g)
      BY <1>6
    <2>2. /\ UNCHANGED cacheQ /\ faults' = faults + 1
          /\ \A h \in Gateways : /\ inbox'[h] \subseteq inbox[h]
                                 /\ cstep'[h] # "idle" => cstep'[h] = cstep[h] /\ cmsg'[h] = cmsg[h]
      BY <2>1 DEF GatewayCrash, CacheCrash, Fault, TypeOK, CacheTypeOK
    <2>3. \A t \in Tx : Naking(t)' \subseteq Naking(t) /\ delivered'[t] = delivered[t]
      BY <1>6, <2>2, NothingHandedOut DEF Naking
    <2> QED
      BY <1>6, <2>2, <2>3, FaultPaysDelivered DEF DeliveredPaid, OneMessage
  <1> QED
    BY <1>1, <1>3, <1>4, <1>5, <1>6 DEF RedeliveryNext, Next

\* Nothing was handed out yet.
LEMMA PaidInit == RedeliveryInit => Paid
  <1> SUFFICES ASSUME RedeliveryInit PROVE Paid
    OBVIOUS
  <1>1. faults = 0 /\ sealQ = EmptyQueue /\ cacheQ = EmptyQueue
        /\ \A g \in Gateways : cstep[g] = "idle" /\ inbox[g] = {}
    BY DEF RedeliveryInit, Init, FaultsInit, SignInit, CacheInit
  <1>2. \A t \in Tx : handed[t] = 0 /\ delivered[t] = 0 /\ Naking(t) = {}
    BY <1>1 DEF RedeliveryInit, Naking
  <1>3. HandedPaid
    BY <1>1, <1>2 DEF HandedPaid, HandedPaidFor, EmptyQueue
  <1>4. DeliveredPaid
    BY <1>1, <1>2, FS_EmptySet DEF DeliveredPaid, DeliveredPaidFor, EmptyQueue
  <1>5. OneMessage
    BY <1>1, <1>2 DEF OneMessage, EmptyQueue
  <1> QED
    BY <1>3, <1>4, <1>5 DEF Paid

\* Work is repeated only for a fault: no request is handed to the sealers, and
\* while no duplicate window lapses no answer to the gateways, more than once
\* without a fault to show for it.
THEOREM WorkIsRepeatedForFaults == RedeliverySpec => []RepeatsArePaid
  <1>1. TypeOK /\ RedeliveryTypeOK /\ Paid /\ [RedeliveryNext]_redeliveryVars => Paid'
    BY HandedStep, DeliveredStep DEF Paid
  <1>2. RedeliveryTypeOK /\ TypeOK /\ Paid => RepeatsArePaid
    <2> SUFFICES ASSUME RedeliveryTypeOK, TypeOK, Paid, NEW t \in Tx
                 PROVE  /\ kind[t] \notin Poison => handed[t] <= 1 + faults
                        /\ "lapse" \notin Faults => delivered[t] <= 1 + faults
      BY DEF RepeatsArePaid
    <2>1. kind[t] \notin Poison => handed[t] <= 1 + faults
      BY DEF Paid, HandedPaid, HandedPaidFor
    <2>2. ASSUME "lapse" \notin Faults PROVE delivered[t] <= 1 + faults
      <3>1. DeliveredPaidFor(t)
        BY <2>2 DEF Paid, DeliveredPaid
      <3>2. Cardinality(Naking(t)) \in Nat /\ delivered[t] \in Nat /\ faults \in Nat
        BY <3>1, FS_CardinalityType, FaultsAssumption
        DEF DeliveredPaidFor, RedeliveryTypeOK, TypeOK
      <3> QED
        BY <3>1, <3>2 DEF DeliveredPaidFor
    <2> QED
      BY <2>1, <2>2
  <1>3. RedeliverySpec => []TypeOK
    BY RedeliveryIsPipeline, TypeCorrect, PTL
  <1>4. RedeliverySpec => []RedeliveryTypeOK
    BY RedeliveryTypes, PTL DEF RedeliverySpec
  <1> QED
    BY <1>1, <1>2, <1>3, <1>4, PaidInit, PTL DEF RedeliverySpec

=============================================================================
