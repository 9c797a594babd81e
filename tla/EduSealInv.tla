------------------------------ MODULE EduSealInv ------------------------------
(***************************************************************************)
(* The inductive invariants behind the theorems about EduSeal, stated as   *)
(* state predicates so that TLC can check them before they are proved.     *)
(***************************************************************************)
EXTENDS EduSeal

-----------------------------------------------------------------------------
(* Custody of a request, behind NoLostRequest *)

\* PDFSign goes on only when the stream has confirmed the request.
CountedIsAccepted ==
    \A t \in Tx : signpc[t] \in {"counting", "ok"} => t \in Accepted

\* A request leaves the SEAL stream only after its answer is in CACHE.
AcceptedIsKept ==
    \A t \in Accepted : t \in sealQ.msgs \/ answers[t] # {}

AckingIsAnswered ==
    \A s \in Sealers : spc[s] = "ack" => answers[smsg[s]] # {}

\* A publish that is taken for a duplicate really is one.
DuplicateIsAnswered ==
    \A t \in cacheQ.ids : answers[t] # {}

\* An answer leaves the CACHE stream only after it was saved.
AnsweredIsKept ==
    \A t \in Tx : answers[t] # {} => InCacheQ(t) \/ t \in cached

AckingIsCached ==
    \A g \in Gateways : cstep[g] = "ack" => cmsg[g].tx \in cached

\* Who answers for a request at each stage of its way, and why the stage
\* before may let go of it.  It is the strengthening that makes NoLostRequest
\* inductive.
Custody ==
    /\ CountedIsAccepted
    /\ AcceptedIsKept
    /\ AckingIsAnswered
    /\ DuplicateIsAnswered
    /\ "nak" \notin Faults => AnsweredIsKept /\ AckingIsCached

-----------------------------------------------------------------------------
(* The signing metric, behind SigningsAccounted *)

Replied == {t \in Tx : signpc[t] = "ok"}

\* The accepted requests whose call has ended.
Past == {t \in Accepted : signpc[t] \in {"ok", "error"}}

\* A call is counted on its way from confirmed to ended, and more than once
\* only by a fault.
Accounts ==
    /\ IsFiniteSet(Accepted)
    /\ Cardinality(Replied) <= signings
    /\ signings <= Cardinality(Past) + faults

-----------------------------------------------------------------------------
(* Leases, behind ExclusiveHandling, NoImmortalDoc and SettledForGood *)

\* What a gateway holds is still in the stream and not on offer.
HeldIsLeased ==
    \A g \in Gateways :
        /\ inbox[g] \subseteq cacheQ.leased
        /\ cstep[g] # "idle" => cmsg[g] \in cacheQ.leased

LeasedIsStored == cacheQ.leased \subseteq cacheQ.msgs

SealLeasedIsStored == sealQ.leased \subseteq sealQ.msgs

\* A message is in one place: in one buffer, or with one callback.
OneHolder ==
    \A g1, g2 \in Gateways :
        /\ g1 # g2 => inbox[g1] \cap inbox[g2] = {}
        /\ cstep[g1] # "idle" => cmsg[g1] \notin inbox[g2]
        /\ cstep[g1] # "idle" /\ cstep[g2] # "idle" /\ cmsg[g1] = cmsg[g2] => g1 = g2

WorkIsLeased ==
    \A s \in Sealers, t \in Tx : WorksOn(s, t) => t \in sealQ.leased

OneWorker ==
    \A t \in Tx : \A s1, s2 \in Sealers :
        WorksOn(s1, t) /\ WorksOn(s2, t) => s1 = s2

\* While no handler outlives AckWait, a lease stands for its one holder: the
\* strengthening that makes ExclusiveHandling and NoImmortalDoc inductive, and
\* why nothing comes back in SettledForGood.
Leases ==
    "overrun" \notin Faults =>
        /\ HeldIsLeased
        /\ LeasedIsStored
        /\ OneHolder
        /\ WorkIsLeased
        /\ OneWorker
        /\ SealLeasedIsStored

-----------------------------------------------------------------------------
(* Provenance of a document, behind OnlyPublishedAnswers, FetchesAgree and
   the refinement *)

\* What is in the stream or with a gateway was published.
MessagesPublished ==
    /\ \A m \in cacheQ.msgs : m.answer \in answers[m.tx]
    /\ \A g \in Gateways :
        /\ \A m \in inbox[g] : m.answer \in answers[m.tx]
        /\ cstep[g] # "idle" => cmsg[g].answer \in answers[cmsg[g].tx]

StoredPublished ==
    \A t \in Tx : Stored(t) => doc[t] \in answers[t]

FetchedPublished ==
    \A c \in Gets : got[c] # EmptyDocument =>
        gettx[c] \in Tx /\ getpc[c] # "new" /\ got[c] \in answers[gettx[c]]

\* A sealed answer is one to a request that can be sealed.
SealedSealable ==
    /\ \A t \in Tx : \A a \in answers[t] : a.data = "sealed" => kind[t] = "sealable"
    /\ \A s \in Sealers :
        spc[s] = "publish" /\ sreply[s].data = "sealed" => kind[smsg[s]] = "sealable"

\* Sealers work on accepted requests.
QueuedAccepted == sealQ.msgs \subseteq Accepted

WorkAccepted ==
    \A s \in Sealers, t \in Tx : WorksOn(s, t) => t \in Accepted

\* Within the duplicate window a transaction has one answer.
OneAnswer ==
    \A t \in Tx :
        /\ answers[t] # {} => t \in cacheQ.ids
        /\ \A a, b \in answers[t] : a = b

\* Where every document comes from, from the sealer that answers to the
\* client that reads.
Provenance ==
    /\ MessagesPublished
    /\ StoredPublished
    /\ FetchedPublished
    /\ SealedSealable
    /\ QueuedAccepted
    /\ WorkAccepted
    /\ "lapse" \notin Faults => OneAnswer

=============================================================================
