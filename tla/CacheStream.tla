----------------------------- MODULE CacheStream ------------------------------
(***************************************************************************)
(* The gateway's side of caching (cache_stream.go): the CACHE stream and   *)
(* the callback of its consumer "cacher", which saves each answer of a     *)
(* sealer with SaveSigned (doc_methods.go) and acknowledges it.  The       *)
(* client library fetches messages ahead into a buffer and calls the       *)
(* callback for one after the other.                                       *)
(***************************************************************************)
EXTENDS DocStore

\* n numbers the stored messages of one transaction: two messages with the
\* same answer are two messages of the stream.
Message == [tx : Tx, n : Nat, answer : Answer]

VARIABLES
    cacheQ,     \* cache_stream
    sequence,   \* how many messages of each transaction it has stored
    inbox,      \* the messages each gateway has fetched ahead
    cstep,      \* where the callback of each gateway is
    cmsg,       \* the message it handles
    answers,    \* history: the answers stored in the stream
    cached      \* history: the transactions SaveSigned returned nil for

cacheVars == <<cacheQ, sequence, inbox, cstep, cmsg, answers, cached>>

CacheSteps == {"idle", "hset", "expire", "nak", "ack"}

CacheTypeOK ==
    /\ cacheQ \in Queue(Tx, Message)
    /\ sequence \in [Tx -> Nat]
    /\ inbox \in [Gateways -> SUBSET Message]
    /\ cstep \in [Gateways -> CacheSteps]
    /\ cmsg \in [Gateways -> Message \cup {None}]
    /\ \A g \in Gateways : cstep[g] # "idle" => cmsg[g] \in Message
    /\ answers \in [Tx -> SUBSET Answer]
    /\ cached \subseteq Tx

CacheInit ==
    /\ cacheQ = EmptyQueue
    /\ sequence = [t \in Tx |-> 0]
    /\ inbox = [g \in Gateways |-> {}]
    /\ cstep = [g \in Gateways |-> "idle"]
    /\ cmsg = [g \in Gateways |-> None]
    /\ answers = [t \in Tx |-> {}]
    /\ cached = {}

Handles(g, m) == cstep[g] # "idle" /\ cmsg[g] = m

\* A process of the gateway has the message and may still acknowledge it.
Held(m) == \E g \in Gateways : m \in inbox[g] \/ Handles(g, m)

-----------------------------------------------------------------------------
(* Publishing to CACHE, the last step but one of the sealer *)

\* Mutant: the publish carries no Nats-Msg-Id.
StoreAnswerWithoutId(t, a) ==
    /\ cacheQ' = PublishTo(Forget(cacheQ, t), t,
                           [tx |-> t, n |-> sequence[t], answer |-> a])
    /\ sequence' = [sequence EXCEPT ![t] = @ + 1]
    /\ answers' = [answers EXCEPT ![t] = @ \cup {a}]
    /\ UNCHANGED <<inbox, cstep, cmsg, cached>>

StoreAnswer(t, a) ==
    /\ cacheQ' = PublishTo(cacheQ, t,
                           [tx |-> t, n |-> sequence[t], answer |-> a])
    /\ IF t \in cacheQ.ids
       THEN UNCHANGED <<sequence, answers>>
       ELSE /\ sequence' = [sequence EXCEPT ![t] = @ + 1]
            /\ answers' = [answers EXCEPT ![t] = @ \cup {a}]
    /\ UNCHANGED <<inbox, cstep, cmsg, cached>>

\* Two minutes have passed since the answer was published.
WindowLapse(t) ==
    /\ Fault("lapse")
    /\ t \in cacheQ.ids
    /\ cacheQ' = Forget(cacheQ, t)
    /\ UNCHANGED <<docVars, sequence, inbox, cstep, cmsg, answers, cached>>

-----------------------------------------------------------------------------
(* The consumer *)

Deliver(g, m) ==
    /\ m \in Deliverable(cacheQ)
    /\ cacheQ' = Lease(cacheQ, m)
    /\ inbox' = [inbox EXCEPT ![g] = @ \cup {m}]
    /\ UNCHANGED <<docVars, sequence, cstep, cmsg, answers, cached, faults>>

Receive(g, m) ==
    /\ cstep[g] = "idle"
    /\ m \in inbox[g]
    /\ cstep' = [cstep EXCEPT ![g] = "hset"]
    /\ cmsg' = [cmsg EXCEPT ![g] = m]
    /\ inbox' = [inbox EXCEPT ![g] = @ \ {m}]
    /\ UNCHANGED <<docVars, cacheQ, sequence, answers, cached, faults>>

CacheGoto(g, step) ==
    /\ cstep' = [cstep EXCEPT ![g] = step]
    /\ UNCHANGED <<cacheQ, sequence, inbox, cmsg, answers>>

\* Mutant: the callback forgets to copy SealerBackend.
HSetWithoutBackend(g) ==
    /\ cstep[g] = "hset"
    /\ HSetDoc(cmsg[g].tx, [data |-> cmsg[g].answer.data, backend |-> None])
    /\ CacheGoto(g, "expire")
    /\ UNCHANGED <<cached, faults>>

\* Mutant: the callback saves under the id of a message fetched after its own.
HSetOtherKey(g) ==
    /\ cstep[g] = "hset"
    /\ \E m \in inbox[g] \cup {cmsg[g]} : HSetDoc(m.tx, cmsg[g].answer)
    /\ CacheGoto(g, "expire")
    /\ UNCHANGED <<cached, faults>>

\* SaveSigned, first command.  The error of the sealer is not among the
\* fields the callback copies: an answer with an error is saved as a document
\* without data.
HSet(g) ==
    /\ cstep[g] = "hset"
    /\ HSetDoc(cmsg[g].tx, cmsg[g].answer)
    /\ CacheGoto(g, "expire")
    /\ UNCHANGED <<cached, faults>>

\* Mutant: the Nak goes out at once and the callback tries again.
HSetFailsAndRetries(g) ==
    /\ Fault("redis")
    /\ cstep[g] = "hset"
    /\ cacheQ' = Release(cacheQ, cmsg[g])
    /\ UNCHANGED <<docVars, sequence, inbox, cstep, cmsg, answers, cached>>

\* Mutant: the callback sends no Nak when SaveSigned fails, only the Ack.
HSetFailsIgnored(g) ==
    /\ Fault("redis")
    /\ cstep[g] = "hset"
    /\ UNCHANGED docVars
    /\ CacheGoto(g, "ack")
    /\ UNCHANGED cached

HSetFails(g) ==
    /\ Fault("redis")
    /\ cstep[g] = "hset"
    /\ \/ HSetDoc(cmsg[g].tx, cmsg[g].answer)
       \/ UNCHANGED docVars
    /\ CacheGoto(g, "nak")
    /\ UNCHANGED cached

\* SaveSigned, second command.
SetTTL(g) ==
    /\ cstep[g] = "expire"
    /\ ExpireDoc(cmsg[g].tx)
    /\ CacheGoto(g, "ack")
    /\ cached' = cached \cup {cmsg[g].tx}
    /\ UNCHANGED faults

\* Mutant: the error of EXPIRE is not returned.
SetTTLFailsIgnored(g) ==
    /\ Fault("redis")
    /\ cstep[g] = "expire"
    /\ UNCHANGED docVars
    /\ CacheGoto(g, "ack")
    /\ UNCHANGED cached

SetTTLFails(g) ==
    /\ Fault("redis")
    /\ cstep[g] = "expire"
    /\ \/ ExpireDoc(cmsg[g].tx)
       \/ UNCHANGED docVars
    /\ CacheGoto(g, "nak")
    /\ UNCHANGED cached

\* The callback is done with its message.
CacheDone(g) ==
    /\ cstep' = [cstep EXCEPT ![g] = "idle"]
    /\ cmsg' = [cmsg EXCEPT ![g] = None]
    /\ UNCHANGED <<docVars, sequence, inbox, answers, cached>>

\* The callback does not return after a Nak.  When the Nak was sent, the
\* library refuses the Ack that follows.
Nak(g) ==
    /\ cstep[g] = "nak"
    /\ cacheQ' = Release(cacheQ, cmsg[g])
    /\ CacheDone(g)
    /\ UNCHANGED faults

\* When the Nak could not be sent, the library lets the Ack pass.
NakFails(g) ==
    /\ Fault("nak")
    /\ cstep[g] = "nak"
    /\ CacheGoto(g, "ack")
    /\ UNCHANGED <<docVars, cached>>

\* Mutant: the callback returns without the Ack.
AckCacheForgotten(g) ==
    /\ cstep[g] = "ack"
    /\ CacheDone(g)
    /\ UNCHANGED <<cacheQ, faults>>

AckCache(g) ==
    /\ cstep[g] = "ack"
    /\ cacheQ' = Remove(cacheQ, cmsg[g])
    /\ CacheDone(g)
    /\ UNCHANGED faults

\* The Ack, or the Nak, is sent and never arrives.
AckCacheLost(g) ==
    /\ Fault("nats")
    /\ cstep[g] \in {"nak", "ack"}
    /\ CacheDone(g)
    /\ UNCHANGED cacheQ

-----------------------------------------------------------------------------
(* AckWait, and the crash of a gateway *)

CacheAckWait(m) ==
    /\ m \in cacheQ.leased
    /\ ~Held(m)
    /\ cacheQ' = Release(cacheQ, m)
    /\ UNCHANGED <<docVars, sequence, inbox, cstep, cmsg, answers, cached, faults>>

\* AckWait ends while the gateway still has the message: the message may be
\* delivered a second time, to this gateway or to another one.
CacheOverrun(m) ==
    /\ Fault("overrun")
    /\ m \in cacheQ.leased
    /\ Held(m)
    /\ cacheQ' = Release(cacheQ, m)
    /\ UNCHANGED <<docVars, sequence, inbox, cstep, cmsg, answers, cached>>

\* What a crash of process g does to its consumer.
CacheCrash(g) ==
    /\ inbox' = [inbox EXCEPT ![g] = {}]
    /\ cstep' = [cstep EXCEPT ![g] = "idle"]
    /\ cmsg' = [cmsg EXCEPT ![g] = None]
    /\ UNCHANGED <<docVars, cacheQ, sequence, answers, cached>>

CacheNext ==
    \/ \E t \in Tx : WindowLapse(t)
    \/ \E g \in Gateways :
        \/ \E m \in cacheQ.msgs : Deliver(g, m)
        \/ \E m \in inbox[g] : Receive(g, m)
        \/ HSet(g)
        \/ HSetFails(g)
        \/ SetTTL(g)
        \/ SetTTLFails(g)
        \/ Nak(g)
        \/ NakFails(g)
        \/ AckCache(g)
        \/ AckCacheLost(g)
    \/ \E m \in cacheQ.msgs : CacheAckWait(m) \/ CacheOverrun(m)

=============================================================================
