------------------------------ MODULE Redelivery ------------------------------
(***************************************************************************)
(* The pipeline, and how often its two streams hand out the work of a      *)
(* transaction: history variables that each step of EduSeal sets.          *)
(***************************************************************************)
EXTENDS EduSealInv

VARIABLES
    handed,     \* history: how often each request went to a sealer
    delivered   \* history: how often answers of each transaction went to a gateway

redeliveryVars == <<vars, handed, delivered>>

RedeliveryTypeOK ==
    /\ handed \in [Tx -> Nat]
    /\ delivered \in [Tx -> Nat]

RedeliveryInit ==
    /\ Init
    /\ handed = [t \in Tx |-> 0]
    /\ delivered = [t \in Tx |-> 0]

\* A delivery is what leases a message.
IsHanded(t) == t \in sealQ'.leased \ sealQ.leased

IsDelivered(t) == \E m \in cacheQ'.leased \ cacheQ.leased : m.tx = t

Observe ==
    /\ handed' = [t \in Tx |-> IF IsHanded(t) THEN handed[t] + 1 ELSE handed[t]]
    /\ delivered' = [t \in Tx |-> IF IsDelivered(t) THEN delivered[t] + 1 ELSE delivered[t]]

RedeliveryNext == Next /\ Observe

RedeliverySpec == RedeliveryInit /\ [][RedeliveryNext]_redeliveryVars

-----------------------------------------------------------------------------
(* Property *)

\* Work is repeated only for a fault: a request that ends no sealer is handed
\* out at most once more than there were faults, and an answer is delivered to
\* the gateways at most once more than that, however slow, duplicated or
\* unfinished the handlers of the first deliveries are.  While no duplicate
\* window lapses a transaction has one answer to deliver.
RepeatsArePaid ==
    \A t \in Tx :
        /\ kind[t] \notin Poison => handed[t] <= 1 + faults
        /\ "lapse" \notin Faults => delivered[t] <= 1 + faults

-----------------------------------------------------------------------------
(* Behind it *)

\* A request that waits, or is leased to nobody who works on it, has all of
\* its deliveries paid; one that is worked on or done has one more.
HandedPaidFor(t) ==
    /\ handed[t] <= 1 + faults
    /\ t \in sealQ.msgs /\ (t \in sealQ.leased => \A s \in Sealers : ~WorksOn(s, t)) =>
          handed[t] <= faults
    /\ t \notin Accepted => t \notin sealQ.msgs /\ handed[t] = 0

HandedPaid == \A t \in Tx : kind[t] \notin Poison => HandedPaidFor(t)

\* The callbacks that will send a Nak: each has cost a fault and will end a
\* lease without another one.
Naking(t) == {g \in Gateways : cstep[g] = "nak" /\ cmsg[g].tx = t}

DeliveredPaidFor(t) ==
    /\ IsFiniteSet(Naking(t))
    /\ delivered[t] + Cardinality(Naking(t)) <= 1 + faults
    /\ \A m \in cacheQ.msgs :
          m.tx = t /\ (m \in cacheQ.leased => ~Held(m)) =>
              delivered[t] + Cardinality(Naking(t)) <= faults

DeliveredPaid == \A t \in Tx : DeliveredPaidFor(t)

\* What a transaction has nothing of before its first answer, and one of
\* after it.
OneMessage ==
    /\ \A t \in Tx \ cacheQ.ids : delivered[t] = 0
    /\ \A m \in cacheQ.msgs : m.tx \in cacheQ.ids
    /\ \A g \in Gateways :
        /\ \A m \in inbox[g] : m.tx \in cacheQ.ids
        /\ cstep[g] # "idle" => cmsg[g].tx \in cacheQ.ids
    /\ \A m, n \in cacheQ.msgs : m.tx = n.tx => m = n

\* The strengthening that makes RepeatsArePaid inductive.
Paid ==
    /\ HandedPaid
    /\ "lapse" \notin Faults => DeliveredPaid /\ OneMessage

=============================================================================
