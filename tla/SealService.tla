----------------------------- MODULE SealService ------------------------------
(***************************************************************************)
(* What the pipeline promises to its clients, without queues, processes or *)
(* failures: a request is accepted once and for all; only an accepted      *)
(* request is answered; the document store shows, for a while and maybe    *)
(* several times, an answer of that very transaction and nothing else.  In *)
(* a Stable service a transaction has one answer and never a second.       *)
(***************************************************************************)
CONSTANTS
    Tx,             \* transactions
    Answers,        \* what a transaction may be answered with
    NoDocument,     \* what the store shows when it has nothing
    Stable          \* whether the first answer is the only one

VARIABLES
    accepted,       \* transactions taken on
    answers,        \* the answers given so far
    shown           \* what a client sees

serviceVars == <<accepted, answers, shown>>

Init ==
    /\ accepted = {}
    /\ answers = [t \in Tx |-> {}]
    /\ shown = [t \in Tx |-> NoDocument]

Accept(t) ==
    /\ accepted' = accepted \cup {t}
    /\ UNCHANGED <<answers, shown>>

Decide(t, a) ==
    /\ t \in accepted
    /\ Stable => answers[t] = {}
    /\ answers' = [answers EXCEPT ![t] = @ \cup {a}]
    /\ UNCHANGED <<accepted, shown>>

Show(t, a) ==
    /\ a \in answers[t]
    /\ shown' = [shown EXCEPT ![t] = a]
    /\ UNCHANGED <<accepted, answers>>

Hide(t) ==
    /\ shown' = [shown EXCEPT ![t] = NoDocument]
    /\ UNCHANGED <<accepted, answers>>

Next ==
    \E t \in Tx :
        \/ Accept(t)
        \/ \E a \in Answers : Decide(t, a) \/ Show(t, a)
        \/ Hide(t)

Spec == Init /\ [][Next]_serviceVars

=============================================================================
