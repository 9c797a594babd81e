------------------------------ MODULE Validators ------------------------------
(***************************************************************************)
(* The validator processes: a gRPC server with a pool of threads each.     *)
(* What waits for a thread waits in the memory of the process.             *)
(***************************************************************************)

EXTENDS Naturals, FiniteSets

CONSTANTS
    Calls,        \* calls of the gateway that may need a validator
    Validators,
    Workers       \* threads of a validator

VARIABLES
    up,           \* the validators that serve
    waiting,      \* the calls each has accepted and not begun with
    running       \* the calls its threads work on

validatorVars == <<up, waiting, running>>

ValidatorsTypeOK ==
    /\ up \subseteq Validators
    /\ waiting \in [Validators -> SUBSET Calls]
    /\ running \in [Validators -> SUBSET Calls]
    /\ \A v \in Validators : Cardinality(running[v]) <= Workers

ValidatorsInit ==
    /\ up \in SUBSET Validators
    /\ waiting = [v \in Validators |-> {}]
    /\ running = [v \in Validators |-> {}]

Serve(v) ==
    /\ v \notin up
    /\ up' = up \cup {v}
    /\ UNCHANGED <<waiting, running>>

\* Every call has a connection of its own; round robin takes any server that answers.
Accept(v, call) ==
    /\ v \in up
    /\ waiting' = [waiting EXCEPT ![v] = @ \cup {call}]
    /\ UNCHANGED <<up, running>>

\* Mutant: a thread for every call.
BeginUnbounded(v, call) ==
    /\ call \in waiting[v]
    /\ waiting' = [waiting EXCEPT ![v] = @ \ {call}]
    /\ running' = [running EXCEPT ![v] = @ \cup {call}]
    /\ UNCHANGED up

Begin(v, call) ==
    /\ call \in waiting[v]
    /\ Cardinality(running[v]) < Workers
    /\ waiting' = [waiting EXCEPT ![v] = @ \ {call}]
    /\ running' = [running EXCEPT ![v] = @ \cup {call}]
    /\ UNCHANGED up

\* Validate returns: with a verdict, or with one of its four errors.
Return(v, call) ==
    /\ call \in running[v]
    /\ running' = [running EXCEPT ![v] = @ \ {call}]
    /\ UNCHANGED <<up, waiting>>

\* What Validate does not catch, as when it looks for the signatures, ends the
\* call; the thread goes back to the pool.
Raise(v, call) ==
    /\ call \in running[v]
    /\ running' = [running EXCEPT ![v] = @ \ {call}]
    /\ UNCHANGED <<up, waiting>>

\* The process ends, and with it the connections of all its calls.
Fall(v) ==
    /\ v \in up
    /\ up' = up \ {v}
    /\ waiting' = [waiting EXCEPT ![v] = {}]
    /\ running' = [running EXCEPT ![v] = {}]

=============================================================================
