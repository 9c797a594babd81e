-------------------------------- MODULE Faults --------------------------------
(***************************************************************************)
(* The failures of the environment the other modules let happen, and the   *)
(* budget of them.  Faults is the set of kinds a configuration allows and  *)
(* MaxFaults bounds how many happen in one behaviour: a system in which    *)
(* every call fails for ever makes no progress.                            *)
(*                                                                         *)
(*   crash    a process dies and docker restarts it (restart: always)      *)
(*   redis    a command on the key-value store fails, or is sent twice     *)
(*   nats     a message to or from NATS is lost, or a publish fails        *)
(*   nak      the local send of a Nak fails while the next send succeeds   *)
(*   hsm      open_pkcs11_session says UserAlreadyLoggedIn                 *)
(*   overrun  a handler outlives AckWait, 30 seconds by default            *)
(*   lapse    two minutes pass between the publishes of one message id     *)
(***************************************************************************)
EXTENDS Naturals

FaultKinds == {"crash", "redis", "nats", "nak", "hsm", "overrun", "lapse"}

CONSTANTS
    Faults,     \* the kinds of faults that may happen
    MaxFaults   \* how many may happen in one behaviour

ASSUME FaultsAssumption == Faults \subseteq FaultKinds /\ MaxFaults \in Nat

VARIABLE faults     \* how many have happened

FaultsInit == faults = 0

Fault(k) == k \in Faults /\ faults < MaxFaults /\ faults' = faults + 1

=============================================================================
