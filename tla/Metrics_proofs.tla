----------------------------- MODULE Metrics_proofs ----------------------------
(***************************************************************************)
(* Proofs about the counters, for any number of calls, validators, threads *)
(* and calls of Metrics: the counters account for the calls, and a reply   *)
(* of Metrics for the replies before it.                                   *)
(***************************************************************************)
EXTENDS Metrics, FiniteSetTheorems, TLAPS

LEMMA PoolKept ==
    ASSUME ValidatorsTypeOK, IsFiniteSet(Calls), Workers \in Nat, NEW v \in Validators, NEW c \in Calls,
           Begin(v, c) \/ Return(v, c) \/ Raise(v, c)
    PROVE  ValidatorsTypeOK'
<1>1. \A w \in Validators : IsFiniteSet(running[w]) /\ Cardinality(running[w]) \in Nat
  BY FS_Subset, FS_CardinalityType DEF ValidatorsTypeOK
<1>2. up' \subseteq Validators /\ waiting' \in [Validators -> SUBSET Calls]
  BY DEF ValidatorsTypeOK, Begin, Return, Raise
<1>3. running' \in [Validators -> SUBSET Calls]
  BY DEF ValidatorsTypeOK, Begin, Return, Raise
<1>4. ASSUME NEW w \in Validators, w # v PROVE running'[w] = running[w]
  BY <1>4 DEF ValidatorsTypeOK, Begin, Return, Raise
<1>5. CASE Begin(v, c)
  <2>1. running'[v] = running[v] \cup {c}
    BY <1>5 DEF ValidatorsTypeOK, Begin
  <2>2. Cardinality(running'[v]) <= Cardinality(running[v]) + 1
    <3>1. Cardinality(running[v] \cup {c}) =
              IF c \in running[v] THEN Cardinality(running[v]) ELSE Cardinality(running[v]) + 1
      BY <1>1, FS_AddElement
    <3> QED
      BY <1>1, <2>1, <3>1
  <2>3. Cardinality(running'[v]) <= Workers
    <3>1. Cardinality(running[v]) < Workers
      BY <1>5 DEF Begin
    <3>2. IsFiniteSet(running'[v])
      <4>1. IsFiniteSet(running[v] \cup {c})
        BY <1>1, FS_AddElement
      <4> QED
        BY <2>1, <4>1
    <3>3. Cardinality(running'[v]) \in Nat
      BY <3>2, FS_CardinalityType
    <3> QED
      BY <1>1, <2>2, <3>1, <3>3
  <2> QED
    BY <1>2, <1>3, <1>4, <2>3 DEF ValidatorsTypeOK
<1>6. CASE Return(v, c) \/ Raise(v, c)
  <2>1. running'[v] \subseteq running[v]
    BY <1>6 DEF ValidatorsTypeOK, Return, Raise
  <2>2. Cardinality(running'[v]) <= Cardinality(running[v]) /\ Cardinality(running'[v]) \in Nat
    BY <1>1, <2>1, FS_Subset, FS_CardinalityType
  <2>3. Cardinality(running'[v]) <= Workers
    BY <1>1, <2>2 DEF ValidatorsTypeOK
  <2> QED
    BY <1>2, <1>3, <1>4, <2>3 DEF ValidatorsTypeOK
<1> QED
  BY <1>5, <1>6

LEMMA FallKept ==
    ASSUME ValidatorsTypeOK, Workers \in Nat, NEW v \in Validators, Fall(v)
    PROVE  ValidatorsTypeOK'
<1>1. \A w \in Validators : running'[w] = IF w = v THEN {} ELSE running[w]
  BY DEF ValidatorsTypeOK, Fall
<1>2. Cardinality({}) = 0
  BY FS_EmptySet
<1>3. \A w \in Validators : Cardinality(running'[w]) <= Workers
  BY <1>1, <1>2 DEF ValidatorsTypeOK
<1> QED
  BY <1>3 DEF ValidatorsTypeOK, Fall

LEMMA NumbersAreNat ==
    ASSUME IsFiniteSet(Calls), NEW steps, NEW m
    PROVE  NumberAt(steps, m) \in Nat /\ NumberAt(steps, m)' \in Nat
<1>1. /\ {c \in Calls : kind[c] = m /\ cpc[c] \in steps} \subseteq Calls
      /\ {c \in Calls : kind'[c] = m /\ cpc'[c] \in steps} \subseteq Calls
  OBVIOUS
<1>2. IsFiniteSet({c \in Calls : kind[c] = m /\ cpc[c] \in steps})
  BY <1>1, FS_Subset
<1>3. IsFiniteSet({c \in Calls : kind'[c] = m /\ cpc'[c] \in steps})
  BY <1>1, FS_Subset
<1> QED
  BY <1>2, <1>3, FS_CardinalityType DEF NumberAt

\* The types are kept, and with them the size of the pools.
THEOREM TypeCorrect == Spec => []TypeOK
<1>1. Init => TypeOK
  <2>1. Cardinality({}) = 0
    BY FS_EmptySet
  <2> QED
    BY <2>1, MetricsAssumption DEF Init, ValidatorsInit, TypeOK, ValidatorsTypeOK, Counters
<1>2. TypeOK /\ [Next]_vars => TypeOK'
  <2> SUFFICES ASSUME TypeOK, [Next]_vars PROVE TypeOK'
    OBVIOUS
  <2> USE MetricsAssumption
  <2>1. ASSUME NEW c \in Calls, CallStarts(c) \/ CallRuns(c) \/ IncResent(c) PROVE TypeOK'
    <3>1. CASE CallStarts(c) \/ Works(c) \/ WorkFails(c) \/ IncFails(c) \/ Reply(c)
      BY <3>1 DEF TypeOK, ValidatorsTypeOK, Ends, CallStarts, Works, WorkFails, IncFails, Reply, Goto,
                  validatorVars, readVars
    <3>2. ASSUME NEW v \in Validators, Dial(c, v) PROVE TypeOK'
      BY <3>2 DEF TypeOK, ValidatorsTypeOK, Ends, Dial, Accept, Goto, readVars
    <3>3. CASE Inc(c)
      BY <3>3 DEF TypeOK, ValidatorsTypeOK, Ends, Inc, Goto, validatorVars, readVars
    <3>4. CASE IncResent(c)
      BY <3>4 DEF TypeOK, ValidatorsTypeOK, Ends, IncResent, validatorVars, readVars, callVars
    <3> QED
      BY <2>1, <3>1, <3>2, <3>3, <3>4 DEF CallRuns
  <2>2. ASSUME NEW r \in Reads, MetricsStarts(r) \/ ReadRuns(r) PROVE TypeOK'
    <3>1. CASE MetricsStarts(r)
      <4>1. [m \in Counters |-> NumberAt({"ok"}, m)] \in [Counters -> Nat]
        BY NumbersAreNat
      <4> QED
        BY <3>1, <4>1 DEF TypeOK, ValidatorsTypeOK, Counters, MetricsStarts, validatorVars, callVars
    <3>2. CASE Get(r)
      <4>1. seen' \in [Reads -> [Counters -> Nat]]
        BY <3>2 DEF TypeOK, Get
      <4>2. AfterGet(rpc[r]) \in {"replied"} \cup Counters
        BY <3>2 DEF Get, AfterGet, Counters
      <4> QED
        BY <3>2, <4>1, <4>2 DEF TypeOK, ValidatorsTypeOK, Get, validatorVars, callVars
    <3>3. CASE GetFails(r)
      BY <3>3 DEF TypeOK, ValidatorsTypeOK, GetFails, validatorVars, callVars
    <3> QED
      BY <2>2, <3>1, <3>2, <3>3 DEF ReadRuns
  <2>3. ASSUME NEW v \in Validators, NEW c \in Calls,
               BeginValidation(v, c) \/ Answer(v, c) \/ ValidationRaises(v, c)
        PROVE  TypeOK'
    <3>1. ValidatorsTypeOK'
      BY <2>3, PoolKept DEF TypeOK, BeginValidation, Answer, ValidationRaises
    <3>2. cpc' \in [Calls -> {"new", "working", "validating", "counting", "counted"} \cup Ends]
      BY <2>3 DEF TypeOK, Ends, BeginValidation, Answer, ValidationRaises, Goto, callVars
    <3> QED
      BY <2>3, <3>1, <3>2 DEF TypeOK, BeginValidation, Answer, ValidationRaises, Goto, callVars, readVars
  <2>4. ASSUME NEW v \in Validators, ValidatorStarts(v) \/ ValidatorCrash(v) PROVE TypeOK'
    <3>1. CASE ValidatorStarts(v)
      BY <3>1 DEF TypeOK, ValidatorsTypeOK, ValidatorStarts, Serve, callVars, readVars
    <3>2. CASE ValidatorCrash(v)
      <4>1. ValidatorsTypeOK'
        BY <3>2, FallKept DEF TypeOK, ValidatorCrash
      <4> QED
        BY <3>2, <4>1 DEF TypeOK, Ends, ValidatorCrash, readVars
    <3> QED
      BY <2>4, <3>1, <3>2
  <2>5. CASE GatewayCrash
    BY <2>5 DEF TypeOK, ValidatorsTypeOK, Ends, GatewayCrash, validatorVars
  <2>6. CASE UNCHANGED vars
    BY <2>6 DEF TypeOK, ValidatorsTypeOK, vars, validatorVars, callVars, readVars
  <2> QED
    BY <2>1, <2>2, <2>3, <2>4, <2>5, <2>6 DEF Next, ValidatorRuns
<1> QED
  BY <1>1, <1>2, PTL DEF Spec

-----------------------------------------------------------------------------
\* How one step of one call changes the numbers: one that is counted enters both.
LEMMA Counting ==
    ASSUME TypeOK, IsFiniteSet(Calls), NEW c \in Calls, NEW m,
           cpc' = [cpc EXCEPT ![c] = "counted"], kind' = kind, cpc[c] = "counting"
    PROVE  /\ NumberAt({"counted", "ok"}, m)' =
                  IF m = kind[c] THEN NumberAt({"counted", "ok"}, m) + 1
                  ELSE NumberAt({"counted", "ok"}, m)
           /\ NumberAt({"counted", "ok", "gone"}, m)' =
                  IF m = kind[c] THEN NumberAt({"counted", "ok", "gone"}, m) + 1
                  ELSE NumberAt({"counted", "ok", "gone"}, m)
<1> DEFINE At(steps) == {d \in Calls : kind[d] = m /\ cpc[d] \in steps}
<1> DEFINE AtNext(steps) == {d \in Calls : kind'[d] = m /\ cpc'[d] \in steps}
<1>1. ASSUME NEW steps, IsFiniteSet(At(steps)), c \notin At(steps),
             AtNext(steps) = IF m = kind[c] THEN At(steps) \cup {c} ELSE At(steps)
      PROVE  Cardinality(AtNext(steps)) =
                IF m = kind[c] THEN Cardinality(At(steps)) + 1 ELSE Cardinality(At(steps))
  <2>1. Cardinality(At(steps) \cup {c}) = Cardinality(At(steps)) + 1
    BY <1>1, FS_AddElement
  <2> QED
    BY <1>1, <2>1
<1>2. ASSUME NEW steps, cpc[c] \notin steps, "counted" \in steps
      PROVE  Cardinality(AtNext(steps)) =
                IF m = kind[c] THEN Cardinality(At(steps)) + 1 ELSE Cardinality(At(steps))
  <2>1. At(steps) \subseteq Calls
    OBVIOUS
  <2>2. IsFiniteSet(At(steps)) /\ c \notin At(steps)
    BY <1>2, <2>1, FS_Subset
  <2>3. AtNext(steps) = IF m = kind[c] THEN At(steps) \cup {c} ELSE At(steps)
    BY <1>2 DEF TypeOK
  <2> QED
    BY <1>1, <2>2, <2>3
<1>3. /\ cpc[c] \notin {"counted", "ok"} /\ "counted" \in {"counted", "ok"}
      /\ cpc[c] \notin {"counted", "ok", "gone"} /\ "counted" \in {"counted", "ok", "gone"}
  OBVIOUS
<1> QED
  BY <1>2, <1>3 DEF NumberAt

\* A call that stays on one side of the bounds changes neither.
LEMMA Staying ==
    ASSUME TypeOK, NEW c \in Calls, NEW step, NEW m,
           cpc' = [cpc EXCEPT ![c] = step], kind' = kind,
           \/ cpc[c] \notin {"counted", "ok", "gone"} /\ step \notin {"counted", "ok", "gone"}
           \/ cpc[c] = "counted" /\ step = "ok"
           \/ cpc[c] = step
    PROVE  /\ NumberAt({"counted", "ok"}, m)' = NumberAt({"counted", "ok"}, m)
           /\ NumberAt({"counted", "ok", "gone"}, m)' = NumberAt({"counted", "ok", "gone"}, m)
<1>1. {d \in Calls : kind'[d] = m /\ cpc'[d] \in {"counted", "ok"}} =
          {d \in Calls : kind[d] = m /\ cpc[d] \in {"counted", "ok"}}
  BY DEF TypeOK
<1>2. {d \in Calls : kind'[d] = m /\ cpc'[d] \in {"counted", "ok", "gone"}} =
          {d \in Calls : kind[d] = m /\ cpc[d] \in {"counted", "ok", "gone"}}
  BY DEF TypeOK
<1> QED
  BY <1>1, <1>2 DEF NumberAt

\* A crash takes calls from where they work.
LEMMA Leaving ==
    ASSUME TypeOK, IsFiniteSet(Calls), NEW m, GatewayCrash
    PROVE  /\ NumberAt({"counted", "ok"}, m)' <= NumberAt({"counted", "ok"}, m)
           /\ NumberAt({"counted", "ok", "gone"}, m) <= NumberAt({"counted", "ok", "gone"}, m)'
<1> DEFINE At(steps) == {d \in Calls : kind[d] = m /\ cpc[d] \in steps}
<1> DEFINE AtNext(steps) == {d \in Calls : kind'[d] = m /\ cpc'[d] \in steps}
<1>1. AtNext({"counted", "ok"}) \subseteq At({"counted", "ok"})
  BY DEF TypeOK, GatewayCrash
<1>2. At({"counted", "ok", "gone"}) \subseteq AtNext({"counted", "ok", "gone"})
  BY DEF TypeOK, GatewayCrash
<1>3. IsFiniteSet(At({"counted", "ok"})) /\ IsFiniteSet(AtNext({"counted", "ok", "gone"}))
  <2>1. At({"counted", "ok"}) \subseteq Calls /\ AtNext({"counted", "ok", "gone"}) \subseteq Calls
    OBVIOUS
  <2> QED
    BY <2>1, FS_Subset
<1>4. Cardinality(AtNext({"counted", "ok"})) <= Cardinality(At({"counted", "ok"}))
  BY <1>1, <1>3, FS_Subset
<1>5. Cardinality(At({"counted", "ok", "gone"})) <= Cardinality(AtNext({"counted", "ok", "gone"}))
  BY <1>2, <1>3, FS_Subset
<1> QED
  BY <1>4, <1>5 DEF NumberAt

\* The end of a validator leaves counted calls alone.
LEMMA CrashStays ==
    ASSUME TypeOK, NEW v \in Validators, NEW steps, NEW m, ValidatorCrash(v),
           "validating" \notin steps, "failed" \notin steps
    PROVE  NumberAt(steps, m)' = NumberAt(steps, m)
<1>1. {d \in Calls : kind'[d] = m /\ cpc'[d] \in steps} = {d \in Calls : kind[d] = m /\ cpc[d] \in steps}
  BY DEF TypeOK, ValidatorCrash
<1> QED
  BY <1>1 DEF NumberAt

\* The counters account for the calls: the order in which the handlers work,
\* count and reply, and that they reply nothing else when the count fails.
THEOREM CallsAreAccounted == Spec => []CallsAccounted
<1> USE MetricsAssumption
<1> DEFINE Done(m) == NumberAt({"counted", "ok"}, m)
<1> DEFINE Most(m) == NumberAt({"counted", "ok", "gone"}, m)
<1>1. Init => CallsAccounted
  <2> SUFFICES ASSUME Init, NEW m \in Counters
               PROVE  Done(m) <= counter[m] /\ counter[m] <= Most(m) + resent
    BY DEF CallsAccounted
  <2>1. {c \in Calls : kind[c] = m /\ cpc[c] \in {"counted", "ok"}} = {}
    BY DEF Init
  <2>2. {c \in Calls : kind[c] = m /\ cpc[c] \in {"counted", "ok", "gone"}} = {}
    BY DEF Init
  <2>3. Done(m) = 0 /\ Most(m) = 0
    BY <2>1, <2>2, FS_EmptySet DEF NumberAt
  <2>4. counter[m] = 0 /\ resent = 0
    BY DEF Init
  <2> QED
    BY <2>3, <2>4
<1>2. TypeOK /\ CallsAccounted /\ [Next]_vars => CallsAccounted'
  <2> SUFFICES ASSUME TypeOK, CallsAccounted, [Next]_vars, NEW m \in Counters
               PROVE  Done(m)' <= counter'[m] /\ counter'[m] <= Most(m)' + resent'
    BY DEF CallsAccounted
  <2>0. /\ Done(m) \in Nat /\ Done(m)' \in Nat /\ Most(m) \in Nat /\ Most(m)' \in Nat
        /\ counter[m] \in Nat /\ resent \in Nat
        /\ Done(m) <= counter[m] /\ counter[m] <= Most(m) + resent
    BY NumbersAreNat DEF TypeOK, CallsAccounted
  <2> HIDE DEF Done, Most
  <2>1. ASSUME Done(m)' = Done(m), Most(m)' = Most(m), counter'[m] = counter[m], resent' = resent
        PROVE  Done(m)' <= counter'[m] /\ counter'[m] <= Most(m)' + resent'
    BY <2>0, <2>1
  <2>2. ASSUME NEW c \in Calls, NEW step,
               cpc' = [cpc EXCEPT ![c] = step], UNCHANGED <<kind, counter, resent>>,
               \/ cpc[c] \notin {"counted", "ok", "gone"} /\ step \notin {"counted", "ok", "gone"}
               \/ cpc[c] = "counted" /\ step = "ok"
               \/ cpc[c] = step
        PROVE  Done(m)' <= counter'[m] /\ counter'[m] <= Most(m)' + resent'
    <3>1. Done(m)' = Done(m) /\ Most(m)' = Most(m)
      BY <2>2, Staying DEF Done, Most
    <3> QED
      BY <2>1, <2>2, <3>1
  <2>3. ASSUME NEW c \in Calls,
               \/ CallStarts(c) \/ Works(c) \/ WorkFails(c) \/ IncFails(c) \/ Reply(c)
               \/ \E v \in Validators : Dial(c, v) \/ Answer(v, c) \/ ValidationRaises(v, c)
        PROVE  Done(m)' <= counter'[m] /\ counter'[m] <= Most(m)' + resent'
    <3>1. PICK step :
              /\ cpc' = [cpc EXCEPT ![c] = step]
              /\ UNCHANGED <<kind, counter, resent>>
              /\ \/ cpc[c] \notin {"counted", "ok", "gone"} /\ step \notin {"counted", "ok", "gone"}
                 \/ cpc[c] = "counted" /\ step = "ok"
                 \/ cpc[c] = step
      BY <2>3 DEF CallStarts, Works, WorkFails, IncFails, Reply, Dial, Answer, ValidationRaises, Goto
    <3> QED
      BY <2>2, <3>1
  <2>4. ASSUME NEW c \in Calls, Inc(c)
        PROVE  Done(m)' <= counter'[m] /\ counter'[m] <= Most(m)' + resent'
    <3>1. /\ cpc' = [cpc EXCEPT ![c] = "counted"] /\ kind' = kind /\ cpc[c] = "counting"
          /\ resent' = resent
      BY <2>4 DEF Inc, Goto
    <3>2. Done(m)' = IF m = kind[c] THEN Done(m) + 1 ELSE Done(m)
      BY ONLY TypeOK, MetricsAssumption, c \in Calls, <3>1, Counting DEF MetricsAssumption, Done
    <3>3. Most(m)' = IF m = kind[c] THEN Most(m) + 1 ELSE Most(m)
      BY ONLY TypeOK, MetricsAssumption, c \in Calls, <3>1, Counting DEF MetricsAssumption, Most
    <3>4. counter'[m] = IF m = kind[c] THEN counter[m] + 1 ELSE counter[m]
      BY <2>4 DEF Inc, TypeOK
    <3> QED
      BY <2>0, <3>1, <3>2, <3>3, <3>4
  <2>5. ASSUME NEW c \in Calls, IncResent(c)
        PROVE  Done(m)' <= counter'[m] /\ counter'[m] <= Most(m)' + resent'
    <3>1. resent' = resent + 1 /\ UNCHANGED <<kind, cpc>>
      BY <2>5 DEF IncResent, callVars
    <3>2. Done(m)' = Done(m) /\ Most(m)' = Most(m)
      BY <3>1 DEF Done, Most, NumberAt
    <3>3. counter'[m] = counter[m] \/ counter'[m] = counter[m] + 1
      BY <2>5 DEF IncResent, TypeOK
    <3> QED
      BY <2>0, <3>1, <3>2, <3>3
  <2>6. ASSUME NEW v \in Validators, ValidatorCrash(v)
        PROVE  Done(m)' = Done(m) /\ Most(m)' = Most(m) /\ counter' = counter /\ resent' = resent
    BY <2>6, CrashStays DEF Done, Most, ValidatorCrash
  <2>7. ASSUME UNCHANGED <<kind, cpc, counter, resent>>
        PROVE  Done(m)' = Done(m) /\ Most(m)' = Most(m) /\ counter' = counter /\ resent' = resent
    BY <2>7 DEF Done, Most, NumberAt
  <2>8. CASE GatewayCrash
    <3>1. counter' = counter /\ resent' = resent
      BY <2>8 DEF GatewayCrash
    <3>2. Done(m)' <= Done(m) /\ Most(m) <= Most(m)'
      BY <2>8, Leaving DEF Done, Most
    <3> QED
      BY <2>0, <3>1, <3>2
  <2>9. ASSUME NEW r \in Reads, MetricsStarts(r) \/ ReadRuns(r)
         PROVE  UNCHANGED <<kind, cpc, counter, resent>>
    BY <2>9 DEF MetricsStarts, ReadRuns, Get, GetFails, callVars
  <2>10. ASSUME NEW v \in Validators,
                ValidatorStarts(v) \/ \E c \in Calls : BeginValidation(v, c)
         PROVE  UNCHANGED <<kind, cpc, counter, resent>>
    BY <2>10 DEF BeginValidation, ValidatorStarts, callVars
  <2>11. ASSUME UNCHANGED vars PROVE UNCHANGED <<kind, cpc, counter, resent>>
    BY <2>11 DEF vars, callVars
  <2> QED
    BY <2>1, <2>3, <2>4, <2>5, <2>6, <2>7, <2>8, <2>9, <2>10, <2>11
    DEF Next, CallRuns, ValidatorRuns
<1> QED
  BY <1>1, <1>2, TypeCorrect, PTL DEF Spec

-----------------------------------------------------------------------------
\* What a call of Metrics has read already.
ReadBefore(step) ==
    CASE step = "fetching" -> {"signings"}
      [] step = "validations" -> {"signings", "fetching"}
      [] step = "replied" -> Counters
      [] OTHER -> {}

\* No counter falls, so what was replied to when a call began is in every
\* counter it reads later.
ReadsInv ==
    \A r \in Reads, m \in Counters :
        /\ floor[r][m] <= counter[m]
        /\ m \in ReadBefore(rpc[r]) => floor[r][m] <= seen[r][m]

LEMMA CountersGrow ==
    ASSUME TypeOK, [Next]_vars, NEW m \in Counters
    PROVE  counter'[m] \in Nat /\ counter[m] <= counter'[m]
<1>1. counter[m] \in Nat
  BY DEF TypeOK
<1>2. ASSUME NEW c \in Calls, Inc(c) \/ IncResent(c)
      PROVE  counter'[m] = counter[m] \/ counter'[m] = counter[m] + 1
  BY <1>2 DEF TypeOK, Inc, IncResent
<1>3. CASE \E c \in Calls : Inc(c) \/ IncResent(c)
  BY <1>1, <1>2, <1>3
<1>4. CASE ~(\E c \in Calls : Inc(c) \/ IncResent(c))
  <2>1. counter' = counter
    BY <1>4 DEF Next, CallRuns, ReadRuns, ValidatorRuns, CallStarts, Works, WorkFails, IncFails, Reply,
                Dial, MetricsStarts, Get, GetFails, BeginValidation, Answer, ValidationRaises,
                ValidatorStarts, ValidatorCrash, GatewayCrash, vars
  <2> QED
    BY <1>1, <2>1
<1> QED
  BY <1>3, <1>4

\* A reply of Metrics counts what had been replied to: the increment before the
\* reply, and the early return when a counter cannot be read.
THEOREM RepliesAreInMetrics == Spec => []RepliesAreCounted
<1> USE MetricsAssumption
<1>1. Init => ReadsInv
  BY DEF Init, ReadsInv, ReadBefore
<1>2. TypeOK /\ CallsAccounted /\ ReadsInv /\ [Next]_vars => ReadsInv'
  <2> SUFFICES ASSUME TypeOK, CallsAccounted, ReadsInv, [Next]_vars, NEW r \in Reads, NEW m \in Counters
               PROVE  /\ floor'[r][m] <= counter'[m]
                      /\ m \in ReadBefore(rpc'[r]) => floor'[r][m] <= seen'[r][m]
    BY DEF ReadsInv
  <2>0. /\ floor[r][m] \in Nat /\ seen[r][m] \in Nat /\ counter[m] \in Nat /\ counter'[m] \in Nat
        /\ counter[m] <= counter'[m] /\ floor[r][m] <= counter[m]
        /\ m \in ReadBefore(rpc[r]) => floor[r][m] <= seen[r][m]
    BY CountersGrow DEF TypeOK, ReadsInv
  <2>1. CASE UNCHANGED <<rpc[r], seen[r], floor[r]>>
    BY <2>0, <2>1
  <2>2. CASE MetricsStarts(r)
    <3>1. floor'[r][m] = NumberAt({"ok"}, m)
      BY <2>2 DEF MetricsStarts, TypeOK
    <3>2. NumberAt({"ok"}, m) <= NumberAt({"counted", "ok"}, m)
      <4>1. {c \in Calls : kind[c] = m /\ cpc[c] \in {"ok"}}
              \subseteq {c \in Calls : kind[c] = m /\ cpc[c] \in {"counted", "ok"}}
        OBVIOUS
      <4>2. IsFiniteSet({c \in Calls : kind[c] = m /\ cpc[c] \in {"counted", "ok"}})
        <5>1. {c \in Calls : kind[c] = m /\ cpc[c] \in {"counted", "ok"}} \subseteq Calls
          OBVIOUS
        <5> QED
          BY <5>1, FS_Subset
      <4> QED
        BY <4>1, <4>2, FS_Subset DEF NumberAt
    <3>3. NumberAt({"counted", "ok"}, m) <= counter[m]
      BY DEF CallsAccounted
    <3>4. rpc'[r] = "signings"
      BY <2>2 DEF MetricsStarts, TypeOK
    <3>5. NumberAt({"ok"}, m) \in Nat /\ NumberAt({"counted", "ok"}, m) \in Nat
      BY NumbersAreNat
    <3>6. m \notin ReadBefore(rpc'[r])
      BY <3>4 DEF ReadBefore
    <3> QED
      BY <2>0, <3>1, <3>2, <3>3, <3>5, <3>6
  <2>3. CASE Get(r)
    <3>1. floor' = floor /\ counter' = counter
      BY <2>3 DEF Get
    <3>2. rpc'[r] = AfterGet(rpc[r]) /\ rpc[r] \in Counters
      BY <2>3 DEF Get, TypeOK
    <3>3. seen'[r][m] = IF m = rpc[r] THEN counter[m] ELSE seen[r][m]
      BY <2>3 DEF Get, TypeOK
    <3>4. m \in ReadBefore(rpc'[r]) => m = rpc[r] \/ m \in ReadBefore(rpc[r])
      BY <3>2 DEF ReadBefore, AfterGet, Counters
    <3> QED
      BY <2>0, <3>1, <3>3, <3>4
  <2>4. CASE GetFails(r) \/ GatewayCrash
    <3>1. UNCHANGED <<floor, seen, counter>> /\ rpc'[r] \in {"failed", rpc[r]}
      BY <2>4 DEF GetFails, GatewayCrash, TypeOK
    <3>2. ReadBefore("failed") = {}
      BY DEF ReadBefore
    <3> QED
      BY <2>0, <3>1, <3>2
  <2>5. ASSUME NEW q \in Reads, q # r, MetricsStarts(q) \/ ReadRuns(q)
        PROVE  UNCHANGED <<rpc[r], seen[r], floor[r]>>
    BY <2>5 DEF MetricsStarts, ReadRuns, Get, GetFails, TypeOK
  <2>6. ASSUME NEW c \in Calls, CallStarts(c) \/ CallRuns(c) \/ IncResent(c)
        PROVE  UNCHANGED <<rpc[r], seen[r], floor[r]>>
    BY <2>6 DEF CallRuns, CallStarts, Works, WorkFails, Dial, Inc, IncFails, Reply, IncResent, Goto,
                readVars
  <2>7. ASSUME NEW v \in Validators, ValidatorRuns(v) \/ ValidatorStarts(v) \/ ValidatorCrash(v)
        PROVE  UNCHANGED <<rpc[r], seen[r], floor[r]>>
    BY <2>7 DEF ValidatorRuns, BeginValidation, Answer, ValidationRaises, ValidatorStarts,
                ValidatorCrash, Goto, readVars
  <2>8. ASSUME UNCHANGED vars PROVE UNCHANGED <<rpc[r], seen[r], floor[r]>>
    BY <2>8 DEF vars, readVars
  <2> QED
    BY <2>1, <2>2, <2>3, <2>4, <2>5, <2>6, <2>7, <2>8 DEF Next, ReadRuns
<1>3. ReadsInv => RepliesAreCounted
  BY DEF ReadsInv, RepliesAreCounted, ReadBefore
<1> QED
  BY <1>1, <1>2, <1>3, TypeCorrect, CallsAreAccounted, PTL DEF Spec

-----------------------------------------------------------------------------
\* CallsAreHeld for one call, and why its Dial makes it the call of one
\* validator: before it, no validator knows the call.
HeldOnce(c) ==
    /\ cpc[c] \in {"new", "working"} => \A v \in Validators : ~With(v, c)
    /\ cpc[c] = "validating" => \E v \in up : With(v, c)
    /\ \A v, w \in Validators : With(v, c) /\ With(w, c) => v = w
    /\ \A v \in Validators : c \notin waiting[v] \cap running[v]

\* A step that the validators do not see concerns only who waits for them.
LEMMA HeldByTheSame ==
    ASSUME NEW c \in Calls, HeldOnce(c), UNCHANGED validatorVars,
           cpc'[c] \in {"new", "working"} => cpc[c] \in {"new", "working"},
           cpc'[c] = "validating" => cpc[c] = "validating"
    PROVE  HeldOnce(c)'
BY DEF HeldOnce, With, validatorVars

\* What a validator does for one call, it does for no other.
LEMMA HeldApart ==
    ASSUME ValidatorsTypeOK, NEW c \in Calls, HeldOnce(c), NEW v \in Validators, NEW d \in Calls, c # d,
           Accept(v, d) \/ Begin(v, d) \/ Return(v, d) \/ Raise(v, d), cpc'[c] = cpc[c]
    PROVE  HeldOnce(c)'
<1>1. \A w \in Validators : (c \in waiting'[w] <=> c \in waiting[w]) /\ (c \in running'[w] <=> c \in running[w])
  BY DEF ValidatorsTypeOK, Accept, Begin, Return, Raise
<1>2. up' = up /\ up \subseteq Validators
  BY DEF ValidatorsTypeOK, Accept, Begin, Return, Raise
<1> QED
  BY <1>1, <1>2 DEF HeldOnce, With

\* HeldOnce is inductive.
LEMMA HeldStep ==
    ASSUME TypeOK, [Next]_vars, NEW c \in Calls, HeldOnce(c)
    PROVE  HeldOnce(c)'
<1>0. ValidatorsTypeOK /\ cpc \in [Calls -> {"new", "working", "validating", "counting", "counted"} \cup Ends]
  BY DEF TypeOK
<1>1. ASSUME NEW d \in Calls,
             \/ CallStarts(d) \/ Works(d) \/ WorkFails(d) \/ Inc(d) \/ IncFails(d) \/ Reply(d)
             \/ IncResent(d)
      PROVE  HeldOnce(c)'
  <2>1. UNCHANGED validatorVars
    BY <1>1 DEF CallStarts, Works, WorkFails, Inc, IncFails, Reply, IncResent
  <2>2. /\ cpc'[c] \in {"new", "working"} => cpc[c] \in {"new", "working"}
        /\ cpc'[c] = "validating" => cpc[c] = "validating"
    BY <1>0, <1>1 DEF CallStarts, Works, WorkFails, Inc, IncFails, Reply, IncResent, Goto, callVars
  <2> QED
    BY <2>1, <2>2, HeldByTheSame
<1>2. ASSUME NEW v \in Validators, NEW d \in Calls,
             Dial(d, v) \/ BeginValidation(v, d) \/ Answer(v, d) \/ ValidationRaises(v, d), d # c
      PROVE  HeldOnce(c)'
  <2>1. Accept(v, d) \/ Begin(v, d) \/ Return(v, d) \/ Raise(v, d)
    BY <1>2 DEF Dial, BeginValidation, Answer, ValidationRaises
  <2>2. cpc'[c] = cpc[c]
    BY <1>0, <1>2 DEF Dial, BeginValidation, Answer, ValidationRaises, Goto, callVars
  <2> QED
    BY <1>0, <1>2, <2>1, <2>2, HeldApart
<1>3. ASSUME NEW v \in Validators, Dial(c, v) PROVE HeldOnce(c)'
  <2>1. /\ \A w \in Validators : c \notin waiting[w] \cup running[w]
        /\ cpc'[c] = "validating" /\ v \in up /\ up' = up /\ running' = running
        /\ \A w \in Validators : waiting'[w] = IF w = v THEN waiting[w] \cup {c} ELSE waiting[w]
    BY <1>0, <1>3 DEF Dial, Accept, Goto, ValidatorsTypeOK, HeldOnce, With
  <2> QED
    BY <2>1 DEF HeldOnce, With
<1>4. ASSUME NEW v \in Validators, BeginValidation(v, c) PROVE HeldOnce(c)'
  <2>1. /\ cpc' = cpc /\ up' = up /\ up \subseteq Validators /\ c \in waiting[v]
        /\ \A w \in Validators : waiting'[w] = IF w = v THEN waiting[w] \ {c} ELSE waiting[w]
        /\ \A w \in Validators : running'[w] = IF w = v THEN running[w] \cup {c} ELSE running[w]
    BY <1>0, <1>4 DEF BeginValidation, Begin, ValidatorsTypeOK, callVars
  <2>2. \A w \in Validators : With(w, c)' <=> With(w, c)
    BY <2>1 DEF With
  <2> QED
    BY <2>1, <2>2 DEF HeldOnce
<1>5. ASSUME NEW v \in Validators, Answer(v, c) \/ ValidationRaises(v, c) PROVE HeldOnce(c)'
  <2>1. /\ up' = up /\ waiting' = waiting /\ c \in running[v]
        /\ \A w \in Validators : running'[w] = IF w = v THEN running[w] \ {c} ELSE running[w]
        /\ cpc'[c] # "validating"
        /\ cpc'[c] \in {"new", "working"} => cpc[c] \in {"new", "working"}
    BY <1>0, <1>5 DEF Answer, ValidationRaises, Return, Raise, Goto, ValidatorsTypeOK
  <2> QED
    BY <2>1 DEF HeldOnce, With
<1>6. ASSUME NEW v \in Validators, ValidatorStarts(v) PROVE HeldOnce(c)'
  BY <1>6 DEF ValidatorStarts, Serve, callVars, HeldOnce, With
<1>7. ASSUME NEW v \in Validators, ValidatorCrash(v) PROVE HeldOnce(c)'
  <2>1. /\ up' = up \ {v} /\ up \subseteq Validators
        /\ \A w \in Validators : waiting'[w] = IF w = v THEN {} ELSE waiting[w]
        /\ \A w \in Validators : running'[w] = IF w = v THEN {} ELSE running[w]
        /\ cpc'[c] = IF cpc[c] = "validating" /\ With(v, c) THEN "failed" ELSE cpc[c]
    BY <1>0, <1>7 DEF ValidatorCrash, Fall, ValidatorsTypeOK, With
  <2> QED
    BY <2>1 DEF HeldOnce, With
<1>8. CASE GatewayCrash
  <2>1. /\ cpc'[c] \in {"new", "working"} => cpc[c] \in {"new", "working"}
        /\ cpc'[c] = "validating" => cpc[c] = "validating"
    BY <1>0, <1>8 DEF GatewayCrash
  <2> QED
    BY <1>8, <2>1, HeldByTheSame DEF GatewayCrash
<1>9. CASE UNCHANGED <<validatorVars, callVars>>
  BY <1>9, HeldByTheSame DEF callVars
<1> QED
  BY <1>1, <1>2, <1>3, <1>4, <1>5, <1>6, <1>7, <1>8, <1>9
  DEF Next, CallRuns, ReadRuns, ValidatorRuns, MetricsStarts, Get, GetFails, vars

\* A call that hangs on a validator hangs on one that has it and serves; no
\* validator's crash and no crash of a gateway leaves a call to nobody or to two.
THEOREM CallsHaveAHolder == Spec => []CallsAreHeld
<1>1. Init => \A c \in Calls : HeldOnce(c)
  BY DEF Init, ValidatorsInit, HeldOnce, With
<1>2. TypeOK /\ (\A c \in Calls : HeldOnce(c)) /\ [Next]_vars => (\A c \in Calls : HeldOnce(c))'
  BY HeldStep
<1>3. (\A c \in Calls : HeldOnce(c)) => CallsAreHeld
  BY DEF HeldOnce, CallsAreHeld
<1> QED
  BY <1>1, <1>2, <1>3, TypeCorrect, PTL DEF Spec

=============================================================================
