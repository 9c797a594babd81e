-------------------------------- MODULE Metrics -------------------------------
(***************************************************************************)
(* What the three counters say.  PDFSign, PDFGetSigned and PDFValidate all *)
(* do their work, count it, and reply; Metrics reads the counters one by   *)
(* one.  The work of PDFValidate is here, with the validators it calls;    *)
(* that of the other two is in the module EduSeal and either succeeds or   *)
(* fails here.                                                             *)
(***************************************************************************)

EXTENDS Validators

CONSTANTS
    Reads,        \* calls of Metrics
    MaxResends    \* bound: increments that are sent again

ASSUME MetricsAssumption ==
    /\ IsFiniteSet(Calls)
    /\ Workers \in Nat
    /\ MaxResends \in Nat

VARIABLES
    kind,         \* which counter each call is for
    cpc,          \* where each call is
    counter,      \* the three counters in the store
    resent,       \* increments that were executed twice
    rpc,          \* which counter each call of Metrics reads next
    seen,         \* what it has read
    floor         \* history: the replies there were when it began

callVars == <<kind, cpc>>
readVars == <<rpc, seen, floor>>
vars == <<validatorVars, callVars, counter, resent, readVars>>

Counters == {"signings", "fetching", "validations"}

Ends == {"ok", "failed", "uncounted", "gone"}

TypeOK ==
    /\ ValidatorsTypeOK
    /\ kind \in [Calls -> Counters]
    /\ cpc \in [Calls -> {"new", "working", "validating", "counting", "counted"} \cup Ends]
    /\ counter \in [Counters -> Nat]
    /\ resent \in 0 .. MaxResends
    /\ rpc \in [Reads -> {"new", "replied", "failed"} \cup Counters]
    /\ seen \in [Reads -> [Counters -> Nat]]
    /\ floor \in [Reads -> [Counters -> Nat]]

Init ==
    /\ ValidatorsInit
    /\ kind \in [Calls -> Counters]
    /\ cpc = [c \in Calls |-> "new"]
    /\ counter = [m \in Counters |-> 0]
    /\ resent = 0
    /\ rpc = [r \in Reads |-> "new"]
    /\ seen = [r \in Reads |-> [m \in Counters |-> 0]]
    /\ floor = [r \in Reads |-> [m \in Counters |-> 0]]

-----------------------------------------------------------------------------
(* The work *)

Goto(c, step) ==
    /\ cpc' = [cpc EXCEPT ![c] = step]
    /\ UNCHANGED <<kind, resent, readVars>>

CallStarts(c) ==
    /\ cpc[c] = "new"
    /\ Goto(c, "working")
    /\ UNCHANGED <<validatorVars, counter>>

\* The publish of PDFSign, the read of PDFGetSigned.
Works(c) ==
    /\ cpc[c] = "working"
    /\ kind[c] # "validations"
    /\ Goto(c, "counting")
    /\ UNCHANGED <<validatorVars, counter>>

\* They fail; or rrConn does, in which case the deferred Close of no connection
\* panics and the middleware replies.
WorkFails(c) ==
    /\ cpc[c] = "working"
    /\ Goto(c, "failed")
    /\ UNCHANGED <<validatorVars, counter>>

Dial(c, v) ==
    /\ cpc[c] = "working"
    /\ kind[c] = "validations"
    /\ Accept(v, c)
    /\ Goto(c, "validating")
    /\ UNCHANGED counter

\* The validator works without knowing whether the gateway still waits.
Answer(v, c) ==
    /\ Return(v, c)
    /\ Goto(c, IF cpc[c] = "validating" THEN "counting" ELSE cpc[c])
    /\ UNCHANGED counter

ValidationRaises(v, c) ==
    /\ Raise(v, c)
    /\ Goto(c, IF cpc[c] = "validating" THEN "failed" ELSE cpc[c])
    /\ UNCHANGED counter

BeginValidation(v, c) ==
    /\ Begin(v, c)
    /\ UNCHANGED <<callVars, counter, resent, readVars>>

ValidatorStarts(v) ==
    /\ Serve(v)
    /\ UNCHANGED <<callVars, counter, resent, readVars>>

\* Mutant: a host that is gone breaks no connection.
ValidatorCrashUnnoticed(v) ==
    /\ Fall(v)
    /\ UNCHANGED <<callVars, counter, resent, readVars>>

\* The calls have no deadline, but they end with their connection.
ValidatorCrash(v) ==
    /\ cpc' = [c \in Calls |->
                  IF cpc[c] = "validating" /\ c \in waiting[v] \cup running[v]
                      THEN "failed" ELSE cpc[c]]
    /\ Fall(v)
    /\ UNCHANGED <<kind, counter, resent, readVars>>

-----------------------------------------------------------------------------
(* The counting *)

Inc(c) ==
    /\ cpc[c] = "counting"
    /\ counter' = [counter EXCEPT ![kind[c]] = @ + 1]
    /\ Goto(c, "counted")
    /\ UNCHANGED validatorVars

\* The reply of an increment is lost.  The client library sends it again, or has
\* done so often enough: then IncFails is next.
IncResent(c) ==
    /\ cpc[c] = "counting"
    /\ resent < MaxResends
    /\ resent' = resent + 1
    /\ counter' = [counter EXCEPT ![kind[c]] = @ + 1]
    /\ UNCHANGED <<validatorVars, callVars, readVars>>

\* Mutant: the error is logged only.
IncFailsIgnored(c) ==
    /\ cpc[c] = "counting"
    /\ Goto(c, "counted")
    /\ UNCHANGED <<validatorVars, counter>>

\* The client gets an error, although the work is done: the increment did not
\* reach the store, or did (IncResent) and nobody was told.
IncFails(c) ==
    /\ cpc[c] = "counting"
    /\ Goto(c, "uncounted")
    /\ UNCHANGED <<validatorVars, counter>>

Reply(c) ==
    /\ cpc[c] = "counted"
    /\ Goto(c, "ok")
    /\ UNCHANGED <<validatorVars, counter>>

-----------------------------------------------------------------------------
(* The Metrics handler *)

NumberAt(steps, m) == Cardinality({c \in Calls : kind[c] = m /\ cpc[c] \in steps})

AfterGet(m) ==
    CASE m = "signings" -> "fetching"
      [] m = "fetching" -> "validations"
      [] m = "validations" -> "replied"

MetricsStarts(r) ==
    /\ rpc[r] = "new"
    /\ rpc' = [rpc EXCEPT ![r] = "signings"]
    /\ floor' = [floor EXCEPT ![r] = [m \in Counters |-> NumberAt({"ok"}, m)]]
    /\ UNCHANGED <<validatorVars, callVars, counter, resent, seen>>

Get(r) ==
    /\ rpc[r] \in Counters
    /\ seen' = [seen EXCEPT ![r][rpc[r]] = counter[rpc[r]]]
    /\ rpc' = [rpc EXCEPT ![r] = AfterGet(rpc[r])]
    /\ UNCHANGED <<validatorVars, callVars, counter, resent, floor>>

\* Mutant: every error is taken for a key that is not there.
GetFailsAsZero(r) ==
    /\ rpc[r] \in Counters
    /\ rpc' = [rpc EXCEPT ![r] = AfterGet(rpc[r])]
    /\ UNCHANGED <<validatorVars, callVars, counter, resent, seen, floor>>

GetFails(r) ==
    /\ rpc[r] \in Counters
    /\ rpc' = [rpc EXCEPT ![r] = "failed"]
    /\ UNCHANGED <<validatorVars, callVars, counter, resent, seen, floor>>

\* Who asked hears nothing more.
GatewayCrash ==
    /\ cpc' = [c \in Calls |->
                  IF cpc[c] \in {"working", "validating", "counting", "counted"} THEN "gone" ELSE cpc[c]]
    /\ rpc' = [r \in Reads |-> IF rpc[r] \in Counters THEN "failed" ELSE rpc[r]]
    /\ UNCHANGED <<validatorVars, kind, counter, resent, seen, floor>>

-----------------------------------------------------------------------------
CallRuns(c) ==
    \/ Works(c)
    \/ WorkFails(c)
    \/ \E v \in Validators : Dial(c, v)
    \/ Inc(c)
    \/ IncFails(c)
    \/ Reply(c)

ReadRuns(r) ==
    \/ Get(r)
    \/ GetFails(r)

ValidatorRuns(v) ==
    \E c \in Calls :
        \/ BeginValidation(v, c)
        \/ Answer(v, c)
        \/ ValidationRaises(v, c)

Next ==
    \/ \E c \in Calls : CallStarts(c) \/ CallRuns(c) \/ IncResent(c)
    \/ \E r \in Reads : MetricsStarts(r) \/ ReadRuns(r)
    \/ \E v \in Validators : ValidatorRuns(v) \/ ValidatorStarts(v) \/ ValidatorCrash(v)
    \/ GatewayCrash

Spec == Init /\ [][Next]_vars

\* A handler goes on, and so do the threads of a validator.
FairSpec ==
    /\ Spec
    /\ \A c \in Calls : WF_vars(CallRuns(c))
    /\ \A v \in Validators : WF_vars(ValidatorRuns(v))

-----------------------------------------------------------------------------
(* Properties *)

\* What is counted was done: a counter has every call that a client was told
\* ok for, and none whose work failed.  Only an increment that was sent again and
\* a call whose gateway crashed can make it count more.
CallsAccounted ==
    \A m \in Counters :
        /\ NumberAt({"counted", "ok"}, m) <= counter[m]
        /\ counter[m] <= NumberAt({"counted", "ok", "gone"}, m) + resent

\* A reply of Metrics counts every call that had been replied to before it was
\* asked for, although its three counters are read one after the other.
RepliesAreCounted ==
    \A r \in Reads : rpc[r] = "replied" => \A m \in Counters : floor[r][m] <= seen[r][m]

With(v, c) == c \in waiting[v] \cup running[v]

\* A call that hangs on a validator hangs on one that serves and has it, in
\* its queue or at a thread, so that somebody is left to end it; and no call is
\* with two validators, or twice with one, though nobody tells a validator that
\* a gateway is gone.
CallsAreHeld ==
    \A c \in Calls :
        /\ cpc[c] = "validating" => \E v \in up : With(v, c)
        /\ \A v, w \in Validators : With(v, c) /\ With(w, c) => v = w
        /\ \A v \in Validators : c \notin waiting[v] \cap running[v]

\* Every call comes to its end: whatever it asks a validator for, it is
\* answered, or it hears that the validator is gone.
CallsEnd == \A c \in Calls : cpc[c] = "working" ~> cpc[c] \in Ends

=============================================================================
