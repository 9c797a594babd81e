----------------------------- MODULE HealthProbe ------------------------------
(***************************************************************************)
(* The health of the gateway: a goroutine per service that probes it every *)
(* ten seconds (probe in stream/service.go and kvclient/client.go), and    *)
(* the handler Health, which reads what they found (Status), judges it     *)
(* (Check of model/status.go) and encodes it into the reply.               *)
(*                                                                         *)
(* No lock orders them.  A probe allocates a StatusProbe, publishes the    *)
(* pointer to it and only then asks the service; when the answer is not    *)
(* the one it began with it writes the two fields in place.  Health holds  *)
(* two pointers, and each field is read when it is needed.  Probes write   *)
(* through the published pointer and through no other: what a call holds   *)
(* is the published object, or an old one that nobody changes any more.    *)
(***************************************************************************)

CONSTANT Calls      \* concurrent calls of Health

\* Mongo is disabled in every valid configuration and Health leaves it out.
Deps == {"nats", "kv"}

Answers == {"ok", "error", "garbled"}

StatusProbe == [healthy : BOOLEAN, message : Answers]

Fine == [healthy |-> TRUE, message |-> "ok"]

Failing == [healthy |-> FALSE, message |-> "error"]

\* Mutants: the probe of one service is copied from the other one.
OpeningHealthy == [d \in Deps |-> Fine]

OpeningUnhealthy == [d \in Deps |-> Failing]

\* What a probe publishes before it has asked, and what it changes it to.
Opening == [d \in Deps |-> IF d = "nats" THEN Failing ELSE Fine]

Revised == [d \in Deps |-> IF d = "nats" THEN Fine ELSE Failing]

VARIABLES
    up,         \* whether each service answers
    published,  \* the object PreviousResult of each service points to
    ppc,        \* where the probe of each service is
    hpc,        \* where each call of Health is
    held,       \* the pointers it has read
    old,        \* the objects they point to that are not published any more
    status,     \* the status Check has computed for it so far
    listed,     \* the fields it has encoded
    fresh,      \* history: services unchanged since the probe under way began
    settled,    \* history: services unchanged for one whole probe
    steady      \* history: services settled and unchanged since a call began

probeVars == <<published, ppc>>
callVars == <<hpc, held, old, status, listed>>
vars == <<up, probeVars, callVars, fresh, settled, steady>>

ProbeSteps == {"idle", "asking", "message", "healthy"}

HealthSteps ==
    {"idle", "kv", "check nats", "check kv", "nats healthy", "nats message",
     "kv healthy", "kv message"}

Pointers == {"nil", "published", "old"}

Typed ==
    /\ up \in [Deps -> BOOLEAN]
    /\ published \in [Deps -> StatusProbe]
    /\ ppc \in [Deps -> ProbeSteps]
    /\ hpc \in [Calls -> HealthSteps]
    /\ held \in [Calls -> [Deps -> Pointers]]
    /\ old \in [Calls -> [Deps -> StatusProbe]]
    /\ status \in [Calls -> {"ok", "fail"}]
    /\ listed \in [Calls -> [Deps -> StatusProbe]]
    /\ fresh \subseteq Deps
    /\ settled \subseteq Deps
    /\ steady \in [Calls -> SUBSET Deps]

\* A call has read the pointers it follows: none that Check or the encoder
\* comes to is nil.
PointersOf(c) ==
    /\ held[c]["nats"] = "nil" <=> hpc[c] = "idle"
    /\ held[c]["kv"] = "nil" <=> hpc[c] \in {"idle", "kv"}

PointersInv == \A c \in Calls : PointersOf(c)

TypeOK == Typed /\ PointersInv

\* The service answers the contrary of what the probe began with.
Contradicts(d) == up[d] # Opening[d].healthy

\* New has run every probe once before a request is served.
Init ==
    /\ up \in [Deps -> BOOLEAN]
    /\ published = [d \in Deps |-> IF Contradicts(d) THEN Revised[d] ELSE Opening[d]]
    /\ ppc = [d \in Deps |-> "idle"]
    /\ hpc = [c \in Calls |-> "idle"]
    /\ held = [c \in Calls |-> [d \in Deps |-> "nil"]]
    /\ old = [c \in Calls |-> Opening]
    /\ status = [c \in Calls |-> "ok"]
    /\ listed = [c \in Calls |-> Opening]
    /\ fresh = Deps
    /\ settled = Deps
    /\ steady = [c \in Calls |-> {}]

-----------------------------------------------------------------------------
(* The services *)

\* A connection is lost or comes back, a store dies or is started.
Change(d) ==
    /\ up' = [up EXCEPT ![d] = ~@]
    /\ fresh' = fresh \ {d}
    /\ settled' = settled \ {d}
    /\ steady' = [c \in Calls |-> steady[c] \ {d}]
    /\ UNCHANGED <<probeVars, callVars>>

-----------------------------------------------------------------------------
(* The probes *)

\* Who holds the pointer of the last probe keeps that object.
ProbeStarts(d) ==
    /\ ppc[d] = "idle"
    /\ published' = [published EXCEPT ![d] = Opening[d]]
    /\ ppc' = [ppc EXCEPT ![d] = "asking"]
    /\ held' = [c \in Calls |->
                  [held[c] EXCEPT ![d] = IF @ = "published" THEN "old" ELSE @]]
    /\ old' = [c \in Calls |->
                 [old[c] EXCEPT ![d] = IF held[c][d] = "published" THEN published[d] ELSE @]]
    /\ fresh' = fresh \cup {d}
    /\ UNCHANGED <<up, hpc, status, listed, settled, steady>>

ProbeEnds(d) ==
    /\ ppc' = [ppc EXCEPT ![d] = "idle"]
    /\ settled' = settled \cup (fresh \cap {d})
    /\ UNCHANGED <<up, callVars, fresh, steady>>

ProbeConfirms(d) ==
    /\ ppc[d] = "asking"
    /\ ~Contradicts(d)
    /\ ProbeEnds(d)
    /\ UNCHANGED published

\* The probe begins to write the message.
ProbeRevises(d) ==
    /\ ppc[d] = "asking"
    /\ Contradicts(d)
    /\ ppc' = [ppc EXCEPT ![d] = "message"]
    /\ UNCHANGED <<up, published, callVars, fresh, settled, steady>>

ProbeSetsMessage(d) ==
    /\ ppc[d] = "message"
    /\ published' = [published EXCEPT ![d].message = Revised[d].message]
    /\ ppc' = [ppc EXCEPT ![d] = "healthy"]
    /\ UNCHANGED <<up, callVars, fresh, settled, steady>>

\* Mutant: only the message is corrected.
ProbeLeavesHealthy(d) ==
    /\ ppc[d] = "healthy"
    /\ ProbeEnds(d)
    /\ UNCHANGED published

ProbeSetsHealthy(d) ==
    /\ ppc[d] = "healthy"
    /\ published' = [published EXCEPT ![d].healthy = Revised[d].healthy]
    /\ ProbeEnds(d)

-----------------------------------------------------------------------------
(* The handler *)

\* The object the pointer of a call leads to.
Seen(c, d) == IF held[c][d] = "published" THEN published[d] ELSE old[c][d]

HealthGoto(c, step) ==
    /\ hpc' = [hpc EXCEPT ![c] = step]
    /\ UNCHANGED <<up, probeVars, fresh, settled>>

\* Status of the stream service.
HealthReadsNats(c) ==
    /\ hpc[c] = "idle"
    /\ held' = [held EXCEPT ![c]["nats"] = "published"]
    /\ status' = [status EXCEPT ![c] = "ok"]
    /\ steady' = [steady EXCEPT ![c] = settled]
    /\ HealthGoto(c, "kv")
    /\ UNCHANGED <<old, listed>>

\* Mutant: Status has no result while a probe is under way.
HealthReadsKvWhenIdle(c) ==
    /\ hpc[c] = "kv"
    /\ held' = [held EXCEPT ![c]["kv"] = IF ppc["kv"] = "idle" THEN "published" ELSE @]
    /\ HealthGoto(c, "check nats")
    /\ UNCHANGED <<old, status, listed, steady>>

\* Status of the key-value client.
HealthReadsKv(c) ==
    /\ hpc[c] = "kv"
    /\ held' = [held EXCEPT ![c]["kv"] = "published"]
    /\ HealthGoto(c, "check nats")
    /\ UNCHANGED <<old, status, listed, steady>>

Checks(c, d, next) ==
    /\ status' = [status EXCEPT ![c] = IF Seen(c, d).healthy THEN @ ELSE "fail"]
    /\ HealthGoto(c, next)
    /\ UNCHANGED <<held, old, listed, steady>>

\* The loop of Check.
HealthChecks(c) ==
    \/ hpc[c] = "check nats" /\ Checks(c, "nats", "check kv")
    \/ hpc[c] = "check kv" /\ Checks(c, "kv", "nats healthy")

EncodesHealthy(c, d, next) ==
    /\ listed' = [listed EXCEPT ![c][d].healthy = Seen(c, d).healthy]
    /\ HealthGoto(c, next)
    /\ UNCHANGED <<held, old, status, steady>>

\* What a read of the message finds.  A string is two words: one that is read
\* while it is written may be the text of the one with the length of the other.
MessageRead(c, d) ==
    IF held[c][d] = "published" /\ ppc[d] = "message"
    THEN Answers
    ELSE {Seen(c, d).message}

EncodesMessage(c, d) ==
    /\ \E m \in MessageRead(c, d) : listed' = [listed EXCEPT ![c][d].message = m]
    /\ UNCHANGED <<status, steady>>

\* The encoder walks through the fields of each probe.
HealthEncodes(c) ==
    \/ hpc[c] = "nats healthy" /\ EncodesHealthy(c, "nats", "nats message")
    \/ /\ hpc[c] = "nats message"
       /\ EncodesMessage(c, "nats")
       /\ HealthGoto(c, "kv healthy")
       /\ UNCHANGED <<held, old>>
    \/ hpc[c] = "kv healthy" /\ EncodesHealthy(c, "kv", "kv message")

\* The reply is complete, and the pointers go out of use.
HealthReplies(c) ==
    /\ hpc[c] = "kv message"
    /\ EncodesMessage(c, "kv")
    /\ held' = [held EXCEPT ![c] = [d \in Deps |-> "nil"]]
    /\ old' = [old EXCEPT ![c] = Opening]
    /\ HealthGoto(c, "idle")

-----------------------------------------------------------------------------
Probing(d) ==
    \/ ProbeStarts(d)
    \/ ProbeConfirms(d)
    \/ ProbeRevises(d)
    \/ ProbeSetsMessage(d)
    \/ ProbeSetsHealthy(d)

Answering(c) ==
    \/ HealthReadsNats(c)
    \/ HealthReadsKv(c)
    \/ HealthChecks(c)
    \/ HealthEncodes(c)
    \/ HealthReplies(c)

Next ==
    \/ \E d \in Deps : Change(d) \/ Probing(d)
    \/ \E c \in Calls : Answering(c)

Spec == Init /\ [][Next]_vars

\* The tickers tick and the pings return.
FairSpec == Spec /\ \A d \in Deps : WF_vars(Probing(d))

-----------------------------------------------------------------------------
(* Properties *)

\* An outage of NATS that has lasted for a whole probe is never missed: a
\* reply of Health in that time says fail and lists stream/nats unhealthy,
\* whichever of the objects the handler holds and whatever the probes write.
NatsOutageReported ==
    [][\A c \in Calls :
        HealthReplies(c) /\ "nats" \in steady[c] /\ ~up["nats"] =>
            status[c] = "fail" /\ ~listed'[c]["nats"].healthy]_vars

\* A key-value store that has been up for a whole probe is never reported
\* otherwise, nor with half of a message.
KvHealthReported ==
    [][\A c \in Calls :
        HealthReplies(c) /\ "kv" \in steady[c] /\ up["kv"] =>
            listed'[c]["kv"] = Fine]_vars

ShownHealthy(d) == published[d].healthy

\* Probing never stops telling: a service that stays as it is is shown as it
\* is, for good when the probe begins with that answer, and else again after
\* every probe.
HealthConverges ==
    /\ <>[](~up["nats"]) => <>[](~ShownHealthy("nats"))
    /\ <>[](up["nats"]) => []<>(ShownHealthy("nats"))
    /\ <>[](up["kv"]) => <>[](ShownHealthy("kv"))
    /\ <>[](~up["kv"]) => []<>(~ShownHealthy("kv"))

-----------------------------------------------------------------------------
(* What the source says and the code does not do *)

\* "Status returns the status of the database" (kvclient/client.go): an outage
\* of the store that has lasted for a whole probe is reported.
KvOutageReported ==
    [][\A c \in Calls :
        HealthReplies(c) /\ "kv" \in steady[c] /\ ~up["kv"] =>
            ~listed'[c]["kv"].healthy]_vars

=============================================================================
