------------------------------ MODULE Lifecycle -------------------------------
(***************************************************************************)
(* How the processes come up, lose NATS and go down: main of cmd/apigw,    *)
(* New and Close of its services, and the start of the sealers.            *)
(*                                                                         *)
(* The pipeline of the module EduSeal takes both streams for granted.      *)
(* Nothing creates them but the gateway, one after the other while it      *)
(* starts; the sealers start at the same time, and NATS may be away at any *)
(* moment.  Here it is checked that whoever works finds what it needs.     *)
(***************************************************************************)

EXTENDS FiniteSets, Naturals

CONSTANTS
    Gateways,   \* apigw processes
    Sealers,    \* sealer processes
    MaxStops    \* bound: crashes and signals

ASSUME StopsAssumption == MaxStops \in Nat

VARIABLES
    natsUp,     \* whether the NATS servers answer
    created,    \* the streams and durable consumers they keep, on disk
    gpc,        \* how far each gateway has come
    conn,       \* its NATS connection
    consumer,   \* its goroutine that calls Consume
    busy,       \* whether it has a request at hand
    closed,     \* the services it has closed
    spc,        \* how far each sealer has come
    stops       \* crashes and signals so far

gatewayVars == <<gpc, conn, consumer, busy, closed>>
vars == <<natsUp, created, gatewayVars, spc, stops>>

Things == {"CACHE", "cacher", "SEAL", "sealer"}

Services == {"kv", "stream", "db", "http"}

\* The steps of main: a service to be opened or a thing to be created.
GatewaySteps == {"down", "kv", "connect", "db", "http", "serving", "closing"} \cup Things

\* deaf: it waits for the answer to a pull the server has forgotten.
SealerSteps == {"down", "connect", "subscribe", "serving", "deaf"}

Connections == {"none", "connected", "reconnecting", "closed"}

Typed ==
    /\ natsUp \in BOOLEAN
    /\ created \subseteq Things
    /\ gpc \in [Gateways -> GatewaySteps]
    /\ conn \in [Gateways -> Connections]
    /\ consumer \in [Gateways -> {"none", "starting", "consuming", "failed"}]
    /\ busy \in [Gateways -> BOOLEAN]
    /\ closed \in [Gateways -> SUBSET Services]
    /\ spc \in [Sealers -> SealerSteps]
    /\ stops \in 0 .. MaxStops

\* A gateway has a connection from the step of main that makes it to the end of
\* the process, whether NATS answered then or not.
ConnectionsMade ==
    \A g \in Gateways : conn[g] = "none" <=> gpc[g] \in {"down", "kv", "connect"}

TypeOK == Typed /\ ConnectionsMade

Init ==
    /\ natsUp \in BOOLEAN
    /\ created = {}
    /\ gpc = [g \in Gateways |-> "down"]
    /\ conn = [g \in Gateways |-> "none"]
    /\ consumer = [g \in Gateways |-> "none"]
    /\ busy = [g \in Gateways |-> FALSE]
    /\ closed = [g \in Gateways |-> {}]
    /\ spc = [s \in Sealers |-> "down"]
    /\ stops = 0

-----------------------------------------------------------------------------
(* NATS *)

\* The server keeps the pulls that wait for a message in memory, and a fetch
\* sends its pull once: an outage may cost a sealer the pull it waits for.
Forgets(sealers) ==
    spc' = [s \in Sealers |-> IF s \in sealers /\ spc[s] = "serving" THEN "deaf" ELSE spc[s]]

Outage ==
    /\ natsUp
    /\ natsUp' = FALSE
    /\ conn' = [g \in Gateways |-> IF conn[g] = "connected" THEN "reconnecting" ELSE conn[g]]
    /\ \E sealers \in SUBSET Sealers : Forgets(sealers)
    /\ UNCHANGED <<created, gpc, consumer, busy, closed, stops>>

Recovery ==
    /\ ~natsUp
    /\ natsUp' = TRUE
    /\ UNCHANGED <<created, gatewayVars, spc, stops>>

SetConn(g, state) ==
    /\ conn' = [conn EXCEPT ![g] = state]
    /\ UNCHANGED <<natsUp, created, gpc, consumer, busy, closed, spc, stops>>

Reconnect(g) ==
    /\ natsUp
    /\ conn[g] = "reconnecting"
    /\ SetConn(g, "connected")

\* MaxReconnects attempts have failed: the connection is closed for good.
GiveUp(g) ==
    /\ ~natsUp
    /\ conn[g] = "reconnecting"
    /\ SetConn(g, "closed")

-----------------------------------------------------------------------------
(* Start of the gateway *)

\* Mutant: the streams are created in the other order.
AfterSealFirst(step) ==
    CASE step = "kv" -> "connect"
      [] step = "connect" -> "SEAL"
      [] step = "SEAL" -> "sealer"
      [] step = "sealer" -> "CACHE"
      [] step = "CACHE" -> "cacher"
      [] step = "cacher" -> "db"
      [] step = "db" -> "http"
      [] step = "http" -> "serving"

\* The order of main and of New of the stream service.
After(step) ==
    CASE step = "kv" -> "connect"
      [] step = "connect" -> "CACHE"
      [] step = "CACHE" -> "cacher"
      [] step = "cacher" -> "SEAL"
      [] step = "SEAL" -> "sealer"
      [] step = "sealer" -> "db"
      [] step = "db" -> "http"
      [] step = "http" -> "serving"

Advance(g) == gpc' = [gpc EXCEPT ![g] = After(@)]

\* Configuration, log, tracer and gRPC client need nothing that can be away.
Start(g) ==
    /\ gpc[g] = "down"
    /\ gpc' = [gpc EXCEPT ![g] = "kv"]
    /\ UNCHANGED <<natsUp, created, conn, consumer, busy, closed, spc, stops>>

\* The client of the store connects when it is used.
OpenKv(g) ==
    /\ gpc[g] = "kv"
    /\ Advance(g)
    /\ UNCHANGED <<natsUp, created, conn, consumer, busy, closed, spc, stops>>

\* Mutant: without RetryOnFailedConnect, and with the error ignored.
ConnectOnce(g) ==
    /\ gpc[g] = "connect"
    /\ conn' = [conn EXCEPT ![g] = IF natsUp THEN "connected" ELSE "none"]
    /\ Advance(g)
    /\ UNCHANGED <<natsUp, created, consumer, busy, closed, spc, stops>>

\* With RetryOnFailedConnect a server that is away is no error.
Connect(g) ==
    /\ gpc[g] = "connect"
    /\ conn' = [conn EXCEPT ![g] = IF natsUp THEN "connected" ELSE "reconnecting"]
    /\ Advance(g)
    /\ UNCHANGED <<natsUp, created, consumer, busy, closed, spc, stops>>

\* Mutant: the cache stream is created without a goroutine that consumes.
CreateStreamOnly(g) ==
    /\ gpc[g] \in Things
    /\ conn[g] = "connected"
    /\ created' = created \cup {gpc[g]}
    /\ Advance(g)
    /\ UNCHANGED <<natsUp, conn, consumer, busy, closed, spc, stops>>

\* The request is served; its answer may still be lost in an outage.
ServerCreates(g) ==
    /\ gpc[g] \in Things \ created
    /\ conn[g] = "connected"
    /\ created' = created \cup {gpc[g]}
    /\ UNCHANGED <<natsUp, gatewayVars, spc, stops>>

\* The answer that the thing is there, made now or before.
CreateStream(g) ==
    /\ gpc[g] \in Things
    /\ conn[g] = "connected"
    /\ created' = created \cup {gpc[g]}
    /\ consumer' = [consumer EXCEPT ![g] = IF gpc[g] = "cacher" THEN "starting" ELSE @]
    /\ Advance(g)
    /\ UNCHANGED <<natsUp, conn, busy, closed, spc, stops>>

\* The process ends, and with it all it had.
Ends(g) ==
    /\ gpc' = [gpc EXCEPT ![g] = "down"]
    /\ conn' = [conn EXCEPT ![g] = "none"]
    /\ consumer' = [consumer EXCEPT ![g] = "none"]
    /\ busy' = [busy EXCEPT ![g] = FALSE]
    /\ closed' = [closed EXCEPT ![g] = {}]
    /\ UNCHANGED <<natsUp, created, spc>>

\* Mutant: create and not create-or-update, which fails for a thing another
\* gateway made.
CreateFailsWhenTaken(g) ==
    /\ gpc[g] \in Things
    /\ conn[g] # "connected" \/ gpc[g] \in created
    /\ Ends(g)
    /\ UNCHANGED stops

\* No answer in time, or the connection is closed: New fails and main panics.
\* So it does when the question for the stream's info fails that ends the
\* creation of a pair: that is this step after ServerCreates.
CreateFails(g) ==
    /\ gpc[g] \in Things
    /\ conn[g] # "connected"
    /\ Ends(g)
    /\ UNCHANGED stops

\* Mutant: a connection that is being restored is taken for a closed one.
ConsumeConnected(g) ==
    /\ consumer[g] = "starting"
    /\ consumer' = [consumer EXCEPT ![g] = IF conn[g] = "connected" THEN "consuming" ELSE "failed"]
    /\ UNCHANGED <<natsUp, created, gpc, conn, busy, closed, spc, stops>>

\* The goroutine of newCacheStream; an error is only logged.
Consume(g) ==
    /\ consumer[g] = "starting"
    /\ consumer' = [consumer EXCEPT ![g] = IF conn[g] = "closed" THEN "failed" ELSE "consuming"]
    /\ UNCHANGED <<natsUp, created, gpc, conn, busy, closed, spc, stops>>

\* With Mongo disabled nothing is connected.
OpenDb(g) ==
    /\ gpc[g] = "db"
    /\ Advance(g)
    /\ UNCHANGED <<natsUp, created, conn, consumer, busy, closed, spc, stops>>

\* The routes are registered and a goroutine listens.
OpenHttp(g) ==
    /\ gpc[g] = "http"
    /\ Advance(g)
    /\ UNCHANGED <<natsUp, created, conn, consumer, busy, closed, spc, stops>>

-----------------------------------------------------------------------------
(* Service and shutdown of the gateway *)

SetBusy(g, value) ==
    /\ busy' = [busy EXCEPT ![g] = value]
    /\ UNCHANGED <<natsUp, created, gpc, conn, consumer, closed, spc, stops>>

\* Close of the http server does not stop it: requests come in to the end.
CallStarts(g) ==
    /\ gpc[g] \in {"serving", "closing"}
    /\ ~busy[g]
    /\ SetBusy(g, TRUE)

CallEnds(g) ==
    /\ busy[g]
    /\ SetBusy(g, FALSE)

Stop ==
    /\ stops < MaxStops
    /\ stops' = stops + 1

Signal(g) ==
    /\ gpc[g] = "serving"
    /\ Stop
    /\ gpc' = [gpc EXCEPT ![g] = "closing"]
    /\ UNCHANGED <<natsUp, created, conn, consumer, busy, closed, spc>>

\* The loop over the services, in the order of a map.
Close(g, service) ==
    /\ gpc[g] = "closing"
    /\ service \in Services \ (closed[g] \cup {"db"})
    /\ closed' = [closed EXCEPT ![g] = @ \cup {service}]
    /\ conn' = [conn EXCEPT ![g] = IF service = "stream" THEN "closed" ELSE @]
    /\ UNCHANGED <<natsUp, created, gpc, consumer, busy, spc, stops>>

\* Close of the database service disconnects a client that was never opened:
\* the process panics in the middle of the loop.
CloseDb(g) ==
    /\ gpc[g] = "closing"
    /\ Ends(g)
    /\ UNCHANGED stops

\* A crash, or a signal before main asks to be told of them.
Crash(g) ==
    /\ gpc[g] # "down"
    /\ Stop
    /\ Ends(g)

-----------------------------------------------------------------------------
(* The sealers *)

SealerGoto(s, step) ==
    /\ spc' = [spc EXCEPT ![s] = step]
    /\ UNCHANGED <<natsUp, gatewayVars>>

SealerStarts(s) ==
    /\ spc[s] = "down"
    /\ SealerGoto(s, "connect")
    /\ UNCHANGED <<created, stops>>

\* The client tries until it is connected.
SealerConnects(s) ==
    /\ spc[s] = "connect"
    /\ natsUp
    /\ SealerGoto(s, "subscribe")
    /\ UNCHANGED <<created, stops>>

\* pull_subscribe looks for the stream of the subject, and makes the durable
\* consumer when there is none.
Subscribe(s) ==
    /\ spc[s] = "subscribe"
    /\ natsUp
    /\ "SEAL" \in created
    /\ created' = created \cup {"sealer"}
    /\ SealerGoto(s, "serving")
    /\ UNCHANGED stops

\* Without a stream, or without an answer, it raises and the process ends.
SubscribeFails(s) ==
    /\ spc[s] = "subscribe"
    /\ ~natsUp \/ "SEAL" \notin created
    /\ SealerGoto(s, "down")
    /\ UNCHANGED <<created, stops>>

\* Mutant: the fetch has no timeout.
FetchWaits(s) ==
    /\ spc[s] = "deaf"
    /\ SealerGoto(s, "deaf")
    /\ UNCHANGED <<created, stops>>

\* The timeout of the fetch, a year, raises and the process ends.  That a
\* pull the server knows is answered within the year is assumed.
FetchTimesOut(s) ==
    /\ spc[s] = "deaf"
    /\ SealerGoto(s, "down")
    /\ UNCHANGED <<created, stops>>

SealerCrash(s) ==
    /\ spc[s] # "down"
    /\ Stop
    /\ SealerGoto(s, "down")
    /\ UNCHANGED created

-----------------------------------------------------------------------------
Starting(g) ==
    \/ Start(g)
    \/ OpenKv(g)
    \/ Connect(g)
    \/ CreateStream(g)
    \/ CreateFails(g)
    \/ OpenDb(g)
    \/ OpenHttp(g)

Closing(g) ==
    \/ \E service \in Services : Close(g, service)
    \/ CloseDb(g)

GatewayStep(g) ==
    \/ Starting(g)
    \/ Closing(g)
    \/ ServerCreates(g)
    \/ Consume(g)
    \/ CallStarts(g)
    \/ CallEnds(g)
    \/ Reconnect(g)
    \/ GiveUp(g)
    \/ Signal(g)
    \/ Crash(g)

SealerRuns(s) ==
    \/ SealerStarts(s)
    \/ SealerConnects(s)
    \/ Subscribe(s)
    \/ SubscribeFails(s)
    \/ FetchTimesOut(s)

Next ==
    \/ Outage
    \/ Recovery
    \/ \E g \in Gateways : GatewayStep(g)
    \/ \E s \in Sealers : SealerRuns(s) \/ SealerCrash(s)

Spec == Init /\ [][Next]_vars

\* Docker starts what is down, a start goes on, and so does a shutdown; the
\* client library reconnects while the servers answer.
FairSpec ==
    /\ Spec
    /\ \A g \in Gateways :
          /\ WF_vars(Starting(g))
          /\ WF_vars(Closing(g))
          /\ WF_vars(Consume(g))
          /\ WF_vars(Reconnect(g))
    /\ \A s \in Sealers : WF_vars(SealerRuns(s))

-----------------------------------------------------------------------------
(* How far a process is from serving *)

StepsLeft(step) ==
    CASE step = "down" -> 9
      [] step = "kv" -> 8
      [] step = "connect" -> 7
      [] step = "CACHE" -> 6
      [] step = "cacher" -> 5
      [] step = "SEAL" -> 4
      [] step = "sealer" -> 3
      [] step = "db" -> 2
      [] step = "http" -> 1
      [] OTHER -> 0

\* A gateway that shuts down, or may be refused a stream, may have to start
\* once more.
Detour(g) ==
    CASE gpc[g] = "closing" -> 10 + Cardinality(Services \ closed[g])
      [] gpc[g] \in Things /\ conn[g] # "connected" -> 10
      [] OTHER -> 0

Pending(waits) == IF waits THEN 1 ELSE 0

\* Starting the consumer makes it wait, so that a step of the start counts
\* twice.
Left(g) ==
    2 * (Detour(g) + StepsLeft(gpc[g]))
        + Pending(conn[g] = "reconnecting") + Pending(consumer[g] = "starting")

Own(g) == <<gpc[g], conn[g], consumer[g], closed[g]>>

SealerLeft(s) ==
    CASE spc[s] = "deaf" -> 4
      [] spc[s] = "down" -> 3
      [] spc[s] = "connect" -> 2
      [] spc[s] = "subscribe" -> 1
      [] OTHER -> 0

\* NATS is up, and nobody crashes or is told to halt.
Quiet == natsUp /\ natsUp' /\ stops' = stops

-----------------------------------------------------------------------------
(* Properties *)

\* Who can take a request can pass it on: a sealer has a SEAL stream to pull
\* from only when there is a CACHE stream with its consumer, and a gateway
\* has a request at hand only when there are both.
WorkersFindStreams ==
    /\ \A s \in Sealers : spc[s] = "serving" => {"CACHE", "cacher", "SEAL", "sealer"} \subseteq created
    /\ \A g \in Gateways : busy[g] => {"CACHE", "cacher", "SEAL", "sealer"} \subseteq created

\* A gateway that serves consumes answers, unless its connection was closed.
ServingConsumes ==
    \A g \in Gateways :
        gpc[g] = "serving" /\ conn[g] # "closed" =>
            consumer[g] \in {"starting", "consuming"}

\* When NATS stays up, every gateway comes to serve and to consume, or has
\* lost its connection for good in an outage before.
GatewaysServe ==
    <>[]natsUp =>
        \A g \in Gateways :
            <>[](/\ gpc[g] = "serving"
                 /\ \/ conn[g] = "connected" /\ consumer[g] = "consuming"
                    \/ conn[g] = "closed")

\* When NATS stays up, every sealer comes to serve, in whatever order the
\* processes were started and whatever pulls an outage has cost them: at the
\* latest when the fetch times out.
SealersServe == <>[]natsUp => \A s \in Sealers : <>[](spc[s] = "serving")

\* In quiet times each process only comes nearer to serving, however many start
\* at once and whichever connections and streams were being made before: a
\* gateway, which may fail and start again once but not twice; and a sealer, as
\* soon as one gateway serves.  It is the part of GatewaysServe and SealersServe
\* that needs no fairness.
StartsAdvance ==
    [][Quiet =>
        /\ \A g \in Gateways :
              /\ Left(g) \in Nat /\ Left(g)' \in Nat
              /\ Left(g)' < Left(g) \/ UNCHANGED Own(g)
        /\ \A s \in Sealers : (\E g \in Gateways : gpc[g] = "serving") =>
              SealerLeft(s)' < SealerLeft(s) \/ spc'[s] = spc[s]]_vars

-----------------------------------------------------------------------------
(* What the source says and the code does not do *)

\* "Block here until are workers are done" (main.go): a gateway that was told
\* to halt does not end while it has a request at hand.
WorkersDone == [][\A g \in Gateways : CloseDb(g) => ~busy[g]]_vars

=============================================================================
