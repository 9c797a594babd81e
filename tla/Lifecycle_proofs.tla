---------------------------- MODULE Lifecycle_proofs ---------------------------
(***************************************************************************)
(* Proofs about the start of the processes, for any number of gateways,    *)
(* sealers and stops: whoever works finds the streams it needs, and who    *)
(* serves consumes.                                                        *)
(*                                                                         *)
(* Streams are never deleted, and no gateway creates one out of order.  So *)
(* what has been created says which streams exist besides, whoever created *)
(* them (CreatedInv), and how far a gateway has come says so too           *)
(* (GatewaysInv).                                                          *)
(***************************************************************************)
EXTENDS Lifecycle, FiniteSetTheorems, TLAPS

\* The types are kept, in particular the bound on stops.
LEMMA TypesKept == Spec => []Typed
<1>1. Init => Typed
  BY StopsAssumption DEF Init, Typed, GatewaySteps, SealerSteps, Connections
<1>2. Typed /\ [Next]_vars => Typed'
  <2> SUFFICES ASSUME Typed, [Next]_vars PROVE Typed'
    OBVIOUS
  <2> USE StopsAssumption
      DEF Typed, GatewaySteps, SealerSteps, Connections, Things, Services, gatewayVars
  <2>1. CASE Outage \/ Recovery
    <3>1. CASE Outage
      <4>1. PICK sealers \in SUBSET Sealers : Forgets(sealers)
        BY <3>1 DEF Outage
      <4>2. spc' \in [Sealers -> SealerSteps]
        BY <4>1 DEF Forgets
      <4> QED
        BY <3>1, <4>2 DEF Outage
    <3>2. CASE Recovery
      BY <3>2 DEF Recovery
    <3> QED
      BY <2>1, <3>1, <3>2
  <2>2. ASSUME NEW g \in Gateways, Starting(g) PROVE Typed'
    <3>1. ASSUME Ends(g), UNCHANGED stops PROVE Typed'
      BY <3>1 DEF Ends
    <3>2. CASE Start(g) \/ OpenKv(g) \/ Connect(g) \/ OpenDb(g) \/ OpenHttp(g)
      BY <3>2 DEF Start, OpenKv, Connect, OpenDb, OpenHttp, Advance, After
    <3>3. CASE CreateStream(g)
      BY <3>3 DEF CreateStream, Advance, After
    <3>4. CASE CreateFails(g)
      BY <3>1, <3>4 DEF CreateFails
    <3> QED
      BY <2>2, <3>2, <3>3, <3>4 DEF Starting
  <2>3. ASSUME NEW g \in Gateways, NEW service \in Services, Close(g, service) PROVE Typed'
    BY <2>3 DEF Close
  <2>4. ASSUME NEW g \in Gateways, CloseDb(g) \/ Crash(g) PROVE Typed'
    <3>1. stops' \in 0 .. MaxStops
      BY <2>4 DEF CloseDb, Crash, Stop
    <3>2. Ends(g)
      BY <2>4 DEF CloseDb, Crash
    <3> QED
      BY <3>1, <3>2 DEF Ends
  <2>5. ASSUME NEW g \in Gateways,
               ServerCreates(g) \/ Consume(g) \/ CallStarts(g) \/ CallEnds(g) \/ Reconnect(g)
               \/ GiveUp(g)
        PROVE  Typed'
    <3>1. CASE ServerCreates(g)
      BY <3>1 DEF ServerCreates
    <3>2. CASE Consume(g)
      BY <3>2 DEF Consume
    <3>3. CASE CallStarts(g) \/ CallEnds(g)
      <4>1. SetBusy(g, TRUE) \/ SetBusy(g, FALSE)
        BY <3>3 DEF CallStarts, CallEnds
      <4> QED
        BY <4>1 DEF SetBusy
    <3>4. CASE Reconnect(g) \/ GiveUp(g)
      BY <3>4 DEF Reconnect, GiveUp, SetConn
    <3> QED
      BY <2>5, <3>1, <3>2, <3>3, <3>4
  <2>6. ASSUME NEW g \in Gateways, Signal(g) PROVE Typed'
    BY <2>6 DEF Signal, Stop
  <2>7. ASSUME NEW s \in Sealers, SealerRuns(s) \/ SealerCrash(s) PROVE Typed'
    <3>1. CASE SealerStarts(s) \/ SealerConnects(s) \/ SubscribeFails(s) \/ FetchTimesOut(s)
      <4>1. /\ \E step \in SealerSteps : SealerGoto(s, step)
            /\ UNCHANGED <<created, stops>>
        BY <3>1 DEF SealerStarts, SealerConnects, SubscribeFails, FetchTimesOut
      <4> QED
        BY <4>1 DEF SealerGoto
    <3>2. CASE Subscribe(s)
      BY <3>2 DEF Subscribe, SealerGoto
    <3>3. CASE SealerCrash(s)
      BY <3>3 DEF SealerCrash, SealerGoto, Stop
    <3> QED
      BY <2>7, <3>1, <3>2, <3>3 DEF SealerRuns
  <2>8. CASE UNCHANGED vars
    BY <2>8 DEF vars
  <2> QED
    BY <2>1, <2>2, <2>3, <2>4, <2>5, <2>6, <2>7, <2>8 DEF Next, GatewayStep, Closing
<1> QED
  BY <1>1, <1>2, PTL DEF Spec

-----------------------------------------------------------------------------
\* What exists before each step of a gateway.
Needs(step) ==
    CASE step = "cacher" -> {"CACHE"}
      [] step = "SEAL" -> {"CACHE", "cacher"}
      [] step = "sealer" -> {"CACHE", "cacher", "SEAL"}
      [] step \in {"db", "http", "serving", "closing"} -> Things
      [] OTHER -> {}

\* There is no SEAL stream without a CACHE stream and its consumer.
CreatedInv == "SEAL" \in created => {"CACHE", "cacher"} \subseteq created

GatewaysInv ==
    \A g \in Gateways :
        /\ Needs(gpc[g]) \subseteq created
        /\ busy[g] => gpc[g] \in {"serving", "closing"}

SealersInv == \A s \in Sealers : spc[s] = "serving" => {"SEAL", "sealer"} \subseteq created

StreamsInv == CreatedInv /\ GatewaysInv /\ SealersInv

\* A gateway that creates a stream keeps the order.
LEMMA CreateStreamKeeps ==
    ASSUME Typed, StreamsInv, NEW g \in Gateways, CreateStream(g)
    PROVE  StreamsInv'
<1> USE DEF StreamsInv, CreateStream
<1>1. Needs(gpc[g]) \subseteq created /\ gpc[g] \in Things
  BY DEF GatewaysInv
<1>2. CreatedInv'
  BY <1>1 DEF CreatedInv, Needs, Things
<1>3. Needs(After(gpc[g])) \subseteq created'
  BY <1>1 DEF Needs, After, Things
<1>4. GatewaysInv'
  <2>1. ~busy[g]
    BY <1>1 DEF GatewaysInv, Typed, Things
  <2>2. gpc' = [gpc EXCEPT ![g] = After(gpc[g])]
    BY DEF Advance
  <2>3. ASSUME NEW h \in Gateways PROVE Needs(gpc[h])' \subseteq created'
    <3>1. CASE h = g
      BY <1>3, <2>2, <3>1 DEF Typed
    <3>2. CASE h # g
      BY <2>2, <3>2 DEF GatewaysInv, Typed
    <3> QED
      BY <3>1, <3>2
  <2>4. ASSUME NEW h \in Gateways PROVE busy'[h] => gpc'[h] \in {"serving", "closing"}
    BY <2>1, <2>2 DEF GatewaysInv, Typed
  <2> QED
    BY <2>3, <2>4 DEF GatewaysInv
<1>5. SealersInv'
  BY DEF SealersInv
<1> QED
  BY <1>2, <1>4, <1>5

\* So does a request that is served and not answered yet.
LEMMA ServerCreatesKeeps ==
    ASSUME Typed, StreamsInv, NEW g \in Gateways, ServerCreates(g)
    PROVE  StreamsInv'
<1> USE DEF StreamsInv, ServerCreates, gatewayVars
<1>1. Needs(gpc[g]) \subseteq created /\ gpc[g] \in Things
  BY DEF GatewaysInv
<1>2. CreatedInv'
  BY <1>1 DEF CreatedInv, Needs, Things
<1>3. GatewaysInv'
  <2>1. UNCHANGED <<gpc, busy>> /\ created \subseteq created'
    OBVIOUS
  <2> QED
    BY <2>1 DEF GatewaysInv
<1>4. SealersInv'
  BY DEF SealersInv
<1> QED
  BY <1>2, <1>3, <1>4

\* So does every other step of a gateway, which creates nothing.
LEMMA GatewayKeeps ==
    ASSUME Typed, StreamsInv, NEW g \in Gateways, GatewayStep(g)
    PROVE  StreamsInv'
<1>1. CASE CreateStream(g) \/ ServerCreates(g)
  BY <1>1, CreateStreamKeeps, ServerCreatesKeeps
<1>2. CASE ~(CreateStream(g) \/ ServerCreates(g))
  <2>1. UNCHANGED <<created, spc>>
    BY <1>2 DEF GatewayStep, Starting, Closing, Start, OpenKv, Connect, CreateFails, OpenDb, OpenHttp,
                Close, CloseDb, Crash, Ends, Consume, CallStarts, CallEnds, SetBusy, Reconnect,
                GiveUp, SetConn, Signal
  <2>2. CreatedInv' /\ SealersInv'
    BY <2>1 DEF StreamsInv, CreatedInv, SealersInv
  <2>3. ASSUME NEW h \in Gateways
        PROVE  /\ Needs(gpc'[h]) \subseteq created
               /\ busy'[h] => gpc'[h] \in {"serving", "closing"}
    <3>0. Needs(gpc[h]) \subseteq created /\ (busy[h] => gpc[h] \in {"serving", "closing"})
      BY DEF StreamsInv, GatewaysInv
    <3>1. CASE Start(g) \/ OpenKv(g) \/ Connect(g) \/ OpenDb(g) \/ OpenHttp(g)
      BY <3>0, <3>1 DEF Typed, Start, OpenKv, Connect, OpenDb, OpenHttp, Advance, After, Needs
    <3>2. CASE CreateFails(g) \/ CloseDb(g) \/ Crash(g)
      BY <3>0, <3>2 DEF Typed, CreateFails, CloseDb, Crash, Ends, Needs
    <3>3. CASE Signal(g)
      BY <3>0, <3>3 DEF Typed, Signal, Needs
    <3>4. CASE CallStarts(g) \/ CallEnds(g)
      BY <3>0, <3>4 DEF Typed, CallStarts, CallEnds, SetBusy
    <3>5. CASE Closing(g) /\ ~CloseDb(g)
      BY <3>0, <3>5 DEF Closing, Close
    <3>6. CASE Consume(g) \/ Reconnect(g) \/ GiveUp(g)
      BY <3>0, <3>6 DEF Consume, Reconnect, GiveUp, SetConn
    <3> QED
      BY <1>2, <3>1, <3>2, <3>3, <3>4, <3>5, <3>6 DEF GatewayStep, Starting
  <2>4. GatewaysInv'
    BY <2>1, <2>3 DEF GatewaysInv
  <2> QED
    BY <2>2, <2>4 DEF StreamsInv
<1> QED
  BY <1>1, <1>2

\* A sealer creates its consumer only beside the stream.
LEMMA SealerKeeps ==
    ASSUME Typed, StreamsInv, NEW s \in Sealers, SealerRuns(s) \/ SealerCrash(s)
    PROVE  StreamsInv'
<1> USE DEF StreamsInv, SealerRuns, SealerStarts, SealerConnects, Subscribe, SubscribeFails,
            FetchTimesOut, SealerCrash, SealerGoto, gatewayVars
<1>1. created \subseteq created' /\ ("SEAL" \in created' => "SEAL" \in created)
  OBVIOUS
<1>2. CreatedInv'
  BY <1>1 DEF CreatedInv
<1>3. GatewaysInv'
  <2>1. UNCHANGED <<gpc, busy>>
    OBVIOUS
  <2> QED
    BY <1>1, <2>1 DEF GatewaysInv
<1>4. SealersInv'
  BY <1>1 DEF SealersInv, Typed
<1> QED
  BY <1>2, <1>3, <1>4

\* What has been created follows the order in which every gateway creates it.
LEMMA StreamsInvHolds == Spec => []StreamsInv
<1>1. Init => StreamsInv
  BY DEF Init, StreamsInv, CreatedInv, GatewaysInv, SealersInv, Needs
<1>2. Typed /\ StreamsInv /\ [Next]_vars => StreamsInv'
  <2> SUFFICES ASSUME Typed, StreamsInv, [Next]_vars PROVE StreamsInv'
    OBVIOUS
  <2>1. CASE UNCHANGED <<created, gpc, busy, spc>>
    BY <2>1 DEF StreamsInv, CreatedInv, GatewaysInv, SealersInv
  <2>2. Recovery \/ UNCHANGED vars => UNCHANGED <<created, gpc, busy, spc>>
    BY DEF Recovery, vars, gatewayVars
  <2>3. CASE Outage
    <3>1. UNCHANGED <<created, gpc, busy>>
      BY <2>3 DEF Outage
    <3>2. PICK sealers \in SUBSET Sealers : Forgets(sealers)
      BY <2>3 DEF Outage
    <3>3. \A s \in Sealers : spc'[s] = "serving" => spc[s] = "serving"
      BY <3>2 DEF Forgets
    <3> QED
      BY <3>1, <3>3 DEF StreamsInv, CreatedInv, GatewaysInv, SealersInv
  <2> QED
    BY <2>1, <2>2, <2>3, GatewayKeeps, SealerKeeps DEF Next
<1> QED
  BY <1>1, <1>2, TypesKept, PTL DEF Spec

\* Who can take a request can pass it on: the order in which New of the stream
\* service and main create and open things, and the sealers' need of SEAL.
THEOREM StreamsAreFound == Spec => []WorkersFindStreams
<1>1. StreamsInv => WorkersFindStreams
  BY DEF StreamsInv, CreatedInv, GatewaysInv, SealersInv, WorkersFindStreams, Needs, Things
<1> QED
  BY <1>1, StreamsInvHolds, PTL

-----------------------------------------------------------------------------
\* A gateway that has created its cache consumer has a goroutine for it, which
\* gives up only for a closed connection.
ConsumersInv ==
    \A g \in Gateways :
        gpc[g] \in {"SEAL", "sealer", "db", "http", "serving", "closing"} /\ conn[g] # "closed" =>
            consumer[g] \in {"starting", "consuming"}

\* Only a start makes the goroutine, and only an end of the process ends it.
LEMMA ConsumersInvHolds == Spec => []ConsumersInv
<1>1. Init => ConsumersInv
  BY DEF Init, ConsumersInv
<1>2. Typed /\ ConsumersInv /\ [Next]_vars => ConsumersInv'
  <2> SUFFICES ASSUME Typed, ConsumersInv, [Next]_vars PROVE ConsumersInv'
    OBVIOUS
  <2> USE DEF Typed, ConsumersInv, gatewayVars
  <2>1. CASE Outage \/ Recovery \/ UNCHANGED vars
    BY <2>1 DEF Outage, Recovery, vars
  <2>2. ASSUME NEW g \in Gateways, Starting(g) PROVE ConsumersInv'
    <3>1. CASE Start(g) \/ OpenKv(g) \/ Connect(g) \/ OpenDb(g) \/ OpenHttp(g)
      BY <2>2, <3>1 DEF Start, OpenKv, Connect, OpenDb, OpenHttp, Advance, After
    <3>2. CASE CreateStream(g)
      BY <3>2 DEF CreateStream, Advance, After, Things
    <3>3. CASE CreateFails(g)
      BY <3>3 DEF CreateFails, Ends
    <3> QED
      BY <2>2, <3>1, <3>2, <3>3 DEF Starting
  <2>3. ASSUME NEW g \in Gateways, Closing(g) PROVE ConsumersInv'
    BY <2>3 DEF Closing, Close, CloseDb, Ends
  <2>4. ASSUME NEW g \in Gateways,
               ServerCreates(g) \/ Consume(g) \/ Reconnect(g) \/ GiveUp(g)
        PROVE  ConsumersInv'
    BY <2>4 DEF ServerCreates, Consume, Reconnect, GiveUp, SetConn
  <2>5. ASSUME NEW g \in Gateways, CallStarts(g) \/ CallEnds(g) \/ Signal(g) \/ Crash(g)
        PROVE  ConsumersInv'
    BY <2>5 DEF CallStarts, CallEnds, SetBusy, Signal, Crash, Ends
  <2>6. ASSUME NEW s \in Sealers, SealerRuns(s) \/ SealerCrash(s) PROVE ConsumersInv'
    BY <2>6 DEF SealerRuns, SealerStarts, SealerConnects, Subscribe, SubscribeFails,
                FetchTimesOut, SealerCrash, SealerGoto
  <2> QED
    BY <2>1, <2>2, <2>3, <2>4, <2>5, <2>6 DEF Next, GatewayStep
<1> QED
  BY <1>1, <1>2, TypesKept, PTL DEF Spec

\* A gateway that serves consumes answers, unless its connection was closed.
THEOREM ServingGatewaysConsume == Spec => []ServingConsumes
<1>1. ConsumersInv => ServingConsumes
  BY DEF ConsumersInv, ServingConsumes
<1> QED
  BY <1>1, ConsumersInvHolds, PTL

-----------------------------------------------------------------------------
(* How far a process is from serving *)

\* A gateway with nothing left serves and consumes, unless its connection was
\* closed for good; and so does no other.
Arrives ==
    \A g \in Gateways :
        Left(g) = 0 <=>
            /\ gpc[g] = "serving"
            /\ \/ conn[g] = "connected" /\ consumer[g] = "consuming"
               \/ conn[g] = "closed" /\ consumer[g] # "starting"

LEMMA ServicesFinite == IsFiniteSet(Services)
<1>1. IsFiniteSet({"kv"} \cup {"stream"})
  BY FS_Singleton, FS_Union
<1>2. IsFiniteSet({"db"} \cup {"http"})
  BY FS_Singleton, FS_Union
<1>3. Services = ({"kv"} \cup {"stream"}) \cup ({"db"} \cup {"http"})
  BY DEF Services
<1> QED
  BY <1>1, <1>2, <1>3, FS_Union

\* Closing one more service leaves one less.
LEMMA CloseCounts ==
    ASSUME NEW done \in SUBSET Services
    PROVE  /\ Cardinality(Services \ done) \in Nat
           /\ \A service \in Services \ done :
                 Cardinality(Services \ (done \cup {service})) = Cardinality(Services \ done) - 1
<1>1. IsFiniteSet(Services \ done)
  BY ServicesFinite, FS_Subset
<1>2. Cardinality(Services \ done) \in Nat
  BY <1>1, FS_CardinalityType
<1>3. ASSUME NEW service \in Services \ done
      PROVE  Cardinality(Services \ (done \cup {service})) = Cardinality(Services \ done) - 1
  <2>1. Services \ (done \cup {service}) = (Services \ done) \ {service}
    OBVIOUS
  <2>2. Cardinality((Services \ done) \ {service}) = Cardinality(Services \ done) - 1
    BY <1>1, FS_RemoveElement
  <2> QED
    BY <2>1, <2>2
<1> QED
  BY <1>2, <1>3

\* The cases of Detour, and what the parts are.
LeftSplit(g) ==
    /\ StepsLeft(gpc[g]) \in 0 .. 9
    /\ Detour(g) \in Nat
    /\ gpc[g] = "closing" =>
          Detour(g) = 10 + Cardinality(Services \ closed[g]) /\ Detour(g) >= 10
    /\ gpc[g] \in Things /\ conn[g] # "connected" => Detour(g) = 10
    /\ gpc[g] # "closing" /\ (gpc[g] \in Things => conn[g] = "connected") => Detour(g) = 0
    /\ Left(g) \in Nat

LEMMA LeftParts == Typed => \A g \in Gateways : LeftSplit(g)
<1> SUFFICES ASSUME Typed, NEW g \in Gateways PROVE LeftSplit(g)
  OBVIOUS
<1>1. Cardinality(Services \ closed[g]) \in Nat
  BY CloseCounts DEF Typed
<1>2. StepsLeft(gpc[g]) \in 0 .. 9
  BY DEF StepsLeft
<1>3. "closing" \notin Things
  BY DEF Things
<1>4. /\ gpc[g] = "closing" => Detour(g) = 10 + Cardinality(Services \ closed[g])
      /\ gpc[g] \in Things /\ conn[g] # "connected" => Detour(g) = 10
      /\ gpc[g] # "closing" /\ (gpc[g] \in Things => conn[g] = "connected") => Detour(g) = 0
  BY <1>3 DEF Detour
<1>5. Detour(g) \in Nat
  BY <1>1, <1>4
<1>6. Left(g) \in Nat
  <2>1. Pending(conn[g] = "reconnecting") \in 0 .. 1 /\ Pending(consumer[g] = "starting") \in 0 .. 1
    BY DEF Pending
  <2> QED
    BY <1>2, <1>5, <2>1 DEF Left
<1> QED
  BY <1>1, <1>2, <1>4, <1>5, <1>6 DEF LeftSplit

LEMMA LeftPartsNext == (Typed => \A g \in Gateways : LeftSplit(g))'
BY LeftParts, PTL

\* A step of the start outweighs the consumer that it makes wait.
LEMMA StepOutweighs ==
    ASSUME Typed, Typed', NEW g \in Gateways,
           Detour(g)' + StepsLeft(gpc[g])' < Detour(g) + StepsLeft(gpc[g]),
           conn'[g] = "reconnecting" => conn[g] = "reconnecting"
    PROVE  Left(g)' < Left(g)
<1> DEFINE d == Detour(g)
<1> DEFINE n == StepsLeft(gpc[g])
<1> DEFINE p == Pending(conn[g] = "reconnecting")
<1> DEFINE q == Pending(consumer[g] = "starting")
<1>0. LeftSplit(g) /\ LeftSplit(g)'
  BY LeftParts, LeftPartsNext
<1>1. d \in Nat /\ n \in Nat /\ d' \in Nat /\ n' \in Nat
  BY <1>0 DEF LeftSplit
<1>2. p \in 0 .. 1 /\ q \in 0 .. 1 /\ p' \in 0 .. 1 /\ q' \in 0 .. 1 /\ p' <= p
  BY DEF Pending
<1>3. Left(g) = 2 * (d + n) + p + q /\ Left(g)' = 2 * (d' + n') + p' + q'
  BY DEF Left
<1>4. d' + n' < d + n
  OBVIOUS
<1>5. \A a, b, i, j, a1, b1, i1, j1 \in Nat :
          a1 + b1 < a + b /\ i1 <= i /\ j1 <= 1 => 2 * (a1 + b1) + i1 + j1 < 2 * (a + b) + i + j
  OBVIOUS
<1> HIDE DEF d, n, p, q
<1>6. p \in Nat /\ q \in Nat /\ p' \in Nat /\ q' \in Nat /\ p' <= p /\ q' <= 1
  BY <1>2
<1>7. 2 * (d' + n') + p' + q' < 2 * (d + n) + p + q
  BY <1>1, <1>4, <1>5, <1>6
<1> QED
  BY <1>3, <1>7

LEMMA GatewayAdvances ==
    ASSUME Typed, Typed', NEW g \in Gateways, GatewayStep(g), Quiet
    PROVE  Left(g)' < Left(g) \/ UNCHANGED Own(g)
<1>1. LeftSplit(g) /\ LeftSplit(g)'
  BY LeftParts, LeftPartsNext
<1>2. CASE Start(g) \/ OpenKv(g) \/ OpenDb(g) \/ OpenHttp(g)
  <2>1. /\ UNCHANGED conn
        /\ gpc[g] \notin Things \cup {"closing"} /\ gpc'[g] \notin Things \cup {"closing"}
        /\ StepsLeft(gpc[g])' < StepsLeft(gpc[g])
    BY <1>2 DEF Typed, Start, OpenKv, OpenDb, OpenHttp, Advance, After, Things, StepsLeft
  <2>2. Detour(g) = 0 /\ Detour(g)' = 0
    BY <1>1, <2>1 DEF LeftSplit
  <2> QED
    BY <1>1, <2>1, <2>2, StepOutweighs DEF LeftSplit
<1>3. CASE Connect(g)
  <2>1. /\ conn'[g] = "connected" /\ gpc[g] = "connect" /\ gpc'[g] = "CACHE"
        /\ StepsLeft(gpc[g])' < StepsLeft(gpc[g])
    BY <1>3 DEF Typed, Connect, Advance, After, StepsLeft, Quiet
  <2>2. Detour(g) = 0 /\ Detour(g)' = 0
    BY <1>1, <2>1 DEF LeftSplit, Things
  <2> QED
    BY <1>1, <2>1, <2>2, StepOutweighs DEF LeftSplit
<1>4. CASE CreateStream(g)
  <2>1. /\ conn[g] = "connected" /\ conn'[g] = "connected"
        /\ gpc[g] # "closing" /\ gpc'[g] # "closing"
        /\ StepsLeft(gpc[g])' < StepsLeft(gpc[g])
    <3>1. gpc[g] \in Things /\ gpc'[g] = After(gpc[g]) /\ UNCHANGED conn /\ conn[g] = "connected"
      BY <1>4 DEF Typed, CreateStream, Advance
    <3> QED
      BY <3>1 DEF After, StepsLeft, Things
  <2>2. Detour(g) = 0 /\ Detour(g)' = 0
    BY <1>1, <2>1 DEF LeftSplit
  <2> QED
    BY <1>1, <2>1, <2>2, StepOutweighs DEF LeftSplit
<1>5. CASE CreateFails(g) \/ CloseDb(g)
  <2>1. conn'[g] = "none" /\ gpc'[g] = "down" /\ StepsLeft(gpc[g])' = 9
    BY <1>5 DEF Typed, CreateFails, CloseDb, Ends, StepsLeft
  <2>2. Detour(g)' = 0
    BY <1>1, <2>1 DEF LeftSplit, Things
  <2>3. Detour(g) >= 10
    BY <1>1, <1>5 DEF LeftSplit, CreateFails, CloseDb
  <2> QED
    BY <1>1, <2>1, <2>2, <2>3, StepOutweighs DEF LeftSplit
<1>6. CASE Consume(g) \/ Reconnect(g)
  <2>1. /\ UNCHANGED <<gpc, closed>>
        /\ conn'[g] \in {conn[g], "connected"}
        /\ \/ consumer[g] = "starting" /\ consumer'[g] # "starting" /\ conn'[g] = conn[g]
           \/ conn[g] = "reconnecting" /\ conn'[g] # "reconnecting" /\ consumer'[g] = consumer[g]
    BY <1>6 DEF Typed, Consume, Reconnect, SetConn
  <2>2. Detour(g)' <= Detour(g) /\ StepsLeft(gpc[g])' = StepsLeft(gpc[g])
    BY <1>1, <2>1 DEF LeftSplit
  <2>3. Pending(conn[g] = "reconnecting")' + Pending(consumer[g] = "starting")'
            < Pending(conn[g] = "reconnecting") + Pending(consumer[g] = "starting")
    BY <2>1 DEF Pending
  <2>4. /\ Pending(conn[g] = "reconnecting") \in 0 .. 1 /\ Pending(consumer[g] = "starting") \in 0 .. 1
        /\ Pending(conn[g] = "reconnecting")' \in 0 .. 1 /\ Pending(consumer[g] = "starting")' \in 0 .. 1
    BY DEF Pending
  <2> QED
    BY <1>1, <2>2, <2>3, <2>4 DEF LeftSplit, Left
<1>7. CASE \E service \in Services : Close(g, service)
  <2>1. PICK service \in Services : Close(g, service)
    BY <1>7
  <2>2. /\ UNCHANGED gpc /\ gpc[g] = "closing"
        /\ service \in Services \ closed[g] /\ closed'[g] = closed[g] \cup {service}
        /\ conn'[g] = "reconnecting" => conn[g] = "reconnecting"
    BY <2>1 DEF Typed, Close
  <2>3. Cardinality(Services \ closed'[g]) = Cardinality(Services \ closed[g]) - 1
    BY <2>2, CloseCounts DEF Typed
  <2>4. Detour(g)' < Detour(g)
    <3>1. Cardinality(Services \ closed[g]) \in Nat
      BY CloseCounts DEF Typed
    <3>2. Detour(g) = 10 + Cardinality(Services \ closed[g])
      BY <1>1, <2>2 DEF LeftSplit
    <3>3. Detour(g)' = 10 + Cardinality(Services \ closed'[g])
      BY <1>1, <2>2 DEF LeftSplit
    <3> QED
      BY <2>3, <3>1, <3>2, <3>3
  <2>5. StepsLeft(gpc[g])' = StepsLeft(gpc[g])
    BY <2>2
  <2> QED
    BY <1>1, <2>2, <2>4, <2>5, StepOutweighs DEF LeftSplit
<1>8. CASE ServerCreates(g) \/ CallStarts(g) \/ CallEnds(g)
  BY <1>8 DEF ServerCreates, CallStarts, CallEnds, SetBusy, gatewayVars, Own
<1>9. ~GiveUp(g) /\ ~Signal(g) /\ ~Crash(g)
  BY StopsAssumption DEF Quiet, GiveUp, Signal, Crash, Stop, Typed
<1> QED
  BY <1>2, <1>3, <1>4, <1>5, <1>6, <1>7, <1>8, <1>9 DEF GatewayStep, Starting, Closing

\* What one gateway does is nothing to another.
LEMMA OthersStay ==
    ASSUME Typed, NEW g \in Gateways, NEW h \in Gateways \ {g}, GatewayStep(h)
    PROVE  UNCHANGED Own(g)
<1> USE DEF Typed, Own
<1>1. CASE Starting(h)
  <2>1. CASE Start(h) \/ OpenKv(h) \/ Connect(h) \/ OpenDb(h) \/ OpenHttp(h) \/ CreateStream(h)
    BY <2>1 DEF Start, OpenKv, Connect, OpenDb, OpenHttp, CreateStream, Advance
  <2>2. CASE CreateFails(h)
    BY <2>2 DEF CreateFails, Ends
  <2> QED
    BY <1>1, <2>1, <2>2 DEF Starting
<1>2. CASE Closing(h) \/ Crash(h)
  BY <1>2 DEF Closing, Close, CloseDb, Crash, Ends
<1>3. CASE ServerCreates(h) \/ CallStarts(h) \/ CallEnds(h)
  BY <1>3 DEF ServerCreates, CallStarts, CallEnds, SetBusy, gatewayVars
<1>4. CASE Consume(h) \/ Reconnect(h) \/ GiveUp(h) \/ Signal(h)
  BY <1>4 DEF Consume, Reconnect, GiveUp, SetConn, Signal
<1> QED
  BY <1>1, <1>2, <1>3, <1>4 DEF GatewayStep

\* Where a gateway serves there is a SEAL stream, so that a sealer's start
\* fails only for an outage.
LEMMA SealerAdvances ==
    ASSUME Typed, StreamsInv, Quiet, NEW s \in Sealers,
           SealerRuns(s) \/ SealerCrash(s),
           \E g \in Gateways : gpc[g] = "serving"
    PROVE  SealerLeft(s)' < SealerLeft(s)
<1>1. "SEAL" \in created
  <2>1. PICK g \in Gateways : gpc[g] = "serving"
    OBVIOUS
  <2>2. Needs(gpc[g]) \subseteq created
    BY DEF StreamsInv, GatewaysInv
  <2> QED
    BY <2>1, <2>2 DEF Needs, Things
<1>2. ~SubscribeFails(s)
  BY <1>1 DEF SubscribeFails, Quiet
<1>3. ~SealerCrash(s)
  BY StopsAssumption DEF SealerCrash, Stop, Quiet, Typed
<1>4. CASE SealerStarts(s) \/ SealerConnects(s) \/ Subscribe(s) \/ FetchTimesOut(s)
  <2>1. \/ spc[s] = "down" /\ spc'[s] = "connect"
        \/ spc[s] = "connect" /\ spc'[s] = "subscribe"
        \/ spc[s] = "subscribe" /\ spc'[s] = "serving"
        \/ spc[s] = "deaf" /\ spc'[s] = "down"
    BY <1>4 DEF SealerStarts, SealerConnects, Subscribe, FetchTimesOut, SealerGoto, Typed
  <2> QED
    BY <2>1 DEF SealerLeft
<1> QED
  BY <1>2, <1>3, <1>4 DEF SealerRuns

\* A step of a gateway is none of a sealer, and the other way round.
LEMMA SidesStay ==
    ASSUME Typed
    PROVE  /\ \A g \in Gateways : GatewayStep(g) => UNCHANGED spc
           /\ \A s \in Sealers : SealerRuns(s) \/ SealerCrash(s) =>
                 /\ UNCHANGED gatewayVars
                 /\ \A other \in Sealers \ {s} : spc'[other] = spc[other]
<1>1. ASSUME NEW g \in Gateways, GatewayStep(g) PROVE UNCHANGED spc
  BY <1>1 DEF GatewayStep, Starting, Closing, Start, OpenKv, Connect, CreateStream, CreateFails,
              OpenDb, OpenHttp, Close, CloseDb, Crash, Ends, ServerCreates, Consume, CallStarts,
              CallEnds, SetBusy, Reconnect, GiveUp, SetConn, Signal
<1>2. ASSUME NEW s \in Sealers, SealerRuns(s) \/ SealerCrash(s)
      PROVE  /\ UNCHANGED gatewayVars
             /\ \A other \in Sealers \ {s} : spc'[other] = spc[other]
  <2>1. PICK step \in SealerSteps : SealerGoto(s, step)
    BY <1>2 DEF SealerRuns, SealerStarts, SealerConnects, Subscribe, SubscribeFails, FetchTimesOut,
                SealerCrash, SealerSteps
  <2> QED
    BY <2>1 DEF SealerGoto, Typed
<1> QED
  BY <1>1, <1>2

\* In quiet times every process only comes nearer to serving.
THEOREM ProcessesAdvance == Spec => StartsAdvance
<1>1. ASSUME Typed, Typed', StreamsInv, [Next]_vars, Quiet
      PROVE  /\ \A g \in Gateways :
                    /\ Left(g) \in Nat /\ Left(g)' \in Nat
                    /\ Left(g)' < Left(g) \/ UNCHANGED Own(g)
             /\ \A s \in Sealers : (\E g \in Gateways : gpc[g] = "serving") =>
                    SealerLeft(s)' < SealerLeft(s) \/ spc'[s] = spc[s]
  <2>1. ~Outage /\ ~Recovery
    BY <1>1 DEF Quiet, Outage, Recovery
  <2>2. ASSUME NEW g \in Gateways PROVE Left(g) \in Nat /\ Left(g)' \in Nat
    <3>1. LeftSplit(g) /\ LeftSplit(g)'
      BY <1>1, LeftParts, LeftPartsNext
    <3> QED
      BY <3>1 DEF LeftSplit
  <2>3. ASSUME NEW h \in Gateways, GatewayStep(h)
        PROVE  /\ \A g \in Gateways : Left(g)' < Left(g) \/ UNCHANGED Own(g)
               /\ UNCHANGED spc
    BY <1>1, <2>3, GatewayAdvances, OthersStay, SidesStay
  <2>4. ASSUME NEW s \in Sealers, SealerRuns(s) \/ SealerCrash(s)
        PROVE  /\ \A g \in Gateways : UNCHANGED Own(g)
               /\ \A other \in Sealers : (\E g \in Gateways : gpc[g] = "serving") =>
                      SealerLeft(other)' < SealerLeft(other) \/ spc'[other] = spc[other]
    <3>1. UNCHANGED gatewayVars /\ \A other \in Sealers \ {s} : spc'[other] = spc[other]
      BY <1>1, <2>4, SidesStay
    <3>2. \A g \in Gateways : UNCHANGED Own(g)
      BY <3>1 DEF gatewayVars, Own
    <3> QED
      BY <1>1, <2>4, <3>1, <3>2, SealerAdvances
  <2>5. CASE UNCHANGED vars
    BY <2>2, <2>5 DEF vars, gatewayVars, Own
  <2> QED
    BY <1>1, <2>1, <2>2, <2>3, <2>4, <2>5 DEF Next
<1> QED
  BY <1>1, TypesKept, StreamsInvHolds, PTL DEF Spec, StartsAdvance

-----------------------------------------------------------------------------
(* The connections *)

\* Only the step of main makes a connection, and only the end of the process
\* drops it: in between it may be lost, restored or given up.
LEMMA ConnectionsMadeHolds == Spec => []ConnectionsMade
<1>1. Init => ConnectionsMade
  BY DEF Init, ConnectionsMade
<1>2. Typed /\ ConnectionsMade /\ [Next]_vars => ConnectionsMade'
  <2> SUFFICES ASSUME Typed, ConnectionsMade, [Next]_vars PROVE ConnectionsMade'
    OBVIOUS
  <2> USE DEF Typed, ConnectionsMade
  <2>1. CASE Outage \/ Recovery \/ UNCHANGED vars
    BY <2>1 DEF Outage, Recovery, vars, gatewayVars
  <2>2. ASSUME NEW g \in Gateways, GatewayStep(g) PROVE ConnectionsMade'
    <3>1. ASSUME NEW h \in Gateways, h # g
          PROVE  conn'[h] = "none" <=> gpc'[h] \in {"down", "kv", "connect"}
      BY <2>2, <3>1, OthersStay DEF Own
    <3>2. conn'[g] = "none" <=> gpc'[g] \in {"down", "kv", "connect"}
      <4>1. CASE Start(g) \/ OpenKv(g) \/ OpenDb(g) \/ OpenHttp(g) \/ CreateStream(g)
        BY <4>1 DEF Start, OpenKv, OpenDb, OpenHttp, CreateStream, Advance, After, Things
      <4>2. CASE Connect(g)
        BY <4>2 DEF Connect, Advance, After
      <4>3. CASE CreateFails(g) \/ CloseDb(g) \/ Crash(g)
        BY <4>3 DEF CreateFails, CloseDb, Crash, Ends, Things
      <4>4. CASE \E service \in Services : Close(g, service)
        BY <4>4 DEF Close
      <4>5. CASE Consume(g) \/ Reconnect(g) \/ GiveUp(g) \/ Signal(g)
        BY <4>5 DEF Consume, Reconnect, GiveUp, SetConn, Signal
      <4>6. CASE ServerCreates(g) \/ CallStarts(g) \/ CallEnds(g)
        BY <4>6 DEF ServerCreates, CallStarts, CallEnds, SetBusy, gatewayVars
      <4> QED
        BY <2>2, <4>1, <4>2, <4>3, <4>4, <4>5, <4>6 DEF GatewayStep, Starting, Closing
    <3> QED
      BY <3>1, <3>2
  <2>3. ASSUME NEW s \in Sealers, SealerRuns(s) \/ SealerCrash(s) PROVE ConnectionsMade'
    BY <2>3, SidesStay DEF gatewayVars
  <2> QED
    BY <2>1, <2>2, <2>3 DEF Next
<1> QED
  BY <1>1, <1>2, TypesKept, PTL DEF Spec

\* The types are kept, and who has come past the step that connects has a
\* connection.
THEOREM TypeCorrect == Spec => []TypeOK
BY TypesKept, ConnectionsMadeHolds, PTL DEF TypeOK

-----------------------------------------------------------------------------
\* So a gateway that can come no nearer is one that GatewaysServe asks for.
THEOREM WhoArrivesServes == Spec => []Arrives
<1>1. ASSUME Typed, ConsumersInv, ConnectionsMade, NEW g \in Gateways
      PROVE  Left(g) = 0 <=>
                 /\ gpc[g] = "serving"
                 /\ \/ conn[g] = "connected" /\ consumer[g] = "consuming"
                    \/ conn[g] = "closed" /\ consumer[g] # "starting"
  <2>1. LeftSplit(g)
    BY <1>1, LeftParts
  <2>2. /\ Pending(conn[g] = "reconnecting") \in 0 .. 1
        /\ Pending(consumer[g] = "starting") \in 0 .. 1
        /\ Pending(conn[g] = "reconnecting") = 0 <=> conn[g] # "reconnecting"
        /\ Pending(consumer[g] = "starting") = 0 <=> consumer[g] # "starting"
    BY DEF Pending
  <2>3. Left(g) = 0 <=> /\ Detour(g) = 0 /\ StepsLeft(gpc[g]) = 0
                        /\ conn[g] # "reconnecting" /\ consumer[g] # "starting"
    <3>1. Detour(g) \in Nat /\ StepsLeft(gpc[g]) \in Nat
      BY <2>1 DEF LeftSplit
    <3> QED
      BY <2>2, <3>1 DEF Left
  <2>4. Detour(g) = 0 /\ StepsLeft(gpc[g]) = 0 <=> gpc[g] = "serving"
    <3>1. StepsLeft(gpc[g]) = 0 <=> gpc[g] \in {"serving", "closing"}
      BY <1>1 DEF Typed, GatewaySteps, Things, StepsLeft
    <3>2. gpc[g] = "closing" => Detour(g) # 0
      BY <2>1 DEF LeftSplit
    <3>3. gpc[g] = "serving" => Detour(g) = 0
      BY <2>1 DEF LeftSplit, Things
    <3> QED
      BY <3>1, <3>2, <3>3
  <2>5. gpc[g] = "serving" =>
            /\ conn[g] \in {"connected", "reconnecting", "closed"}
            /\ conn[g] # "closed" => consumer[g] \in {"starting", "consuming"}
    BY <1>1 DEF Typed, Connections, ConsumersInv, ConnectionsMade
  <2> QED
    BY <2>3, <2>4, <2>5
<1>2. Typed /\ ConsumersInv /\ ConnectionsMade => Arrives
  BY <1>1 DEF Arrives
<1> QED
  BY <1>2, TypesKept, ConsumersInvHolds, ConnectionsMadeHolds, PTL

=============================================================================
