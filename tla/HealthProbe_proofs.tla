--------------------------- MODULE HealthProbe_proofs --------------------------
(***************************************************************************)
(* Proofs about the health of the gateway, for any number of concurrent    *)
(* calls of Health: types are kept, a lasting outage of NATS is never      *)
(* missed and a lasting health of the key-value store never denied.        *)
(*                                                                         *)
(* Both services are safe for the same reason: their probe begins with the *)
(* very answer that is true, so that no object published since the service *)
(* has been in that state ever holds another one.  ProbesInv says it of    *)
(* what is published, CallsInv of what each call holds and has computed.   *)
(***************************************************************************)
EXTENDS HealthProbe, TLAPS

\* Writing one field of a probe leaves a probe, and the other field.
LEMMA ProbeFields ==
    /\ \A p \in StatusProbe, m \in Answers :
          /\ [p EXCEPT !.message = m] \in StatusProbe
          /\ [p EXCEPT !.message = m].healthy = p.healthy
    /\ \A p \in StatusProbe, h \in BOOLEAN : [p EXCEPT !.healthy = h] \in StatusProbe
    /\ \A p \in StatusProbe : \A h : [p EXCEPT !.healthy = h].healthy = h
<1>1. ASSUME NEW p \in StatusProbe, NEW m \in Answers
      PROVE  /\ [p EXCEPT !.message = m] \in StatusProbe
             /\ [p EXCEPT !.message = m].healthy = p.healthy
  BY DEF StatusProbe
<1>2. ASSUME NEW p \in StatusProbe, NEW h \in BOOLEAN
      PROVE  [p EXCEPT !.healthy = h] \in StatusProbe
  BY DEF StatusProbe
<1>3. ASSUME NEW p \in StatusProbe, NEW h PROVE [p EXCEPT !.healthy = h].healthy = h
  BY DEF StatusProbe
<1> QED
  BY <1>1, <1>2, <1>3, Zenon

\* The types are kept: no step of a probe or of a call leaves its range.
LEMMA TypesKept == Spec => []Typed
<1>1. Init => Typed
  <2>1. /\ Opening \in [Deps -> StatusProbe]
        /\ Revised \in [Deps -> StatusProbe]
    BY DEF Opening, Revised, Fine, Failing, Deps, StatusProbe, Answers
  <2>2. \A d \in Deps : Opening[d] \in StatusProbe /\ Revised[d] \in StatusProbe
    BY <2>1
  <2>3. Init => published \in [Deps -> StatusProbe]
    BY <2>2 DEF Init
  <2> QED
    BY <2>1, <2>3 DEF Init, Typed, ProbeSteps, HealthSteps, Pointers
<1>2. Typed /\ [Next]_vars => Typed'
  <2> SUFFICES ASSUME Typed, [Next]_vars PROVE Typed'
    OBVIOUS
  <2> USE DEF Typed, ProbeSteps, HealthSteps, Pointers, probeVars, callVars
  <2>0. /\ Opening \in [Deps -> StatusProbe]
        /\ Revised \in [Deps -> StatusProbe]
        /\ "nats" \in Deps
        /\ "kv" \in Deps
    BY DEF Opening, Revised, Fine, Failing, Deps, StatusProbe, Answers
  <2>1. ASSUME NEW p \in StatusProbe
        PROVE  p.healthy \in BOOLEAN /\ p.message \in Answers
    BY DEF StatusProbe
  <2>2. ASSUME NEW c \in Calls, NEW d \in Deps
        PROVE  Seen(c, d) \in StatusProbe /\ MessageRead(c, d) \subseteq Answers
    <3>1. Seen(c, d) \in StatusProbe
      <4>1. published[d] \in StatusProbe /\ old[c][d] \in StatusProbe
        OBVIOUS
      <4> QED
        BY ONLY <4>1 DEF Seen
    <3> QED
      BY <3>1, <2>1 DEF MessageRead
  <2>3. ASSUME NEW d \in Deps, Change(d) PROVE Typed'
    BY <2>3 DEF Change
  <2>4. ASSUME NEW d \in Deps, ProbeStarts(d) PROVE Typed'
    <3>1. ASSUME NEW c \in Calls
          PROVE  /\ held'[c] \in [Deps -> Pointers]
                 /\ old'[c] \in [Deps -> StatusProbe]
      BY <2>4 DEF ProbeStarts
    <3> QED
      BY <2>0, <2>4, <3>1 DEF ProbeStarts
  <2>5. ASSUME NEW d \in Deps, ProbeConfirms(d) PROVE Typed'
    BY <2>5 DEF ProbeConfirms, ProbeEnds
  <2>6. ASSUME NEW d \in Deps, ProbeRevises(d) PROVE Typed'
    BY <2>6 DEF ProbeRevises
  <2>7. ASSUME NEW d \in Deps, ProbeSetsMessage(d) PROVE Typed'
    <3>0. published[d] \in StatusProbe /\ Revised[d].message \in Answers
      BY <2>0, <2>1
    <3>1. [published[d] EXCEPT !.message = Revised[d].message] \in StatusProbe
      BY <3>0, ProbeFields, Zenon
    <3> QED
      BY <2>7, <3>1 DEF ProbeSetsMessage
  <2>8. ASSUME NEW d \in Deps, ProbeSetsHealthy(d) PROVE Typed'
    <3>0. published[d] \in StatusProbe /\ Revised[d].healthy \in BOOLEAN
      BY <2>0, <2>1
    <3>1. [published[d] EXCEPT !.healthy = Revised[d].healthy] \in StatusProbe
      BY <3>0, ProbeFields, Zenon
    <3> QED
      BY <2>8, <3>1 DEF ProbeSetsHealthy, ProbeEnds
  <2>9. ASSUME NEW c \in Calls, HealthReadsNats(c) PROVE Typed'
    <3>1. [held[c] EXCEPT !["nats"] = "published"] \in [Deps -> Pointers]
      OBVIOUS
    <3> QED
      BY <2>9, <3>1 DEF HealthReadsNats, HealthGoto
  <2>10. ASSUME NEW c \in Calls, HealthReadsKv(c) PROVE Typed'
    <3>1. [held[c] EXCEPT !["kv"] = "published"] \in [Deps -> Pointers]
      OBVIOUS
    <3> QED
      BY <2>10, <3>1 DEF HealthReadsKv, HealthGoto
  <2>11. ASSUME NEW c \in Calls, HealthChecks(c) PROVE Typed'
    BY <2>11 DEF HealthChecks, Checks, HealthGoto
  <2>12. ASSUME NEW c \in Calls, NEW d \in Deps, EncodesMessage(c, d)
         PROVE  /\ listed' \in [Calls -> [Deps -> StatusProbe]]
                /\ UNCHANGED <<status, steady>>
    <3>1. PICK m \in Answers : listed' = [listed EXCEPT ![c][d].message = m]
      BY <2>2, <2>12 DEF EncodesMessage
    <3>0. listed[c][d] \in StatusProbe
      OBVIOUS
    <3>2. [listed[c][d] EXCEPT !.message = m] \in StatusProbe
      BY <3>0, ProbeFields, Zenon
    <3>3. [listed[c] EXCEPT ![d].message = m] \in [Deps -> StatusProbe]
      BY <3>2
    <3> QED
      BY <2>12, <3>1, <3>3 DEF EncodesMessage
  <2>13. ASSUME NEW c \in Calls, HealthEncodes(c) PROVE Typed'
    <3>1. ASSUME NEW d \in Deps, NEW next \in HealthSteps, EncodesHealthy(c, d, next)
          PROVE  Typed'
      <4>0. listed[c][d] \in StatusProbe /\ Seen(c, d).healthy \in BOOLEAN
        BY <2>1, <2>2
      <4>1. [listed[c][d] EXCEPT !.healthy = Seen(c, d).healthy] \in StatusProbe
        BY <4>0, ProbeFields, Zenon
      <4>2. [listed[c] EXCEPT ![d].healthy = Seen(c, d).healthy] \in [Deps -> StatusProbe]
        BY <4>1
      <4> QED
        BY <3>1, <4>2 DEF EncodesHealthy, HealthGoto
    <3>2. CASE /\ EncodesMessage(c, "nats")
               /\ HealthGoto(c, "kv healthy")
               /\ UNCHANGED <<held, old>>
      BY <2>0, <2>12, <3>2 DEF HealthGoto
    <3> QED
      BY <2>0, <2>13, <3>1, <3>2 DEF HealthEncodes
  <2>14. ASSUME NEW c \in Calls, HealthReplies(c) PROVE Typed'
    BY <2>0, <2>12, <2>14 DEF HealthReplies, HealthGoto
  <2>15. CASE UNCHANGED vars
    BY <2>15 DEF vars
  <2> QED
    BY <2>3, <2>4, <2>5, <2>6, <2>7, <2>8, <2>9, <2>10, <2>11, <2>13, <2>14, <2>15
       DEF Next, Probing, Answering
<1> QED
  BY <1>1, <1>2, PTL DEF Spec

-----------------------------------------------------------------------------
\* The service is in the state its probe begins with.
AsOpened(d) == ~Contradicts(d)

\* A service unchanged since its probe began, and in the state the probe begins
\* with, is published that way, and no probe is writing to the object.
ProbesInv ==
    /\ settled \subseteq fresh
    /\ \A d \in Deps :
          d \in fresh /\ AsOpened(d) =>
              published[d] = Opening[d] /\ ppc[d] \in {"idle", "asking"}

\* The object a call holds of such a service says what the service is.
HeldInv ==
    \A c \in Calls : \A d \in Deps :
        /\ d \in steady[c] => d \in settled
        /\ d \in steady[c] /\ AsOpened(d) /\ held[c][d] # "nil" => Seen(c, d) = Opening[d]

\* So does what the call has made of it.
ReplyOf(c) ==
    /\ "nats" \in steady[c] /\ AsOpened("nats") =>
          /\ hpc[c] \notin {"idle", "kv", "check nats"} => status[c] = "fail"
          /\ hpc[c] \in {"nats message", "kv healthy", "kv message"} =>
                ~listed[c]["nats"].healthy
    /\ "kv" \in steady[c] /\ AsOpened("kv") /\ hpc[c] = "kv message" =>
          listed[c]["kv"].healthy

ReplyInv == \A c \in Calls : ReplyOf(c)

HealthInv == ProbesInv /\ PointersInv /\ HeldInv /\ ReplyInv

\* The invariant holds when the gateway has started.
LEMMA HealthInvInit == Init => HealthInv
<1> SUFFICES ASSUME Init PROVE HealthInv
  OBVIOUS
<1>1. "nats" \in Deps /\ "kv" \in Deps
  BY DEF Deps
<1>2. ProbesInv
  BY DEF Init, ProbesInv, AsOpened
<1>3. PointersInv
  BY <1>1 DEF Init, PointersInv, PointersOf
<1>4. HeldInv
  BY DEF Init, HeldInv
<1>5. ReplyInv
  BY DEF Init, ReplyInv, ReplyOf
<1> QED
  BY <1>2, <1>3, <1>4, <1>5 DEF HealthInv

\* A service that changes leaves the states the invariant speaks of.
LEMMA ChangeKeeps ==
    ASSUME Typed, HealthInv, NEW d \in Deps, Change(d)
    PROVE  HealthInv'
<1> USE DEF HealthInv, Typed, Change, probeVars, callVars
<1>1. \A e \in Deps : e # d => (AsOpened(e)' <=> AsOpened(e))
  BY DEF AsOpened, Contradicts
<1>2. ProbesInv'
  BY <1>1 DEF ProbesInv
<1>3. PointersInv'
  BY DEF PointersInv, PointersOf
<1>4. \A c \in Calls, e \in Deps : Seen(c, e)' = Seen(c, e)
  BY DEF Seen
<1>5. HeldInv'
  BY <1>1, <1>4 DEF HeldInv
<1>6. ReplyInv'
  BY <1>1 DEF ReplyInv, ReplyOf, Deps
<1> QED
  BY <1>2, <1>3, <1>5, <1>6

\* A probe that starts publishes its first answer; the calls that hold the
\* object of the last probe go on holding what it says.
LEMMA ProbeStartsKeeps ==
    ASSUME Typed, HealthInv, NEW d \in Deps, ProbeStarts(d)
    PROVE  HealthInv'
<1> USE DEF HealthInv, Typed, ProbeStarts
<1>1. \A e \in Deps : AsOpened(e)' <=> AsOpened(e)
  BY DEF AsOpened, Contradicts
<1>2. ProbesInv'
  BY <1>1 DEF ProbesInv
<1>3. ASSUME NEW c \in Calls, NEW e \in Deps
      PROVE  /\ Seen(c, e)' = Seen(c, e)
             /\ held'[c][e] = "nil" <=> held[c][e] = "nil"
  BY <1>3 DEF Seen, Pointers
<1>4. PointersInv'
  BY <1>3 DEF PointersInv, PointersOf, Deps
<1>5. HeldInv'
  BY <1>1, <1>3 DEF HeldInv
<1>6. ReplyInv'
  BY <1>1 DEF ReplyInv, ReplyOf
<1> QED
  BY <1>2, <1>4, <1>5, <1>6

\* The other steps of a probe write only to objects of which nothing is claimed.
LEMMA ProbeWritesKeeps ==
    ASSUME Typed, HealthInv, NEW d \in Deps,
           \/ ProbeConfirms(d)
           \/ ProbeRevises(d)
           \/ ProbeSetsMessage(d)
           \/ ProbeSetsHealthy(d)
    PROVE  HealthInv'
<1> USE DEF HealthInv, Typed
<1>1. /\ UNCHANGED <<up, callVars, fresh, steady>>
      /\ settled \subseteq settled' /\ settled' \subseteq settled \cup fresh
      /\ \A e \in Deps : e # d => published'[e] = published[e] /\ ppc'[e] = ppc[e]
  BY DEF ProbeConfirms, ProbeRevises, ProbeSetsMessage, ProbeSetsHealthy, ProbeEnds
<1>2. \A e \in Deps : AsOpened(e)' <=> AsOpened(e)
  BY <1>1 DEF AsOpened, Contradicts
<1>3. d \in fresh /\ AsOpened(d) => published'[d] = published[d] /\ ppc'[d] \in {"idle", "asking"}
  BY DEF ProbesInv, AsOpened, ProbeConfirms, ProbeRevises, ProbeSetsMessage, ProbeSetsHealthy,
         ProbeEnds
<1>4. ProbesInv'
  BY <1>1, <1>2, <1>3 DEF ProbesInv
<1>5. PointersInv'
  BY <1>1 DEF PointersInv, PointersOf, callVars
<1>6. ASSUME NEW c \in Calls, NEW e \in Deps, e \in steady[c], AsOpened(e)
      PROVE  Seen(c, e)' = Seen(c, e)
  <2>1. e \in fresh
    BY <1>6 DEF HeldInv, ProbesInv
  <2> QED
    BY <1>1, <1>3, <1>6, <2>1 DEF Seen, callVars
<1>7. HeldInv'
  BY <1>1, <1>2, <1>6 DEF HeldInv, callVars
<1>8. ReplyInv'
  BY <1>1, <1>2 DEF ReplyInv, ReplyOf, callVars
<1> QED
  BY <1>4, <1>5, <1>7, <1>8

\* A call reads a pointer: what is published is what the service is.
LEMMA ReadsKeeps ==
    ASSUME Typed, HealthInv, NEW c \in Calls, HealthReadsNats(c) \/ HealthReadsKv(c)
    PROVE  HealthInv'
<1>0. ProbesInv /\ PointersInv /\ HeldInv /\ ReplyInv
  BY DEF HealthInv
<1> USE DEF HealthGoto, probeVars
<1>1. "nats" \in Deps /\ "kv" \in Deps /\ "nats" # "kv"
  BY DEF Deps
<1>2. UNCHANGED <<up, published, ppc, old, fresh, settled>>
  BY DEF HealthReadsNats, HealthReadsKv
<1>3. \A d \in Deps : AsOpened(d)' <=> AsOpened(d)
  BY <1>2 DEF AsOpened, Contradicts
<1>4. ProbesInv'
  BY <1>0, <1>2, <1>3 DEF ProbesInv
<1>5. ASSUME NEW b \in Calls, b # c
      PROVE  hpc'[b] = hpc[b] /\ held'[b] = held[b] /\ steady'[b] = steady[b]
  BY <1>5 DEF Typed, HealthReadsNats, HealthReadsKv
<1>6. ASSUME HealthReadsNats(c)
      PROVE  /\ hpc'[c] = "kv"
             /\ held'[c]["nats"] = "published"
             /\ held'[c]["kv"] = "nil"
             /\ steady'[c] = settled
  BY <1>0, <1>1, <1>6 DEF Typed, HealthReadsNats, PointersInv, PointersOf
<1>7. ASSUME HealthReadsKv(c)
      PROVE  /\ hpc'[c] = "check nats"
             /\ held'[c]["nats"] = held[c]["nats"] /\ held[c]["nats"] # "nil"
             /\ held'[c]["kv"] = "published"
             /\ steady'[c] = steady[c]
  BY <1>0, <1>1, <1>7 DEF Typed, HealthReadsKv, PointersInv, PointersOf
<1>8. PointersInv'
  <2>1. ASSUME NEW b \in Calls, b # c PROVE PointersOf(b)'
    BY <1>0, <1>5, <2>1 DEF PointersInv, PointersOf
  <2>2. PointersOf(c)'
    BY <1>6, <1>7 DEF PointersOf
  <2> QED
    BY <2>1, <2>2 DEF PointersInv
<1>9. ASSUME NEW b \in Calls, NEW d \in Deps
      PROVE  /\ d \in steady'[b] => d \in settled'
             /\ d \in steady'[b] /\ AsOpened(d)' /\ held'[b][d] # "nil"
                   => Seen(b, d)' = Opening[d]
  <2>0. d \in steady[b] => d \in settled
    BY <1>0 DEF HeldInv
  <2>1. d \in steady'[b] => d \in settled
    BY <1>5, <1>6, <1>7, <2>0
  <2>2. CASE held'[b][d] = held[b][d] /\ steady'[b] = steady[b]
    BY <1>0, <1>2, <1>3, <2>1, <2>2 DEF HeldInv, Seen
  <2>3. CASE held'[b][d] = "published"
    BY <1>0, <1>2, <1>3, <2>1, <2>3 DEF ProbesInv, Seen
  <2>4. CASE held'[b][d] = "nil"
    BY <1>2, <2>1, <2>4
  <2> QED
    BY <1>5, <1>6, <1>7, <2>2, <2>3, <2>4 DEF Deps
<1>10. HeldInv'
  BY <1>9 DEF HeldInv
<1>11. ReplyInv'
  <2>1. UNCHANGED listed /\ \A b \in Calls : b # c => status'[b] = status[b]
    BY DEF Typed, HealthReadsNats, HealthReadsKv
  <2> QED
    BY <1>0, <1>1, <1>3, <1>5, <1>6, <1>7, <2>1 DEF ReplyInv, ReplyOf
<1> QED
  BY <1>4, <1>8, <1>10, <1>11 DEF HealthInv

\* A call checks or encodes what it holds.
LEMMA RepliesKeep ==
    ASSUME Typed, HealthInv, NEW c \in Calls,
           HealthChecks(c) \/ HealthEncodes(c) \/ HealthReplies(c)
    PROVE  HealthInv'
<1>0. ProbesInv /\ PointersInv /\ HeldInv /\ ReplyInv
  BY DEF HealthInv
<1> USE DEF HealthGoto, probeVars
<1>1. "nats" \in Deps /\ "kv" \in Deps /\ "nats" # "kv"
  BY DEF Deps
<1>2. UNCHANGED <<up, published, ppc, fresh, settled, steady>>
  BY DEF HealthChecks, Checks, HealthEncodes, EncodesHealthy, EncodesMessage, HealthReplies
<1>3. \A d \in Deps : AsOpened(d)' <=> AsOpened(d)
  BY <1>2 DEF AsOpened, Contradicts
<1>4. ProbesInv'
  BY <1>0, <1>2, <1>3 DEF ProbesInv
<1>5. ASSUME NEW b \in Calls, b # c
      PROVE  /\ hpc'[b] = hpc[b] /\ held'[b] = held[b] /\ old'[b] = old[b]
             /\ status'[b] = status[b] /\ listed'[b] = listed[b]
  BY <1>5 DEF Typed, HealthChecks, Checks, HealthEncodes, EncodesHealthy, EncodesMessage,
              HealthReplies
<1>6. ASSUME HealthReplies(c)
      PROVE  hpc'[c] = "idle" /\ \A d \in Deps : held'[c][d] = "nil"
  BY <1>6 DEF Typed, HealthReplies
<1>7. ASSUME HealthChecks(c) \/ HealthEncodes(c)
      PROVE  /\ UNCHANGED <<held, old>>
             /\ hpc[c] \notin {"idle", "kv"}
             /\ hpc'[c] \notin {"idle", "kv", "check nats"}
  BY <1>7 DEF Typed, HealthChecks, Checks, HealthEncodes, EncodesHealthy
<1>8. PointersInv'
  <2>1. ASSUME NEW b \in Calls, b # c PROVE PointersOf(b)'
    BY <1>0, <1>5, <2>1 DEF PointersInv, PointersOf
  <2>2. PointersOf(c)'
    BY <1>0, <1>1, <1>6, <1>7 DEF PointersInv, PointersOf
  <2> QED
    BY <2>1, <2>2 DEF PointersInv
<1>9. HeldInv'
  <2>1. ASSUME NEW b \in Calls, NEW d \in Deps, held'[b][d] # "nil"
        PROVE  Seen(b, d)' = Seen(b, d) /\ held[b][d] # "nil"
    BY <1>2, <1>5, <1>6, <1>7, <2>1 DEF Seen
  <2> QED
    BY <1>0, <1>2, <1>3, <2>1 DEF HeldInv
<1>10. ASSUME "nats" \in steady[c], AsOpened("nats"), hpc[c] # "idle"
       PROVE  ~Seen(c, "nats").healthy
  BY <1>0, <1>1, <1>10 DEF HeldInv, PointersInv, PointersOf, Opening, Failing
<1>11. ASSUME "kv" \in steady[c], AsOpened("kv"), hpc[c] \notin {"idle", "kv"}
       PROVE  Seen(c, "kv").healthy
  BY <1>0, <1>1, <1>11 DEF HeldInv, PointersInv, PointersOf, Opening, Fine
<1>12. ReplyOf(c)'
  <2>1. CASE HealthChecks(c)
    <3>1. /\ UNCHANGED listed
          /\ hpc'[c] \in {"check kv", "nats healthy"}
          /\ \/ /\ hpc[c] = "check nats"
                /\ status'[c] = IF Seen(c, "nats").healthy THEN status[c] ELSE "fail"
             \/ hpc[c] = "check kv" /\ status'[c] \in {status[c], "fail"}
      BY <2>1 DEF Typed, HealthChecks, Checks
    <3> QED
      BY <1>0, <1>1, <1>2, <1>3, <1>10, <3>1 DEF ReplyInv, ReplyOf
  <2>2. CASE HealthEncodes(c)
    <3>1. CASE hpc[c] = "nats healthy" /\ EncodesHealthy(c, "nats", "nats message")
      <4>1. /\ UNCHANGED status
            /\ hpc'[c] = "nats message"
            /\ listed'[c]["nats"] = [listed[c]["nats"] EXCEPT !.healthy = Seen(c, "nats").healthy]
        BY <1>1, <3>1 DEF Typed, EncodesHealthy
      <4>2. listed[c]["nats"] \in StatusProbe /\ Seen(c, "nats").healthy \in BOOLEAN
        BY <1>1 DEF Typed, Seen, StatusProbe
      <4>3. [listed[c]["nats"] EXCEPT !.healthy = Seen(c, "nats").healthy].healthy
                = Seen(c, "nats").healthy
        BY <4>2, ProbeFields, Zenon
      <4>4. listed'[c]["nats"].healthy = Seen(c, "nats").healthy
        BY <4>1, <4>3, Zenon
      <4> QED
        BY <1>0, <1>1, <1>2, <1>3, <1>10, <3>1, <4>1, <4>4 DEF ReplyInv, ReplyOf
    <3>2. CASE /\ hpc[c] = "nats message"
               /\ EncodesMessage(c, "nats")
               /\ HealthGoto(c, "kv healthy")
               /\ UNCHANGED <<held, old>>
      <4>1. /\ UNCHANGED status
            /\ hpc'[c] = "kv healthy"
        BY <1>1, <3>2 DEF Typed, EncodesMessage
      <4>2. PICK m \in MessageRead(c, "nats") : listed' = [listed EXCEPT ![c]["nats"].message = m]
        BY <3>2 DEF EncodesMessage
      <4>3. listed[c]["nats"] \in StatusProbe /\ m \in Answers
        BY <1>1, <4>2 DEF Typed, MessageRead, Seen, StatusProbe
      <4>4. listed'[c]["nats"] = [listed[c]["nats"] EXCEPT !.message = m]
        BY <1>1, <4>2 DEF Typed
      <4>5. [listed[c]["nats"] EXCEPT !.message = m].healthy = listed[c]["nats"].healthy
        BY <4>3, ProbeFields, Zenon
      <4>6. listed'[c]["nats"].healthy = listed[c]["nats"].healthy
        BY <4>4, <4>5, Zenon
      <4> QED
        BY <1>0, <1>1, <1>2, <1>3, <3>2, <4>1, <4>6 DEF ReplyInv, ReplyOf
    <3>3. CASE hpc[c] = "kv healthy" /\ EncodesHealthy(c, "kv", "kv message")
      <4>1. /\ UNCHANGED status
            /\ hpc'[c] = "kv message"
            /\ listed'[c]["nats"] = listed[c]["nats"]
            /\ listed'[c]["kv"] = [listed[c]["kv"] EXCEPT !.healthy = Seen(c, "kv").healthy]
        BY <1>1, <3>3 DEF Typed, EncodesHealthy
      <4>2. listed[c]["kv"] \in StatusProbe /\ Seen(c, "kv").healthy \in BOOLEAN
        BY <1>1 DEF Typed, Seen, StatusProbe
      <4>3. [listed[c]["kv"] EXCEPT !.healthy = Seen(c, "kv").healthy].healthy
                = Seen(c, "kv").healthy
        BY <4>2, ProbeFields, Zenon
      <4>4. listed'[c]["kv"].healthy = Seen(c, "kv").healthy
        BY <4>1, <4>3, Zenon
      <4> QED
        BY <1>0, <1>1, <1>2, <1>3, <1>11, <3>3, <4>1, <4>4 DEF ReplyInv, ReplyOf
    <3> QED
      BY <2>2, <3>1, <3>2, <3>3 DEF HealthEncodes
  <2>3. CASE HealthReplies(c)
    BY <1>0, <1>1, <1>2, <1>3, <1>6, <2>3 DEF ReplyInv, ReplyOf
  <2> QED
    BY <2>1, <2>2, <2>3
<1>13. ReplyInv'
  <2>1. ASSUME NEW b \in Calls, b # c PROVE ReplyOf(b)'
    BY <1>0, <1>1, <1>2, <1>3, <1>5, <2>1 DEF ReplyInv, ReplyOf
  <2> QED
    BY <1>12, <2>1 DEF ReplyInv
<1> QED
  BY <1>4, <1>8, <1>9, <1>13 DEF HealthInv

\* The inductive invariant holds throughout.
LEMMA HealthInvHolds == Spec => []HealthInv
<1>1. Typed /\ HealthInv /\ [Next]_vars => HealthInv'
  <2> SUFFICES ASSUME Typed, HealthInv, [Next]_vars PROVE HealthInv'
    OBVIOUS
  <2>1. ASSUME NEW d \in Deps, Change(d) \/ Probing(d) PROVE HealthInv'
    BY <2>1, ChangeKeeps, ProbeStartsKeeps, ProbeWritesKeeps DEF Probing
  <2>2. ASSUME NEW c \in Calls, Answering(c) PROVE HealthInv'
    BY <2>2, ReadsKeeps, RepliesKeep DEF Answering
  <2>3. CASE UNCHANGED vars
    <3>1. /\ \A d \in Deps : AsOpened(d)' <=> AsOpened(d)
          /\ \A c \in Calls, d \in Deps : Seen(c, d)' = Seen(c, d)
      BY <2>3 DEF vars, probeVars, callVars, AsOpened, Contradicts, Seen
    <3>2. ProbesInv'
      BY <2>3, <3>1 DEF vars, probeVars, HealthInv, ProbesInv
    <3>3. PointersInv'
      BY <2>3 DEF vars, callVars, HealthInv, PointersInv, PointersOf
    <3>4. HeldInv'
      BY <2>3, <3>1 DEF vars, callVars, HealthInv, HeldInv
    <3>5. ReplyInv'
      BY <2>3, <3>1 DEF vars, callVars, HealthInv, ReplyInv, ReplyOf, Deps
    <3> QED
      BY <3>2, <3>3, <3>4, <3>5 DEF HealthInv
  <2> QED
    BY <2>1, <2>2, <2>3 DEF Next
<1> QED
  BY <1>1, HealthInvInit, TypesKept, PTL DEF Spec

\* The types are kept, and no call follows a pointer it has not read.
THEOREM TypeCorrect == Spec => []TypeOK
<1>1. Typed /\ HealthInv => TypeOK
  BY DEF HealthInv, TypeOK
<1> QED
  BY <1>1, TypesKept, HealthInvHolds, PTL

\* An outage of NATS that has lasted for a whole probe is in every reply of
\* Health, whatever it held when the probes wrote: the probe of stream/service.go
\* begins with the bad news.
THEOREM NatsOutagesAreReported == Spec => NatsOutageReported
<1>1. ASSUME Typed, HealthInv, NEW c \in Calls,
             HealthReplies(c), "nats" \in steady[c], ~up["nats"]
      PROVE  status[c] = "fail" /\ ~listed'[c]["nats"].healthy
  <2>1. "nats" \in Deps /\ "kv" \in Deps /\ "nats" # "kv"
    BY DEF Deps
  <2>2. AsOpened("nats")
    <3>1. up["nats"] = FALSE
      BY <1>1, <2>1 DEF Typed
    <3> QED
      BY <2>1, <3>1 DEF AsOpened, Contradicts, Opening, Failing
  <2>3. hpc[c] = "kv message"
    BY <1>1 DEF HealthReplies
  <2>4. status[c] = "fail" /\ ~listed[c]["nats"].healthy
    BY <1>1, <2>2, <2>3 DEF HealthInv, ReplyInv, ReplyOf
  <2>5. PICK m \in MessageRead(c, "kv") : listed' = [listed EXCEPT ![c]["kv"].message = m]
    BY <1>1 DEF HealthReplies, EncodesMessage
  <2>6. listed'[c]["nats"] = listed[c]["nats"]
    BY <1>1, <2>1, <2>5 DEF Typed
  <2> QED
    BY <2>4, <2>6
<1>2. Typed /\ HealthInv /\ [Next]_vars =>
        [\A c \in Calls :
            HealthReplies(c) /\ "nats" \in steady[c] /\ ~up["nats"] =>
                status[c] = "fail" /\ ~listed'[c]["nats"].healthy]_vars
  BY <1>1
<1> QED
  BY <1>2, HealthInvHolds, TypesKept, PTL DEF Spec, NatsOutageReported

\* A key-value store that has been up for a whole probe is never reported
\* otherwise: the probe of kvclient/client.go begins with the good news.
THEOREM KvHealthIsReported == Spec => KvHealthReported
<1>1. ASSUME Typed, HealthInv, NEW c \in Calls,
             HealthReplies(c), "kv" \in steady[c], up["kv"]
      PROVE  listed'[c]["kv"] = Fine
  <2>1. "kv" \in Deps /\ "kv" # "nats"
    BY DEF Deps
  <2>2. AsOpened("kv") /\ Opening["kv"] = Fine
    BY <1>1, <2>1 DEF AsOpened, Contradicts, Opening, Fine
  <2>3. hpc[c] = "kv message"
    BY <1>1 DEF HealthReplies
  <2>4. listed[c]["kv"].healthy = TRUE
    <3>1. listed[c]["kv"].healthy
      BY <1>1, <2>2, <2>3 DEF HealthInv, ReplyInv, ReplyOf
    <3>2. listed[c]["kv"].healthy \in BOOLEAN
      BY <1>1, <2>1 DEF Typed, StatusProbe
    <3> QED
      BY <3>1, <3>2
  <2>5. Seen(c, "kv") = Fine
    BY <1>1, <2>1, <2>2, <2>3 DEF HealthInv, HeldInv, PointersInv, PointersOf
  <2>6. ppc["kv"] # "message"
    BY <1>1, <2>1, <2>2 DEF HealthInv, HeldInv, ProbesInv
  <2>7. MessageRead(c, "kv") = {"ok"}
    BY <2>5, <2>6 DEF MessageRead, Fine
  <2>8. listed' = [listed EXCEPT ![c]["kv"].message = "ok"]
    BY <1>1, <2>7 DEF HealthReplies, EncodesMessage
  <2>9. listed'[c]["kv"] = [listed[c]["kv"] EXCEPT !.message = "ok"]
    BY <1>1, <2>1, <2>8 DEF Typed
  <2>10. listed[c]["kv"] \in StatusProbe
    BY <1>1, <2>1 DEF Typed
  <2> QED
    BY <2>4, <2>9, <2>10 DEF StatusProbe, Fine
<1>2. Typed /\ HealthInv /\ [Next]_vars =>
        [\A c \in Calls :
            HealthReplies(c) /\ "kv" \in steady[c] /\ up["kv"] => listed'[c]["kv"] = Fine]_vars
  BY <1>1
<1> QED
  BY <1>2, HealthInvHolds, TypesKept, PTL DEF Spec, KvHealthReported

-----------------------------------------------------------------------------
\* What a step may do to what is shown of a service.
Tells(d) ==
    /\ ppc[d] # "idle" /\ ppc'[d] = "idle" /\ d \in fresh => ShownHealthy(d)' = up[d]
    /\ d \in settled /\ d \in settled' /\ AsOpened(d) =>
          published'[d] = published[d] /\ ShownHealthy(d)' = up[d]

\* What is shown follows the services probe by probe: one that has not changed
\* since a probe of it began is shown as it is when that probe ends, and one that
\* is in the state its probes begin with is shown that way from then on, through
\* every probe, until it changes.  It is the part of HealthConverges that needs
\* no fairness.
ProbesTell == [][\A d \in Deps : Tells(d)]_vars

\* A probe that ends has written what it was told last.
LEMMA ProbeEndTells ==
    ASSUME Typed, HealthInv, NEW d \in Deps, d \in fresh, ppc'[d] = "idle",
           ProbeConfirms(d) \/ ProbeSetsHealthy(d)
    PROVE  ShownHealthy(d)' = up[d]
<1> SUFFICES published'[d].healthy = up[d]
  BY DEF ShownHealthy
<1>1. up[d] \in BOOLEAN /\ published \in [Deps -> StatusProbe]
  BY DEF Typed
<1>2. Opening[d].healthy \in BOOLEAN /\ Revised[d].healthy = ~Opening[d].healthy
  BY DEF Deps, Opening, Revised, Fine, Failing
<1>3. CASE ProbeConfirms(d)
  <2>1. AsOpened(d) /\ published' = published
    BY <1>3 DEF ProbeConfirms, AsOpened
  <2>2. published[d] = Opening[d]
    BY <2>1 DEF HealthInv, ProbesInv
  <2> QED
    BY <2>1, <2>2 DEF AsOpened, Contradicts
<1>4. CASE ProbeSetsHealthy(d)
  <2>1. /\ ppc[d] = "healthy"
        /\ published' = [published EXCEPT ![d].healthy = Revised[d].healthy]
    BY <1>4 DEF ProbeSetsHealthy
  <2>2. ~AsOpened(d)
    BY <2>1 DEF HealthInv, ProbesInv
  <2>3. up[d] = Revised[d].healthy
    BY <1>1, <1>2, <2>2 DEF AsOpened, Contradicts
  <2>4. published'[d] = [published[d] EXCEPT !.healthy = Revised[d].healthy]
    BY <1>1, <2>1
  <2>5. published[d] \in StatusProbe /\ Revised[d].healthy \in BOOLEAN
    BY <1>1, <1>2
  <2>6. [published[d] EXCEPT !.healthy = Revised[d].healthy].healthy = Revised[d].healthy
    BY <2>5, ProbeFields, Zenon
  <2> QED
    BY <2>3, <2>4, <2>6, Zenon
<1> QED
  BY <1>3, <1>4

\* A service that is as its probes begin is shown that way before and after
\* every step that does not change it.
LEMMA SettledIsShown ==
    ASSUME Typed, HealthInv, HealthInv', NEW d \in Deps,
           d \in settled, d \in settled', AsOpened(d), up'[d] = up[d]
    PROVE  published'[d] = published[d] /\ ShownHealthy(d)' = up[d]
<1>1. AsOpened(d)' /\ d \in fresh /\ d \in fresh'
  BY DEF HealthInv, ProbesInv, AsOpened, Contradicts
<1>2. published[d] = Opening[d] /\ published'[d] = Opening[d]
  BY <1>1 DEF HealthInv, ProbesInv
<1> QED
  BY <1>2 DEF AsOpened, Contradicts, ShownHealthy

\* The probes tell what they are told, whatever Health reads meanwhile.
THEOREM ProbesDoTell == Spec => ProbesTell
<1>1. ASSUME Typed, HealthInv, HealthInv', [Next]_vars, NEW d \in Deps
      PROVE  Tells(d)
  <2>1. ASSUME NEW e \in Deps, Change(e) PROVE Tells(d)
    <3>1. UNCHANGED ppc /\ settled' = settled \ {e} /\ (e # d => up'[d] = up[d])
      BY <2>1 DEF Change, Typed, probeVars
    <3>2. d \in settled' => up'[d] = up[d]
      BY <3>1
    <3>3. d \in settled /\ d \in settled' /\ AsOpened(d) =>
              published'[d] = published[d] /\ ShownHealthy(d)' = up[d]
      BY <1>1, <3>2, SettledIsShown, Zenon
    <3> QED
      BY <3>1, <3>3 DEF Tells
  <2>2. ASSUME UNCHANGED up,
               ppc[d] # "idle" /\ ppc'[d] = "idle" => ProbeConfirms(d) \/ ProbeSetsHealthy(d)
        PROVE  Tells(d)
    <3>1. up'[d] = up[d]
      BY <2>2
    <3>2. d \in settled /\ d \in settled' /\ AsOpened(d) =>
              published'[d] = published[d] /\ ShownHealthy(d)' = up[d]
      BY <1>1, <3>1, SettledIsShown, Zenon
    <3>3. ppc[d] # "idle" /\ ppc'[d] = "idle" /\ d \in fresh => ShownHealthy(d)' = up[d]
      BY <1>1, <2>2, ProbeEndTells, Zenon
    <3> QED
      BY <3>2, <3>3, Zenon DEF Tells
  <2>3. ASSUME NEW e \in Deps, Probing(e) PROVE Tells(d)
    <3>1. UNCHANGED up
      BY <2>3 DEF Probing, ProbeStarts, ProbeConfirms, ProbeRevises, ProbeSetsMessage,
                  ProbeSetsHealthy, ProbeEnds
    <3>2. ppc' = [ppc EXCEPT ![e] = ppc'[e]]
      BY <1>1, <2>3 DEF Probing, ProbeStarts, ProbeConfirms, ProbeRevises, ProbeSetsMessage,
                  ProbeSetsHealthy, ProbeEnds, Typed
    <3>3. ppc'[e] = "idle" => ProbeConfirms(e) \/ ProbeSetsHealthy(e)
      BY <1>1, <2>3 DEF Probing, ProbeStarts, ProbeRevises, ProbeSetsMessage, Typed
    <3>4. ppc[d] # "idle" /\ ppc'[d] = "idle" => e = d
      BY <1>1, <3>2 DEF Typed
    <3> QED
      BY <2>2, <3>1, <3>3, <3>4
  <2>4. ASSUME (\E c \in Calls : Answering(c)) \/ UNCHANGED vars PROVE Tells(d)
    <3>1. UNCHANGED <<up, ppc>>
      BY <2>4 DEF Answering, HealthReadsNats, HealthReadsKv, HealthChecks, Checks, HealthEncodes,
                  EncodesHealthy, HealthReplies, HealthGoto, probeVars, vars
    <3> QED
      BY <2>2, <3>1
  <2> QED
    BY <1>1, <2>1, <2>3, <2>4 DEF Next
<1>2. Typed /\ HealthInv /\ HealthInv' /\ [Next]_vars => [\A d \in Deps : Tells(d)]_vars
  BY <1>1
<1> QED
  BY <1>2, HealthInvHolds, TypesKept, PTL DEF Spec, ProbesTell

=============================================================================
