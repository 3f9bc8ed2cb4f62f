---------------------------- MODULE TrafficMapPage ----------------------------
(***************************************************************************)
(* The traffic map of the dashboard (pages/TrafficMapPage.tsx): pins that  *)
(* drift on their own until the first message of the traffic socket, and   *)
(* show the reports of the digital twin from then on; the junctions of the *)
(* store laid over the pins; a feed of the last events.  Three senders     *)
(* share the socket: the SUMO bridge, the simulation API, and the          *)
(* telemetry of the backend.                                               *)
(* Queues and speeds are small numbers with the code's thresholds scaled.  *)
(*                                                                         *)
(* pins[i]     queue, speed and status of pin i; where[i] says where they  *)
(*             come from                                                   *)
(* loop        what the interval of the page knows of isPlaying and         *)
(*             isTwinConnected; React renews it some time after a change   *)
(* report      the last report of junctions in a message, <<>> before it   *)
(* step        the last step the bridge reported, by its own count         *)
(* restarted   whether the bridge was, and counts from the start           *)
(***************************************************************************)
EXTENDS InformationBounds, Sequences

VARIABLES isPlaying, isTwinConnected, loop, pins, where, report, step, restarted,
          feedEvents
map == <<pins, where, report>>
feed == <<step, restarted, feedEvents>>
vars == <<isPlaying, isTwinConnected, loop, map, feed>>

Status(congested) == IF congested THEN "congested" ELSE "normal"
Congested(q, s) == q > LongQueue \/ s < SlowSpeed

\* Mutant: the upper bound is forgotten.
ClampLow(x, low, high) == IF x < low THEN low ELSE x
Clamp(x, low, high) == IF x < low THEN low ELSE IF x > high THEN high ELSE x
Pin(q, s) == [queue |-> q, speed |-> s, status |-> Status(Congested(q, s))]
Modulo(i, n) == ((i - 1) % n) + 1

\* The default pins agree with the thresholds, and so do these.
Init ==
  /\ isPlaying = TRUE /\ isTwinConnected = FALSE
  /\ loop = [playing |-> TRUE, twin |-> FALSE]
  /\ \E q \in MinQueue..MaxQueue, s \in MinSpeed..MaxSpeed : pins = [i \in 1..Pins |-> Pin(q, s)]
  /\ where = [i \in 1..Pins |-> "default"]
  /\ report = <<>>
  /\ step = 0 /\ restarted = FALSE
  /\ feedEvents = <<>>

TogglePlay ==
  /\ isPlaying' = ~isPlaying
  /\ UNCHANGED <<isTwinConnected, loop, map, feed>>

\* React runs the effect of a change of either flag.
EffectRuns ==
  /\ loop # [playing |-> isPlaying, twin |-> isTwinConnected]
  /\ loop' = [playing |-> isPlaying, twin |-> isTwinConnected]
  /\ UNCHANGED <<isPlaying, isTwinConnected, map, feed>>

\* Mutant: the loop does not look at the twin.
AlwaysStandalone == TRUE
Standalone == ~loop.twin

\* The loop of one second: while it knows of no message, every pin drifts.
Drift ==
  /\ loop.playing /\ Standalone
  /\ \E dq, ds \in [1..Pins -> {-1, 1}] :
       pins' = [i \in 1..Pins |-> Pin(Clamp(pins[i].queue + dq[i], MinQueue, MaxQueue),
                                      Clamp(pins[i].speed + ds[i], MinSpeed, MaxSpeed))]
  /\ where' = [i \in 1..Pins |-> "drift"]
  /\ UNCHANGED <<isPlaying, isTwinConnected, loop, report, feed>>

(***************************************************************************)
(* The sockets.                                                            *)
(***************************************************************************)
Reported(r) == [queue |-> r.queue, speed |-> r.speed, status |-> Status(r.is_congested)]

\* Mutants: a new entry is put last; the pins are dealt out from the second.
PutInFeedLast(e) == IF Len(feedEvents) < FeedLength THEN Append(feedEvents, e)
                    ELSE Append(Tail(feedEvents), e)
PutInFeed(e) == SubSeq(<<e>> \o feedEvents, 1,
                       IF Len(feedEvents) < FeedLength THEN Len(feedEvents) + 1 ELSE FeedLength)

DealtFromSecond(i, junctions) == junctions[Modulo(i + 1, Len(junctions))]
Dealt(i, junctions) == junctions[Modulo(i, Len(junctions))]

\* Any message connects the twin, for good, also one that is not of a simulation.
Connects == isTwinConnected' = TRUE /\ UNCHANGED <<isPlaying, loop>>

\* The reports are dealt out to the pins in turn, whatever junctions they name.
TakesJunctions(junctions) ==
  IF junctions = <<>> THEN UNCHANGED map
  ELSE /\ pins' = [i \in 1..Pins |-> Reported(Dealt(i, junctions))]
       /\ where' = [i \in 1..Pins |-> "twin"]
       /\ report' = junctions

\* The number of the step is shown too, and nothing else is done with it.
TakesStep(sender, n) ==
  feedEvents' = IF n # 0 /\ n % Every = 0 THEN PutInFeed([by |-> sender, step |-> n])
                ELSE feedEvents

\* What the bridge reports: of each traffic light, in SUMO's order, or without those that
\* SUMO gave no answer for.
Entry(l, r) ==
  [id |-> l, queue |-> r.queue, speed |-> r.speed, is_congested |-> r.is_congested]
Entries == {Entry(l, r) : l \in 1..Lights, r \in Reports}
Whole == {[l \in 1..Lights |-> Entry(l, f[l])] : f \in [1..Lights -> Reports]}
Partial == {m \in UNION {[1..n -> Entries] : n \in 0..(Lights - 1)} :
              \A i, j \in DOMAIN m : i < j => m[i].id < m[j].id}

\* A step of the bridge; those it could not publish are missing.
BridgeMessage(n, junctions) ==
  /\ n > step /\ step' = n /\ UNCHANGED restarted
  /\ Connects /\ TakesJunctions(junctions) /\ TakesStep("bridge", n)

BridgeRestarts ==
  /\ step > 0 /\ step' = 0 /\ restarted' = TRUE
  /\ UNCHANGED <<isPlaying, isTwinConnected, loop, map, feedEvents>>

\* The simulation API counts its own steps: any number, and each is delivered twice.
ApiSteps == -1 .. Every
ApiMessage(n) ==
  /\ Connects /\ TakesStep("api", n)
  /\ UNCHANGED <<map, step, restarted>>

\* What the backend got from a sensor or made up, and a step of the API's SUMO.
TelemetryMessage ==
  /\ Connects
  /\ UNCHANGED <<map, feed>>

\* An override announced on the signals socket.
SignalsMessage ==
  /\ feedEvents' = PutInFeed([by |-> "signals", step |-> 0])
  /\ UNCHANGED <<isPlaying, isTwinConnected, loop, map, step, restarted>>

Next ==
  \/ TogglePlay \/ EffectRuns \/ Drift
  \/ \E n \in 1..MaxSteps, m \in Whole \cup Partial : BridgeMessage(n, m)
  \/ \E n \in ApiSteps : ApiMessage(n)
  \/ BridgeRestarts \/ TelemetryMessage \/ SignalsMessage

Spec == Init /\ [][Next]_vars

\* What the map shows of the k-th junction of the store, whenever the store has one, and
\* the colour of its marker; every other junction counts as one under MARL.
baseJunction(k) == pins[Modulo(k, Pins)]
getMarkerColor(k) == CASE baseJunction(k).status = "congested" -> "red"
                       [] baseJunction(k).status # "congested" /\ k % 2 = 1 -> "teal"
                       [] OTHER -> "emerald"

(***************************************************************************)
(* Properties.                                                             *)
(***************************************************************************)

\* Every variable has its type.
TypeOK ==
  /\ isPlaying \in BOOLEAN /\ isTwinConnected \in BOOLEAN
  /\ pins \in [1..Pins -> [queue : Int, speed : Int, status : {"congested", "normal"}]]
  /\ where \in [1..Pins -> {"default", "drift", "twin"}]
  /\ loop \in [playing : BOOLEAN, twin : BOOLEAN]
  /\ report \in Whole \cup Partial
  /\ step \in 0..MaxSteps /\ restarted \in BOOLEAN
  /\ feedEvents \in Seq([by : {"bridge", "api", "signals"}, step : Int])

\* A status that the page made up itself follows from the queue and the speed it shows
\* next to it, and these stay in their bounds.
OwnStatusFollows ==
  \A i \in 1..Pins : where[i] # "twin" =>
    /\ pins[i] = Pin(pins[i].queue, pins[i].speed)
    /\ pins[i].queue \in MinQueue..MaxQueue /\ pins[i].speed \in MinSpeed..MaxSpeed

\* Reports are dealt out by their place and not by the junction they name.  So a junction
\* of the store shows numbers, status and colour of one report, from the last message that
\* had any, and of the same traffic light each time as long as the bridge reports of all
\* of them: which one, the junction's place in the store's list says.  With one left out,
\* the places behind it show another one.
OneReportEach ==
  report # <<>> =>
    \A k \in 1..MaxStore :
      LET place == Modulo(k, Pins)
          own   == report[Modulo(place, Len(report))]
      IN  where[place] = "twin" =>
            /\ baseJunction(k) = Reported(own)
            /\ (getMarkerColor(k) = "red") = own.is_congested
            /\ Len(report) = Lights => own.id = Modulo(place, Lights)

\* Once the loop knows of a message, no invented number comes, playing or not: what is
\* shown changes only with a report of the bridge.  What was invented before may stay.
TwinNumbersStay ==
  [][ loop.twin => /\ loop'.twin
                   /\ \A i \in 1..Pins : where[i] = "twin" => where'[i] = "twin"
                   /\ pins' # pins => step' > step /\ report' # <<>> ]_vars

\* The feed keeps its length; until the bridge is restarted, it shows each of its steps
\* once, the newest first, whatever the API and the signals put between them.
FeedInOrder ==
  /\ Len(feedEvents) <= FeedLength
  /\ ~restarted => \A i, j \in DOMAIN feedEvents :
       i < j /\ feedEvents[i].by = "bridge" /\ feedEvents[j].by = "bridge" =>
         feedEvents[i].step > feedEvents[j].step
=============================================================================
