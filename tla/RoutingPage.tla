------------------------------ MODULE RoutingPage ------------------------------
(***************************************************************************)
(* The routing page of the dashboard (pages/RoutingPage.tsx): a route      *)
(* between two junctions, one request at a time, and messages for the LED  *)
(* gantries, as many at a time as the operator clicks.  A handler keeps    *)
(* the list of messages it saw when it was called and puts its own in      *)
(* front of that list when it is answered.                                 *)
(*                                                                         *)
(* topology   the junctions of the dashboard's store, once they are there  *)
(* asked      the pair a route was asked for last                          *)
(* calc       where that request is                                        *)
(* message    what is typed and chosen in the form                         *)
(* send[s]    message s: what it says and the list its handler saw         *)
(* met        messages that were on their way at the same time             *)
(***************************************************************************)
EXTENDS InformationBounds, Sequences, Functions, FiniteSets

VARIABLES topology, originId, destId, asked, calc, isCalculating, routeResult,
          message, send, broadcasts, met
choice == <<originId, destId>>
route == <<asked, calc, isCalculating, routeResult>>
gantry == <<message, send, broadcasts, met>>
vars == <<topology, choice, route, gantry>>

Places == Junctions \cup {None}
InFlight == {s \in Sends : send[s].stage = "sent"}

\* The list starts with two old messages; they stand for one entry.
Init ==
  /\ topology = <<>>
  /\ originId = None /\ destId = None
  /\ asked = <<None, None>> /\ calc = "idle" /\ isCalculating = FALSE
  /\ routeResult = [kind |-> "none", pair |-> <<None, None>>]
  /\ message \in Texts \ {Blank}
  /\ send = [s \in Sends |-> [stage |-> "unused", text |-> Blank, saw |-> <<>>]]
  /\ broadcasts = <<OldMessage>>
  /\ met = {}

\* fetchJunctions is answered: with two junctions or more, the ends of the route that
\* are not chosen yet are the first two.
StoreLoads ==
  /\ topology = <<>>
  /\ \E js \in Injection(1..Cardinality(Junctions), Junctions) \cup {<<j>> : j \in Junctions} :
       /\ topology' = js
       /\ originId' = IF Len(js) >= 2 /\ originId = None THEN js[1] ELSE originId
       /\ destId' = IF Len(js) >= 2 /\ destId = None THEN js[2] ELSE destId
  /\ UNCHANGED <<route, gantry>>

ChooseOrigin(j) ==
  /\ j \in Range(topology) /\ originId' = j
  /\ UNCHANGED <<topology, destId, route, gantry>>

ChooseDest(j) ==
  /\ j \in Range(topology) /\ destId' = j
  /\ UNCHANGED <<topology, originId, route, gantry>>

(***************************************************************************)
(* handleCalculate.                                                        *)
(***************************************************************************)

\* The button is disabled while a route is calculated.  An end that is not in the
\* store is replaced by fixed coordinates.
handleCalculate ==
  /\ ~isCalculating
  /\ isCalculating' = TRUE
  /\ asked' = <<originId, destId>>
  /\ calc' = "sent"
  /\ UNCHANGED <<topology, choice, routeResult, gantry>>

\* Mutant: the answer is taken for one to the ends chosen by now.
AnswerOfNow(kind) == [kind |-> kind, pair |-> choice]
Answer(kind) == [kind |-> kind, pair |-> asked]

\* The answer, or after an error of any kind a made-up route that looks like one.
RouteArrives ==
  /\ calc = "sent" /\ calc' = "idle"
  /\ \E kind \in {"answer", "fallback"} : routeResult' = Answer(kind)
  /\ isCalculating' = FALSE
  /\ UNCHANGED <<topology, choice, asked, gantry>>

(***************************************************************************)
(* handleBroadcast.                                                        *)
(***************************************************************************)
Type(t) ==
  /\ t # message /\ message' = t
  /\ UNCHANGED <<topology, choice, route, send, broadcasts, met>>

handleBroadcast(s) ==
  /\ send[s].stage = "unused" /\ message # Blank
  /\ send' = [send EXCEPT ![s] = [stage |-> "sent", text |-> message, saw |-> broadcasts]]
  /\ met' = met \cup {{s, t} : t \in InFlight}
  /\ UNCHANGED <<topology, choice, route, message, broadcasts>>

\* Mutant: the new message replaces the list.
WithMessageOnly(s) == <<s>>
WithMessage(s) == <<s>> \o send[s].saw

\* The answer or an error: both are shown as a success.
BroadcastEnds(s) ==
  /\ send[s].stage = "sent"
  /\ send' = [send EXCEPT ![s].stage = "over"]
  /\ broadcasts' = WithMessage(s)
  /\ UNCHANGED <<topology, choice, route, message, met>>

Next ==
  \/ StoreLoads \/ handleCalculate \/ RouteArrives
  \/ \E j \in Junctions : ChooseOrigin(j) \/ ChooseDest(j)
  \/ \E t \in Texts : Type(t)
  \/ \E s \in Sends : handleBroadcast(s) \/ BroadcastEnds(s)

Spec == Init /\ [][Next]_vars

\* What the page shows of a result, and the messages it lists.
RouteShown == routeResult.kind # "none"
Listed(s) == s \in Range(broadcasts)

(***************************************************************************)
(* Properties.                                                             *)
(***************************************************************************)

\* Every variable has its type.
TypeOK ==
  /\ topology \in Seq(Junctions) /\ originId \in Places /\ destId \in Places
  /\ asked \in Places \X Places /\ calc \in {"idle", "sent"} /\ isCalculating \in BOOLEAN
  /\ routeResult \in [kind : {"none", "answer", "fallback"}, pair : Places \X Places]
  /\ message \in Texts
  /\ send \in [Sends -> [stage : {"unused", "sent", "over"}, text : Texts,
                         saw : Seq(Sends \cup {OldMessage})]]
  /\ broadcasts \in Seq(Sends \cup {OldMessage})
  /\ met \subseteq SUBSET Sends

\* The route shown while none is calculated answers the last question asked, though
\* the ends may be changed while the answer is on its way.
RouteAnswersLastAsked ==
  ~isCalculating => calc = "idle" /\ (RouteShown => routeResult.pair = asked)

\* A message that was sent is missing from the list only if another one was on its way
\* at the same time; the list never repeats one, shows none that was not sent, and
\* keeps what it started with.
MissingOnlyIfOverlapped ==
  /\ \A s \in Sends : send[s].stage = "over" =>
       Listed(s) \/ \E t \in Sends : t # s /\ {s, t} \in met
  /\ IsInjective(broadcasts)
  /\ \A s \in Sends : Listed(s) => send[s].stage = "over"
  /\ broadcasts[Len(broadcasts)] = OldMessage
=============================================================================
