------------------------------ MODULE GreenWave ------------------------------
(***************************************************************************)
(* The emergency green-wave controller, ml/emergency/green_wave.py.        *)
(*                                                                         *)
(* active_events   the events of self.active_events, each with its route,  *)
(*                 the index of the junction the vehicle reached last and  *)
(*                 the window of junctions the controller announces        *)
(* original_plans  the keys of self.original_plans (every stored plan is   *)
(*                 the same constant)                                      *)
(* lamp            what the traffic-light environment passed as `env`      *)
(*                 shows at each junction: its own plan, or a phase forced *)
(*                 by set_green_wave.  The environment is external.        *)
(*                                                                         *)
(* Every method is synchronous, so every method is one action.  Indices    *)
(* are TLA+'s: 1..Len(route) stands for Python's 0..len(route)-1.          *)
(***************************************************************************)
EXTENDS Integers, Sequences

CONSTANTS
  EventIds,     \* event ids; a new event never has the id of a live one
  Junctions,    \* junction names
  Routes,       \* the routes a request may carry; get_route() never gives []
  Marks,        \* Marks[j]: the markers "EW", "NS", "J" found in j's name
  EWPairs,      \* the arterial pairs listed in _get_approach_phase
  Lookahead,    \* self.lookahead
  EnvAttached   \* whether callers pass an env with both methods

\* "start" and "dummy_from", the two origins the code passes that are not
\* junctions.  Neither has a marker.
Start == "start"
DummyFrom == "dummy_from"
MarksOf(n) == IF n \in Junctions THEN Marks[n] ELSE {}

\* What a junction shows: its own plan, or a forced phase.
Plan == "plan"
Phase0 == "phase 0"   \* east-west arterial green
Phase2 == "phase 2"   \* north-south cross street green

ASSUME GreenWaveAssumption ==
  /\ Routes \subseteq Seq(Junctions) \ {<<>>}
  /\ Marks \in [Junctions -> SUBSET {"EW", "NS", "J"}]
  /\ Lookahead \in Nat
  /\ EnvAttached \in BOOLEAN
  /\ Start \notin Junctions /\ DummyFrom \notin Junctions

VARIABLES active_events, original_plans, lamp
vars == <<active_events, original_plans, lamp>>

-----------------------------------------------------------------------------
(* Routes *)

Active == DOMAIN active_events
OnRoute(r) == {r[i] : i \in DOMAIN r}

\* route[from : from + Lookahead], cut at the end of the route.
Window(r, from) ==
  SubSeq(r, from, IF from + Lookahead - 1 < Len(r)
                  THEN from + Lookahead - 1 ELSE Len(r))

\* route.index(j): the first position of j.
FirstIndex(r, j) ==
  CHOOSE i \in DOMAIN r : r[i] = j /\ \A k \in DOMAIN r : r[k] = j => i <= k

\* _get_approach_phase.
ApproachPhase(from, to) ==
  LET some(m) == m \in MarksOf(from) \cup MarksOf(to)
      both(m) == m \in MarksOf(from) \cap MarksOf(to)
  IN  IF \/ <<from, to>> \in EWPairs
         \/ some("EW")
         \/ ~some("NS") /\ both("J")
      THEN Phase0 ELSE Phase2

\* env.set_green_wave(j, phase[j], hold) for every j in the domain of phase.
SetGreenWave(l, phase) ==
  [j \in Junctions |->
     IF EnvAttached /\ j \in DOMAIN phase THEN phase[j] ELSE l[j]]

\* env.restore_plan(j, plan) for every j of P.
RestorePlan(l, P) ==
  [j \in Junctions |-> IF EnvAttached /\ j \in P THEN Plan ELSE l[j]]

-----------------------------------------------------------------------------
Init ==
  /\ active_events = [e \in {} |-> {}]
  /\ original_plans = {}
  /\ lamp = [j \in Junctions |-> Plan]

\* The positions activate() forces: all of the window but its last one,
\* range(len(active_junctions) - 1).
ActivatePositions(r) == 1 .. Len(Window(r, 1)) - 1

\* The origin of position i is "start" at the head of the route and the
\* junction itself everywhere else.  A junction met twice keeps the later phase.
ActivatePhase(r, j) ==
  LET i == CHOOSE k \in ActivatePositions(r) :
             r[k] = j /\ \A m \in ActivatePositions(r) : r[m] = j => m <= k
  IN  ApproachPhase(IF i > 1 THEN r[i] ELSE Start, j)

ActivatePhases(r) ==
  [j \in {r[i] : i \in ActivatePositions(r)} |-> ActivatePhase(r, j)]

NewEvent(r) ==
  [route |-> r, current_index |-> 1, active_junctions |-> Window(r, 1)]

activate(e, r) ==
  /\ e \notin Active
  /\ original_plans' = original_plans \cup OnRoute(r)
  /\ lamp' = SetGreenWave(lamp, ActivatePhases(r))
  /\ active_events' = [x \in Active \cup {e} |->
                         IF x = e THEN NewEvent(r) ELSE active_events[x]]

\* The junctions between the last reported position and the new one.
\* Mutant: the junction the vehicle has just left is forgotten.
PassedForgetsOne(ev, at) == {ev.route[i] : i \in ev.current_index + 1 .. at - 1}
Passed(ev, at) == {ev.route[i] : i \in ev.current_index .. at - 1}

\* The event after the move: new index, new window.
\* Mutant: the window is not moved along.
MovedKeepsWindow(ev, at) == [ev EXCEPT !.current_index = at]
Moved(ev, at) == [route |-> ev.route, current_index |-> at,
                  active_junctions |-> Window(ev.route, at)]

\* An unknown event, or a junction that is not on the route, is an error and
\* changes nothing.
update_position(e, j) ==
  /\ e \in Active
  /\ j \in OnRoute(active_events[e].route)
  /\ LET ev    == active_events[e]
         at    == FirstIndex(ev.route, j)
         ahead == OnRoute(Window(ev.route, at))
     IN  /\ lamp' = SetGreenWave(RestorePlan(lamp, Passed(ev, at)),
                                [k \in ahead |-> ApproachPhase(DummyFrom, k)])
         /\ active_events' = [active_events EXCEPT ![e] = Moved(ev, at)]
  /\ UNCHANGED original_plans

\* The junctions of e's route that no other live event has on its own.
\* Mutant: other events are not looked at.
NotInUseUnchecked(e) == OnRoute(active_events[e].route)
NotInUse(e) ==
  {j \in OnRoute(active_events[e].route) :
     \A x \in Active \ {e} : j \notin OnRoute(active_events[x].route)}

deactivate(e) ==
  /\ e \in Active
  /\ lamp' = RestorePlan(lamp, OnRoute(active_events[e].route))
  /\ original_plans' = original_plans \ NotInUse(e)
  /\ active_events' = [x \in Active \ {e} |-> active_events[x]]

Next ==
  \/ \E e \in EventIds, r \in Routes : activate(e, r)
  \/ \E e \in EventIds, j \in Junctions : update_position(e, j)
  \/ \E e \in EventIds : deactivate(e)

Spec == Init /\ [][Next]_vars

-----------------------------------------------------------------------------
(* Properties *)

\* A well-formed event: the index is a position of the route and the announced
\* window starts at it.
WellFormed(ev) ==
  /\ ev = [route |-> ev.route, current_index |-> ev.current_index,
           active_junctions |-> ev.active_junctions]
  /\ ev.route \in Routes
  /\ ev.current_index \in DOMAIN ev.route
  /\ ev.active_junctions = Window(ev.route, ev.current_index)

\* Type invariant of the controller's two dictionaries and of the lamps; an
\* event's announced window is always the one at its current index.
TypeOK ==
  /\ Active \subseteq EventIds
  /\ active_events = [e \in Active |-> active_events[e]]
  /\ \A e \in Active : WellFormed(active_events[e])
  /\ original_plans \subseteq Junctions
  /\ lamp \in [Junctions -> {Plan, Phase0, Phase2}]

\* The plans the controller keeps are exactly those of the junctions on some
\* live route: deactivate() neither drops a plan another event will need to
\* restore nor leaks one when overlapping events end in any order.
PlansMatchActiveRoutes ==
  original_plans = UNION {OnRoute(active_events[e].route) : e \in Active}

\* Event ev still needs junction j: j is at or ahead of its vehicle.
Needs(ev, j) == \E i \in DOMAIN ev.route : i >= ev.current_index /\ ev.route[i] = j

\* A junction held out of its own plan lies at or ahead of the vehicle of some
\* live event: what every vehicle has passed has been given back, and when the
\* last event ends no junction is left in a forced phase.
NoGreenBehind ==
  \A j \in Junctions :
    lamp[j] # Plan => \E e \in Active : Needs(active_events[e], j)
=============================================================================
