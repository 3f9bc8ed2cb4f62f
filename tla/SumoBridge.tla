------------------------------ MODULE SumoBridge ------------------------------
(***************************************************************************)
(* The live bridge, simulation/sumo_live_bridge.py: the main thread, which *)
(* alone talks to SUMO through TraCI, and the listener thread, which reads *)
(* commands from Redis and puts them on command_queue.                     *)
(*                                                                         *)
(* listener   where listen_dashboard_commands is                           *)
(* wire       what Redis sent on the subscription and is not yet read      *)
(* queue      command_queue                                                *)
(* pc         where the main loop is: draining the queue, enforcing the    *)
(*            corridor, stepping SUMO, or past stop()                      *)
(* mode       emergency_mode                                               *)
(* alive      the TraCI connection                                         *)
(* tl[l]      the traffic light l of SUMO (external)                       *)
(*                                                                         *)
(* SUMO's side, as the code uses it: program "0" is the network's cycle of *)
(* four phases, phase 0 the corridor's green; setRedYellowGreenState puts  *)
(* the light on an "online" program of one phase with that state, where    *)
(* getPhase is 0 and setPhase accepts only 0.                              *)
(***************************************************************************)
EXTENDS Naturals, Sequences

CONSTANTS
  NLights,      \* traffic lights, numbered in getIDList order
  Actions,      \* the override actions operators send
  MaxPending,   \* bound on the commands between Redis and the main loop
  MaxPublished  \* bound on the commands published

Lights == 1 .. NLights

ASSUME BridgeAssumption ==
  /\ NLights \in Nat \ {0}
  /\ MaxPending \in Nat /\ MaxPublished \in Nat

VARIABLES listener, wire, queue, pc, mode, alive, tl, published
threads == <<listener, wire, queue>>
vars == <<threads, pc, mode, alive, tl, published>>

\* An override names a junction too, but that is not passed on.
Overrides == [type : {"SIGNAL_OVERRIDE"}, action : Actions]
Emergency == [type : {"EMERGENCY_ACTIVATED", "EMERGENCY_DEACTIVATED"}]
Other == [type : {"OTHER"}]   \* mode changes, the bridge's own events
Messages == Overrides \cup Emergency \cup Other

Cycle(p, lock) == [program |-> "0", phase |-> p, locked |-> lock]
AllRed == [program |-> "online", phase |-> 0, locked |-> FALSE]

Init ==
  /\ listener = "connecting" /\ wire = <<>> /\ queue = <<>>
  /\ pc = "drain" /\ mode = FALSE /\ alive = TRUE /\ published = 0
  /\ tl = [l \in Lights |-> Cycle(0, FALSE)]

-----------------------------------------------------------------------------
(* The listener thread *)

listener_connects ==
  /\ pc # "stopped" /\ listener = "connecting"
  /\ listener' = "subscribed"
  /\ UNCHANGED <<wire, queue, pc, mode, alive, tl, published>>

\* An exception waits two seconds; an end of file reconnects at once.  What
\* Redis sends in between is gone.
listener_fails ==
  /\ pc # "stopped" /\ listener \in {"connecting", "subscribed"}
  /\ listener' \in IF listener = "subscribed" THEN {"sleeping", "connecting"} ELSE {"sleeping"}
  /\ wire' = <<>>
  /\ UNCHANGED <<queue, pc, mode, alive, tl, published>>

listener_wakes ==
  /\ pc # "stopped" /\ listener = "sleeping"
  /\ listener' = "connecting"
  /\ UNCHANGED <<wire, queue, pc, mode, alive, tl, published>>

\* Mutant: the newest command is put in front.
EnqueuedFirst(q, m) == <<m>> \o q
Enqueued(q, m) == Append(q, m)

listener_reads ==
  /\ pc # "stopped" /\ listener = "subscribed" /\ wire # <<>>
  /\ queue' = Enqueued(queue, Head(wire))
  /\ wire' = Tail(wire)
  /\ UNCHANGED <<listener, pc, mode, alive, tl, published>>

\* A publisher sends m on emergency_events or signal_events.
publish(m) ==
  /\ pc # "stopped" /\ published < MaxPublished
  /\ Len(wire) + Len(queue) < MaxPending
  /\ wire' = IF listener = "subscribed" THEN Append(wire, m) ELSE wire
  /\ published' = published + 1
  /\ UNCHANGED <<listener, queue, pc, mode, alive, tl>>

-----------------------------------------------------------------------------
(* Commands, in the main thread *)

\* Mutant: the corridor lights are restored one short.
ClearedShort == [l \in Lights |-> IF l = NLights THEN tl[l] ELSE Cycle(0, FALSE)]
Cleared == [l \in Lights |-> Cycle(0, FALSE)]

\* setPhase(0), setPhaseDuration(9999) for every light.
\* Mutant: the phase is not set, as if the duration sufficed.
LockedAsIs == [l \in Lights |-> [tl[l] EXCEPT !.locked = TRUE]]
Locked == [l \in Lights |-> [tl[l] EXCEPT !.phase = 0, !.locked = TRUE]]

\* The lights a phase skip gets to: setPhase(1) raises on the first light that
\* is on its one-phase program, and the exception ends the loop.
Reached == {l \in Lights : \A k \in 1 .. l : tl[k].program = "0"}

\* handle_signal_override loops over all lights.  An extended phase stays as
\* locked as it was; a shortened one may end (the value is the operator's).  A
\* flash is not recorded anywhere: only the program tells of it.
\* Mutant: whatever is not known flashes.
OverriddenFlashes(a) ==
  IF a \in {"PHASE_SKIP", "SHORTEN_GREEN", "REDUCE_GREEN"} THEN tl ELSE [l \in Lights |-> AllRed]
Overridden(a) ==
  CASE a = "FLASH_ALL_RED" -> [l \in Lights |-> AllRed]
    [] a \in {"PHASE_SKIP", "FORCE_PHASE_SKIP"} ->
         [l \in Lights |-> IF l \in Reached THEN Cycle((tl[l].phase + 1) % 4, FALSE)
                                            ELSE tl[l]]
    [] a \in {"SHORTEN_GREEN", "REDUCE_GREEN"} ->
         [l \in Lights |-> [tl[l] EXCEPT !.locked = FALSE]]
    [] OTHER -> tl

\* emergency_mode after a command; it is assigned before any TraCI call.
\* Mutant: it is not assigned by an activation.
ModeAfterNoSet(m) == mode /\ m.type # "EMERGENCY_DEACTIVATED"
ModeAfter(m) == IF m.type = "EMERGENCY_ACTIVATED" THEN TRUE
                ELSE IF m.type = "EMERGENCY_DEACTIVATED" THEN FALSE ELSE mode

LightsAfter(m) ==
  CASE m.type = "EMERGENCY_ACTIVATED" -> Locked
    [] m.type = "EMERGENCY_DEACTIVATED" -> Cleared
    [] m.type = "SIGNAL_OVERRIDE" -> Overridden(m.action)
    [] OTHER -> tl

\* One turn of the inner loop.  Without SUMO every TraCI call raises; the
\* exception is logged and the loop goes on.
execute_command ==
  /\ pc = "drain" /\ queue # <<>>
  /\ queue' = Tail(queue)
  /\ mode' = ModeAfter(Head(queue))
  /\ tl' = IF alive THEN LightsAfter(Head(queue)) ELSE tl
  /\ UNCHANGED <<listener, wire, pc, alive, published>>

queue_drained ==
  /\ pc = "drain" /\ queue = <<>>
  /\ pc' = "enforce"
  /\ UNCHANGED <<threads, mode, alive, tl, published>>

-----------------------------------------------------------------------------
(* The rest of the loop *)

\* getIDList is outside the inner try: without SUMO it ends the loop.
enforce ==
  /\ pc = "enforce"
  /\ IF ~mode THEN pc' = "step" /\ UNCHANGED tl
     ELSE IF alive THEN pc' = "step" /\ tl' = Locked
     ELSE pc' = "stopped" /\ UNCHANGED tl
  /\ UNCHANGED <<threads, mode, alive, published>>

\* simulationStep moves the lights whose time is up; telemetry follows, and now
\* and then an event on signal_events, which the listener receives too.
simulation_step ==
  /\ pc = "step"
  /\ IF alive
     THEN /\ pc' = "drain"
          /\ \E S \in SUBSET {l \in Lights : tl[l].program = "0" /\ ~tl[l].locked} :
               tl' = [l \in Lights |-> IF l \in S THEN Cycle((tl[l].phase + 1) % 4, FALSE)
                                                  ELSE tl[l]]
          /\ \/ UNCHANGED wire
             \/ /\ listener = "subscribed" /\ Len(wire) + Len(queue) < MaxPending
                /\ wire' = Append(wire, [type |-> "OTHER"])
     ELSE pc' = "stopped" /\ UNCHANGED <<tl, wire>>
  /\ UNCHANGED <<listener, queue, mode, alive, published>>

sumo_closes ==
  /\ alive /\ pc # "stopped"
  /\ alive' = FALSE
  /\ UNCHANGED <<threads, pc, mode, tl, published>>

MainLoop == execute_command \/ queue_drained \/ enforce \/ simulation_step

Next ==
  \/ listener_connects \/ listener_fails \/ listener_wakes \/ listener_reads
  \/ \E m \in Messages : publish(m)
  \/ MainLoop
  \/ sumo_closes

Spec == Init /\ [][Next]_vars

\* Both threads keep running until the loop ends.
Fairness == WF_vars(MainLoop) /\ WF_vars(listener_reads)
FairSpec == Spec /\ Fairness

-----------------------------------------------------------------------------
(* Properties *)

\* Type invariant; the lights always share one program, which is why a phase
\* skip never stops half-way.
TypeOK ==
  /\ listener \in {"connecting", "subscribed", "sleeping"}
  /\ wire \in Seq(Messages) /\ queue \in Seq(Messages)
  /\ pc \in {"drain", "enforce", "step", "stopped"}
  /\ mode \in BOOLEAN /\ alive \in BOOLEAN /\ published \in 0 .. MaxPublished
  /\ tl \in [Lights -> [program : {"0", "online"}, phase : 0 .. 3, locked : BOOLEAN]]
  /\ \A k, l \in Lights : tl[k].program = tl[l].program

\* The corridor's green, and the all-red of a flash.
ShowsGreen(l) == tl[l].program = "0" /\ tl[l].phase = 0
ShowsRed(l) == tl[l].program = "online"

\* Whenever SUMO is about to step in emergency mode, no light can leave its state,
\* whatever overrides were drained in the same turn, and the lights show one picture:
\* the corridor's green everywhere, or everywhere the red of a flash, on which setPhase
\* has no effect.
CorridorLocked ==
  pc = "step" /\ mode /\ alive =>
    /\ \A l \in Lights : tl[l].locked
    /\ (\A l \in Lights : ShowsGreen(l)) \/ (\A l \in Lights : ShowsRed(l))

\* What the main loop and trigger_emergency_corridor say they do: "enforce Green wave
\* across all corridor traffic lights", "continuous GREEN".
CorridorGreen ==
  pc = "step" /\ mode /\ alive => \A l \in Lights : ShowsGreen(l)

\* That red has one cause and one end: a light leaves its cycle only when a flash is
\* carried out, and is back on it only when a deactivation is.
RedIsFlashed ==
  [][\A l \in Lights : tl'[l].program # tl[l].program =>
       /\ execute_command
       /\ LET m == Head(queue)
          IN  IF ShowsRed(l)' THEN m \in Overrides /\ m.action = "FLASH_ALL_RED"
                              ELSE m.type = "EMERGENCY_DEACTIVATED"]_vars

\* A phase skip moves all lights or none, although it is a loop that an
\* exception may cut short.
SkipAllOrNone ==
  [][execute_command /\ Head(queue).type = "SIGNAL_OVERRIDE"
       => \/ tl' = tl
          \/ \A l \in Lights : tl'[l] # tl[l]]_vars

\* In emergency mode the lights are locked together, in green unless an operator has
\* flashed them red and no corridor was ended since; and a skip does not part them.
LightsInStep == [](TypeOK /\ CorridorLocked) /\ RedIsFlashed /\ SkipAllOrNone

\* The two threads implement the command path: in order, none twice, lost only
\* with the connection, and nothing else touches the mode.
Path == INSTANCE CommandPath WITH pending <- queue \o wire, Commands <- Messages
ImplementsCommandPath == Path!Spec

\* An activation on the queue puts the bridge into emergency mode, unless the
\* loop ends first.
ActivationTakesEffect ==
  (\E i \in DOMAIN queue : queue[i].type = "EMERGENCY_ACTIVATED")
    ~> (mode \/ pc = "stopped")
=============================================================================
