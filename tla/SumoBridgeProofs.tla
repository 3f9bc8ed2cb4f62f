--------------------------- MODULE SumoBridgeProofs ---------------------------
(***************************************************************************)
(* The live bridge for any number of lights and any commands, in whatever  *)
(* order they come and whenever SUMO goes away.  All commands and the step *)
(* treat the lights alike, as far as it shows in their program and in      *)
(* whether they may move; so a phase skip meets lights that are either all *)
(* on their cycle, or all on their one phase.                              *)
(***************************************************************************)
EXTENDS SumoBridge, SequenceTheorems, TLAPS

Threads ==
  /\ listener \in {"connecting", "subscribed", "sleeping"}
  /\ wire \in Seq(Messages) /\ queue \in Seq(Messages)
  /\ published \in 0 .. MaxPublished

LightType == [program : {"0", "online"}, phase : 0 .. 3, locked : BOOLEAN]

Alike == \A k, l \in Lights : tl[k].program = tl[l].program /\ tl[k].locked = tl[l].locked

OnePhase == \A l \in Lights : tl[l].program = "online" => tl[l].phase = 0

LightsInv == tl \in [Lights -> LightType] /\ Alike /\ OnePhase

LoopInv ==
  /\ pc \in {"drain", "enforce", "step", "stopped"}
  /\ mode \in BOOLEAN /\ alive \in BOOLEAN
  /\ CorridorLocked

Inv == Threads /\ LightsInv /\ LoopInv

LEMMA InvImpliesTypes == Inv => TypeOK /\ CorridorLocked
  BY DEF Inv, Threads, LightsInv, LightType, Alike, LoopInv, TypeOK

\* A phase skip reaches all lights, or none.
LEMMA AllReached ==
  ASSUME LightsInv
  PROVE  \/ Reached = Lights /\ \A l \in Lights : tl[l].program = "0"
         \/ Reached = {} /\ \A l \in Lights : tl[l].program = "online"
<1>1. 1 \in Lights /\ \A l \in Lights : 1 \in 1 .. l /\ 1 .. l \subseteq Lights
  BY BridgeAssumption DEF Lights
<1>2. CASE tl[1].program = "0"
  <2>1. \A l \in Lights : tl[l].program = "0"
    BY <1>1, <1>2 DEF LightsInv, Alike
  <2> QED BY <1>1, <2>1 DEF Reached
<1>3. CASE tl[1].program = "online"
  <2>1. \A l \in Lights : tl[l].program = "online"
    BY <1>1, <1>3 DEF LightsInv, Alike
  <2>2. \A l \in Lights : \E k \in 1 .. l : tl[k].program # "0"
    BY <1>1, <1>3
  <2> QED BY <2>1, <2>2 DEF Reached
<1> QED BY <1>1, <1>2, <1>3 DEF LightsInv, LightType

\* What the phase skip of a light on its cycle leaves behind.
LEMMA CycleMoves ==
  ASSUME NEW p \in 0 .. 3
  PROVE  /\ Cycle((p + 1) % 4, FALSE) \in LightType
         /\ Cycle((p + 1) % 4, FALSE).program = "0"
         /\ Cycle((p + 1) % 4, FALSE).locked = FALSE
         /\ Cycle((p + 1) % 4, FALSE).phase # p
<1>1. (p + 1) % 4 \in 0 .. 3 /\ (p + 1) % 4 # p
  OBVIOUS
<1> QED BY <1>1 DEF Cycle, LightType

\* The commands and the enforcement treat the lights alike.
LEMMA LockedAlike ==
  ASSUME LightsInv, tl' = Locked
  PROVE  /\ LightsInv'
         /\ \A l \in Lights : /\ tl'[l].phase = 0 /\ tl'[l].locked
                             /\ tl'[l].program = tl[l].program
<1>1. \A l \in Lights : /\ tl'[l] \in LightType
                        /\ tl'[l].program = tl[l].program
                        /\ tl'[l].phase = 0 /\ tl'[l].locked = TRUE
  <2> TAKE l \in Lights
  <2>1. tl[l] \in LightType
    BY DEF LightsInv
  <2>2. tl'[l] = [tl[l] EXCEPT !.phase = 0, !.locked = TRUE]
    BY DEF Locked
  <2>3. tl'[l] = [program |-> tl[l].program, phase |-> 0, locked |-> TRUE]
    BY <2>1, <2>2 DEF LightType
  <2> QED BY <2>1, <2>3 DEF LightType
<1>2. tl' \in [Lights -> LightType]
  BY <1>1 DEF Locked
<1>3. Alike'
  <2>1. \A k, l \in Lights : tl'[k].program = tl'[l].program
    BY <1>1 DEF LightsInv, Alike
  <2>2. \A k, l \in Lights : tl'[k].locked = tl'[l].locked
    BY <1>1, Zenon
  <2> QED BY <2>1, <2>2 DEF Alike
<1>4. OnePhase' /\ \A l \in Lights : tl'[l].phase = 0 /\ tl'[l].locked
  BY <1>1, Zenon DEF OnePhase
<1> QED BY <1>1, <1>2, <1>3, <1>4 DEF LightsInv

LEMMA ClearedAlike ==
  ASSUME tl' = Cleared
  PROVE  LightsInv' /\ \A l \in Lights : tl'[l].program = "0"
BY DEF Cleared, Cycle, LightsInv, LightType, Alike, OnePhase

LEMMA OverriddenAlike ==
  ASSUME LightsInv, NEW a \in Actions, tl' = Overridden(a)
  PROVE  /\ LightsInv' /\ (tl' = tl \/ \A l \in Lights : tl'[l] # tl[l])
         /\ a # "FLASH_ALL_RED" => \A l \in Lights : tl'[l].program = tl[l].program
<1>1. CASE a = "FLASH_ALL_RED"
  <2>1. tl' = [l \in Lights |-> AllRed]
    BY <1>1 DEF Overridden
  <2>2. LightsInv'
    BY <2>1 DEF AllRed, LightsInv, LightType, Alike, OnePhase
  <2>3. tl' = tl \/ \A l \in Lights : tl[l] # AllRed
    <3>1. SUFFICES ASSUME NEW k \in Lights, tl[k] = AllRed PROVE tl' = tl
      OBVIOUS
    <3>2. \A l \in Lights : tl[l] = AllRed
      BY <3>1 DEF LightsInv, LightType, Alike, OnePhase, AllRed
    <3> QED BY <2>1, <3>2 DEF LightsInv
  <2> QED BY <1>1, <2>1, <2>2, <2>3
<1>2. CASE a \in {"PHASE_SKIP", "FORCE_PHASE_SKIP"}
  <2>0. tl' = [l \in Lights |-> IF l \in Reached THEN Cycle((tl[l].phase + 1) % 4, FALSE)
                                                 ELSE tl[l]]
    BY <1>2 DEF Overridden
  <2>1. CASE Reached = Lights /\ \A l \in Lights : tl[l].program = "0"
    <3>1. \A l \in Lights : /\ tl'[l] \in LightType /\ tl'[l].program = "0"
                            /\ tl'[l].locked = FALSE /\ tl'[l].phase # tl[l].phase
      <4> TAKE l \in Lights
      <4>1. tl[l].phase \in 0 .. 3
        BY DEF LightsInv, LightType
      <4>2. tl'[l] = Cycle((tl[l].phase + 1) % 4, FALSE)
        BY <2>0, <2>1
      <4> QED BY <4>1, <4>2, CycleMoves
    <3>2. tl' \in [Lights -> LightType]
      BY <2>0, <3>1
    <3>3. LightsInv'
      BY <3>1, <3>2 DEF LightsInv, Alike, OnePhase
    <3> QED BY <2>1, <3>1, <3>3
  <2>2. CASE Reached = {}
    <3>1. tl' = tl
      BY <2>0, <2>2 DEF LightsInv
    <3> QED BY <3>1 DEF LightsInv, Alike, OnePhase
  <2> QED BY <1>2, <2>1, <2>2, AllReached
<1>3. CASE a \in {"SHORTEN_GREEN", "REDUCE_GREEN"}
  <2>0. tl' = [l \in Lights |-> [tl[l] EXCEPT !.locked = FALSE]]
    BY <1>3 DEF Overridden
  <2>1. \A l \in Lights : /\ tl'[l] \in LightType
                          /\ tl'[l].program = tl[l].program /\ tl'[l].phase = tl[l].phase
                          /\ tl'[l].locked = FALSE
                          /\ tl[l].locked = FALSE => tl'[l] = tl[l]
    <3> TAKE l \in Lights
    <3>1. tl[l] \in LightType
      BY DEF LightsInv
    <3>2. tl'[l] = [tl[l] EXCEPT !.locked = FALSE]
      BY <2>0
    <3>3. tl'[l] = [program |-> tl[l].program, phase |-> tl[l].phase, locked |-> FALSE]
      BY <3>1, <3>2 DEF LightType
    <3>4. tl'[l] \in LightType /\ tl'[l].program = tl[l].program /\ tl'[l].phase = tl[l].phase
      BY <3>1, <3>3 DEF LightType
    <3>5. tl'[l].locked = FALSE
      BY <3>3
    <3>6. tl[l].locked = FALSE => tl'[l] = tl[l]
      <4>1. tl[l] = [program |-> tl[l].program, phase |-> tl[l].phase, locked |-> tl[l].locked]
        BY <3>1 DEF LightType
      <4> QED BY <3>3, <4>1
    <3> QED BY <3>4, <3>5, <3>6
  <2>2. tl' \in [Lights -> LightType]
    BY <2>0, <2>1
  <2>3. LightsInv'
    <3>1. Alike'
      <4>1. \A k, l \in Lights : tl'[k].program = tl'[l].program
        BY <2>1 DEF LightsInv, Alike
      <4>2. \A k, l \in Lights : tl'[k].locked = tl'[l].locked
        BY <2>1, Zenon
      <4> QED BY <4>1, <4>2 DEF Alike
    <3>2. OnePhase'
      BY <2>1, Zenon DEF LightsInv, OnePhase
    <3> QED BY <2>2, <3>1, <3>2 DEF LightsInv
  <2>6. \A l \in Lights : tl'[l].program = tl[l].program
    BY <2>1
  <2>4. CASE \E l \in Lights : tl[l].locked = FALSE
    <3>1. \A l \in Lights : tl'[l] = tl[l]
      BY <2>1, <2>4 DEF LightsInv, Alike
    <3>2. tl' = tl
      BY <2>2, <3>1 DEF LightsInv
    <3> QED BY <2>3, <2>6, <3>2
  <2>5. CASE \A l \in Lights : tl[l].locked # FALSE
    BY <2>1, <2>3, <2>5, <2>6
  <2> QED BY <2>4, <2>5
<1>4. CASE a \notin {"FLASH_ALL_RED", "PHASE_SKIP", "FORCE_PHASE_SKIP", "SHORTEN_GREEN",
                     "REDUCE_GREEN"}
  <2>1. tl' = tl
    BY <1>4 DEF Overridden
  <2> QED BY <2>1 DEF LightsInv, Alike, OnePhase
<1> QED BY <1>1, <1>2, <1>3, <1>4

\* A command of each kind leaves the lights alike.
LEMMA ExecuteAlike ==
  ASSUME Inv, execute_command
  PROVE  /\ LightsInv' /\ Head(queue) \in Messages
         /\ Head(queue).type = "SIGNAL_OVERRIDE" => tl' = tl \/ \A l \in Lights : tl'[l] # tl[l]
<1> DEFINE m == Head(queue)
<1>1. m \in Messages
  BY DEF Inv, Threads, execute_command
<1>2. CASE tl' = tl
  BY <1>1, <1>2 DEF Inv, LightsInv, Alike, OnePhase
<1>3. CASE alive
  <2>0. tl' = LightsAfter(m)
    BY <1>3 DEF execute_command
  <2>1. CASE m.type = "SIGNAL_OVERRIDE"
    <3>1. m.action \in Actions
      BY <1>1, <2>1 DEF Messages, Overrides, Emergency, Other
    <3>2. tl' = Overridden(m.action)
      BY <2>0, <2>1 DEF LightsAfter
    <3> QED BY <1>1, <3>1, <3>2, OverriddenAlike DEF Inv
  <2>2. CASE m.type = "EMERGENCY_ACTIVATED"
    BY <1>1, <2>0, <2>2, LockedAlike DEF LightsAfter, Inv
  <2>3. CASE m.type = "EMERGENCY_DEACTIVATED"
    BY <1>1, <2>0, <2>3, ClearedAlike DEF LightsAfter
  <2>4. CASE m.type \notin {"SIGNAL_OVERRIDE", "EMERGENCY_ACTIVATED", "EMERGENCY_DEACTIVATED"}
    <3>1. tl' = tl
      BY <2>0, <2>4 DEF LightsAfter
    <3> QED BY <1>2, <3>1
  <2> QED BY <2>1, <2>2, <2>3, <2>4
<1>4. CASE ~alive
  BY <1>2, <1>4 DEF execute_command
<1> QED BY <1>3, <1>4

\* A step moves only lights that are free to, and these are all lights or none.
LEMMA StepAlike ==
  ASSUME Inv, simulation_step
  PROVE  LightsInv' /\ \A l \in Lights : tl'[l].program = tl[l].program
<1> DEFINE Free == {l \in Lights : tl[l].program = "0" /\ ~tl[l].locked}
<1>1. CASE ~alive
  <2>1. tl' = tl
    BY <1>1 DEF simulation_step
  <2> QED BY <2>1 DEF Inv, LightsInv, Alike, OnePhase
<1>2. CASE alive
  <2>1. PICK S \in SUBSET Free :
          tl' = [l \in Lights |-> IF l \in S THEN Cycle((tl[l].phase + 1) % 4, FALSE) ELSE tl[l]]
    BY <1>2 DEF simulation_step
  <2>2. \A l \in Lights : /\ tl'[l] \in LightType
                          /\ tl'[l].program = tl[l].program /\ tl'[l].locked = tl[l].locked
                          /\ tl[l].program = "online" => tl'[l] = tl[l]
    <3> TAKE l \in Lights
    <3>1. tl[l] \in LightType /\ tl[l].phase \in 0 .. 3 /\ tl[l].locked \in BOOLEAN
      BY DEF Inv, LightsInv, LightType
    <3>2. CASE l \in S
      <4>1. tl'[l] = Cycle((tl[l].phase + 1) % 4, FALSE) /\ tl[l].program = "0" /\ ~tl[l].locked
          BY <2>1, <3>2
      <4>2. tl'[l] \in LightType /\ tl'[l].program = "0" /\ tl'[l].locked = FALSE
        BY <3>1, <4>1, CycleMoves
      <4>3. tl[l].locked = FALSE
        BY <3>1, <4>1
      <4> QED BY <4>1, <4>2, <4>3
    <3>3. CASE l \notin S
      BY <2>1, <3>1, <3>3
    <3> QED BY <3>2, <3>3
  <2>3. tl' \in [Lights -> LightType]
    BY <2>1, <2>2
  <2> QED BY <2>2, <2>3 DEF Inv, LightsInv, Alike, OnePhase
<1> QED BY <1>1, <1>2

LEMMA InvInit == Init => Inv
<1> SUFFICES ASSUME Init PROVE Inv
  OBVIOUS
<1>1. Threads
  BY BridgeAssumption DEF Init, Threads
<1>2. LightsInv
  BY DEF Init, Cycle, LightsInv, LightType, Alike, OnePhase
<1>3. LoopInv
  BY DEF Init, LoopInv, CorridorLocked
<1> QED BY <1>1, <1>2, <1>3 DEF Inv

LEMMA InvStep == Inv /\ [Next]_vars => Inv'
<1> SUFFICES ASSUME Inv, [Next]_vars PROVE Inv'
  OBVIOUS
<1>0. Threads /\ LightsInv /\ LoopInv
  BY DEF Inv
<1>1. ASSUME Threads', UNCHANGED <<pc, mode, alive, tl>> PROVE Inv'
  <2>1. LightsInv'
    BY <1>0, <1>1 DEF LightsInv, Alike, OnePhase
  <2>2. LoopInv'
    BY <1>0, <1>1 DEF LoopInv, CorridorLocked, ShowsGreen, ShowsRed
  <2> QED BY <1>1, <2>1, <2>2 DEF Inv
<1>2. CASE listener_connects \/ listener_fails \/ listener_wakes
  <2>1. listener' \in {"connecting", "subscribed", "sleeping"}
    BY <1>2 DEF listener_connects, listener_fails, listener_wakes
  <2>2. wire' \in {wire, <<>>} /\ UNCHANGED <<queue, pc, mode, alive, tl, published>>
    BY <1>2 DEF listener_connects, listener_fails, listener_wakes
  <2>3. wire' \in Seq(Messages)
    <3>1. CASE wire' = wire
      BY <1>0, <3>1 DEF Threads
    <3>2. CASE wire' = <<>>
      BY <3>2
    <3> QED BY <2>2, <3>1, <3>2
  <2>4. Threads'
    BY <1>0, <2>1, <2>2, <2>3 DEF Threads
  <2> QED BY <1>1, <2>2, <2>4
<1>3. CASE listener_reads
  <2>1. Head(wire) \in Messages /\ Tail(wire) \in Seq(Messages)
    BY <1>0, <1>3 DEF listener_reads, Threads
  <2>2. queue' = Append(queue, Head(wire)) /\ wire' = Tail(wire)
    BY <1>3 DEF listener_reads, Enqueued
  <2>3. queue' \in Seq(Messages)
    BY <1>0, <2>1, <2>2 DEF Threads
  <2>4. Threads'
    BY <1>0, <1>3, <2>1, <2>2, <2>3 DEF listener_reads, Threads
  <2> QED BY <1>1, <1>3, <2>4 DEF listener_reads
<1>4. ASSUME NEW m \in Messages, publish(m) PROVE Inv'
  <2>1. Threads'
    BY <1>0, <1>4, BridgeAssumption DEF publish, Threads
  <2> QED BY <1>1, <1>4, <2>1 DEF publish
<1>5. CASE execute_command
  <2>1. Threads'
    BY <1>0, <1>5 DEF execute_command, Threads
  <2>2. LightsInv' /\ Head(queue) \in Messages
    BY <1>5, ExecuteAlike
  <2>3. mode' \in BOOLEAN
    BY <1>0, <1>5 DEF execute_command, ModeAfter, LoopInv
  <2>4. LoopInv'
    BY <1>0, <1>5, <2>3 DEF execute_command, LoopInv, CorridorLocked
  <2> QED BY <2>1, <2>2, <2>4 DEF Inv
<1>6. CASE queue_drained
  <2>1. Threads'
    BY <1>0, <1>6 DEF queue_drained, Threads, threads
  <2>2. LightsInv'
    BY <1>0, <1>6 DEF queue_drained, LightsInv, Alike, OnePhase
  <2>3. LoopInv'
    BY <1>0, <1>6 DEF queue_drained, LoopInv, CorridorLocked
  <2> QED BY <2>1, <2>2, <2>3 DEF Inv
<1>7. CASE enforce
  <2>1. Threads'
    BY <1>0, <1>7 DEF enforce, Threads, threads
  <2>2. CASE mode /\ alive
    <3>1. LightsInv' /\ \A l \in Lights : tl'[l].phase = 0 /\ tl'[l].locked
      BY <1>0, <1>7, <2>2, LockedAlike DEF enforce
    <3>2. (\A l \in Lights : ShowsGreen(l)') \/ (\A l \in Lights : ShowsRed(l)')
      BY <3>1 DEF LightsInv, LightType, Alike, ShowsGreen, ShowsRed
    <3>3. LoopInv'
      BY <1>0, <1>7, <2>2, <3>1, <3>2 DEF enforce, LoopInv, CorridorLocked
    <3> QED BY <2>1, <3>1, <3>3 DEF Inv
  <2>3. CASE ~mode \/ ~alive
    <3>1. tl' = tl /\ mode' = mode /\ alive' = alive /\ pc' \in {"step", "stopped"}
      BY <1>7, <2>3 DEF enforce
    <3>2. LoopInv'
      BY <1>0, <2>3, <3>1 DEF LoopInv, CorridorLocked
    <3>3. LightsInv'
      BY <1>0, <3>1 DEF LightsInv, Alike, OnePhase
    <3> QED BY <2>1, <3>2, <3>3 DEF Inv
  <2> QED BY <2>2, <2>3
<1>8. CASE simulation_step
  <2>1. [type |-> "OTHER"] \in Messages
    BY DEF Messages, Other
  <2>2. /\ UNCHANGED <<listener, queue, mode, alive, published>>
        /\ pc' \in {"drain", "stopped"}
        /\ wire' \in {wire, Append(wire, [type |-> "OTHER"])}
    BY <1>8 DEF simulation_step
  <2>3. Threads'
    <3>1. wire' \in Seq(Messages)
      BY <1>0, <2>1, <2>2 DEF Threads
    <3> QED BY <1>0, <2>2, <3>1 DEF Threads
  <2>4. LoopInv'
    BY <1>0, <2>2 DEF LoopInv, CorridorLocked
  <2> QED BY <1>8, <2>3, <2>4, StepAlike DEF Inv
<1>9. CASE sumo_closes
  <2>1. Threads'
    BY <1>0, <1>9 DEF sumo_closes, Threads, threads
  <2>2. LightsInv'
    BY <1>0, <1>9 DEF sumo_closes, LightsInv, Alike, OnePhase
  <2>3. LoopInv'
    BY <1>0, <1>9 DEF sumo_closes, LoopInv, CorridorLocked
  <2> QED BY <2>1, <2>2, <2>3 DEF Inv
<1>10. CASE UNCHANGED vars
  <2>1. Threads' /\ UNCHANGED <<pc, mode, alive, tl>>
    BY <1>0, <1>10 DEF vars, threads, Threads
  <2> QED BY <1>1, <2>1
<1> QED BY <1>2, <1>3, <1>4, <1>5, <1>6, <1>7, <1>8, <1>9, <1>10 DEF Next, MainLoop

\* Only a flash takes a light off its cycle, and only a deactivation puts it back.
LEMMA ProgramStep ==
  ASSUME Inv, [Next]_vars, NEW l \in Lights, tl'[l].program # tl[l].program,
         NEW m, m = Head(queue)
  PROVE  /\ execute_command
         /\ ShowsRed(l)' => m \in Overrides /\ m.action = "FLASH_ALL_RED"
         /\ ~ShowsRed(l)' => m.type = "EMERGENCY_DEACTIVATED"
<1>1. execute_command
  <2>1. ~simulation_step
    BY StepAlike
  <2>2. ~enforce
    <3>1. ASSUME enforce PROVE tl' \in {tl, Locked}
      BY <3>1 DEF enforce
    <3> QED BY <3>1, LockedAlike DEF Inv
  <2> QED BY <2>1, <2>2
    DEF Next, MainLoop, vars, listener_connects, listener_fails, listener_wakes,
        listener_reads, publish, queue_drained, sumo_closes
<1>2. m \in Messages /\ tl' = LightsAfter(m)
  BY <1>1, ExecuteAlike DEF execute_command
<1>3. CASE m.type = "SIGNAL_OVERRIDE"
  <2>1. m \in Overrides /\ m.action \in Actions
    BY <1>2, <1>3 DEF Messages, Overrides, Emergency, Other
  <2>2. tl' = Overridden(m.action)
    BY <1>2, <1>3 DEF LightsAfter
  <2>3. m.action = "FLASH_ALL_RED"
    BY <2>1, <2>2, OverriddenAlike DEF Inv
  <2>4. tl' = [k \in Lights |-> AllRed]
    BY <2>2, <2>3 DEF Overridden
  <2>5. ShowsRed(l)'
    BY <2>4 DEF AllRed, ShowsRed
  <2> QED BY <1>1, <2>1, <2>3, <2>5
<1>4. CASE m.type = "EMERGENCY_DEACTIVATED"
  <2>1. tl'[l].program = "0"
    BY <1>2, <1>4, ClearedAlike DEF LightsAfter
  <2> QED BY <1>1, <1>4, <2>1 DEF ShowsRed
<1>5. CASE m.type = "EMERGENCY_ACTIVATED"
  BY <1>2, <1>5, LockedAlike DEF LightsAfter, Inv
<1>6. CASE m.type \notin {"SIGNAL_OVERRIDE", "EMERGENCY_ACTIVATED", "EMERGENCY_DEACTIVATED"}
  BY <1>2, <1>6 DEF LightsAfter
<1> QED BY <1>3, <1>4, <1>5, <1>6

\* However many lights and commands there are and whenever SUMO goes away: whenever it
\* steps in emergency mode, every light is locked, all in the corridor's green or all in
\* the red of a flash; only a flash puts them there and only the end of a corridor brings
\* them back; and a phase skip moves all lights or none.
THEOREM LightsCorrect == Spec => LightsInStep
<1> DEFINE Skip == execute_command /\ Head(queue).type = "SIGNAL_OVERRIDE"
                     => \/ tl' = tl
                        \/ \A l \in Lights : tl'[l] # tl[l]
<1>1. Inv /\ [Next]_vars => [Skip]_vars
  BY ExecuteAlike
<1> DEFINE Flash == \A l \in Lights : tl'[l].program # tl[l].program =>
                      /\ execute_command
                      /\ LET m == Head(queue)
                         IN  IF ShowsRed(l)' THEN m \in Overrides /\ m.action = "FLASH_ALL_RED"
                                             ELSE m.type = "EMERGENCY_DEACTIVATED"
<1>2. Inv /\ [Next]_vars => [Flash]_vars
  <2> SUFFICES ASSUME Inv, [Next]_vars, NEW l \in Lights, tl'[l].program # tl[l].program
               PROVE  /\ execute_command
                      /\ IF ShowsRed(l)' THEN /\ Head(queue) \in Overrides
                                              /\ Head(queue).action = "FLASH_ALL_RED"
                                         ELSE Head(queue).type = "EMERGENCY_DEACTIVATED"
    OBVIOUS
  <2> QED BY ProgramStep
<1>3. Spec => []Inv
  BY InvInit, InvStep, PTL DEF Spec
<1>4. Spec => SkipAllOrNone
  BY <1>1, <1>3, PTL DEF Spec, SkipAllOrNone
<1>5. Spec => RedIsFlashed
  BY <1>2, <1>3, PTL DEF Spec, RedIsFlashed
<1> QED BY <1>3, <1>4, <1>5, InvImpliesTypes, PTL DEF LightsInStep

-----------------------------------------------------------------------------
(* The command path: queue and wire, one after the other. *)

\* A command accepted by Redis is the last one pending.
LEMMA AcceptedIsLast ==
  ASSUME NEW S, NEW q \in Seq(S), NEW w \in Seq(S), NEW m \in S
  PROVE  q \o Append(w, m) = Append(q \o w, m)
<1>1. <<m>> \in Seq(S)
  OBVIOUS
<1>2. q \o w \in Seq(S)
  BY ConcatProperties
<1> QED BY <1>1, <1>2, AppendIsConcat, ConcatAssociative

\* Handing a command from one queue to the other changes nothing.
LEMMA ReadChangesNothing ==
  ASSUME NEW S, NEW q \in Seq(S), NEW w \in Seq(S), w # <<>>
  PROVE  Append(q, Head(w)) \o Tail(w) = q \o w
<1>1. Head(w) \in S /\ Tail(w) \in Seq(S) /\ <<Head(w)>> \in Seq(S)
  OBVIOUS
<1>2. <<Head(w)>> \o Tail(w) = w
  <2>1. 1 \in 1 .. Len(w) /\ Len(w) \in 1 .. Len(w) /\ Head(w) = w[1]
    OBVIOUS
  <2>2. SubSeq(w, 1, Len(w)) = <<w[1]>> \o SubSeq(w, 2, Len(w))
    BY <2>1, SubSeqRecursiveFirst
  <2> QED BY <2>1, <2>2, SubSeqFull, TailIsSubSeq
<1>3. Append(q, Head(w)) = q \o <<Head(w)>>
  BY <1>1, AppendIsConcat
<1>4. (q \o <<Head(w)>>) \o Tail(w) = q \o (<<Head(w)>> \o Tail(w))
  BY <1>1, ConcatAssociative
<1> QED BY <1>2, <1>3, <1>4

\* When the connection breaks, what the bridge has read is left.
LEMMA LossLeavesRead ==
  ASSUME NEW S, NEW q \in Seq(S), NEW w \in Seq(S)
  PROVE  /\ q \o <<>> = SubSeq(q \o w, 1, Len(q))
         /\ Len(q) \in 0 .. Len(q \o w)
<1>1. q \o <<>> = q
  BY ConcatEmptySeq
<1>2. Len(q \o w) = Len(q) + Len(w) /\ Len(q) \in Nat /\ Len(w) \in Nat
  BY ConcatProperties
<1>3. CASE q = <<>>
  <2>1. Len(q) = 0
    BY <1>3
  <2> QED BY <1>1, <1>2, <1>3, <2>1, SubSeqEmpty
<1>4. CASE q # <<>>
  <2>1. 1 \in 1 .. Len(q) /\ Len(q) \in 1 .. Len(q)
    BY <1>4, EmptySeq
  <2> QED BY <1>1, <1>2, <2>1, SubSeqOfConcat1, SubSeqFull
<1> QED BY <1>3, <1>4

\* What the bridge executes is the first command of all.
LEMMA ExecutedIsFirst ==
  ASSUME NEW S, NEW q \in Seq(S), NEW w \in Seq(S), q # <<>>
  PROVE  /\ q \o w # <<>> /\ Head(q \o w) = Head(q)
         /\ Tail(q) \o w = Tail(q \o w)
<1> DEFINE j == q \o w
           a == Tail(q) \o w
           b == Tail(j)
<1>1. /\ Tail(q) \in Seq(S) /\ Len(Tail(q)) = Len(q) - 1 /\ Len(q) \in Nat \ {0}
      /\ Len(w) \in Nat /\ Head(q) = q[1]
      /\ \A i \in 1 .. Len(q) - 1 : Tail(q)[i] = q[i + 1]
  BY HeadTailProperties, EmptySeq
<1>2. /\ j \in Seq(S) /\ Len(j) = Len(q) + Len(w)
      /\ \A i \in 1 .. Len(j) : j[i] = IF i <= Len(q) THEN q[i] ELSE w[i - Len(q)]
  BY ConcatProperties
<1>3. /\ a \in Seq(S) /\ Len(a) = Len(q) - 1 + Len(w)
      /\ \A i \in 1 .. Len(a) : a[i] = IF i <= Len(q) - 1 THEN Tail(q)[i] ELSE w[i - (Len(q) - 1)]
  BY <1>1, ConcatProperties
<1> HIDE DEF j, a
<1>4. j # <<>> /\ Head(j) = q[1]
  BY <1>1, <1>2
<1>5. /\ b \in Seq(S) /\ Len(b) = Len(j) - 1
      /\ \A i \in 1 .. Len(b) : b[i] = j[i + 1]
  BY <1>2, <1>4, HeadTailProperties
<1> HIDE DEF b
<1>6. Len(a) = Len(b)
  BY <1>1, <1>2, <1>3, <1>5
<1>7. ASSUME NEW i \in 1 .. Len(a)
      PROVE  a[i] = b[i]
  <2>1. i + 1 \in 1 .. Len(j) /\ b[i] = j[i + 1]
    BY <1>1, <1>2, <1>3, <1>5
  <2>2. CASE i <= Len(q) - 1
    <3>1. i \in 1 .. Len(q) - 1 /\ i + 1 <= Len(q)
      BY <1>1, <2>2
    <3>2. a[i] = Tail(q)[i] /\ j[i + 1] = q[i + 1]
      BY <1>2, <1>3, <2>1, <3>1
    <3> QED BY <1>1, <2>1, <3>1, <3>2
  <2>3. CASE ~(i <= Len(q) - 1)
    <3>1. ~(i + 1 <= Len(q)) /\ i - (Len(q) - 1) = i + 1 - Len(q)
      BY <1>1, <2>3
    <3>2. j[i + 1] = w[i + 1 - Len(q)]
      BY <1>2, <2>1, <3>1
    <3>3. a[i] = w[i - (Len(q) - 1)]
      BY <1>3, <2>3
    <3> QED BY <2>1, <3>1, <3>2, <3>3
  <2> QED BY <2>2, <2>3
<1>8. a = b
  BY <1>3, <1>5, <1>6, <1>7, SeqEqual
<1> QED BY <1>1, <1>4, <1>8 DEF j, a, b

\* Both threads implement the command path: whatever they and SUMO do, commands take
\* effect in the order Redis accepted them, none twice, only a broken connection loses
\* some, and overrides leave the mode alone.
THEOREM CommandPathImplemented == Spec => ImplementsCommandPath
<1>1. ASSUME Init PROVE Path!Init
  <2>1. queue = <<>> /\ wire = <<>> /\ mode = FALSE
    BY <1>1 DEF Init
  <2>2. <<>> \in Seq(Messages) /\ <<>> \o <<>> = <<>>
    BY EmptySeq, ConcatEmptySeq
  <2> QED BY <2>1, <2>2 DEF Path!Init
<1>2. ASSUME Inv, [Next]_vars PROVE [Path!Next]_Path!vars
  <2>1. queue \in Seq(Messages) /\ wire \in Seq(Messages)
    BY <1>2 DEF Inv, Threads
  <2>2. ASSUME NEW m \in Messages, wire' = Append(wire, m), UNCHANGED <<queue, mode>>
        PROVE  [Path!Next]_Path!vars
    <3>1. Path!Accept(m)
      BY <2>1, <2>2, AcceptedIsLast DEF Path!Accept
    <3> QED BY <3>1 DEF Path!Next
  <2>3. ASSUME UNCHANGED <<wire, queue, mode>>
        PROVE  [Path!Next]_Path!vars
    BY <2>3 DEF Path!vars
  <2>4. CASE listener_fails
    <3>1. /\ queue' \o wire' = SubSeq(queue \o wire, 1, Len(queue))
          /\ Len(queue) \in 0 .. Len(queue \o wire)
      BY <2>1, <2>4, LossLeavesRead DEF listener_fails
    <3>2. Path!Lose(Len(queue))
      BY <2>4, <3>1 DEF listener_fails, Path!Lose
    <3> QED BY <3>1, <3>2 DEF Path!Next
  <2>5. CASE listener_reads
    BY <2>1, <2>5, ReadChangesNothing DEF listener_reads, Enqueued, Path!vars
  <2>6. ASSUME NEW m \in Messages, publish(m)
        PROVE  [Path!Next]_Path!vars
    BY <2>2, <2>3, <2>6 DEF publish
  <2>7. CASE execute_command
    <3>1. /\ queue \o wire # <<>> /\ Head(queue \o wire) = Head(queue)
          /\ queue' \o wire' = Tail(queue \o wire)
      BY <2>1, <2>7, ExecutedIsFirst DEF execute_command
    <3>2. mode' = CASE Head(queue).type = "EMERGENCY_ACTIVATED" -> TRUE
                    [] Head(queue).type = "EMERGENCY_DEACTIVATED" -> FALSE
                    [] OTHER -> mode
      BY <2>7 DEF execute_command, ModeAfter
    <3>3. Path!Execute
      BY <3>1, <3>2 DEF Path!Execute
    <3> QED BY <3>3 DEF Path!Next
  <2>8. CASE simulation_step
    <3>1. [type |-> "OTHER"] \in Messages
      BY DEF Messages, Other
    <3>2. /\ UNCHANGED <<queue, mode>>
          /\ wire' = wire \/ wire' = Append(wire, [type |-> "OTHER"])
      BY <2>8 DEF simulation_step
    <3> QED BY <2>2, <2>3, <3>1, <3>2
  <2>9. CASE \/ listener_connects \/ listener_wakes \/ queue_drained \/ enforce \/ sumo_closes
            \/ UNCHANGED vars
    <3>1. UNCHANGED <<wire, queue, mode>>
      BY <2>9 DEF listener_connects, listener_wakes, queue_drained, enforce, sumo_closes,
         vars, threads
    <3> QED BY <2>3, <3>1
  <2> QED BY <1>2, <2>4, <2>5, <2>6, <2>7, <2>8, <2>9 DEF Next, MainLoop
<1> QED BY <1>1, <1>2, InvInit, InvStep, PTL DEF Spec, ImplementsCommandPath, Path!Spec
=============================================================================
