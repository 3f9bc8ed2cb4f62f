----------------------------- MODULE SignalProofs -----------------------------
(***************************************************************************)
(* Proofs about the signals: GreenWave, for every set of events, every     *)
(* route set and every lookahead, and the interlock of SignalCabinet, for  *)
(* any set of actions and any width of the transaction id.                 *)
(***************************************************************************)
EXTENDS GreenWave, SignalCabinet, WellFoundedInduction, TLAPS

\* The phase of an approach is always one of the two forced phases.
LEMMA ApproachPhaseType ==
  ASSUME NEW f, NEW t
  PROVE  ApproachPhase(f, t) \in {Phase0, Phase2}
BY DEF ApproachPhase

\* A window is a contiguous part of its route: each of its junctions lies on
\* the route, at or after the window's start.
LEMMA WindowLiesAhead ==
  ASSUME NEW r \in Routes, NEW at \in DOMAIN r, NEW j \in OnRoute(Window(r, at))
  PROVE  \E i \in DOMAIN r : i >= at /\ r[i] = j
<1> r \in Seq(Junctions) /\ at \in Int /\ at >= 1 /\ at <= Len(r)
  BY GreenWaveAssumption
<1> DEFINE end == IF at + Lookahead - 1 < Len(r) THEN at + Lookahead - 1 ELSE Len(r)
<1>1. end \in Int /\ end <= Len(r)
  BY GreenWaveAssumption
<1> HIDE DEF end
<1>2. Window(r, at) = SubSeq(r, at, end)
  BY DEF Window, end
<1>3. PICK k \in DOMAIN SubSeq(r, at, end) : j = SubSeq(r, at, end)[k]
  BY <1>2 DEF OnRoute
<1>4. k \in Int /\ 1 <= k /\ k <= end - at + 1 /\ j = r[at + k - 1]
  BY <1>1, <1>3
<1>5. at + k - 1 \in DOMAIN r /\ at + k - 1 >= at
  BY <1>1, <1>4
<1> QED BY <1>4, <1>5

\* list.index() finds a position that holds the junction.
LEMMA FirstIndexFound ==
  ASSUME NEW r \in Routes, NEW j \in OnRoute(r)
  PROVE  FirstIndex(r, j) \in DOMAIN r /\ r[FirstIndex(r, j)] = j
<1> DEFINE R == OpToRel(<, Nat)
           T == {i \in DOMAIN r : r[i] = j}
<1>1. IsWellFoundedOn(R, Nat)
  BY NatLessThanWellFounded
<1>2. \A x, y \in Nat : x < y => <<x, y>> \in R
  BY DEF OpToRel
<1>3. T \subseteq Nat /\ T # {}
  BY GreenWaveAssumption DEF OnRoute
<1> HIDE DEF R, T
<1>4. PICK i \in T : \A k \in T : <<k, i>> \notin R
  BY <1>1, <1>3, WFMin
<1>5. ASSUME NEW k \in T PROVE i <= k
  <2>1. i \in Nat /\ k \in Nat /\ ~(k < i)
    BY <1>2, <1>3, <1>4
  <2> QED BY <2>1
<1>6. i \in DOMAIN r /\ r[i] = j /\ \A k \in DOMAIN r : r[k] = j => i <= k
  BY <1>4, <1>5 DEF T
<1> QED BY <1>6 DEF FirstIndex
-----------------------------------------------------------------------------
(* Types *)

\* A forced phase or a restored plan leaves every lamp in its type.
LEMMA LampType ==
  ASSUME NEW l \in [Junctions -> {Plan, Phase0, Phase2}], NEW P, NEW f,
         \A j \in DOMAIN f : f[j] \in {Phase0, Phase2}
  PROVE  /\ RestorePlan(l, P) \in [Junctions -> {Plan, Phase0, Phase2}]
         /\ SetGreenWave(l, f) \in [Junctions -> {Plan, Phase0, Phase2}]
BY DEF RestorePlan, SetGreenWave

\* TypeOK is an invariant of GreenWave: whatever activate, update_position and
\* deactivate calls arrive, indices stay on their routes and every announced
\* window is the one at the event's index.
THEOREM TypeCorrect == Spec => []TypeOK
<1>1. Init => TypeOK
  BY DEF Init, TypeOK, Active, WellFormed
<1>2. ASSUME TypeOK, [Next]_vars
      PROVE  TypeOK'
  <2>1. ASSUME NEW e \in EventIds, NEW r \in Routes, activate(e, r)
        PROVE  TypeOK'
    <3>1. r \in Seq(Junctions) /\ r # <<>> /\ 1 \in DOMAIN r
      BY GreenWaveAssumption
    <3>2. OnRoute(r) \subseteq Junctions
      BY <3>1 DEF OnRoute
    <3>3. WellFormed(NewEvent(r))
      BY <3>1 DEF WellFormed, NewEvent
    <3>4. lamp' \in [Junctions -> {Plan, Phase0, Phase2}]
      <4>1. \A j \in DOMAIN ActivatePhases(r) :
              ActivatePhases(r)[j] \in {Phase0, Phase2}
        BY ApproachPhaseType DEF ActivatePhases, ActivatePhase
      <4> QED BY <2>1, <4>1, LampType, <1>2 DEF activate, TypeOK
    <3>5. /\ Active' = Active \cup {e}
          /\ active_events' = [x \in Active' |-> active_events'[x]]
          /\ \A x \in Active' : WellFormed(active_events'[x])
      BY <1>2, <2>1, <3>3 DEF activate, TypeOK, Active
    <3> QED BY <1>2, <2>1, <3>2, <3>4, <3>5 DEF activate, TypeOK, WellFormed
  <2>2. ASSUME NEW e \in EventIds, NEW j \in Junctions, update_position(e, j)
        PROVE  TypeOK'
    <3> DEFINE ev == active_events[e]
               at == FirstIndex(ev.route, j)
               ph == [k \in OnRoute(Window(ev.route, at)) |-> ApproachPhase(DummyFrom, k)]
    <3>1. e \in Active /\ WellFormed(ev) /\ j \in OnRoute(ev.route)
      BY <1>2, <2>2 DEF update_position, TypeOK
    <3>2. at \in DOMAIN ev.route
      BY <3>1, FirstIndexFound DEF WellFormed
    <3>3. WellFormed(Moved(ev, at))
      BY <3>1, <3>2 DEF WellFormed, Moved
    <3>4. lamp' \in [Junctions -> {Plan, Phase0, Phase2}]
      <4>1. \A k \in DOMAIN ph : ph[k] \in {Phase0, Phase2}
        BY ApproachPhaseType
      <4>2. RestorePlan(lamp, Passed(ev, at)) \in [Junctions -> {Plan, Phase0, Phase2}]
        BY <1>2, <4>1, LampType DEF TypeOK
      <4> QED BY <2>2, <4>1, <4>2, LampType DEF update_position
    <3>5. /\ Active' = Active
          /\ active_events' = [x \in Active |->
                                 IF x = e THEN Moved(ev, at) ELSE active_events[x]]
      BY <1>2, <2>2 DEF update_position, TypeOK, Active
    <3>6. \A x \in Active' : WellFormed(active_events'[x])
      BY <1>2, <3>3, <3>5 DEF TypeOK
    <3> QED BY <1>2, <2>2, <3>4, <3>5, <3>6 DEF update_position, TypeOK, WellFormed
  <2>3. ASSUME NEW e \in EventIds, deactivate(e)
        PROVE  TypeOK'
    <3>1. lamp' \in [Junctions -> {Plan, Phase0, Phase2}]
      BY <1>2, <2>3 DEF deactivate, RestorePlan, TypeOK
    <3>2. /\ Active' = Active \ {e}
          /\ active_events' = [x \in Active' |-> active_events[x]]
      BY <2>3 DEF deactivate, Active
    <3>3. /\ active_events' = [x \in Active' |-> active_events'[x]]
          /\ \A x \in Active' : WellFormed(active_events'[x])
      BY <1>2, <3>2 DEF TypeOK
    <3> QED BY <1>2, <2>3, <3>1, <3>2, <3>3 DEF deactivate, TypeOK, WellFormed
  <2>4. CASE UNCHANGED vars
    BY <1>2, <2>4 DEF vars, TypeOK, Active, WellFormed
  <2> QED BY <1>2, <2>1, <2>2, <2>3, <2>4 DEF Next
<1> QED BY <1>1, <1>2, PTL DEF Spec
-----------------------------------------------------------------------------
(* Stored plans *)

\* PlansMatchActiveRoutes is an invariant: overlapping events may start, move
\* and end in any order and original_plans holds exactly the plans still needed.
THEOREM PlansCorrect == Spec => []PlansMatchActiveRoutes
<1>1. Init => PlansMatchActiveRoutes
  BY DEF Init, PlansMatchActiveRoutes, Active
<1>2. ASSUME TypeOK, PlansMatchActiveRoutes, [Next]_vars
      PROVE  PlansMatchActiveRoutes'
  <2>1. ASSUME NEW e \in EventIds, NEW r \in Routes, activate(e, r)
        PROVE  PlansMatchActiveRoutes'
    <3>1. /\ Active' = Active \cup {e} /\ e \notin Active
          /\ active_events'[e].route = r
          /\ \A x \in Active : active_events'[x] = active_events[x]
      BY <2>1 DEF activate, Active, NewEvent
    <3>2. original_plans' = original_plans \cup OnRoute(r)
      BY <2>1 DEF activate
    <3> QED BY <1>2, <3>1, <3>2 DEF PlansMatchActiveRoutes
  <2>2. ASSUME NEW e \in EventIds, NEW j \in Junctions, update_position(e, j)
        PROVE  PlansMatchActiveRoutes'
    <3>1. /\ Active' = Active
          /\ \A x \in Active : active_events'[x].route = active_events[x].route
          /\ original_plans' = original_plans
      BY <1>2, <2>2 DEF update_position, TypeOK, Active, Moved
    <3> QED BY <1>2, <3>1 DEF PlansMatchActiveRoutes
  <2>3. ASSUME NEW e \in EventIds, deactivate(e)
        PROVE  PlansMatchActiveRoutes'
    <3>1. /\ Active' = Active \ {e} /\ e \in Active
          /\ \A x \in Active' : active_events'[x] = active_events[x]
      BY <2>3 DEF deactivate, Active
    <3>2. original_plans' = original_plans \ NotInUse(e)
      BY <2>3 DEF deactivate
    <3>3. \A j : j \in NotInUse(e) <=>
            /\ j \in OnRoute(active_events[e].route)
            /\ \A x \in Active' : j \notin OnRoute(active_events[x].route)
      BY <3>1 DEF NotInUse
    <3> QED BY <1>2, <3>1, <3>2, <3>3 DEF PlansMatchActiveRoutes
  <2>4. CASE UNCHANGED vars
    BY <1>2, <2>4 DEF vars, PlansMatchActiveRoutes, Active
  <2> QED BY <1>2, <2>1, <2>2, <2>3, <2>4 DEF Next
<1> QED BY <1>1, <1>2, TypeCorrect, PTL DEF Spec
-----------------------------------------------------------------------------
(* Held junctions *)

\* Without an environment no lamp ever leaves its plan.
NoEnvNoForce == ~EnvAttached => \A j \in Junctions : lamp[j] = Plan

\* NoGreenBehind is an invariant: a junction out of its plan is at or ahead of
\* the vehicle of some live event, so the end of the last event frees them all.
THEOREM HeldCorrect == Spec => []NoGreenBehind
<1>1. Init => NoGreenBehind /\ NoEnvNoForce
  BY DEF Init, NoGreenBehind, NoEnvNoForce
<1>2. ASSUME NoEnvNoForce, [Next]_vars
      PROVE  NoEnvNoForce'
  BY <1>2 DEF NoEnvNoForce, Next, vars, activate, update_position, deactivate,
              SetGreenWave, RestorePlan
<1>3. ASSUME TypeOK, NoGreenBehind, NoEnvNoForce, [Next]_vars
      PROVE  NoGreenBehind'
  <2>1. ASSUME NEW e \in EventIds, NEW r \in Routes, activate(e, r),
               NEW j \in Junctions, lamp'[j] # Plan
        PROVE  \E x \in Active' : Needs(active_events'[x], j)
    <3>1. /\ Active' = Active \cup {e} /\ e \notin Active
          /\ active_events'[e] = NewEvent(r)
          /\ \A x \in Active : active_events'[x] = active_events[x]
      BY <2>1 DEF activate, Active
    <3>2. CASE j \in DOMAIN ActivatePhases(r)
      <4>1. PICK i \in ActivatePositions(r) : r[i] = j
        BY <3>2 DEF ActivatePhases
      <4>2. r \in Seq(Junctions) /\ r # <<>>
        BY GreenWaveAssumption
      <4>3. i \in DOMAIN r /\ i >= 1
        BY <4>1, <4>2, GreenWaveAssumption DEF ActivatePositions, Window
      <4> QED BY <3>1, <4>1, <4>3 DEF Needs, NewEvent
    <3>3. CASE j \notin DOMAIN ActivatePhases(r)
      <4>1. lamp[j] # Plan
        BY <2>1, <3>3 DEF activate, SetGreenWave
      <4> QED BY <1>3, <3>1, <4>1 DEF NoGreenBehind
    <3> QED BY <3>2, <3>3
  <2>2. ASSUME NEW e \in EventIds, NEW k \in Junctions, update_position(e, k),
               NEW j \in Junctions, lamp'[j] # Plan
        PROVE  \E x \in Active' : Needs(active_events'[x], j)
    <3> DEFINE ev == active_events[e]
               at == FirstIndex(ev.route, k)
               ahead == OnRoute(Window(ev.route, at))
    <3>1. /\ Active' = Active /\ e \in Active
          /\ active_events'[e] = Moved(ev, at)
          /\ \A x \in Active \ {e} : active_events'[x] = active_events[x]
      BY <1>3, <2>2 DEF update_position, TypeOK, Active
    <3>2. ev.route \in Routes /\ at \in DOMAIN ev.route
      BY <1>3, <2>2, FirstIndexFound DEF update_position, TypeOK, WellFormed
    <3>3. CASE j \in ahead
      <4>1. \E i \in DOMAIN ev.route : i >= at /\ ev.route[i] = j
        BY <3>2, <3>3, WindowLiesAhead
      <4> QED BY <3>1, <4>1 DEF Needs, Moved
    <3>4. CASE j \notin ahead
      <4>1. lamp' = SetGreenWave(RestorePlan(lamp, Passed(ev, at)),
                                 [n \in ahead |-> ApproachPhase(DummyFrom, n)])
        BY <2>2 DEF update_position
      <4>2. lamp'[j] = RestorePlan(lamp, Passed(ev, at))[j]
        BY <3>4, <4>1 DEF SetGreenWave
      <4>3. lamp[j] # Plan /\ (EnvAttached => j \notin Passed(ev, at))
        BY <1>3, <2>2, <4>2 DEF RestorePlan, NoEnvNoForce
      <4>4. EnvAttached
        BY <1>3, <4>3 DEF NoEnvNoForce
      <4>5. PICK x \in Active : Needs(active_events[x], j)
        BY <1>3, <4>3 DEF NoGreenBehind
      <4>6. CASE x # e
        BY <3>1, <4>5, <4>6
      <4>7. CASE x = e
        <5>1. PICK i \in DOMAIN ev.route : i >= ev.current_index /\ ev.route[i] = j
          BY <4>5, <4>7 DEF Needs
        <5>2. j \notin Passed(ev, at)
          BY <4>3, <4>4
        <5>3. ev.current_index \in DOMAIN ev.route /\ ev.route \in Seq(Junctions)
          BY <1>3, <3>1, <3>2, GreenWaveAssumption DEF TypeOK, WellFormed
        <5>4. i >= at
          BY <3>2, <5>1, <5>2, <5>3 DEF Passed
        <5> QED BY <3>1, <5>1, <5>4 DEF Needs, Moved
      <4> QED BY <4>6, <4>7
    <3> QED BY <3>3, <3>4
  <2>3. ASSUME NEW e \in EventIds, deactivate(e), NEW j \in Junctions, lamp'[j] # Plan
        PROVE  \E x \in Active' : Needs(active_events'[x], j)
    <3>1. /\ Active' = Active \ {e} /\ e \in Active
          /\ \A x \in Active' : active_events'[x] = active_events[x]
      BY <2>3 DEF deactivate, Active
    <3>2. lamp[j] # Plan /\ (EnvAttached => j \notin OnRoute(active_events[e].route))
      BY <2>3 DEF deactivate, RestorePlan
    <3>3. PICK x \in Active : Needs(active_events[x], j)
      BY <1>3, <3>2 DEF NoGreenBehind
    <3>4. x # e
      BY <1>3, <3>2, <3>3 DEF Needs, OnRoute, NoEnvNoForce
    <3> QED BY <3>1, <3>3, <3>4
  <2>4. CASE UNCHANGED vars
    BY <1>3, <2>4 DEF vars, NoGreenBehind, Active
  <2> QED BY <1>3, <2>1, <2>2, <2>3, <2>4 DEF NoGreenBehind, Next
<1> QED BY <1>1, <1>2, <1>3, TypeCorrect, PTL DEF Spec
-----------------------------------------------------------------------------
(* The cabinet's interlock *)

\* CabinetTypeOK is an invariant: whatever is dispatched, only lamps that exist are
\* switched and the transaction id never passes the limit.
THEOREM CabinetTypeCorrect == CabinetSpec => []CabinetTypeOK
<1> USE DEF CabinetTypeOK, Lamps, AllRed, NorthSouth, EastWest
<1>1. CabinetInit => CabinetTypeOK
  <2> SUFFICES ASSUME CabinetInit PROVE CabinetTypeOK
    OBVIOUS
  <2>1. coils \subseteq Lamps /\ frame \subseteq Lamps
    BY DEF CabinetInit, Approaches
  <2>2. flash \in BOOLEAN
    BY DEF CabinetInit
  <2>3. tx_id \in 1 .. TxLimit
    BY CabinetAssumption DEF CabinetInit
  <2>4. report.aspects \subseteq Lamps
    BY DEF CabinetInit, None
  <2>5. raised \in Actions \cup {"none"}
    BY DEF CabinetInit
  <2> QED BY <2>1, <2>2, <2>3, <2>4, <2>5
<1>2. CabinetTypeOK /\ [CabinetNext]_cabinet => CabinetTypeOK'
  <2> SUFFICES ASSUME CabinetTypeOK, [CabinetNext]_cabinet PROVE CabinetTypeOK'
    OBVIOUS
  <2>1. ASSUME NEW a \in Actions, dispatch_command(a) PROVE CabinetTypeOK'
    <3>1. coils' \subseteq Lamps /\ frame' \subseteq Lamps
      BY <2>1 DEF dispatch_command, CoilsAfter, FrameFor, Approaches
    <3>2. flash' \in BOOLEAN
      BY <2>1 DEF dispatch_command, FlashAfter
    <3>3. tx_id' \in 1 .. TxLimit
      BY <2>1, CabinetAssumption DEF dispatch_command, NextTx
    <3>4. report'.aspects \subseteq Lamps
      BY <2>1 DEF dispatch_command, ReportAfter, Approaches
    <3> QED BY <2>1, <3>1, <3>2, <3>3, <3>4 DEF dispatch_command
  <2>2. ASSUME NEW a \in Actions, dispatch_raises(a) PROVE CabinetTypeOK'
    BY <2>2 DEF dispatch_raises
  <2>3. CASE UNCHANGED cabinet
    BY <2>3 DEF cabinet
  <2> QED BY <2>1, <2>2, <2>3 DEF CabinetNext
<1> QED BY <1>1, <1>2, PTL DEF CabinetSpec

-----------------------------------------------------------------------------
\* A picture in which approach p shows the one aspect aspect[p], and that gives
\* green to no two conflicting approaches, is safe.
LEMMA OneAspectEachIsSafe ==
  ASSUME NEW aspect \in [Approaches -> {"R", "A", "G"}],
         NEW lamps, lamps = {<<p, aspect[p]>> : p \in Approaches},
         \/ aspect["N"] # "G" /\ aspect["S"] # "G"
         \/ aspect["E"] # "G" /\ aspect["W"] # "G"
  PROVE  Safe(lamps)
<1>1. ASSUME NEW p \in Approaches
      PROVE  lamps \cap ({p} \X {"R", "A", "G"}) = {<<p, aspect[p]>>}
  OBVIOUS
<1>2. \A p \in Approaches : \E s \in {"R", "A", "G"} :
        lamps \cap ({p} \X {"R", "A", "G"}) = {<<p, s>>}
  BY <1>1
<1>3. \A p \in Approaches : <<p, "G">> \in lamps => aspect[p] = "G"
  OBVIOUS
<1>4. ~(Green({"N", "S"}, lamps) /\ Green({"E", "W"}, lamps))
  BY <1>3 DEF Green, Approaches
<1> QED BY <1>2, <1>4 DEF Safe

\* The three pictures the code knows are safe.
LEMMA PicturesSafe == Safe(AllRed) /\ Safe(NorthSouth) /\ Safe(EastWest)
<1>1. Safe(AllRed)
  <2> DEFINE aspect == [p \in Approaches |-> "R"]
  <2>1. AllRed = {<<p, aspect[p]>> : p \in Approaches}
    BY DEF AllRed
  <2>2. aspect["N"] # "G" /\ aspect["S"] # "G"
    BY DEF Approaches
  <2> QED BY <2>1, <2>2, OneAspectEachIsSafe
<1>2. Safe(NorthSouth)
  <2> DEFINE aspect == [p \in Approaches |-> IF p \in {"N", "S"} THEN "G" ELSE "R"]
  <2>1. NorthSouth = {<<p, aspect[p]>> : p \in Approaches}
    BY DEF NorthSouth, Approaches
  <2>2. aspect["E"] # "G" /\ aspect["W"] # "G"
    BY DEF Approaches
  <2> QED BY <2>1, <2>2, OneAspectEachIsSafe
<1>3. Safe(EastWest)
  <2> DEFINE aspect == [p \in Approaches |-> IF p \in {"E", "W"} THEN "G" ELSE "R"]
  <2>1. EastWest = {<<p, aspect[p]>> : p \in Approaches}
    BY DEF EastWest, Approaches
  <2>2. aspect["N"] # "G" /\ aspect["S"] # "G"
    BY DEF Approaches
  <2> QED BY <2>1, <2>2, OneAspectEachIsSafe
<1> QED BY <1>1, <1>2, <1>3

\* What makes the interlock inductive: the cabinet and the frames only ever show
\* one of the three pictures.
Pictures == {AllRed, NorthSouth, EastWest}
InterlockInv ==
  /\ coils \in Pictures /\ frame \in Pictures \cup {{}}
  /\ flash => coils = AllRed

\* SafetyInterlocks is an invariant: no sequence of commands, known or unknown,
\* lights conflicting greens or leaves an approach dark.
THEOREM InterlocksCorrect == CabinetSpec => []SafetyInterlocks
<1>1. CabinetInit => InterlockInv
  BY DEF CabinetInit, InterlockInv, Pictures
<1>2. InterlockInv /\ [CabinetNext]_cabinet => InterlockInv'
  <2> SUFFICES ASSUME InterlockInv, [CabinetNext]_cabinet PROVE InterlockInv'
    OBVIOUS
  <2>1. ASSUME NEW a \in Actions, dispatch_command(a) PROVE InterlockInv'
    <3>1. coils' \in Pictures
      BY <2>1 DEF dispatch_command, CoilsAfter, InterlockInv, Pictures
    <3>2. frame' \in Pictures
      BY <2>1 DEF dispatch_command, FrameFor, Pictures
    <3>3. flash' => coils' = AllRed
      BY <2>1 DEF dispatch_command, CoilsAfter, FlashAfter, Holds, InterlockInv
    <3> QED BY <3>1, <3>2, <3>3 DEF InterlockInv
  <2>2. ASSUME NEW a \in Actions, dispatch_raises(a) PROVE InterlockInv'
    BY <2>2 DEF dispatch_raises, InterlockInv
  <2>3. CASE UNCHANGED cabinet
    BY <2>3 DEF cabinet, InterlockInv
  <2> QED BY <2>1, <2>2, <2>3 DEF CabinetNext
<1>3. InterlockInv => SafetyInterlocks
  BY PicturesSafe DEF InterlockInv, Pictures, SafetyInterlocks
<1> QED BY <1>1, <1>2, <1>3, PTL DEF CabinetSpec
=============================================================================
