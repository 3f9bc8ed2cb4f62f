--------------------------- MODULE OperatorPagesProofs ---------------------------
(***************************************************************************)
(* What holds of the two pages that give commands, for any number of       *)
(* clicks, events, stops, junctions and faults.  The types of the          *)
(* emergency page need to know that every number on its way is one of a    *)
(* recorded event, which is the induction for StopNamesEvent; the shape of *)
(* the route, the bound on retries and careful operators have one each.    *)
(* Types, retries and the careful operator of the signal control page      *)
(* follow, whose names begin with an S, and then both pages together.      *)
(***************************************************************************)
EXTENDS MCOperatorPages, SequenceTheorems, TLAPS

(***************************************************************************)
(* Types and events.                                                       *)
(***************************************************************************)
EventsInv ==
  /\ rows \subseteq 1..issued
  /\ query.event \in 0..issued
  /\ \A k \in 1..Len(pushes) : pushes[k].event \in 1..issued
  /\ isActivated => activeEventId \in 1..issued
  /\ \A c \in Clicks : call[c].kind = "deactivate" => call[c].event \in 1..issued
  /\ \A r \in wire : r.kind = "deactivate" => r.event \in 1..issued
  /\ \A r \in replies : r.event \in 1..issued

\* A click, and what the handlers do to it.
Calls == [stage : {"unused", "axios", "fetch", "over"}, kind : {"activate", "deactivate"},
          event : 0..MaxEvents, mine : BOOLEAN]

LEMMA CallsTyped == TypeOK => call \in [Clicks -> Calls]
BY DEF TypeOK, Calls

LEMMA CallForgotten ==
  ASSUME NEW x \in Calls
  PROVE  [x EXCEPT !.mine = FALSE] \in Calls
BY DEF Calls

LEMMA StageSet ==
  ASSUME NEW x \in Calls, NEW stage \in {"unused", "axios", "fetch", "over"}
  PROVE  /\ [x EXCEPT !.stage = stage] \in Calls
         /\ [x EXCEPT !.stage = stage].kind = x.kind
         /\ [x EXCEPT !.stage = stage].event = x.event
BY DEF Calls

LEMMA StageMoved ==
  ASSUME TypeOK, NEW c \in Clicks, NEW stage \in {"unused", "axios", "fetch", "over"},
         call' = [call EXCEPT ![c].stage = stage]
  PROVE  /\ call' \in [Clicks -> Calls]
         /\ \A d \in Clicks : call'[d].kind = call[d].kind /\ call'[d].event = call[d].event
<1>1. call \in [Clicks -> Calls] /\ call[c] \in Calls
  BY CallsTyped
<1> DEFINE moved == [call[c] EXCEPT !.stage = stage]
<1>2. moved \in Calls /\ moved.kind = call[c].kind /\ moved.event = call[c].event
  BY <1>1, StageSet
<1>3. call' = [call EXCEPT ![c] = moved]
  OBVIOUS
<1> HIDE DEF moved
<1> QED BY <1>1, <1>2, <1>3

LEMMA CorridorType == \A g \in Int : Corridor(g) \in [1..Stops -> Status]
  BY EmergencyPageAssumption DEF Corridor, Status

\* What the two ways of showing something leave behind.
LEMMA ShownInactive ==
  ShowInactive => /\ isActivated' = FALSE
                  /\ activeEventId' \in 0..MaxEvents
                  /\ junctions' \in [1..Stops -> Status]
<1> SUFFICES ASSUME ShowInactive
             PROVE  /\ isActivated' = FALSE
                    /\ activeEventId' \in 0..MaxEvents
                    /\ junctions' \in [1..Stops -> Status]
  OBVIOUS
<1>1. isActivated' = FALSE
  BY DEF ShowInactive
<1>2. activeEventId' \in 0..MaxEvents
  BY EmergencyPageAssumption DEF ShowInactive
<1>3. junctions' \in [1..Stops -> Status]
  BY CorridorType DEF ShowInactive, DEFAULT_ROUTE_JUNCTIONS
<1> QED BY <1>1, <1>2, <1>3

LEMMA ShownActive ==
  ASSUME TypeOK, NEW e \in 1..issued, ShowActive(e)
  PROVE  /\ isActivated' = TRUE
         /\ activeEventId' \in 0..MaxEvents /\ activeEventId' \in 1..issued
         /\ junctions' \in [1..Stops -> Status]
  BY EmergencyPageAssumption DEF ShowActive, TypeOK

\* A message about a recorded event joins the others.
LEMMA Announced ==
  ASSUME TypeOK, EventsInv, NEW a \in EventIds, NEW e \in 1..a, issued <= a,
         \/ pushes' = Append(pushes, [type |-> "EMERGENCY_ACTIVATED", event |-> e])
         \/ pushes' = Append(pushes, [type |-> "EMERGENCY_DEACTIVATED", event |-> e])
  PROVE  /\ pushes' \in Seq([type : {"EMERGENCY_ACTIVATED", "EMERGENCY_DEACTIVATED"},
                             event : EventIds])
         /\ \A k \in 1..Len(pushes') : pushes'[k].event \in 1..a
<1> DEFINE Messages == [type : {"EMERGENCY_ACTIVATED", "EMERGENCY_DEACTIVATED"},
                        event : EventIds]
<1>1. e \in EventIds /\ 1..issued \subseteq 1..a
  BY EmergencyPageAssumption DEF EventIds, TypeOK
<1>2. PICK message \in Messages : message.event = e /\ pushes' = Append(pushes, message)
  <2>1. CASE pushes' = Append(pushes, [type |-> "EMERGENCY_ACTIVATED", event |-> e])
    BY <1>1, <2>1
  <2>2. CASE pushes' = Append(pushes, [type |-> "EMERGENCY_DEACTIVATED", event |-> e])
    BY <1>1, <2>2
  <2> QED BY <2>1, <2>2
<1>3. pushes \in Seq(Messages) /\ \A k \in 1..Len(pushes) : pushes[k].event \in 1..issued
  BY DEF TypeOK, EventsInv
<1> HIDE DEF Messages
<1>4. pushes' \in Seq(Messages) /\ \A k \in 1..Len(pushes') : pushes'[k].event \in 1..a
  <2>1. pushes' \in Seq(Messages) /\ Len(pushes') = Len(pushes) + 1
    BY <1>2, <1>3
  <2>2. ASSUME NEW k \in 1..Len(pushes') PROVE pushes'[k].event \in 1..a
    <3>1. CASE k = Len(pushes) + 1
      BY <1>2, <1>3, <3>1
    <3>2. CASE k \in 1..Len(pushes)
      BY <1>1, <1>2, <1>3, <3>2
    <3> QED BY <1>3, <2>1, <3>1, <3>2
  <2> QED BY <2>1, <2>2
<1> QED BY <1>4 DEF Messages

LEMMA TypeInit == Init => TypeOK /\ EventsInv
<1> SUFFICES ASSUME Init PROVE TypeOK /\ EventsInv
  OBVIOUS
<1> USE EmergencyPageAssumption
<1>1. TypeOK
  <2>1. junctions \in [1..Stops -> Status]
    BY CorridorType DEF Init, DEFAULT_ROUTE_JUNCTIONS
  <2>2. call \in [Clicks -> [stage : {"unused", "axios", "fetch", "over"},
                            kind : {"activate", "deactivate"}, event : 0..MaxEvents,
                            mine : BOOLEAN]]
    BY DEF Init, Unused
  <2>3. query \in [at : {"none", "asked", "answered"}, event : 0..MaxEvents]
    BY DEF Init, NoQuery
  <2>4. /\ careful \in BOOLEAN /\ mounted \in BOOLEAN /\ isActivated \in BOOLEAN
        /\ ticking \in BOOLEAN
    BY DEF Init
  <2>5. /\ rows \subseteq EventIds /\ issued \in 0..MaxEvents /\ activeEventId \in 0..MaxEvents
        /\ faults \in 0..MaxFaults
        /\ made \in [Clicks -> Nat] /\ lost \in [Clicks -> Nat]
    BY DEF Init
  <2>6. pushes \in Seq([type : {"EMERGENCY_ACTIVATED", "EMERGENCY_DEACTIVATED"},
                       event : EventIds])
    BY DEF Init
  <2> QED BY <2>1, <2>2, <2>3, <2>4, <2>5, <2>6 DEF Init, TypeOK
<1>2. EventsInv
  BY DEF Init, EventsInv, Unused, NoQuery
<1> QED BY <1>1, <1>2

LEMMA TypeStep == TypeOK /\ EventsInv /\ [Next]_vars => TypeOK' /\ EventsInv'
<1> SUFFICES ASSUME TypeOK, EventsInv, [Next]_vars PROVE TypeOK' /\ EventsInv'
  OBVIOUS
<1> USE EmergencyPageAssumption
<1>1. CASE UNCHANGED vars
  BY <1>1 DEF TypeOK, EventsInv, vars, server, network, shown
<1>2. CASE Mount
  <2>1. /\ isActivated' = FALSE /\ activeEventId' \in 0..MaxEvents
        /\ junctions' \in [1..Stops -> Status]
    BY <1>2, ShownInactive DEF Mount
  <2>2. TypeOK'
    <3>1. mounted' \in BOOLEAN /\ isActivated' \in BOOLEAN
      BY <1>2, <2>1 DEF Mount
    <3>2. query' \in [at : {"none", "asked", "answered"}, event : 0..MaxEvents]
      BY <1>2 DEF Mount
    <3>3. UNCHANGED <<careful, server, network, call, ticking>>
      BY <1>2 DEF Mount
    <3> QED BY <2>1, <3>1, <3>2, <3>3 DEF TypeOK, server, network
  <2>3. EventsInv'
    BY <1>2, <2>1 DEF Mount, TypeOK, EventsInv, server, network
  <2> QED BY <2>2, <2>3
<1>3. CASE Unmount
  <2>1. /\ isActivated' = FALSE /\ activeEventId' \in 0..MaxEvents
        /\ junctions' \in [1..Stops -> Status]
    BY <1>3, ShownInactive DEF Unmount
  <2>2. TypeOK'
    <3>1. mounted' \in BOOLEAN /\ isActivated' \in BOOLEAN /\ ticking' \in BOOLEAN
      BY <1>3, <2>1 DEF Unmount
    <3>2. query' \in [at : {"none", "asked", "answered"}, event : 0..MaxEvents]
      BY <1>3 DEF Unmount, NoQuery
    <3>3. call' \in [Clicks -> [stage : {"unused", "axios", "fetch", "over"},
                               kind : {"activate", "deactivate"}, event : 0..MaxEvents,
                               mine : BOOLEAN]]
      <4>1. call' = [c \in Clicks |-> [call[c] EXCEPT !.mine = FALSE]]
        BY <1>3 DEF Unmount
      <4>2. \A c \in Clicks : [call[c] EXCEPT !.mine = FALSE] \in Calls
        BY CallsTyped, CallForgotten
      <4>3. call' \in [Clicks -> Calls]
        BY <4>1, <4>2
      <4> QED BY <4>3 DEF Calls
    <3>4. UNCHANGED <<careful, server, network>>
      BY <1>3 DEF Unmount
    <3> QED BY <2>1, <3>1, <3>2, <3>3, <3>4 DEF TypeOK, server, network
  <2>3. EventsInv'
    <3>1. /\ query'.event = 0 /\ isActivated' = FALSE
          /\ UNCHANGED <<rows, issued, pushes, wire, replies>>
      BY <1>3, <2>1 DEF Unmount, NoQuery, server, network
    <3>2. \A c \in Clicks : call'[c].kind = call[c].kind /\ call'[c].event = call[c].event
      BY <1>3 DEF Unmount, TypeOK
    <3>3. 0 \in 0..issued
      BY DEF TypeOK
    <3> QED BY <3>1, <3>2, <3>3 DEF EventsInv
  <2> QED BY <2>2, <2>3
<1>4. CASE QueryServed
  <2>1. /\ query' \in [at : {"none", "asked", "answered"}, event : 0..MaxEvents]
        /\ query'.event \in 0..issued
    <3>1. PICK e \in Newest : query' = [at |-> "answered", event |-> e]
      BY <1>4 DEF QueryServed
    <3>2. rows \subseteq 1..issued /\ rows \subseteq 1..MaxEvents /\ issued \in Nat
      BY DEF TypeOK, EventsInv, EventIds
    <3>3. e \in 0..issued /\ e \in 0..MaxEvents
      BY <3>2 DEF Newest
    <3> QED BY <3>1, <3>3
  <2>2. UNCHANGED <<careful, rows, issued, made, pushes, wire, replies, lost, faults, mounted,
                    call, isActivated, activeEventId, junctions, ticking>>
    BY <1>4 DEF QueryServed, server, network, shown
  <2> QED BY <2>1, <2>2 DEF TypeOK, EventsInv
<1>5. CASE QueryAnswered
  <2>1. /\ isActivated' \in BOOLEAN /\ activeEventId' \in 0..MaxEvents
        /\ junctions' \in [1..Stops -> Status]
        /\ isActivated' => activeEventId' \in 1..issued
    <3>1. CASE query.event # 0
      <4>1. query.event \in 1..issued /\ ShowActive(query.event)
        BY <1>5, <3>1 DEF QueryAnswered, EventsInv, TypeOK
      <4> QED BY <4>1, ShownActive
    <3>2. CASE query.event = 0
      BY <1>5, <3>2 DEF QueryAnswered, TypeOK, EventsInv, shown
    <3> QED BY <3>1, <3>2
  <2>2. /\ query' \in [at : {"none", "asked", "answered"}, event : 0..MaxEvents]
        /\ query'.event = 0
    BY <1>5 DEF QueryAnswered, NoQuery
  <2>3. UNCHANGED <<careful, server, network, mounted, call, ticking>>
    BY <1>5 DEF QueryAnswered
  <2>4. TypeOK'
    BY <2>1, <2>2, <2>3 DEF TypeOK, server, network
  <2>5. EventsInv'
    BY <2>1, <2>2, <2>3 DEF TypeOK, EventsInv, server, network
  <2> QED BY <2>4, <2>5
<1>6. CASE QueryFails
  BY <1>6 DEF QueryFails, MayFail, NoQuery, TypeOK, EventsInv, server, shown
<1>7. CASE Receive
  <2>1. /\ isActivated' \in BOOLEAN /\ activeEventId' \in 0..MaxEvents
        /\ junctions' \in [1..Stops -> Status]
        /\ isActivated' => activeEventId' \in 1..issued
    <3>1. Head(pushes).event \in 1..issued
      BY <1>7 DEF Receive, TypeOK, EventsInv, EventIds
    <3>2. CASE ~mounted
      BY <1>7, <3>2 DEF Receive, TypeOK, EventsInv, shown
    <3>3. CASE mounted /\ ShowActive(Head(pushes).event)
      BY <3>1, <3>3, ShownActive
    <3>4. CASE mounted /\ ShowInactive
      BY <3>4, ShownInactive
    <3> QED BY <1>7, <3>2, <3>3, <3>4 DEF Receive
  <2>2. /\ pushes' \in Seq([type : {"EMERGENCY_ACTIVATED", "EMERGENCY_DEACTIVATED"},
                           event : EventIds])
        /\ \A k \in 1..Len(pushes') : pushes'[k].event \in 1..issued
    BY <1>7 DEF Receive, TypeOK, EventsInv, EventIds
  <2>3. UNCHANGED <<careful, server, wire, replies, lost, faults, mounted, query, call, ticking>>
    BY <1>7 DEF Receive
  <2>4. TypeOK'
    BY <2>1, <2>2, <2>3 DEF TypeOK, server
  <2>5. EventsInv'
    BY <2>1, <2>2, <2>3 DEF TypeOK, EventsInv, server
  <2> QED BY <2>4, <2>5
<1>8. CASE PushLost
  BY <1>8 DEF PushLost, MayFail, TypeOK, EventsInv, EventIds, server, shown
<1>9. CASE Progress
  BY <1>9 DEF Progress, TypeOK, EventsInv, Status, server, network
<1>10. CASE EffectRuns
  BY <1>10 DEF EffectRuns, TypeOK, EventsInv, server, network, shown
<1>11. ASSUME NEW c \in Clicks, handleToggleCorridor(c) PROVE TypeOK' /\ EventsInv'
  BY <1>11 DEF handleToggleCorridor, Kind, Sent, Message, Unused, TypeOK, EventsInv, server,
     network, shown
<1>12. ASSUME NEW c \in Clicks, Answered(c) PROVE TypeOK' /\ EventsInv'
  <2>1. /\ isActivated' \in BOOLEAN /\ activeEventId' \in 0..MaxEvents
        /\ junctions' \in [1..Stops -> Status]
        /\ isActivated' => activeEventId' \in 1..issued
    <3> PICK r \in replies :
          IF ~call[c].mine THEN UNCHANGED shown
          ELSE IF call[c].kind = "activate" THEN ShowActive(r.event)
          ELSE ShowInactive
      BY <1>12 DEF Answered
    <3>1. r.event \in 1..issued
      BY DEF EventsInv
    <3>2. CASE UNCHANGED shown
      BY <3>2 DEF TypeOK, EventsInv, shown
    <3>3. CASE ShowActive(r.event)
      BY <3>1, <3>3, ShownActive
    <3>4. CASE ShowInactive
      BY <3>4, ShownInactive
    <3> QED BY <3>2, <3>3, <3>4
  <2>2. /\ replies' \subseteq replies
        /\ call' = [call EXCEPT ![c].stage = "over"]
    BY <1>12 DEF Answered, Finish
  <2>3. /\ call' \in [Clicks -> [stage : {"unused", "axios", "fetch", "over"},
                               kind : {"activate", "deactivate"}, event : 0..MaxEvents,
                               mine : BOOLEAN]]
        /\ \A d \in Clicks : call'[d].kind = call[d].kind /\ call'[d].event = call[d].event
    BY <2>2, StageMoved DEF Calls
  <2>4. UNCHANGED <<careful, server, pushes, wire, lost, faults, mounted, query, ticking>>
    BY <1>12 DEF Answered
  <2>5. TypeOK'
    BY <2>1, <2>2, <2>3, <2>4 DEF TypeOK, server
  <2>6. EventsInv'
    BY <2>1, <2>2, <2>3, <2>4 DEF TypeOK, EventsInv, server
  <2> QED BY <2>5, <2>6
<1>13. ASSUME NEW c \in Clicks, Fails(c) PROVE TypeOK' /\ EventsInv'
  <2>1. /\ isActivated' \in BOOLEAN /\ activeEventId' \in 0..MaxEvents
        /\ junctions' \in [1..Stops -> Status]
        /\ isActivated' => activeEventId' \in 1..issued
    <3>1. CASE UNCHANGED shown
      BY <3>1 DEF TypeOK, EventsInv, shown
    <3>2. CASE ShowInactive
      BY <3>2, ShownInactive
    <3> QED BY <1>13, <3>1, <3>2 DEF Fails
  <2>2. PICK stage \in {"fetch", "over"} : call' = [call EXCEPT ![c].stage = stage]
    BY <1>13 DEF Fails, Finish
  <2>3. /\ call' \in [Clicks -> [stage : {"unused", "axios", "fetch", "over"},
                               kind : {"activate", "deactivate"}, event : 0..MaxEvents,
                               mine : BOOLEAN]]
        /\ \A d \in Clicks : call'[d].kind = call[d].kind /\ call'[d].event = call[d].event
    BY <2>2, StageMoved DEF Calls
  <2>4. /\ wire' \subseteq wire \cup {Request(c, "fetch")}
        /\ replies' \subseteq replies
    BY <1>13 DEF Fails
  <2>5. /\ Request(c, "fetch") \in [click : Clicks, leg : {"axios", "fetch"},
                                    kind : {"activate", "deactivate"}, event : 0..MaxEvents]
        /\ Request(c, "fetch").kind = "deactivate" => Request(c, "fetch").event \in 1..issued
    BY DEF Request, Message, TypeOK, EventsInv
  <2>6. lost' \in [Clicks -> Nat] /\ faults' \in 0..MaxFaults
    <3>1. lost' = [lost EXCEPT ![c] = @ + 1] /\ faults < MaxFaults /\ faults' = faults + 1
      BY <1>13 DEF Fails, MayFail
    <3>2. lost \in [Clicks -> Nat] /\ faults \in 0..MaxFaults
      BY DEF TypeOK
    <3> QED BY <3>1, <3>2
  <2>7. UNCHANGED <<careful, server, pushes, mounted, query, ticking>>
    BY <1>13 DEF Fails
  <2>8. TypeOK'
    BY <2>1, <2>3, <2>4, <2>5, <2>6, <2>7 DEF TypeOK, server
  <2>9. EventsInv'
    BY <2>1, <2>3, <2>4, <2>5, <2>7 DEF TypeOK, EventsInv, server
  <2> QED BY <2>8, <2>9
<1>14. ASSUME NEW r \in wire, Serve(r) PROVE TypeOK' /\ EventsInv'
  <2> DEFINE Served(a, e) ==
        /\ a \in EventIds /\ e \in 1..a /\ issued <= a /\ issued' = a
        /\ rows' \subseteq 1..a
        /\ \/ pushes' = Append(pushes, [type |-> "EMERGENCY_ACTIVATED", event |-> e])
           \/ pushes' = Append(pushes, [type |-> "EMERGENCY_DEACTIVATED", event |-> e])
        /\ made' \in [Clicks -> Nat]
        /\ replies' \subseteq replies \cup {[click |-> r.click, leg |-> r.leg, event |-> e]}
  <2> HIDE DEF Served
  <2>1. r \in [click : Clicks, leg : {"axios", "fetch"}, kind : {"activate", "deactivate"},
              event : 0..MaxEvents]
    BY DEF TypeOK
  <2>2. PICK a \in Nat, e \in Nat : Served(a, e)
    <3>1. CASE r.kind = "activate"
      <4>1. Record(issued + 1) /\ issued < MaxEvents
            /\ made' = [made EXCEPT ![r.click] = @ + 1]
        BY <1>14, <3>1 DEF Serve
      <4>2. issued' = issued + 1 /\ issued + 1 \in EventIds /\ issued \in Nat
        BY <4>1 DEF Record, TypeOK, EventIds
      <4>3. replies' \subseteq replies \cup {[click |-> r.click, leg |-> r.leg,
                                            event |-> issued + 1]}
        BY <1>14, <3>1, <4>2 DEF Serve
      <4>4. made' \in [Clicks -> Nat]
        BY <4>1, <2>1 DEF TypeOK
      <4>5. /\ rows' \subseteq 1..(issued + 1) /\ issued + 1 \in 1..(issued + 1)
            /\ issued <= issued + 1
            /\ pushes' = Append(pushes, [type |-> "EMERGENCY_ACTIVATED",
                                        event |-> issued + 1])
        <5>1. /\ rows' = rows \cup {issued + 1} /\ rows \subseteq 1..issued
              /\ pushes' = Append(pushes, [type |-> "EMERGENCY_ACTIVATED",
                                          event |-> issued + 1])
          BY <4>1 DEF Record, EventsInv
        <5>2. /\ 1..issued \subseteq 1..(issued + 1) /\ issued + 1 \in 1..(issued + 1)
              /\ issued <= issued + 1
          BY <4>2
        <5> QED BY <5>1, <5>2
      <4>6. Served(issued + 1, issued + 1)
        BY <4>2, <4>3, <4>4, <4>5 DEF Served
      <4> QED BY <4>2, <4>6
    <3>2. CASE r.kind = "deactivate"
      <4>1. Complete(r.event) /\ UNCHANGED made
        BY <1>14, <3>2 DEF Serve
      <4>2. r.event \in 1..issued /\ issued \in EventIds
        BY <3>2 DEF TypeOK, EventsInv, EventIds
      <4>3. replies' \subseteq replies \cup {[click |-> r.click, leg |-> r.leg,
                                            event |-> r.event]}
        BY <1>14, <3>2 DEF Serve
      <4>4. /\ issued' = issued /\ rows' \subseteq 1..issued
            /\ pushes' = Append(pushes, [type |-> "EMERGENCY_DEACTIVATED", event |-> r.event])
        BY <4>1 DEF Complete, EventsInv
      <4>5. made' \in [Clicks -> Nat]
        BY <4>1 DEF TypeOK
      <4>6. issued \in Nat /\ r.event \in Nat
        BY <4>2 DEF EventIds
      <4>7. Served(issued, r.event)
        BY <4>2, <4>3, <4>4, <4>5, <4>6 DEF Served
      <4> QED BY <4>6, <4>7
    <3> QED BY <2>1, <3>1, <3>2
  <2>3. /\ pushes' \in Seq([type : {"EMERGENCY_ACTIVATED", "EMERGENCY_DEACTIVATED"},
                           event : EventIds])
        /\ \A k \in 1..Len(pushes') : pushes'[k].event \in 1..a
    BY <2>2, Announced DEF Served
  <2>4. /\ replies' \subseteq [click : Clicks, leg : {"axios", "fetch"}, event : 0..MaxEvents]
        /\ \A x \in replies' : x.event \in 1..a
    <3> DEFINE Answers == [click : Clicks, leg : {"axios", "fetch"}, event : 0..MaxEvents]
               answer == [click |-> r.click, leg |-> r.leg, event |-> e]
    <3>1. e \in 0..MaxEvents /\ e \in 1..a /\ 1..issued \subseteq 1..a
      BY <2>2 DEF Served, EventIds, TypeOK
    <3>2. answer \in Answers /\ answer.event \in 1..a
      BY <2>1, <3>1
    <3>3. replies \subseteq Answers /\ \A x \in replies : x.event \in 1..a
      BY <3>1 DEF TypeOK, EventsInv
    <3>4. replies' \subseteq replies \cup {answer}
      BY <2>2 DEF Served
    <3> HIDE DEF Answers, answer
    <3>5. replies' \subseteq Answers /\ \A x \in replies' : x.event \in 1..a
      BY <3>2, <3>3, <3>4
    <3> QED BY <3>5 DEF Answers
  <2>5. wire' \subseteq wire
    BY <1>14 DEF Serve
  <2>6. UNCHANGED <<careful, lost, faults, mounted, query, call, isActivated, activeEventId,
                    junctions, ticking>>
    BY <1>14 DEF Serve, shown
  <2>7. TypeOK'
    <3>1. rows' \subseteq EventIds /\ issued' \in 0..MaxEvents /\ made' \in [Clicks -> Nat]
      BY <2>2 DEF EventIds, Served
    <3> QED BY <2>3, <2>4, <2>5, <2>6, <3>1 DEF TypeOK
  <2>8. EventsInv'
    <3>1. /\ issued \in Nat /\ issued' \in Nat /\ 1..issued \subseteq 1..issued'
          /\ 0..issued \subseteq 0..issued'
      BY <2>2 DEF TypeOK, EventIds, Served
    <3> QED BY <2>2, <2>3, <2>4, <2>5, <2>6, <3>1 DEF EventsInv, Served
  <2> QED BY <2>7, <2>8
<1>15. CASE OtherActivates
  <2>1. /\ issued < MaxEvents /\ issued' = issued + 1 /\ rows' = rows \cup {issued + 1}
        /\ pushes' = Append(pushes, [type |-> "EMERGENCY_ACTIVATED", event |-> issued + 1])
        /\ UNCHANGED <<careful, made, wire, replies, lost, faults, mounted, query, call,
                       isActivated, activeEventId, junctions, ticking>>
    BY <1>15 DEF OtherActivates, Record, shown
  <2>2. /\ issued \in Nat /\ issued' \in EventIds /\ issued <= issued'
        /\ 1..issued \subseteq 1..issued' /\ 0..issued \subseteq 0..issued'
        /\ issued + 1 \in 1..issued' /\ 1..issued' \subseteq EventIds
    BY <2>1 DEF TypeOK, EventIds
  <2>3. /\ pushes' \in Seq([type : {"EMERGENCY_ACTIVATED", "EMERGENCY_DEACTIVATED"},
                           event : EventIds])
        /\ \A k \in 1..Len(pushes') : pushes'[k].event \in 1..issued'
    BY <2>1, <2>2, Announced
  <2>4. rows' \subseteq 1..issued' /\ rows' \subseteq EventIds
    BY <2>1, <2>2 DEF EventsInv
  <2>5. TypeOK'
    <3>1. issued' \in 0..MaxEvents
      BY <2>2 DEF EventIds
    <3> QED BY <2>1, <2>3, <2>4, <3>1 DEF TypeOK
  <2>6. EventsInv'
    BY <2>1, <2>2, <2>3, <2>4 DEF EventsInv
  <2> QED BY <2>5, <2>6
<1>16. CASE OtherDeactivates
  <2>1. PICK e \in rows : Complete(e)
    BY <1>16 DEF OtherDeactivates
  <2>2. /\ rows' \subseteq rows
        /\ pushes' = Append(pushes, [type |-> "EMERGENCY_DEACTIVATED", event |-> e])
        /\ UNCHANGED <<careful, issued, made, wire, replies, lost, faults, mounted, query, call,
                       isActivated, activeEventId, junctions, ticking>>
    BY <1>16, <2>1 DEF OtherDeactivates, Complete, shown
  <2>3. e \in 1..issued /\ issued \in EventIds
    BY DEF TypeOK, EventsInv, EventIds
  <2>4. /\ pushes' \in Seq([type : {"EMERGENCY_ACTIVATED", "EMERGENCY_DEACTIVATED"},
                           event : EventIds])
        /\ \A k \in 1..Len(pushes') : pushes'[k].event \in 1..issued
    <3>1. issued <= issued
      BY DEF TypeOK
    <3> QED BY <2>2, <2>3, <3>1, Announced
  <2>5. TypeOK'
    BY <2>2, <2>4 DEF TypeOK
  <2>6. EventsInv'
    BY <2>2, <2>4 DEF EventsInv
  <2> QED BY <2>5, <2>6
<1> QED BY <1>1, <1>2, <1>3, <1>4, <1>5, <1>6, <1>7, <1>8, <1>9, <1>10, <1>11, <1>12,
           <1>13, <1>14, <1>15, <1>16 DEF Next

\* The types hold in every state.
THEOREM TypeCorrect == Spec => []TypeOK
<1>1. Spec => [](TypeOK /\ EventsInv)
  BY TypeInit, TypeStep, PTL DEF Spec
<1> QED BY <1>1, PTL

\* Whatever answers, messages, clicks and failures do, a request to stop names an event
\* the server recorded.
THEOREM StopsNameEvents == Spec => []StopNamesEvent
<1>1. Spec => [](TypeOK /\ EventsInv)
  BY TypeInit, TypeStep, PTL DEF Spec
<1>2. EventsInv => StopNamesEvent
  BY DEF EventsInv, StopNamesEvent
<1> QED BY <1>1, <1>2, PTL

(***************************************************************************)
(* The shape of the route: a late tick may move it on once, no more.       *)
(***************************************************************************)
LEMMA GreenIsAt ==
  ASSUME NEW g \in Int, NEW i \in 1..Stops
  PROVE  Corridor(g)[i] = "ACTIVE_GREEN" <=> i = g
  BY EmergencyPageAssumption DEF Corridor

LEMMA MovedOn ==
  ASSUME NEW g \in 1..Stops
  PROVE  [k \in 1..Stops |-> CASE k = g     -> "CLEARED"
                             [] k = g + 1 -> "ACTIVE_GREEN"
                             [] k = g + 2 -> "PRE_EMPTING"
                             [] OTHER     -> Corridor(g)[k]] = Corridor(g + 1)
<1>1. ASSUME NEW k \in 1..Stops
      PROVE  (CASE k = g     -> "CLEARED"
                [] k = g + 1 -> "ACTIVE_GREEN"
                [] k = g + 2 -> "PRE_EMPTING"
                [] OTHER     -> Corridor(g)[k]) = Corridor(g + 1)[k]
  BY EmergencyPageAssumption DEF Corridor
<1> QED BY <1>1 DEF Corridor

LEMMA ShapeStep == TypeOK /\ CorridorInShape /\ [Next]_vars => CorridorInShape'
<1> SUFFICES ASSUME TypeOK, CorridorInShape, [Next]_vars PROVE CorridorInShape'
  OBVIOUS
<1> USE EmergencyPageAssumption
<1>1. ASSUME ShowInactive PROVE CorridorInShape'
  <2>1. isActivated' = FALSE /\ junctions' = Corridor(1) /\ 1 \in 1..(Stops + 1)
    BY <1>1 DEF ShowInactive, DEFAULT_ROUTE_JUNCTIONS
  <2> QED BY <2>1 DEF CorridorInShape, DEFAULT_ROUTE_JUNCTIONS
<1>2. ASSUME NEW e, ShowActive(e) PROVE CorridorInShape'
  BY <1>2 DEF ShowActive, CorridorInShape
<1>3. ASSUME UNCHANGED <<isActivated, junctions, ticking>> PROVE CorridorInShape'
  BY <1>3 DEF CorridorInShape, DEFAULT_ROUTE_JUNCTIONS
<1>4. CASE EffectRuns
  BY <1>4 DEF EffectRuns, CorridorInShape, DEFAULT_ROUTE_JUNCTIONS, shown
<1>5. CASE Progress
  <2>1. PICK g \in 1..(Stops + 1) : junctions = Corridor(g)
    BY DEF CorridorInShape
  <2>2. PICK i \in 1..Stops :
          /\ junctions[i] = "ACTIVE_GREEN"
          /\ junctions' = [k \in 1..Stops |-> CASE k = i     -> "CLEARED"
                                                [] k = i + 1 -> "ACTIVE_GREEN"
                                                [] k = i + 2 -> "PRE_EMPTING"
                                                [] OTHER     -> junctions[k]]
    BY <1>5 DEF Progress
  <2>3. g \in 1..Stops /\ i = g
    BY <2>1, <2>2, GreenIsAt
  <2>4. junctions' = Corridor(g + 1) /\ g + 1 \in 1..(Stops + 1)
    <3>1. junctions' = [k \in 1..Stops |-> CASE k = g     -> "CLEARED"
                                             [] k = g + 1 -> "ACTIVE_GREEN"
                                             [] k = g + 2 -> "PRE_EMPTING"
                                             [] OTHER     -> Corridor(g)[k]]
      BY <2>1, <2>2, <2>3
    <3>2. junctions' = Corridor(g + 1)
      BY <2>3, <3>1, MovedOn
    <3> QED BY <2>3, <3>2
  <2>5. /\ ticking = TRUE /\ isActivated' = isActivated /\ ticking' = isActivated
    BY <1>5 DEF Progress, TypeOK
  <2>6. ~isActivated => g = 1
    <3>1. ASSUME ~isActivated PROVE junctions = Corridor(1)
      BY <2>5, <3>1 DEF CorridorInShape, DEFAULT_ROUTE_JUNCTIONS
    <3> QED BY <2>1, <2>2, <2>3, <3>1, GreenIsAt
  <2>7. ~isActivated' => junctions' = Corridor(2)
    BY <2>4, <2>5, <2>6
  <2> QED BY <2>4, <2>5, <2>7 DEF CorridorInShape
<1>6. CASE Next
  <2>1. CASE \/ Mount \/ Unmount \/ QueryServed \/ QueryAnswered \/ QueryFails
             \/ Receive \/ PushLost \/ OtherActivates \/ OtherDeactivates
    BY <2>1, <1>1, <1>2, <1>3
       DEF Mount, Unmount, QueryServed, QueryAnswered, QueryFails, Receive, PushLost,
           OtherActivates, OtherDeactivates, shown
  <2>2. ASSUME NEW c \in Clicks, handleToggleCorridor(c) \/ Answered(c) \/ Fails(c)
        PROVE  CorridorInShape'
    BY <2>2, <1>1, <1>2, <1>3 DEF handleToggleCorridor, Answered, Fails, shown
  <2>3. ASSUME NEW r \in wire, Serve(r) PROVE CorridorInShape'
    BY <2>3, <1>3 DEF Serve, shown
  <2> QED BY <1>4, <1>5, <1>6, <2>1, <2>2, <2>3 DEF Next
<1>7. CASE UNCHANGED vars
  BY <1>7, <1>3 DEF vars, shown
<1> QED BY <1>6, <1>7

\* However answers, messages and late ticks interleave, the route has the shape of a
\* corridor.
THEOREM CorridorCorrect == Spec => []CorridorInShape
<1>1. Init => CorridorInShape
  BY EmergencyPageAssumption DEF Init, CorridorInShape, DEFAULT_ROUTE_JUNCTIONS
<1>2. Spec => []TypeOK
  BY TypeCorrect
<1> QED BY <1>1, <1>2, ShapeStep, PTL DEF Spec

(***************************************************************************)
(* Retries: what each stage of a click says of its requests on the wire.   *)
(***************************************************************************)
RetryOf(c) ==
  /\ made[c] <= 2 /\ (lost[c] = 0 => made[c] <= 1)
  /\ \A r \in wire : r.click = c => made[c] <= 1
  /\ \A r, s \in wire : r.click = c /\ s.click = c /\ r.leg # s.leg => made[c] = 0
  /\ call[c].stage = "unused" =>
       /\ made[c] = 0
       /\ \A r \in wire : r.click # c
       /\ \A x \in replies : x.click # c
  /\ call[c].stage = "axios" =>
       /\ made[c] <= 1
       /\ \A r \in wire : r.click = c =>
            /\ r.leg = "axios" /\ made[c] = 0
            /\ \A x \in replies : x.click = c => x.leg # "axios"
  /\ call[c].stage = "fetch" => lost[c] >= 1
  /\ call[c].stage = "over" /\ lost[c] = 0 => \A r \in wire : r.click # c

RetryInv ==
  /\ \A r, s \in wire : r.click = s.click /\ r.leg = s.leg => r = s
  /\ \A c \in Clicks : RetryOf(c)

LEMMA RetryStep == TypeOK /\ RetryInv /\ [Next]_vars => RetryInv'
<1> SUFFICES ASSUME TypeOK, RetryInv, [Next]_vars PROVE RetryInv'
  OBVIOUS
<1>1. ASSUME UNCHANGED <<wire, replies, made, lost>>,
             \A c \in Clicks : call'[c].stage = call[c].stage
      PROVE  RetryInv'
  BY <1>1 DEF RetryInv, RetryOf
<1>2. CASE \/ Mount \/ QueryServed \/ QueryAnswered \/ QueryFails \/ Receive \/ PushLost
           \/ Progress \/ EffectRuns \/ OtherActivates \/ OtherDeactivates
           \/ UNCHANGED vars
  <2>1. UNCHANGED <<wire, replies, made, lost, call>>
    BY <1>2 DEF Mount, QueryServed, QueryAnswered, QueryFails, Receive, PushLost, Progress,
       EffectRuns, OtherActivates, OtherDeactivates, vars, server, network
  <2> QED BY <1>1, <2>1
<1>3. CASE Unmount
  <2>1. UNCHANGED <<wire, replies, made, lost>>
    BY <1>3 DEF Unmount, server, network
  <2>2. \A c \in Clicks : call'[c].stage = call[c].stage
    BY <1>3 DEF Unmount, TypeOK
  <2> QED BY <1>1, <2>1, <2>2
<1>4. ASSUME NEW c \in Clicks, handleToggleCorridor(c) PROVE RetryInv'
  <2>1. call[c].stage = "unused" /\ call'[c].stage = "axios"
        /\ \A d \in Clicks \ {c} : call'[d] = call[d]
    BY <1>4 DEF handleToggleCorridor, Unused, TypeOK
  <2> DEFINE sent == Message(c, "axios", Kind, IF isActivated THEN activeEventId ELSE 0)
  <2>2. wire' = wire \cup {sent} /\ sent.click = c /\ sent.leg = "axios"
    BY <1>4 DEF handleToggleCorridor, Sent, Message
  <2> HIDE DEF sent
  <2>3. UNCHANGED <<made, lost, replies>>
    BY <1>4 DEF handleToggleCorridor, server
  <2>4. RetryOf(c) /\ \A r \in wire : r.click # c
    BY <2>1 DEF RetryInv, RetryOf
  <2>5. RetryOf(c)'
    BY <2>1, <2>2, <2>3, <2>4 DEF RetryOf
  <2>6. \A d \in Clicks \ {c} : RetryOf(d)'
    BY <2>1, <2>2, <2>3 DEF RetryInv, RetryOf
  <2>7. \A r, s \in wire' : r.click = s.click /\ r.leg = s.leg => r = s
    BY <2>2, <2>4 DEF RetryInv
  <2> QED BY <2>5, <2>6, <2>7 DEF RetryInv
<1>5. ASSUME NEW c \in Clicks, Answered(c) PROVE RetryInv'
  <2>1. /\ call[c].stage \in {"axios", "fetch"}
        /\ \E x \in replies : x.click = c /\ x.leg = call[c].stage
        /\ replies' \subseteq replies /\ UNCHANGED <<wire, made, lost>>
    BY <1>5 DEF Answered, Waiting, server
  <2>2. call'[c].stage = "over" /\ \A d \in Clicks \ {c} : call'[d] = call[d]
    BY <1>5 DEF Answered, Finish, TypeOK
  <2>3. \A d \in Clicks \ {c} : RetryOf(d)'
    BY <2>1, <2>2 DEF RetryInv, RetryOf
  <2>4. lost[c] = 0 => \A r \in wire : r.click # c
    BY <2>1 DEF RetryInv, RetryOf
  <2>5. RetryOf(c)'
    BY <2>1, <2>2, <2>4 DEF RetryInv, RetryOf
  <2>6. \A r, s \in wire' : r.click = s.click /\ r.leg = s.leg => r = s
    BY <2>1 DEF RetryInv
  <2> QED BY <2>3, <2>5, <2>6 DEF RetryInv
<1>6. ASSUME NEW c \in Clicks, Fails(c) PROVE RetryInv'
  <2>1. /\ lost' = [lost EXCEPT ![c] = @ + 1] /\ replies' \subseteq replies
        /\ UNCHANGED made
    BY <1>6 DEF Fails, server
  <2>2. \A d \in Clicks \ {c} : call'[d] = call[d] /\ lost'[d] = lost[d]
    BY <1>6, <2>1 DEF Fails, Finish, TypeOK
  <2>3. lost'[c] = lost[c] + 1 /\ lost[c] \in Nat
    BY <2>1 DEF TypeOK
  <2>4. CASE call[c].stage = "axios"
    <3> DEFINE again == Request(c, "fetch")
    <3>1. wire' \subseteq wire \cup {again} /\ again.click = c /\ again.leg = "fetch"
      BY <1>6, <2>4 DEF Fails, Request, Message
    <3> HIDE DEF again
    <3>2. call'[c].stage = "fetch"
      BY <1>6, <2>4 DEF Fails, TypeOK
    <3>3. RetryOf(c)'
      BY <2>1, <2>3, <2>4, <3>1, <3>2 DEF RetryInv, RetryOf, TypeOK
    <3>4. \A d \in Clicks \ {c} : RetryOf(d)'
      BY <2>1, <2>2, <3>1 DEF RetryInv, RetryOf
    <3>5. \A r, s \in wire' : r.click = s.click /\ r.leg = s.leg => r = s
      BY <2>4, <3>1 DEF RetryInv, RetryOf
    <3> QED BY <3>3, <3>4, <3>5 DEF RetryInv
  <2>5. CASE call[c].stage = "fetch"
    <3>1. wire' \subseteq wire
      BY <1>6, <2>5 DEF Fails
    <3>2. call'[c].stage = "over"
      BY <1>6, <2>5 DEF Fails, Finish, TypeOK
    <3>3. RetryOf(c)'
      BY <2>1, <2>3, <2>5, <3>1, <3>2 DEF RetryInv, RetryOf, TypeOK
    <3>4. \A d \in Clicks \ {c} : RetryOf(d)'
      BY <2>1, <2>2, <3>1 DEF RetryInv, RetryOf
    <3> QED BY <3>1, <3>3, <3>4 DEF RetryInv
  <2> QED BY <1>6, <2>4, <2>5 DEF Fails, Waiting
<1>7. ASSUME NEW r \in wire, Serve(r) PROVE RetryInv'
  <2>1. wire' = wire \ {r} /\ UNCHANGED <<lost, call>>
    BY <1>7 DEF Serve
  <2>2. r.click \in Clicks
    BY DEF TypeOK
  <2>3. /\ made'[r.click] \in {made[r.click], made[r.click] + 1}
        /\ \A d \in Clicks \ {r.click} : made'[d] = made[d]
    BY <1>7, <2>2 DEF Serve, TypeOK
  <2>4. \A x \in replies' : x \in replies \/ (x.click = r.click /\ x.leg = call[r.click].stage)
    BY <1>7 DEF Serve
  <2>5. \A d \in Clicks \ {r.click} : RetryOf(d)'
    BY <2>1, <2>3, <2>4 DEF RetryInv, RetryOf
  <2>6. RetryOf(r.click)'
    <3> DEFINE c == r.click
    <3>1. /\ RetryOf(c) /\ made[c] \in Nat /\ lost[c] \in Nat /\ made[c] <= 1
          /\ call[c].stage # "unused"
      BY <2>2 DEF RetryInv, RetryOf, TypeOK
    <3>2. \A s \in wire' : s.click = c => made[c] = 0 /\ s.leg # r.leg
      BY <2>1, <2>2 DEF RetryInv, RetryOf
    <3>3. \A q, s \in wire' : q.click = c /\ s.click = c => q.leg = s.leg
      BY <2>1, <3>2 DEF TypeOK
    <3>4. lost[c] = 0 => made[c] = 0
      BY <3>1, <2>2 DEF RetryOf, TypeOK
    <3>5. call[c].stage = "axios" => made[c] = 0 /\ \A s \in wire' : s.click # c
      BY <2>1, <3>1, <3>2 DEF RetryOf
    <3> HIDE DEF c
    <3>6. made'[c] \in {made[c], made[c] + 1} /\ lost'[c] = lost[c] /\ call'[c] = call[c]
      BY <2>1, <2>3 DEF c
    <3> QED BY <2>1, <3>1, <3>2, <3>3, <3>4, <3>5, <3>6 DEF RetryOf, c
  <2>7. \A q, s \in wire' : q.click = s.click /\ q.leg = s.leg => q = s
    BY <2>1 DEF RetryInv
  <2> QED BY <2>5, <2>6, <2>7 DEF RetryInv
<1> QED BY <1>2, <1>3, <1>4, <1>5, <1>6, <1>7 DEF Next

\* A click never records more than two events, and two only after a failure.
THEOREM RetriesBounded == Spec => []RetryCreatesOneMore
<1>1. Init => RetryInv
  BY DEF Init, RetryInv, RetryOf, Unused
<1>2. TypeOK /\ RetryInv => RetryCreatesOneMore
  BY DEF TypeOK, RetryInv, RetryOf, RetryCreatesOneMore
<1>3. Spec => []TypeOK
  BY TypeCorrect
<1> QED BY <1>1, <1>2, <1>3, RetryStep, PTL DEF Spec

(***************************************************************************)
(* Careful operators: one thing is under way at a time, and what it brings *)
(* is what the server has.                                                 *)
(***************************************************************************)
Agrees == isActivated = (rows # {}) /\ (isActivated => rows = {activeEventId})
OneAtATime ==
  /\ query.at # "none" => /\ mounted /\ wire = {} /\ replies = {} /\ pushes = <<>>
                          /\ ~isActivated /\ \A c \in Clicks : ~Waiting(c)
  /\ wire # {} => replies = {} /\ pushes = <<>>
  /\ \A q, r \in wire : q = r
  /\ \A c \in Clicks : Waiting(c) => mounted /\ call[c].mine /\ call[c].stage = "axios"
NewsIsTrue ==
  /\ query.at = "answered" => query.event \in Newest
  /\ \A k \in 1..Len(pushes) :
       rows = IF pushes[k].type = "EMERGENCY_ACTIVATED" THEN {pushes[k].event} ELSE {}
  /\ \A r \in replies : rows = IF call[r.click].kind = "activate" THEN {r.event} ELSE {}
  /\ \A r \in wire : /\ rows = IF r.kind = "activate" THEN {} ELSE {r.event}
                     /\ r.kind = call[r.click].kind
  /\ \A d, e \in rows : d = e
CarefulInv == careful => OneAtATime /\ NewsIsTrue /\ (mounted /\ Quiet => Agrees)

\* What a page shows after news.
LEMMA NewsShown ==
  ASSUME TypeOK, EventsInv, rows' = rows
  PROVE  /\ \A e : ShowActive(e) /\ rows = {e} => Agrees'
         /\ ShowInactive /\ rows = {} => Agrees'
BY DEF ShowActive, ShowInactive, Agrees

\* Whether the operators are careful is chosen once.
LEMMA CarefulStays == [Next]_vars => UNCHANGED careful
<1> SUFFICES ASSUME [Next]_vars PROVE UNCHANGED careful
  OBVIOUS
<1>1. CASE Mount \/ Unmount \/ QueryServed \/ QueryAnswered \/ QueryFails
  BY <1>1 DEF Mount, Unmount, QueryServed, QueryAnswered, QueryFails
<1>2. CASE Receive \/ PushLost \/ Progress \/ EffectRuns
  BY <1>2 DEF Receive, PushLost, Progress, EffectRuns
<1>3. ASSUME NEW c \in Clicks, handleToggleCorridor(c) PROVE UNCHANGED careful
  BY <1>3 DEF handleToggleCorridor
<1>31. ASSUME NEW c \in Clicks, Answered(c) PROVE UNCHANGED careful
  BY <1>31 DEF Answered
<1>32. ASSUME NEW c \in Clicks, Fails(c) PROVE UNCHANGED careful
  BY <1>32 DEF Fails
<1>4. ASSUME NEW r \in wire, Serve(r) PROVE UNCHANGED careful
  BY <1>4 DEF Serve
<1>5. CASE OtherActivates \/ OtherDeactivates
  BY <1>5 DEF OtherActivates, OtherDeactivates
<1>6. CASE UNCHANGED vars
  BY <1>6 DEF vars
<1> QED BY <1>1, <1>2, <1>3, <1>31, <1>32, <1>4, <1>5, <1>6 DEF Next

LEMMA CarefulStep == TypeOK /\ EventsInv /\ CarefulInv /\ [Next]_vars => CarefulInv'
<1> SUFFICES ASSUME TypeOK, EventsInv, CarefulInv, [Next]_vars PROVE CarefulInv'
  OBVIOUS
<1>careful. careful' => careful
  <2>1. UNCHANGED careful
    BY CarefulStays
  <2> QED BY <2>1, Zenon
<1> SUFFICES ASSUME careful
             PROVE  OneAtATime' /\ NewsIsTrue' /\ (mounted' /\ Quiet' => Agrees')
  BY <1>careful, Zenon DEF CarefulInv
<1>0. /\ OneAtATime /\ NewsIsTrue /\ (mounted /\ Quiet => Agrees)
      /\ ~MayFail /\ (MayAct <=> Quiet)
  BY DEF CarefulInv, MayFail, MayAct
<1> DEFINE Goal == OneAtATime' /\ NewsIsTrue' /\ (mounted' /\ Quiet' => Agrees')
<1>1. ASSUME UNCHANGED <<rows, pushes, wire, replies, query, mounted, call, isActivated,
                         activeEventId>>
      PROVE  Goal
  BY <1>0, <1>1 DEF OneAtATime, NewsIsTrue, Agrees, Quiet, Waiting, Newest
<1>2. CASE Mount
  <2>1. /\ ~Quiet' /\ mounted' = TRUE /\ isActivated' = FALSE /\ query'.at = "asked"
        /\ UNCHANGED <<rows, pushes, wire, replies, call>> /\ Quiet
    BY <1>0, <1>2 DEF Mount, ShowInactive, Quiet, server, network
  <2> QED BY <1>0, <2>1 DEF OneAtATime, NewsIsTrue, Quiet, Waiting
<1>3. CASE Unmount
  <2>1. /\ mounted' = FALSE /\ query'.at = "none" /\ Quiet
        /\ UNCHANGED <<rows, pushes, wire, replies>>
        /\ \A c \in Clicks : call'[c].stage = call[c].stage /\ call'[c].kind = call[c].kind
    BY <1>0, <1>3 DEF Unmount, NoQuery, server, network, TypeOK
  <2> QED BY <1>0, <2>1 DEF OneAtATime, NewsIsTrue, Quiet, Waiting
<1>4. CASE QueryServed
  <2>1. /\ query.at = "asked" /\ query'.at = "answered" /\ query'.event \in Newest
        /\ UNCHANGED <<rows, pushes, wire, replies, mounted, call, isActivated>>
    BY <1>4 DEF QueryServed, server, network, shown
  <2> QED BY <1>0, <2>1 DEF OneAtATime, NewsIsTrue, Quiet, Waiting, Newest
<1>5. CASE QueryAnswered
  <2>1. /\ query.at = "answered" /\ query'.at = "none"
        /\ UNCHANGED <<rows, pushes, wire, replies, mounted, call>>
    BY <1>5 DEF QueryAnswered, NoQuery, server, network
  <2>2. Agrees'
    <3>1. CASE query.event # 0
      <4>1. ShowActive(query.event) /\ query.event \in rows
        BY <1>0, <1>5, <2>1, <3>1 DEF QueryAnswered, NewsIsTrue, Newest
      <4>2. rows = {query.event}
        BY <1>0, <4>1 DEF NewsIsTrue
      <4> QED BY <2>1, <4>1, <4>2, NewsShown
    <3>2. CASE query.event = 0
      <4>1. 0 \notin rows
        BY DEF EventsInv, TypeOK
      <4>2. rows = {} /\ ~isActivated
        BY <1>0, <2>1, <3>2, <4>1 DEF NewsIsTrue, OneAtATime, Newest
      <4>3. rows' = {} /\ isActivated' = isActivated
        BY <1>5, <2>1, <3>2, <4>2 DEF QueryAnswered, shown
      <4> QED BY <4>2, <4>3 DEF Agrees, TypeOK
    <3> QED BY <3>1, <3>2
  <2> QED BY <1>0, <2>1, <2>2 DEF OneAtATime, NewsIsTrue, Waiting
<1>6. CASE Receive
  <2> DEFINE n == Head(pushes)
  <2>1. /\ pushes # <<>> /\ pushes' = Tail(pushes)
        /\ UNCHANGED <<rows, wire, replies, mounted, query, call>>
    BY <1>6 DEF Receive, server
  <2>2. /\ n = pushes[1] /\ 1 \in 1..Len(pushes) /\ pushes \in Seq([type :
             {"EMERGENCY_ACTIVATED", "EMERGENCY_DEACTIVATED"}, event : EventIds])
    BY <2>1 DEF TypeOK
  <2>3. \A k \in 1..Len(pushes') : k + 1 \in 1..Len(pushes) /\ pushes'[k] = pushes[k + 1]
    BY <2>1, <2>2
  <2>4. rows = IF n.type = "EMERGENCY_ACTIVATED" THEN {n.event} ELSE {}
    BY <1>0, <2>2 DEF NewsIsTrue
  <2>5. mounted => Agrees'
    BY <1>6, <2>1, <2>4, NewsShown DEF Receive
  <2>6. wire = {} /\ query.at = "none"
    BY <1>0, <2>1 DEF OneAtATime
  <2>7. NewsIsTrue'
    BY <1>0, <2>1, <2>3, <2>6 DEF NewsIsTrue
  <2> QED BY <1>0, <2>1, <2>5, <2>6, <2>7 DEF OneAtATime, Waiting
<1>7. ASSUME NEW c \in Clicks, handleToggleCorridor(c) PROVE Goal
  <2> DEFINE event == IF isActivated THEN activeEventId ELSE 0
             sent == Message(c, "axios", Kind, event)
  <2>1. /\ Quiet /\ mounted /\ call' = [call EXCEPT ![c] = [stage |-> "axios", kind |-> Kind,
                                        event |-> event, mine |-> TRUE]]
        /\ wire' = wire \cup {sent}
        /\ UNCHANGED <<rows, pushes, replies, mounted, query>>
    BY <1>0, <1>7 DEF handleToggleCorridor, Sent, server
  <2>2. /\ wire' = {sent} /\ replies' = {} /\ pushes' = <<>> /\ query'.at = "none"
        /\ \A d \in Clicks : ~Waiting(d)
    BY <2>1 DEF Quiet
  <2>3. /\ call'[c].stage = "axios" /\ call'[c].mine = TRUE /\ call'[c].kind = Kind
        /\ \A d \in Clicks \ {c} : call'[d] = call[d]
    BY <2>1 DEF TypeOK
  <2>4. sent.click = c /\ sent.kind = Kind /\ sent.event = event
    BY DEF Message
  <2>5. Agrees
    BY <1>0, <2>1
  <2>6. rows = IF Kind = "activate" THEN {} ELSE {event}
    BY <2>5 DEF Agrees, Kind, TypeOK
  <2>7. ~Quiet'
    BY <2>2 DEF Quiet
  <2> HIDE DEF sent, event
  <2>8. OneAtATime'
    BY <2>1, <2>2, <2>3 DEF OneAtATime, Waiting
  <2>9. NewsIsTrue'
    BY <1>0, <2>1, <2>2, <2>3, <2>4, <2>6 DEF NewsIsTrue
  <2> QED BY <2>7, <2>8, <2>9
<1>8. ASSUME NEW c \in Clicks, Answered(c) PROVE Goal
  <2>1. /\ Waiting(c) /\ replies' \subseteq replies /\ replies # {}
        /\ call' = [call EXCEPT ![c].stage = "over"]
        /\ UNCHANGED <<rows, pushes, wire, mounted, query>>
    BY <1>8 DEF Answered, Finish, server
  <2>2. /\ call'[c].stage = "over" /\ \A d \in Clicks \ {c} : call'[d] = call[d]
        /\ \A d \in Clicks : call'[d].kind = call[d].kind
    BY <2>1 DEF TypeOK
  <2>3. wire = {} /\ query.at = "none" /\ mounted /\ call[c].mine
    BY <1>0, <2>1 DEF OneAtATime
  <2>4. Agrees'
    <3> PICK r \in replies :
          /\ r.click = c
          /\ IF ~call[c].mine THEN UNCHANGED shown
             ELSE IF call[c].kind = "activate" THEN ShowActive(r.event)
             ELSE ShowInactive
      BY <1>8 DEF Answered
    <3>1. rows = IF call[c].kind = "activate" THEN {r.event} ELSE {}
      BY <1>0 DEF NewsIsTrue
    <3> QED BY <2>1, <2>3, <3>1, NewsShown
  <2>5. NewsIsTrue'
    <3>1. \A r \in replies : r.click \in Clicks
      BY DEF TypeOK
    <3> QED BY <1>0, <2>1, <2>2, <2>3, <3>1 DEF NewsIsTrue
  <2> QED BY <1>0, <2>1, <2>2, <2>3, <2>4, <2>5 DEF OneAtATime, Waiting
<1>9. ASSUME NEW r \in wire, Serve(r) PROVE Goal
  <2>1. /\ wire' = {} /\ replies = {} /\ pushes = <<>> /\ query.at = "none"
        /\ UNCHANGED <<mounted, query, call>>
    BY <1>0, <1>9 DEF Serve, OneAtATime
  <2>2. r.kind \in {"activate", "deactivate"} /\ r.click \in Clicks
    BY DEF TypeOK
  <2>3. rows = (IF r.kind = "activate" THEN {} ELSE {r.event}) /\ r.kind = call[r.click].kind
    BY <1>0 DEF NewsIsTrue
  <2> DEFINE type == IF r.kind = "activate" THEN "EMERGENCY_ACTIVATED" ELSE "EMERGENCY_DEACTIVATED"
             Told(e) == /\ rows' = IF r.kind = "activate" THEN {e} ELSE {}
                        /\ pushes' = <<[type |-> type, event |-> e]>>
                        /\ \A x \in replies' : x.click = r.click /\ x.event = e
  <2>4. \E e \in Int : Told(e)
    <3>1. CASE r.kind = "activate"
      <4>1. /\ rows' = rows \cup {issued + 1} /\ issued' = issued + 1 /\ issued + 1 \in Int
            /\ pushes' = Append(pushes, [type |-> "EMERGENCY_ACTIVATED", event |-> issued + 1])
        BY <1>9, <3>1 DEF Serve, Record, TypeOK
      <4>2. \A x \in replies' : x.click = r.click /\ x.event = issued + 1
        BY <1>9, <2>1, <3>1, <4>1 DEF Serve
      <4>3. /\ rows' = {issued + 1}
            /\ pushes' = <<[type |-> "EMERGENCY_ACTIVATED", event |-> issued + 1]>>
        BY <2>1, <2>3, <3>1, <4>1
      <4>4. Told(issued + 1)
        BY <3>1, <4>2, <4>3
      <4> QED BY <4>1, <4>4
    <3>2. CASE r.kind = "deactivate"
      <4>1. /\ rows' = rows \ {r.event} /\ r.event \in Int
            /\ pushes' = Append(pushes, [type |-> "EMERGENCY_DEACTIVATED", event |-> r.event])
        BY <1>9, <3>2 DEF Serve, Complete, TypeOK
      <4>2. \A x \in replies' : x.click = r.click /\ x.event = r.event
        BY <1>9, <2>1, <3>2 DEF Serve
      <4>3. /\ rows' = {}
            /\ pushes' = <<[type |-> "EMERGENCY_DEACTIVATED", event |-> r.event]>>
        BY <2>1, <2>3, <3>2, <4>1
      <4>4. Told(r.event)
        BY <3>2, <4>2, <4>3
      <4> QED BY <4>1, <4>4
    <3> QED BY <2>2, <3>1, <3>2
  <2>41. PICK e \in Int : Told(e)
    BY <2>4
  <2>5. /\ Len(pushes') = 1 /\ pushes'[1].event = e
        /\ pushes'[1].type = "EMERGENCY_ACTIVATED" <=> r.kind = "activate"
    BY <2>41
  <2>6. ~Quiet'
    BY <2>5 DEF Quiet
  <2>7. OneAtATime'
    BY <1>0, <2>1 DEF OneAtATime, Waiting
  <2>8. \A k \in 1..Len(pushes') : k = 1
    BY <2>5
  <2>9. NewsIsTrue'
    BY <2>1, <2>3, <2>41, <2>5, <2>8 DEF NewsIsTrue
  <2> QED BY <2>6, <2>7, <2>9
<1>10. CASE OtherActivates \/ OtherDeactivates
  <2>1. /\ Quiet /\ UNCHANGED <<wire, replies, mounted, query, call>>
    BY <1>0, <1>10 DEF OtherActivates, OtherDeactivates
  <2> DEFINE Told(kind, e) ==
               /\ rows' = IF kind = "EMERGENCY_ACTIVATED" THEN {e} ELSE {}
               /\ pushes' = <<[type |-> kind, event |-> e]>>
  <2>2. \E kind \in {"EMERGENCY_ACTIVATED", "EMERGENCY_DEACTIVATED"}, e \in EventIds :
          Told(kind, e)
    <3>1. CASE OtherActivates
      <4>1. /\ rows = {} /\ pushes = <<>> /\ rows' = rows \cup {issued + 1}
            /\ pushes' = Append(pushes, [type |-> "EMERGENCY_ACTIVATED", event |-> issued + 1])
        BY <1>0, <2>1, <3>1 DEF OtherActivates, Record, Quiet
      <4>2. rows' = {issued + 1}
            /\ pushes' = <<[type |-> "EMERGENCY_ACTIVATED", event |-> issued + 1]>>
        BY <4>1
      <4>3. issued + 1 \in EventIds
        BY <3>1, EmergencyPageAssumption DEF OtherActivates, TypeOK, EventIds
      <4> QED BY <4>2, <4>3
    <3>2. CASE OtherDeactivates
      <4>1. PICK e \in rows : Complete(e)
        BY <3>2 DEF OtherDeactivates
      <4>2. /\ pushes = <<>> /\ rows' = rows \ {e} /\ e \in EventIds
            /\ pushes' = Append(pushes, [type |-> "EMERGENCY_DEACTIVATED", event |-> e])
        BY <2>1, <4>1 DEF Complete, Quiet, TypeOK
      <4>3. \A d \in rows : d = e
        BY <1>0 DEF NewsIsTrue
      <4>4. rows' = {} /\ pushes' = <<[type |-> "EMERGENCY_DEACTIVATED", event |-> e]>>
        BY <4>2, <4>3
      <4> QED BY <4>2, <4>4
    <3> QED BY <1>10, <3>1, <3>2
  <2>21. PICK kind \in {"EMERGENCY_ACTIVATED", "EMERGENCY_DEACTIVATED"}, e \in EventIds :
           Told(kind, e)
    BY <2>2
  <2>3. Len(pushes') = 1 /\ pushes'[1].event = e /\ pushes'[1].type = kind
    BY <2>21
  <2>4. ~Quiet' /\ \A k \in 1..Len(pushes') : k = 1
    BY <2>3 DEF Quiet
  <2>5. OneAtATime'
    BY <2>1 DEF OneAtATime, Waiting, Quiet
  <2>6. NewsIsTrue'
    BY <2>1, <2>21, <2>3, <2>4 DEF NewsIsTrue, Quiet
  <2> QED BY <2>4, <2>5, <2>6
<1>11. CASE Progress \/ EffectRuns \/ UNCHANGED vars
  BY <1>1, <1>11 DEF Progress, EffectRuns, vars, server, network, shown
<1>12. CASE QueryFails \/ PushLost \/ \E c \in Clicks : Fails(c)
  BY <1>0, <1>12 DEF QueryFails, PushLost, Fails
<1> QED BY <1>2, <1>3, <1>4, <1>5, <1>6, <1>7, <1>8, <1>9, <1>10, <1>11, <1>12 DEF Next

LEMMA CarefulInit == Init => CarefulInv
BY DEF Init, CarefulInv, OneAtATime, NewsIsTrue, Waiting, Unused, NoQuery

LEMMA CarefulAgrees == TypeOK /\ CarefulInv => CarefulOperatorsAgree
BY DEF CarefulInv, CarefulOperatorsAgree, Agrees, Newest, TypeOK, EventIds

(***************************************************************************)
(* The signal control page: types.                                         *)
(***************************************************************************)
SPlans == [junction : Junctions \cup {J0}, answer : Signals!Modes \cup {"asked"}]
SCalls == [stage : {"unused", "axios", "fetch", "over"}, kind : {"mode", "override"},
           target : Junctions \cup {J0}, mode : Signals!Modes]
SRequests == [command : Signals!Commands, leg : {"axios", "fetch"}]

\* A sequence without its k-th member.
LEMMA Removed ==
  ASSUME NEW S, NEW s \in Seq(S), NEW k \in 1..Len(s)
  PROVE  /\ Signals!RemoveAt(s, k) \in Seq(S)
         /\ Len(Signals!RemoveAt(s, k)) = Len(s) - 1
         /\ \A i \in 1..(Len(s) - 1) :
              Signals!RemoveAt(s, k)[i] = IF i < k THEN s[i] ELSE s[i + 1]
<1> DEFINE before == SubSeq(s, 1, k - 1)
           after == SubSeq(s, k + 1, Len(s))
<1>1. /\ before \in Seq(S) /\ Len(before) = k - 1
      /\ \A i \in 1..(k - 1) : before[i] = s[i]
  <2>1. \A i \in 1..(k - 1) : s[i] \in S
    OBVIOUS
  <2> QED BY <2>1, SubSeqProperties
<1>2. /\ after \in Seq(S) /\ Len(after) = Len(s) - k
      /\ \A i \in 1..(Len(s) - k) : after[i] = s[i + k]
  <2>1. \A i \in (k + 1)..Len(s) : s[i] \in S
    OBVIOUS
  <2>2. /\ after \in Seq(S)
        /\ Len(after) = IF k + 1 <= Len(s) THEN Len(s) - (k + 1) + 1 ELSE 0
        /\ \A i \in 1..(Len(s) - (k + 1) + 1) : after[i] = s[k + 1 + i - 1]
    BY <2>1, SubSeqProperties
  <2> QED BY <2>2
<1>3. Signals!RemoveAt(s, k) = before \o after
  BY DEF Signals!RemoveAt
<1> HIDE DEF before, after
<1>4. /\ before \o after \in Seq(S) /\ Len(before \o after) = Len(before) + Len(after)
      /\ \A i \in 1..(Len(before) + Len(after)) :
           (before \o after)[i] = IF i <= Len(before) THEN before[i] ELSE after[i - Len(before)]
  BY <1>1, <1>2, ConcatProperties
<1>5. ASSUME NEW i \in 1..(Len(s) - 1)
      PROVE  (before \o after)[i] = IF i < k THEN s[i] ELSE s[i + 1]
  <2>1. CASE i < k
    BY <1>1, <1>2, <1>4, <2>1
  <2>2. CASE ~(i < k)
    <3>1. i - (k - 1) \in 1..(Len(s) - k) /\ (i - (k - 1)) + k = i + 1
      BY <2>2
    <3>2. (before \o after)[i] = after[i - (k - 1)]
      BY <1>1, <1>2, <1>4, <2>2
    <3>3. after[i - (k - 1)] = s[i + 1]
      BY <1>2, <3>1
    <3> QED BY <2>2, <3>2, <3>3
  <2> QED BY <2>1, <2>2
<1> DEFINE rest == before \o after
<1>6. Signals!RemoveAt(s, k) = rest
  BY <1>3
<1>7. rest \in Seq(S)
  BY <1>4
<1>8. Len(rest) = Len(s) - 1
  <2>1. Len(rest) = Len(before) + Len(after)
    BY <1>4
  <2> HIDE DEF rest
  <2> QED BY <1>1, <1>2, <2>1
<1>9. \A i \in 1..(Len(s) - 1) : rest[i] = IF i < k THEN s[i] ELSE s[i + 1]
  BY <1>5
<1> HIDE DEF rest
<1> QED BY <1>6, <1>7, <1>8, <1>9

LEMMA SmallSequences ==
  ASSUME NEW S, NEW a \in S, NEW b \in S PROVE <<a, b>> \in Seq(S) /\ <<a>> \in Seq(S)
OBVIOUS

LEMMA SelectTypes ==
  ASSUME Signals!TypeOK, NEW j \in Junctions, Signals!Select(j)
  PROVE  selectedJunctionId' \in Junctions \cup {J0} /\ fetches' \in Seq(SPlans)
<1>1. Signals!Fetch(j) \in SPlans /\ fetches \in Seq(SPlans)
  BY DEF Signals!Fetch, SPlans, Signals!TypeOK
<1> QED BY <1>1 DEF Signals!Select

LEMMA SignalFinish ==
  ASSUME Signals!TypeOK, NEW c \in Signals!Commands, Signals!Finish(c)
  PROVE  sCall' \in [Signals!Commands -> SCalls] /\ lines' \in 5..MaxLines
<1>1. sCall \in [Signals!Commands -> SCalls] /\ lines \in 5..MaxLines
  BY DEF Signals!TypeOK, SCalls
<1>2. sCall' \in [Signals!Commands -> SCalls]
  BY <1>1 DEF Signals!Finish, SCalls
<1>3. lines' \in 5..MaxLines
  BY <1>1, SignalControlPageAssumption DEF Signals!Finish, Signals!More
<1> QED BY <1>2, <1>3

LEMMA SignalTypesInit == Signals!Init => Signals!TypeOK
<1> SUFFICES ASSUME Signals!Init PROVE Signals!TypeOK
  OBVIOUS
<1> USE EmergencyPageAssumption, SignalControlPageAssumption
<1>1. fetches \in Seq([junction : Junctions \cup {J0}, answer : Signals!Modes \cup {"asked"}])
  BY DEF Signals!Init
<1>2. sCall \in [Signals!Commands -> SCalls]
  BY DEF Signals!Init, Signals!Unused, SCalls, Signals!Modes
<1>3. /\ mode \in [Junctions -> Signals!Modes] /\ runs \in [Signals!Commands -> Nat]
      /\ sLost \in [Signals!Commands -> Nat] /\ activeControl \in Signals!Modes
      /\ sFaults \in 0..MaxFaults /\ lines \in 5..MaxLines
  BY DEF Signals!Init, Signals!Modes
<1> QED BY <1>1, <1>2, <1>3 DEF Signals!Init, Signals!TypeOK, SCalls

LEMMA SignalTypesStep == Signals!TypeOK /\ [Signals!Next]_signalsVars => Signals!TypeOK'
<1> SUFFICES ASSUME Signals!TypeOK, [Signals!Next]_signalsVars PROVE Signals!TypeOK'
  OBVIOUS
<1> USE EmergencyPageAssumption, SignalControlPageAssumption
<1>0. /\ fetches \in Seq(SPlans) /\ sCall \in [Signals!Commands -> SCalls]
      /\ sWire \subseteq SRequests /\ sReplies \subseteq SRequests
  BY DEF Signals!TypeOK, SPlans, SCalls, SRequests
<1>first. First \in Junctions /\ Fallback \in Junctions
  OBVIOUS
<1>1. CASE UNCHANGED signalsVars
  BY <1>1 DEF signalsVars, Signals!TypeOK
<1>2. CASE Signals!Mount
  <2>1. fetches' \in Seq(SPlans)
    <3>1. Signals!Fetch(J0) \in SPlans /\ Signals!Fetch(Signals!Preselected) \in SPlans
      BY <1>first DEF Signals!Fetch, SPlans, Signals!Preselected
    <3>2. \/ fetches' = <<Signals!Fetch(J0), Signals!Fetch(Signals!Preselected)>>
          \/ fetches' = <<Signals!Fetch(J0)>>
      BY <1>2 DEF Signals!Mount
    <3> QED BY <3>1, <3>2, SmallSequences
  <2>2. selectedJunctionId' \in Junctions \cup {J0} /\ list' \in {"none", "asked"}
        /\ sMounted' \in BOOLEAN
    BY <1>2, <1>first DEF Signals!Mount, Signals!Preselected, Signals!TypeOK
  <2> QED BY <1>2, <2>1, <2>2 DEF Signals!Mount, Signals!TypeOK, SPlans, Signals!server,
             Signals!network
<1>3. CASE Signals!Unmount
  <2>1. /\ fetches' = <<>> /\ activeControl' = "marl" /\ lines' = 5
        /\ sMounted' = FALSE /\ list' = "none"
    BY <1>3 DEF Signals!Unmount
  <2>2. fetches' \in Seq(SPlans) /\ activeControl' \in Signals!Modes /\ lines' \in 5..MaxLines
    BY <2>1 DEF Signals!Modes
  <2> QED BY <1>3, <2>1, <2>2 DEF Signals!Unmount, Signals!TypeOK, SPlans, Signals!server,
             Signals!network
<1>4. CASE Signals!StoreLoads
  <2>1. selectedJunctionId' \in Junctions \cup {J0} /\ fetches' \in Seq(SPlans)
    <3>1. CASE Signals!Select(First)
      BY <1>first, <3>1, SelectTypes
    <3>2. CASE UNCHANGED <<selectedJunctionId, fetches>>
      BY <1>0, <3>2 DEF Signals!TypeOK
    <3> QED BY <1>4, <3>1, <3>2 DEF Signals!StoreLoads, Signals!Preselected
  <2> QED BY <1>4, <2>1 DEF Signals!StoreLoads, Signals!TypeOK, SPlans, Signals!server,
             Signals!network
<1>5. CASE Signals!ListAnswered
  <2>1. selectedJunctionId' \in Junctions \cup {J0} /\ fetches' \in Seq(SPlans)
        /\ sFaults' \in 0..MaxFaults
    <3>1. CASE Signals!Select(First) /\ UNCHANGED sFaults
      BY <1>first, <3>1, SelectTypes DEF Signals!TypeOK
    <3>2. CASE Signals!MayFail /\ UNCHANGED <<selectedJunctionId, fetches>>
      BY <1>0, <3>2 DEF Signals!TypeOK, Signals!MayFail
    <3> QED BY <1>5, <3>1, <3>2 DEF Signals!ListAnswered, Signals!Preselected
  <2> QED BY <1>5, <2>1 DEF Signals!ListAnswered, Signals!TypeOK, SPlans, Signals!server,
             Signals!network
<1>6. CASE Signals!Telemetry
  <2>1. lines' \in 5..MaxLines
    BY <1>6 DEF Signals!Telemetry, Signals!More, Signals!TypeOK
  <2> QED BY <1>6, <2>1 DEF Signals!Telemetry, Signals!TypeOK, Signals!server,
             Signals!network, Signals!shown
<1>7. ASSUME NEW j \in Junctions, Signals!Choose(j) PROVE Signals!TypeOK'
  <2>1. selectedJunctionId' \in Junctions \cup {J0} /\ fetches' \in Seq(SPlans)
    BY <1>7, SelectTypes DEF Signals!Choose
  <2> QED BY <1>7, <2>1 DEF Signals!Choose, Signals!TypeOK, SPlans, Signals!server,
             Signals!network
<1>8. ASSUME NEW k \in DOMAIN fetches, Signals!PlanServed(k) PROVE Signals!TypeOK'
  <2>1. k \in 1..Len(fetches) /\ fetches[k] \in SPlans
    BY <1>0
  <2>11. fetches[k].junction \in Junctions \cup {J0}
    BY <2>1 DEF SPlans
  <2> DEFINE answer == mode[IF fetches[k].junction = J0 THEN Fallback ELSE fetches[k].junction]
  <2>2. answer \in Signals!Modes
    BY <1>first, <2>11 DEF Signals!TypeOK
  <2>3. fetches' = [fetches EXCEPT ![k].answer = answer]
    BY <1>8 DEF Signals!PlanServed
  <2> HIDE DEF answer
  <2>4. [fetches[k] EXCEPT !.answer = answer] \in SPlans
    BY <2>1, <2>2 DEF SPlans
  <2>5. fetches' = [fetches EXCEPT ![k] = [fetches[k] EXCEPT !.answer = answer]]
    BY <2>3
  <2>6. fetches' \in Seq(SPlans)
    BY <1>0, <2>1, <2>4, <2>5
  <2> QED BY <1>8, <2>6 DEF Signals!PlanServed, Signals!TypeOK, SPlans, Signals!server,
             Signals!network, Signals!shown
<1>9. ASSUME NEW k \in DOMAIN fetches, Signals!PlanArrives(k) PROVE Signals!TypeOK'
  <2>1. k \in 1..Len(fetches) /\ fetches[k] \in SPlans
    BY <1>0
  <2>2. fetches' \in Seq(SPlans)
    BY <1>0, <1>9, <2>1, Removed DEF Signals!PlanArrives
  <2>3. activeControl' \in Signals!Modes /\ activePlan' \in Junctions \cup {None}
    BY <1>9, <1>first, <2>1 DEF Signals!PlanArrives, SPlans
  <2> QED BY <1>9, <2>2, <2>3 DEF Signals!PlanArrives, Signals!TypeOK, SPlans,
             Signals!server, Signals!network
<1>10. ASSUME NEW k \in DOMAIN fetches, Signals!PlanFails(k) PROVE Signals!TypeOK'
  <2>1. k \in 1..Len(fetches)
    BY <1>0
  <2>2. fetches' \in Seq(SPlans)
    BY <1>0, <1>10, <2>1, Removed DEF Signals!PlanFails
  <2>3. sFaults' \in 0..MaxFaults
    BY <1>10 DEF Signals!PlanFails, Signals!MayFail, Signals!TypeOK
  <2> QED BY <1>10, <2>2, <2>3 DEF Signals!PlanFails, Signals!TypeOK, SPlans,
             Signals!server, Signals!network, Signals!shown
<1>11. ASSUME NEW c \in Signals!Commands, Signals!Answered(c) PROVE Signals!TypeOK'
  <2>1. sCall' \in [Signals!Commands -> SCalls] /\ lines' \in 5..MaxLines
    BY <1>11, SignalFinish DEF Signals!Answered
  <2>2. sReplies' \subseteq SRequests
    BY <1>0, <1>11 DEF Signals!Answered
  <2> QED BY <1>11, <2>1, <2>2 DEF Signals!Answered, Signals!TypeOK, SCalls, SRequests,
             Signals!server, Signals!shown
<1>12. ASSUME NEW c \in Signals!Commands, Signals!Fails(c) PROVE Signals!TypeOK'
  <2>1. sCall' \in [Signals!Commands -> SCalls] /\ lines' \in 5..MaxLines
    <3>1. CASE sCall[c].stage = "axios"
      <4>1. sCall' = [sCall EXCEPT ![c].stage = "fetch"] /\ UNCHANGED lines
        BY <1>12, <3>1 DEF Signals!Fails
      <4>2. lines' \in 5..MaxLines
        BY <4>1 DEF Signals!TypeOK
      <4>3. sCall' \in [Signals!Commands -> SCalls]
        BY <1>0, <4>1 DEF SCalls
      <4> QED BY <4>2, <4>3
    <3>2. CASE sCall[c].stage # "axios"
      BY <1>12, <3>2, SignalFinish DEF Signals!Fails
    <3> QED BY <3>1, <3>2
  <2>2. sWire' \subseteq sWire \cup {Signals!Request(c, "fetch")} /\ sReplies' \subseteq sReplies
    BY <1>12 DEF Signals!Fails
  <2>3. Signals!Request(c, "fetch") \in SRequests
    BY DEF Signals!Request, SRequests
  <2>4. sLost' \in [Signals!Commands -> Nat] /\ sFaults' \in 0..MaxFaults
    <3>1. /\ sLost' = [sLost EXCEPT ![c] = @ + 1]
          /\ sFaults < MaxFaults /\ sFaults' = sFaults + 1
      BY <1>12 DEF Signals!Fails, Signals!MayFail
    <3>2. sLost \in [Signals!Commands -> Nat] /\ sFaults \in 0..MaxFaults
      BY DEF Signals!TypeOK
    <3> QED BY <3>1, <3>2
  <2> QED BY <1>0, <1>12, <2>1, <2>2, <2>3, <2>4 DEF Signals!Fails, Signals!TypeOK, SCalls,
             SRequests, Signals!server, Signals!shown
<1>13. ASSUME NEW c \in Signals!Commands, NEW command \in SCalls, Signals!Send(c, command)
       PROVE  sCall' \in [Signals!Commands -> SCalls] /\ sWire' \subseteq SRequests
  BY <1>0, <1>13 DEF Signals!Send, Signals!Sent, Signals!Request, SRequests
<1>14. ASSUME NEW c \in OverrideClicks, Signals!handleOverride(c) PROVE Signals!TypeOK'
  <2>1. /\ c \in Signals!Commands
        /\ [stage |-> "axios", kind |-> "override", target |-> selectedJunctionId,
            mode |-> "marl"] \in SCalls
    BY DEF Signals!Commands, SCalls, Signals!TypeOK, Signals!Modes
  <2>2. sCall' \in [Signals!Commands -> SCalls] /\ sWire' \subseteq SRequests
    BY <1>13, <1>14, <2>1 DEF Signals!handleOverride
  <2> QED BY <1>14, <2>2 DEF Signals!handleOverride, Signals!TypeOK, SCalls, SRequests,
             Signals!server, Signals!shown
<1>15. ASSUME NEW c \in ModeClicks, NEW m \in Signals!Modes, Signals!handleModeChange(c, m)
       PROVE  Signals!TypeOK'
  <2>1. /\ c \in Signals!Commands
        /\ [stage |-> "axios", kind |-> "mode", target |-> selectedJunctionId,
            mode |-> m] \in SCalls
    BY DEF Signals!Commands, SCalls, Signals!TypeOK
  <2>2. sCall' \in [Signals!Commands -> SCalls] /\ sWire' \subseteq SRequests
    BY <1>13, <1>15, <2>1 DEF Signals!handleModeChange
  <2> QED BY <1>15, <2>2 DEF Signals!handleModeChange, Signals!TypeOK, SCalls, SRequests,
             Signals!server
<1>16. ASSUME NEW r \in sWire, Signals!Serve(r) PROVE Signals!TypeOK'
  <2>1. r.command \in Signals!Commands /\ sCall[r.command] \in SCalls
    BY <1>0 DEF SRequests
  <2>2. mode' \in [Junctions -> Signals!Modes]
    BY <1>16, <2>1 DEF Signals!Serve, SCalls, Signals!TypeOK
  <2>3. runs' \in [Signals!Commands -> Nat]
    BY <1>16, <2>1 DEF Signals!Serve, Signals!TypeOK
  <2>4. sReplies' \subseteq SRequests /\ sWire' \subseteq SRequests
    BY <1>0, <1>16 DEF Signals!Serve
  <2> QED BY <1>16, <2>2, <2>3, <2>4 DEF Signals!Serve, Signals!TypeOK, SRequests,
             Signals!shown
<1>17. ASSUME NEW j \in Junctions, NEW m \in Signals!Modes, Signals!OtherModeChange(j, m)
       PROVE  Signals!TypeOK'
  <2>1. mode' \in [Junctions -> Signals!Modes] /\ sFaults' \in 0..MaxFaults
    BY <1>17 DEF Signals!OtherModeChange, Signals!MayFail, Signals!TypeOK
  <2> QED BY <1>17, <2>1 DEF Signals!OtherModeChange, Signals!TypeOK, Signals!network,
             Signals!shown
<1> QED BY <1>1, <1>2, <1>3, <1>4, <1>5, <1>6, <1>7, <1>8, <1>9, <1>10, <1>11, <1>12,
           <1>14, <1>15, <1>16, <1>17 DEF Signals!Next

\* The types of the signal control page hold in every state of it.
THEOREM SignalTypesCorrect ==
  Signals!Init /\ [][Signals!Next]_signalsVars => []Signals!TypeOK
BY SignalTypesInit, SignalTypesStep, PTL

(***************************************************************************)
(* The signal control page: retries.                                       *)
(***************************************************************************)
SRetryOf(c) ==
  /\ runs[c] <= 2 /\ (sLost[c] = 0 => runs[c] <= 1)
  /\ \A r \in sWire : r.command = c => runs[c] <= 1
  /\ \A r, s \in sWire : r.command = c /\ s.command = c /\ r.leg # s.leg => runs[c] = 0
  /\ sCall[c].stage = "unused" =>
       /\ runs[c] = 0
       /\ \A r \in sWire : r.command # c
       /\ \A x \in sReplies : x.command # c
  /\ sCall[c].stage = "axios" =>
       /\ runs[c] <= 1
       /\ \A r \in sWire : r.command = c =>
            /\ r.leg = "axios" /\ runs[c] = 0
            /\ \A x \in sReplies : x.command = c => x.leg # "axios"
  /\ sCall[c].stage = "fetch" => sLost[c] >= 1
  /\ sCall[c].stage = "over" /\ sLost[c] = 0 => \A r \in sWire : r.command # c

SRetryInv ==
  /\ \A r, s \in sWire : r.command = s.command /\ r.leg = s.leg => r = s
  /\ \A c \in Signals!Commands : SRetryOf(c)

\* Steps that have nothing to do with a command.
LEMMA CommandsStay ==
  ASSUME \/ Signals!Mount \/ Signals!Unmount \/ Signals!StoreLoads \/ Signals!ListAnswered
         \/ Signals!Telemetry \/ UNCHANGED signalsVars
         \/ \E j \in Junctions : Signals!Choose(j)
         \/ \E k \in DOMAIN fetches :
              Signals!PlanServed(k) \/ Signals!PlanArrives(k) \/ Signals!PlanFails(k)
         \/ \E j \in Junctions, m \in Signals!Modes : Signals!OtherModeChange(j, m)
  PROVE  UNCHANGED <<runs, sWire, sReplies, sLost, sCall>>
<1>1. CASE Signals!Mount \/ Signals!Unmount \/ Signals!Telemetry
  BY <1>1 DEF Signals!Mount, Signals!Unmount, Signals!Telemetry, Signals!server,
     Signals!network
<1>2. CASE Signals!StoreLoads \/ Signals!ListAnswered
  BY <1>2 DEF Signals!StoreLoads, Signals!ListAnswered, Signals!server, Signals!network
<1>3. CASE UNCHANGED signalsVars
  BY <1>3 DEF signalsVars
<1>4. ASSUME NEW j \in Junctions, Signals!Choose(j)
      PROVE  UNCHANGED <<runs, sWire, sReplies, sLost, sCall>>
  BY <1>4 DEF Signals!Choose, Signals!server, Signals!network
<1>5. ASSUME NEW k \in DOMAIN fetches,
             Signals!PlanServed(k) \/ Signals!PlanArrives(k) \/ Signals!PlanFails(k)
      PROVE  UNCHANGED <<runs, sWire, sReplies, sLost, sCall>>
  BY <1>5 DEF Signals!PlanServed, Signals!PlanArrives, Signals!PlanFails, Signals!server,
     Signals!network
<1>6. ASSUME NEW j \in Junctions, NEW m \in Signals!Modes, Signals!OtherModeChange(j, m)
      PROVE  UNCHANGED <<runs, sWire, sReplies, sLost, sCall>>
  BY <1>6 DEF Signals!OtherModeChange, Signals!network
<1> QED BY <1>1, <1>2, <1>3, <1>4, <1>5, <1>6

LEMMA SRetryStep ==
  Signals!TypeOK /\ SRetryInv /\ [Signals!Next]_signalsVars => SRetryInv'
<1> SUFFICES ASSUME Signals!TypeOK, SRetryInv, [Signals!Next]_signalsVars PROVE SRetryInv'
  OBVIOUS
<1>0. /\ sCall \in [Signals!Commands -> SCalls] /\ sWire \subseteq SRequests
      /\ runs \in [Signals!Commands -> Nat] /\ sLost \in [Signals!Commands -> Nat]
  BY DEF Signals!TypeOK, SCalls, SRequests
<1>1. ASSUME UNCHANGED <<runs, sWire, sReplies, sLost, sCall>> PROVE SRetryInv'
  BY <1>1 DEF SRetryInv, SRetryOf
<1>2. ASSUME NEW c \in Signals!Commands, NEW command \in SCalls, Signals!Send(c, command),
             command.stage = "axios", UNCHANGED <<runs, sReplies, sLost>>
      PROVE  SRetryInv'
  <2> DEFINE sent == Signals!Request(c, "axios")
  <2>1. /\ sCall[c].stage = "unused" /\ sCall'[c].stage = "axios"
        /\ \A d \in Signals!Commands \ {c} : sCall'[d] = sCall[d]
    BY <1>0, <1>2 DEF Signals!Send, Signals!Unused
  <2>2. sWire' = sWire \cup {sent} /\ sent.command = c /\ sent.leg = "axios"
    BY <1>2 DEF Signals!Send, Signals!Sent, Signals!Request
  <2> HIDE DEF sent
  <2>3. SRetryOf(c) /\ \A r \in sWire : r.command # c
    BY <2>1 DEF SRetryInv, SRetryOf
  <2>4. SRetryOf(c)'
    BY <1>0, <1>2, <2>1, <2>2, <2>3 DEF SRetryOf
  <2>5. \A d \in Signals!Commands \ {c} : SRetryOf(d)'
    BY <1>2, <2>1, <2>2 DEF SRetryInv, SRetryOf
  <2>6. \A r, s \in sWire' : r.command = s.command /\ r.leg = s.leg => r = s
    BY <2>2, <2>3 DEF SRetryInv
  <2> QED BY <2>4, <2>5, <2>6 DEF SRetryInv
<1>3. ASSUME NEW c \in OverrideClicks, Signals!handleOverride(c) PROVE SRetryInv'
  <2>1. /\ c \in Signals!Commands
        /\ [stage |-> "axios", kind |-> "override", target |-> selectedJunctionId,
            mode |-> "marl"] \in SCalls
    BY DEF Signals!Commands, SCalls, Signals!TypeOK, Signals!Modes
  <2> QED BY <1>2, <1>3, <2>1 DEF Signals!handleOverride, Signals!server
<1>4. ASSUME NEW c \in ModeClicks, NEW m \in Signals!Modes, Signals!handleModeChange(c, m)
      PROVE  SRetryInv'
  <2>1. /\ c \in Signals!Commands
        /\ [stage |-> "axios", kind |-> "mode", target |-> selectedJunctionId,
            mode |-> m] \in SCalls
    BY DEF Signals!Commands, SCalls, Signals!TypeOK
  <2> QED BY <1>2, <1>4, <2>1 DEF Signals!handleModeChange, Signals!server
<1>5. ASSUME NEW c \in Signals!Commands, Signals!Answered(c) PROVE SRetryInv'
  <2> DEFINE answer == Signals!Request(c, sCall[c].stage)
  <2>1. /\ Signals!Waiting(c) /\ answer \in sReplies /\ sReplies' \subseteq sReplies
        /\ answer.command = c /\ answer.leg = sCall[c].stage
        /\ UNCHANGED <<runs, sWire, sLost>>
    BY <1>5 DEF Signals!Answered, Signals!Request, Signals!server
  <2>2. sCall'[c].stage = "over" /\ \A d \in Signals!Commands \ {c} : sCall'[d] = sCall[d]
    BY <1>0, <1>5 DEF Signals!Answered, Signals!Finish
  <2> HIDE DEF answer
  <2>3. sLost[c] = 0 => \A r \in sWire : r.command # c
    <3>1. sCall[c].stage \in {"axios", "fetch"}
      BY <2>1 DEF Signals!Waiting
    <3> QED BY <1>0, <2>1, <3>1 DEF SRetryInv, SRetryOf
  <2>4. SRetryOf(c)'
    BY <2>1, <2>2, <2>3 DEF SRetryInv, SRetryOf
  <2>5. \A d \in Signals!Commands \ {c} : SRetryOf(d)'
    BY <2>1, <2>2 DEF SRetryInv, SRetryOf
  <2>6. \A r, s \in sWire' : r.command = s.command /\ r.leg = s.leg => r = s
    BY <2>1 DEF SRetryInv
  <2> QED BY <2>4, <2>5, <2>6 DEF SRetryInv
<1>6. ASSUME NEW c \in Signals!Commands, Signals!Fails(c) PROVE SRetryInv'
  <2>1. /\ sLost' = [sLost EXCEPT ![c] = @ + 1] /\ sReplies' \subseteq sReplies
        /\ UNCHANGED runs /\ Signals!Waiting(c)
    BY <1>6 DEF Signals!Fails, Signals!server
  <2>2. \A d \in Signals!Commands \ {c} : sCall'[d] = sCall[d] /\ sLost'[d] = sLost[d]
    BY <1>0, <1>6, <2>1 DEF Signals!Fails, Signals!Finish
  <2>3. sLost'[c] = sLost[c] + 1 /\ sLost[c] \in Nat
    BY <1>0, <2>1
  <2>4. CASE sCall[c].stage = "axios"
    <3> DEFINE again == Signals!Request(c, "fetch")
    <3>1. /\ sWire' \subseteq sWire \cup {again} /\ again.command = c /\ again.leg = "fetch"
      BY <1>6, <2>4 DEF Signals!Fails, Signals!Request
    <3> HIDE DEF again
    <3>2. sCall'[c].stage = "fetch"
      <4>1. sCall' = [sCall EXCEPT ![c].stage = "fetch"]
        BY <1>6, <2>4 DEF Signals!Fails
      <4> QED BY <1>0, <4>1 DEF SCalls
    <3>3. SRetryOf(c)'
      BY <1>0, <2>1, <2>3, <2>4, <3>1, <3>2 DEF SRetryInv, SRetryOf
    <3>4. \A d \in Signals!Commands \ {c} : SRetryOf(d)'
      BY <2>1, <2>2, <3>1 DEF SRetryInv, SRetryOf
    <3>5. \A r, s \in sWire' : r.command = s.command /\ r.leg = s.leg => r = s
      BY <2>4, <3>1 DEF SRetryInv, SRetryOf
    <3> QED BY <3>3, <3>4, <3>5 DEF SRetryInv
  <2>5. CASE sCall[c].stage = "fetch"
    <3>1. sWire' \subseteq sWire
      BY <1>6, <2>5 DEF Signals!Fails
    <3>2. sCall'[c].stage = "over"
      <4>1. sCall' = [sCall EXCEPT ![c].stage = "over"]
        BY <1>6, <2>5 DEF Signals!Fails, Signals!Finish
      <4> QED BY <1>0, <4>1 DEF SCalls
    <3>3. SRetryOf(c)'
      BY <1>0, <2>1, <2>3, <2>5, <3>1, <3>2 DEF SRetryInv, SRetryOf
    <3>4. \A d \in Signals!Commands \ {c} : SRetryOf(d)'
      BY <2>1, <2>2, <3>1 DEF SRetryInv, SRetryOf
    <3> QED BY <3>1, <3>3, <3>4 DEF SRetryInv
  <2> QED BY <2>1, <2>4, <2>5 DEF Signals!Waiting
<1>7. ASSUME NEW r \in sWire, Signals!Serve(r) PROVE SRetryInv'
  <2> DEFINE c == r.command
  <2>1. sWire' = sWire \ {r} /\ UNCHANGED <<sLost, sCall>>
    BY <1>7 DEF Signals!Serve
  <2>2. c \in Signals!Commands
    BY <1>0 DEF SRequests
  <2>3. /\ runs'[c] = runs[c] + 1 /\ runs[c] \in Nat /\ sLost[c] \in Nat
        /\ \A d \in Signals!Commands \ {c} : runs'[d] = runs[d]
    BY <1>0, <1>7, <2>2 DEF Signals!Serve
  <2>4. \A x \in sReplies' : x \in sReplies \/ (x.command = c /\ x.leg = sCall[c].stage)
    BY <1>7 DEF Signals!Serve
  <2>5. \A d \in Signals!Commands \ {c} : SRetryOf(d)'
    BY <2>1, <2>3, <2>4 DEF SRetryInv, SRetryOf
  <2>6. SRetryOf(c)'
    <3>1. SRetryOf(c) /\ runs[c] <= 1 /\ sCall[c].stage # "unused"
      BY <2>2 DEF SRetryInv, SRetryOf
    <3>2. \A s \in sWire' : s.command = c => runs[c] = 0 /\ s.leg # r.leg
      BY <2>1, <2>2 DEF SRetryInv, SRetryOf
    <3>3. \A q, s \in sWire' : q.command = c /\ s.command = c => q.leg = s.leg
      BY <1>0, <2>1, <3>2 DEF SRequests
    <3>4. sLost[c] = 0 => runs[c] = 0
      BY <1>0, <2>2, <3>1 DEF SRetryOf, SCalls
    <3>5. sCall[c].stage = "axios" => runs[c] = 0 /\ \A s \in sWire' : s.command # c
      BY <2>1, <3>1, <3>2 DEF SRetryOf
    <3> HIDE DEF c
    <3> QED BY <2>1, <2>3, <3>1, <3>2, <3>3, <3>4, <3>5 DEF SRetryOf
  <2>7. \A q, s \in sWire' : q.command = s.command /\ q.leg = s.leg => q = s
    BY <2>1 DEF SRetryInv
  <2> QED BY <2>5, <2>6, <2>7 DEF SRetryInv
<1> QED BY <1>1, <1>3, <1>4, <1>5, <1>6, <1>7, CommandsStay DEF Signals!Next

LEMMA SRetryInit == Signals!Init => SRetryInv
BY DEF Signals!Init, SRetryInv, SRetryOf, Signals!Unused

LEMMA SRetryBounds == Signals!TypeOK /\ SRetryInv => Signals!RunsOnceMore
BY DEF Signals!TypeOK, SRetryInv, SRetryOf, Signals!RunsOnceMore

(***************************************************************************)
(* The signal control page: one operator who waits for quiet.  While a     *)
(* command is under way nothing else is; the newest plan asked for is the  *)
(* selected junction's, and what was answered is still so.                 *)
(***************************************************************************)
Plan(j) == IF j = J0 THEN Fallback ELSE j

SUnderWay == \/ sWire # {} \/ sReplies # {}
             \/ \E c \in Signals!Commands : Signals!Waiting(c)
SOne ==
  /\ SUnderWay => sMounted /\ store /\ list = "none" /\ fetches = <<>>
  /\ \A q, r \in sWire : q = r
  /\ \A r \in sWire : sCall[r.command].target = selectedJunctionId
  /\ ~sMounted => selectedJunctionId = J0 /\ fetches = <<>> /\ list = "none"
SMode ==
  /\ \A r \in sWire : sCall[r.command].kind = "mode" =>
                        sCall[r.command].mode = activeControl
  /\ sMounted /\ fetches = <<>> =>
       \/ activeControl = mode[Plan(selectedJunctionId)]
       \/ \E r \in sWire : sCall[r.command].kind = "mode"
SShown ==
  sMounted =>
    /\ store => selectedJunctionId # J0
    /\ fetches = <<>> => activePlan = Plan(selectedJunctionId)
    /\ fetches # <<>> => fetches[Len(fetches)].junction = selectedJunctionId
    /\ \A k \in 1..Len(fetches) : fetches[k].answer # "asked" =>
         fetches[k].answer = mode[Plan(fetches[k].junction)]
STargets == \A c \in Signals!Commands : sCall[c] # Signals!Unused => sCall[c].target # J0

SCarefulInv == sCareful => SOne /\ SMode /\ SShown /\ STargets

\* Whether the operator waits for quiet is chosen once.
LEMMA SCarefulStays == [Signals!Next]_signalsVars => UNCHANGED sCareful
<1> SUFFICES ASSUME [Signals!Next]_signalsVars PROVE UNCHANGED sCareful
  OBVIOUS
<1>1. CASE \/ Signals!Mount \/ Signals!Unmount \/ Signals!StoreLoads
           \/ Signals!ListAnswered \/ Signals!Telemetry
  BY <1>1 DEF Signals!Mount, Signals!Unmount, Signals!StoreLoads, Signals!ListAnswered,
     Signals!Telemetry
<1>2. ASSUME NEW j \in Junctions, Signals!Choose(j) PROVE UNCHANGED sCareful
  BY <1>2 DEF Signals!Choose
<1>3. ASSUME NEW k \in DOMAIN fetches,
             Signals!PlanServed(k) \/ Signals!PlanArrives(k) \/ Signals!PlanFails(k)
      PROVE  UNCHANGED sCareful
  BY <1>3 DEF Signals!PlanServed, Signals!PlanArrives, Signals!PlanFails
<1>4. ASSUME NEW c \in Signals!Commands, Signals!Answered(c) \/ Signals!Fails(c)
      PROVE  UNCHANGED sCareful
  BY <1>4 DEF Signals!Answered, Signals!Fails
<1>5. ASSUME NEW c \in OverrideClicks, Signals!handleOverride(c) PROVE UNCHANGED sCareful
  BY <1>5 DEF Signals!handleOverride
<1>6. ASSUME NEW c \in ModeClicks, NEW m \in Signals!Modes, Signals!handleModeChange(c, m)
      PROVE  UNCHANGED sCareful
  BY <1>6 DEF Signals!handleModeChange
<1>7. ASSUME NEW r \in sWire, Signals!Serve(r) PROVE UNCHANGED sCareful
  BY <1>7 DEF Signals!Serve
<1>8. ASSUME NEW j \in Junctions, NEW m \in Signals!Modes, Signals!OtherModeChange(j, m)
      PROVE  UNCHANGED sCareful
  BY <1>8 DEF Signals!OtherModeChange
<1>9. CASE UNCHANGED signalsVars
  BY <1>9 DEF signalsVars
<1> QED BY <1>1, <1>2, <1>3, <1>4, <1>5, <1>6, <1>7, <1>8, <1>9 DEF Signals!Next

\* Selecting a junction of the list while no command is under way.
LEMMA Selected ==
  ASSUME Signals!TypeOK, SOne, SMode, SShown, ~SUnderWay, sMounted, sMounted',
         NEW j \in Junctions, Signals!Select(j),
         UNCHANGED <<mode, sWire, sReplies, sCall, activePlan, activeControl>>
  PROVE  SOne' /\ SMode' /\ SShown'
<1>1. j # J0 /\ selectedJunctionId' = j
  BY SignalControlPageAssumption DEF Signals!Select
<1>2. sWire = {} /\ sWire' = {} /\ sReplies' = {}
      /\ \A c \in Signals!Commands : ~Signals!Waiting(c)
  BY DEF SUnderWay
<1>3. ~SUnderWay'
  BY <1>2 DEF SUnderWay, Signals!Waiting
<1>4. SOne'
  BY <1>2, <1>3 DEF SOne
<1>5. CASE j = selectedJunctionId
  <2>1. UNCHANGED <<fetches, selectedJunctionId>>
    BY <1>1, <1>5 DEF Signals!Select
  <2> QED BY <1>1, <1>2, <1>4, <1>5, <2>1 DEF SMode, SShown
<1>6. CASE j # selectedJunctionId
  <2>1. fetches' = Append(fetches, Signals!Fetch(j)) /\ fetches \in Seq(SPlans)
    BY <1>6 DEF Signals!Select, Signals!TypeOK, SPlans
  <2>2. Signals!Fetch(j).junction = j /\ Signals!Fetch(j).answer = "asked"
    BY DEF Signals!Fetch
  <2> DEFINE f == Signals!Fetch(j)
  <2> HIDE DEF f
  <2>3. fetches' = Append(fetches, f) /\ f.junction = j /\ f.answer = "asked"
    BY <2>1, <2>2 DEF f
  <2>4. /\ Len(fetches') = Len(fetches) + 1 /\ Len(fetches) \in Nat
        /\ fetches'[Len(fetches')] = f
        /\ \A k \in 1..Len(fetches) : fetches'[k] = fetches[k]
    BY <2>1, <2>3
  <2>5. fetches' # <<>>
    BY <2>4
  <2>6. ASSUME NEW k \in 1..Len(fetches'), fetches'[k].answer # "asked"
        PROVE  fetches'[k].answer = mode[Plan(fetches'[k].junction)]
    <3>1. k \in 1..Len(fetches) /\ fetches'[k] = fetches[k]
      BY <2>3, <2>4, <2>6
    <3> QED BY <2>6, <3>1 DEF SShown
  <2>7. SShown'
    BY <1>1, <2>3, <2>4, <2>5, <2>6 DEF SShown, Plan
  <2>8. SMode'
    BY <1>2, <2>5 DEF SMode
  <2> QED BY <1>4, <2>7, <2>8
<1> QED BY <1>5, <1>6

LEMMA SCarefulStep ==
  Signals!TypeOK /\ SCarefulInv /\ [Signals!Next]_signalsVars => SCarefulInv'
<1> SUFFICES ASSUME Signals!TypeOK, SCarefulInv, [Signals!Next]_signalsVars
             PROVE  SCarefulInv'
  OBVIOUS
<1>careful. sCareful' => sCareful
  <2>1. UNCHANGED sCareful
    BY SCarefulStays
  <2> QED BY <2>1, Zenon
<1> SUFFICES ASSUME sCareful PROVE SOne' /\ SMode' /\ SShown' /\ STargets'
  BY <1>careful, Zenon DEF SCarefulInv
<1>0. /\ SOne /\ SMode /\ SShown /\ STargets
      /\ ~Signals!MayFail /\ (Signals!MayAct => sMounted /\ store /\ Signals!Quiet)
  BY DEF SCarefulInv, Signals!MayFail, Signals!MayAct
<1>types. /\ fetches \in Seq(SPlans) /\ sCall \in [Signals!Commands -> SCalls]
          /\ sWire \subseteq SRequests /\ sReplies \subseteq SRequests
          /\ mode \in [Junctions -> Signals!Modes]
  BY DEF Signals!TypeOK, SPlans, SCalls, SRequests
<1>lists. First \in Junctions /\ Fallback \in Junctions /\ J0 \notin Junctions
  BY SignalControlPageAssumption
<1>quiet. Signals!Quiet => ~SUnderWay /\ list = "none" /\ fetches = <<>> /\ sWire = {}
                           /\ sReplies = {}
  BY DEF Signals!Quiet, SUnderWay
<1>calls. UNCHANGED sCall => STargets'
  BY <1>0 DEF STargets
<1>idle. UNCHANGED <<sWire, sReplies, sCall>> => (SUnderWay' <=> SUnderWay)
  BY DEF SUnderWay, Signals!Waiting
<1>1. ASSUME UNCHANGED <<sWire, sReplies, sCall, mode, sMounted, store, list, fetches,
                         selectedJunctionId, activePlan, activeControl>>
      PROVE  SOne' /\ SMode' /\ SShown'
  BY <1>0, <1>1, <1>idle DEF SOne, SMode, SShown, Plan
<1>2. CASE Signals!Mount
  <2>1. /\ Signals!Quiet /\ ~sMounted /\ sMounted' = TRUE
        /\ UNCHANGED <<sWire, sReplies, sCall, mode, store, activePlan, activeControl>>
    BY <1>2 DEF Signals!Mount, Signals!server, Signals!network
  <2>2. ~SUnderWay' /\ sWire' = {} /\ fetches = <<>> /\ list = "none"
        /\ selectedJunctionId = J0
    BY <1>0, <2>1, <1>quiet, <1>idle DEF SOne
  <2>3. SOne'
    BY <2>1, <2>2 DEF SOne
  <2> DEFINE a == Signals!Fetch(J0)
             b == Signals!Fetch(First)
  <2>4. a.junction = J0 /\ a.answer = "asked" /\ b.junction = First /\ b.answer = "asked"
    BY DEF Signals!Fetch
  <2>5. /\ store => selectedJunctionId' = First /\ fetches' = <<a, b>>
        /\ ~store => selectedJunctionId' = J0 /\ fetches' = <<a>>
    BY <1>2, <2>2 DEF Signals!Mount, Signals!Preselected
  <2> HIDE DEF a, b
  <2>6. fetches' # <<>> /\ fetches'[Len(fetches')].junction = selectedJunctionId'
        /\ \A k \in 1..Len(fetches') : fetches'[k].answer = "asked"
    <3>1. CASE store
      <4>1. fetches' = <<a, b>> /\ selectedJunctionId' = First
        BY <2>5, <3>1
      <4>2. Len(fetches') = 2 /\ fetches'[1] = a /\ fetches'[2] = b /\ fetches' # <<>>
        BY <4>1
      <4>3. \A k \in 1..Len(fetches') : k = 1 \/ k = 2
        BY <4>2
      <4> QED BY <2>4, <4>1, <4>2, <4>3
    <3>2. CASE ~store
      <4>1. fetches' = <<a>> /\ selectedJunctionId' = J0
        BY <2>5, <3>2
      <4>2. Len(fetches') = 1 /\ fetches'[1] = a /\ fetches' # <<>>
        BY <4>1
      <4>3. \A k \in 1..Len(fetches') : k = 1
        BY <4>2
      <4> QED BY <2>4, <4>1, <4>2, <4>3
    <3> QED BY <3>1, <3>2
  <2>7. store' => selectedJunctionId' # J0
    BY <2>1, <2>5, <1>lists
  <2>8. SMode' /\ SShown'
    BY <2>2, <2>6, <2>7 DEF SMode, SShown
  <2> QED BY <2>1, <2>3, <2>8, <1>calls
<1>3. CASE Signals!Unmount
  <2>1. /\ Signals!Quiet /\ sMounted' = FALSE /\ selectedJunctionId' = J0
        /\ fetches' = <<>> /\ list' = "none" /\ UNCHANGED <<sWire, sReplies, sCall>>
    BY <1>3 DEF Signals!Unmount, Signals!server, Signals!network
  <2>2. ~SUnderWay' /\ sWire' = {}
    BY <2>1, <1>quiet, <1>idle
  <2> QED BY <2>1, <2>2, <1>calls DEF SOne, SMode, SShown
<1>4. CASE Signals!StoreLoads
  <2>1. /\ ~store /\ store' = TRUE
        /\ UNCHANGED <<sWire, sReplies, sCall, mode, sMounted, list, activePlan,
                       activeControl>>
    BY <1>4 DEF Signals!StoreLoads, Signals!server, Signals!network
  <2>2. ~SUnderWay
    BY <1>0, <2>1 DEF SOne
  <2>3. CASE sMounted /\ selectedJunctionId = J0
    <3>1. Signals!Select(First)
      BY <1>4, <2>3 DEF Signals!StoreLoads, Signals!Preselected
    <3> QED BY <1>0, <2>1, <2>2, <2>3, <3>1, <1>lists, <1>calls, Selected
  <2>4. CASE ~(sMounted /\ selectedJunctionId = J0)
    <3>1. UNCHANGED <<selectedJunctionId, fetches>>
      BY <1>4, <2>4 DEF Signals!StoreLoads
    <3>2. SOne'
      BY <1>0, <2>1, <2>2, <3>1, <1>idle DEF SOne
    <3>3. SMode' /\ SShown'
      BY <1>0, <2>1, <2>4, <3>1 DEF SMode, SShown, Plan
    <3> QED BY <2>1, <3>2, <3>3, <1>calls
  <2> QED BY <2>3, <2>4
<1>5. CASE Signals!ListAnswered
  <2>1. /\ list = "asked" /\ Signals!Select(First)
        /\ UNCHANGED <<sWire, sReplies, sCall, mode, sMounted, activePlan, activeControl>>
    BY <1>0, <1>5 DEF Signals!ListAnswered, Signals!Preselected, Signals!server,
       Signals!network
  <2>2. ~SUnderWay /\ sMounted
    BY <1>0, <2>1 DEF SOne
  <2> QED BY <1>0, <2>1, <2>2, <1>lists, <1>calls, Selected
<1>6. CASE Signals!Telemetry \/ UNCHANGED signalsVars
  <2>1. UNCHANGED <<sWire, sReplies, sCall, mode, sMounted, store, list, fetches,
                    selectedJunctionId, activePlan, activeControl>>
    BY <1>6 DEF Signals!Telemetry, signalsVars, Signals!server, Signals!network,
       Signals!shown
  <2> QED BY <1>1, <2>1, <1>calls
<1>7. ASSUME NEW j \in Junctions, Signals!Choose(j)
      PROVE  SOne' /\ SMode' /\ SShown' /\ STargets'
  <2>1. /\ Signals!Quiet /\ sMounted /\ Signals!Select(j)
        /\ UNCHANGED <<sWire, sReplies, sCall, mode, sMounted, activePlan, activeControl>>
    BY <1>0, <1>7 DEF Signals!Choose, Signals!server, Signals!network
  <2> QED BY <1>0, <2>1, <1>quiet, <1>calls, Selected
<1>8. ASSUME NEW k \in DOMAIN fetches, Signals!PlanServed(k)
      PROVE  SOne' /\ SMode' /\ SShown' /\ STargets'
  <2> DEFINE answer == mode[Plan(fetches[k].junction)]
  <2>1. /\ k \in 1..Len(fetches) /\ fetches[k] \in SPlans
    BY <1>types
  <2>2. /\ fetches' = [fetches EXCEPT ![k].answer = answer]
        /\ UNCHANGED <<sWire, sReplies, sCall, mode, sMounted, store, list,
                       selectedJunctionId, activePlan, activeControl>>
    BY <1>8 DEF Signals!PlanServed, Plan, Signals!server, Signals!network, Signals!shown
  <2> HIDE DEF answer
  <2>3. /\ Len(fetches') = Len(fetches)
        /\ \A i \in 1..Len(fetches) : i # k => fetches'[i] = fetches[i]
        /\ fetches'[k] = [fetches[k] EXCEPT !.answer = answer]
    BY <1>types, <2>1, <2>2
  <2>4. fetches'[k].junction = fetches[k].junction /\ fetches'[k].answer = answer
    BY <2>1, <2>3 DEF SPlans
  <2>5. fetches # <<>> /\ fetches' # <<>> /\ Len(fetches) \in 1..Len(fetches)
    BY <1>types, <2>1, <2>3
  <2>6. \A i \in 1..Len(fetches) : fetches'[i].junction = fetches[i].junction
    BY <2>3, <2>4
  <2>7. ~SUnderWay /\ sMounted
    BY <1>0, <2>5 DEF SOne
  <2>8. SOne'
    BY <1>0, <2>2, <2>7, <1>idle DEF SOne
  <2>9. SMode'
    BY <1>0, <2>2, <2>5 DEF SMode
  <2>10. ASSUME NEW i \in 1..Len(fetches'), fetches'[i].answer # "asked"
         PROVE  fetches'[i].answer = mode[Plan(fetches'[i].junction)]
    <3>1. CASE i = k
      BY <2>4, <3>1 DEF answer
    <3>2. CASE i # k
      BY <1>0, <2>3, <2>7, <2>10, <3>2 DEF SShown
    <3> QED BY <3>1, <3>2
  <2>11. fetches'[Len(fetches')].junction = selectedJunctionId
    BY <1>0, <2>3, <2>5, <2>6, <2>7 DEF SShown
  <2>12. SShown'
    BY <1>0, <2>2, <2>5, <2>7, <2>10, <2>11 DEF SShown, Plan
  <2> QED BY <2>2, <2>8, <2>9, <2>12, <1>calls
<1>9. ASSUME NEW k \in DOMAIN fetches, Signals!PlanArrives(k)
      PROVE  SOne' /\ SMode' /\ SShown' /\ STargets'
  <2>1. /\ k = 1 /\ 1 \in 1..Len(fetches) /\ fetches[1].answer # "asked"
        /\ activePlan' = Plan(fetches[1].junction) /\ activeControl' = fetches[1].answer
        /\ fetches' = Signals!RemoveAt(fetches, 1)
        /\ UNCHANGED <<sWire, sReplies, sCall, mode, sMounted, store, list,
                       selectedJunctionId>>
    BY <1>9, <1>types DEF Signals!PlanArrives, Plan, Signals!server, Signals!network
  <2>2. /\ fetches' \in Seq(SPlans) /\ Len(fetches') = Len(fetches) - 1
        /\ \A i \in 1..(Len(fetches) - 1) : fetches'[i] = fetches[i + 1]
    <3>1. \A i \in 1..(Len(fetches) - 1) :
            Signals!RemoveAt(fetches, 1)[i] = IF i < 1 THEN fetches[i] ELSE fetches[i + 1]
      BY <1>types, <2>1, Removed
    <3>2. \A i \in 1..(Len(fetches) - 1) : ~(i < 1)
      OBVIOUS
    <3>3. /\ fetches' \in Seq(SPlans) /\ Len(fetches') = Len(fetches) - 1
      BY <1>types, <2>1, Removed
    <3> QED BY <2>1, <3>1, <3>2, <3>3
  <2>3. fetches # <<>> /\ Len(fetches) \in Nat
    BY <1>types, <2>1
  <2>4. ~SUnderWay /\ sMounted /\ sWire = {}
    BY <1>0, <2>3 DEF SOne, SUnderWay
  <2>5. SOne'
    BY <1>0, <2>1, <2>4, <1>idle DEF SOne
  <2>6. /\ activeControl' = mode[Plan(fetches[1].junction)]
        /\ fetches[Len(fetches)].junction = selectedJunctionId
        /\ store => selectedJunctionId # J0
    BY <1>0, <2>1, <2>3, <2>4 DEF SShown
  <2>7. fetches' = <<>> => fetches[1].junction = selectedJunctionId
    <3>1. fetches' = <<>> => Len(fetches) = 1
      BY <2>2, <2>3
    <3> QED BY <2>6, <3>1
  <2>8. SMode'
    BY <2>1, <2>4, <2>6, <2>7 DEF SMode, Plan
  <2>9. fetches' # <<>> => fetches'[Len(fetches')].junction = selectedJunctionId
    <3>1. ASSUME fetches' # <<>> PROVE fetches'[Len(fetches')] = fetches[Len(fetches)]
      <4>1. Len(fetches) - 1 \in 1..(Len(fetches) - 1)
        BY <2>2, <2>3, <3>1
      <4>2. fetches'[Len(fetches) - 1] = fetches[(Len(fetches) - 1) + 1]
        BY <2>2, <4>1
      <4> QED BY <2>2, <2>3, <4>2
    <3> QED BY <2>6, <3>1
  <2>10. ASSUME NEW i \in 1..Len(fetches'), fetches'[i].answer # "asked"
         PROVE  fetches'[i].answer = mode[Plan(fetches'[i].junction)]
    <3>1. i \in 1..(Len(fetches) - 1) /\ i + 1 \in 1..Len(fetches)
      BY <2>2, <2>3
    <3>2. fetches'[i] = fetches[i + 1]
      BY <2>2, <3>1
    <3> QED BY <1>0, <2>4, <2>10, <3>1, <3>2 DEF SShown
  <2>11. SShown'
    BY <2>1, <2>6, <2>7, <2>9, <2>10 DEF SShown, Plan
  <2> QED BY <2>1, <2>5, <2>8, <2>11, <1>calls
<1>10. ASSUME NEW c \in Signals!Commands, NEW command \in SCalls, Signals!Send(c, command),
              command.stage = "axios", command.target = selectedJunctionId,
              command.kind = "mode" => command.mode = activeControl',
              command.kind # "mode" => UNCHANGED activeControl,
              UNCHANGED <<sReplies, mode, sMounted, store, list, fetches,
                          selectedJunctionId, activePlan>>
       PROVE  SOne' /\ SMode' /\ SShown' /\ STargets'
  <2> DEFINE sent == Signals!Request(c, "axios")
  <2>1. /\ sMounted /\ store /\ Signals!Quiet /\ sCall' = [sCall EXCEPT ![c] = command]
        /\ sWire' = sWire \cup {sent} /\ sent.command = c
    BY <1>0, <1>10 DEF Signals!Send, Signals!Sent, Signals!Request
  <2> HIDE DEF sent
  <2>2. /\ sCall'[c] = command /\ \A d \in Signals!Commands \ {c} : sCall'[d] = sCall[d]
    BY <1>types, <2>1
  <2>3. sWire' = {sent} /\ list = "none" /\ fetches = <<>>
    BY <2>1, <1>quiet
  <2>4. selectedJunctionId # J0
    BY <1>0, <2>1 DEF SShown
  <2>5. SOne'
    BY <1>10, <2>1, <2>2, <2>3 DEF SOne
  <2>6. SMode'
    <3>1. CASE command.kind = "mode"
      BY <1>10, <2>1, <2>2, <2>3, <3>1 DEF SMode
    <3>2. CASE command.kind # "mode"
      <4>1. activeControl' = mode'[Plan(selectedJunctionId')]
        BY <1>0, <1>10, <2>1, <2>3, <3>2, <1>quiet DEF SMode, Plan
      <4> QED BY <2>1, <2>2, <2>3, <3>2, <4>1 DEF SMode
    <3> QED BY <3>1, <3>2
  <2>7. SShown'
    BY <1>0, <1>10, <2>1, <2>3 DEF SShown, Plan
  <2>8. STargets'
    BY <1>0, <1>10, <2>2, <2>4 DEF STargets
  <2> QED BY <2>5, <2>6, <2>7, <2>8
<1>11. ASSUME NEW c \in OverrideClicks, Signals!handleOverride(c)
       PROVE  SOne' /\ SMode' /\ SShown' /\ STargets'
  <2> DEFINE command == [stage |-> "axios", kind |-> "override",
                         target |-> selectedJunctionId, mode |-> "marl"]
  <2>1. /\ c \in Signals!Commands /\ command \in SCalls /\ command.stage = "axios"
        /\ command.kind = "override" /\ command.target = selectedJunctionId
    BY DEF Signals!Commands, SCalls, Signals!TypeOK, Signals!Modes
  <2>2. /\ Signals!Send(c, command)
        /\ UNCHANGED <<sReplies, mode, sMounted, store, list, fetches,
                       selectedJunctionId, activePlan, activeControl>>
    BY <1>11 DEF Signals!handleOverride, Signals!server, Signals!shown
  <2> HIDE DEF command
  <2> QED BY <1>10, <2>1, <2>2
<1>12. ASSUME NEW c \in ModeClicks, NEW m \in Signals!Modes, Signals!handleModeChange(c, m)
       PROVE  SOne' /\ SMode' /\ SShown' /\ STargets'
  <2> DEFINE command == [stage |-> "axios", kind |-> "mode",
                         target |-> selectedJunctionId, mode |-> m]
  <2>1. /\ c \in Signals!Commands /\ command \in SCalls /\ command.stage = "axios"
        /\ command.kind = "mode" /\ command.target = selectedJunctionId
        /\ command.mode = m
    BY DEF Signals!Commands, SCalls, Signals!TypeOK
  <2>2. /\ Signals!Send(c, command) /\ activeControl' = m
        /\ UNCHANGED <<sReplies, mode, sMounted, store, list, fetches,
                       selectedJunctionId, activePlan>>
    BY <1>12 DEF Signals!handleModeChange, Signals!server
  <2> HIDE DEF command
  <2> QED BY <1>10, <2>1, <2>2
<1>13. ASSUME NEW c \in Signals!Commands, Signals!Answered(c)
       PROVE  SOne' /\ SMode' /\ SShown' /\ STargets'
  <2>1. /\ Signals!Waiting(c) /\ sReplies' \subseteq sReplies
        /\ sCall' = [sCall EXCEPT ![c].stage = "over"]
        /\ UNCHANGED <<sWire, mode, sMounted, store, list, fetches,
                       selectedJunctionId, activePlan, activeControl>>
    BY <1>13 DEF Signals!Answered, Signals!Finish, Signals!server, Signals!shown
  <2>2. \A d \in Signals!Commands : /\ sCall'[d].target = sCall[d].target
                                    /\ sCall'[d].kind = sCall[d].kind
                                    /\ sCall'[d].mode = sCall[d].mode
                                    /\ d # c => sCall'[d] = sCall[d]
    BY <1>types, <2>1 DEF SCalls
  <2>3. SUnderWay
    BY <2>1 DEF SUnderWay
  <2>4. \A r \in sWire : r.command \in Signals!Commands
    BY <1>types DEF SRequests
  <2>5. SOne'
    BY <1>0, <2>1, <2>2, <2>3, <2>4 DEF SOne
  <2>6. SMode' /\ SShown'
    BY <1>0, <2>1, <2>2, <2>4 DEF SMode, SShown, Plan
  <2>7. STargets'
    <3>1. sCall[c] # Signals!Unused
      BY <2>1 DEF Signals!Waiting, Signals!Unused
    <3> QED BY <1>0, <2>2, <3>1 DEF STargets
  <2> QED BY <2>5, <2>6, <2>7
<1>14. ASSUME NEW r \in sWire, Signals!Serve(r)
       PROVE  SOne' /\ SMode' /\ SShown' /\ STargets'
  <2>1. /\ sWire' = {} /\ SUnderWay /\ sMounted /\ store /\ list = "none" /\ fetches = <<>>
        /\ sCall[r.command].target = selectedJunctionId
        /\ UNCHANGED <<sCall, sMounted, store, list, fetches, selectedJunctionId, activePlan,
                       activeControl>>
    BY <1>0, <1>14 DEF Signals!Serve, SOne, SUnderWay, Signals!shown
  <2>2. r.command \in Signals!Commands /\ sCall[r.command] \in SCalls
    BY <1>types DEF SRequests
  <2>3. selectedJunctionId # J0 /\ selectedJunctionId \in Junctions
    BY <1>0, <2>1 DEF SShown, Signals!TypeOK
  <2>4. activeControl = mode'[Plan(selectedJunctionId)]
    <3>1. CASE sCall[r.command].kind = "mode"
      <4>1. mode' = [mode EXCEPT ![selectedJunctionId] = sCall[r.command].mode]
        BY <1>14, <2>1, <2>3, <3>1 DEF Signals!Serve
      <4>2. mode'[selectedJunctionId] = activeControl
        BY <1>0, <2>3, <3>1, <4>1, <1>types DEF SMode
      <4> QED BY <2>3, <4>2 DEF Plan
    <3>2. CASE sCall[r.command].kind # "mode"
      <4>1. mode' = mode
        BY <1>14, <3>2 DEF Signals!Serve
      <4>2. \A q \in sWire : sCall[q.command].kind # "mode"
        BY <1>0, <3>2 DEF SOne
      <4> QED BY <1>0, <2>1, <4>1, <4>2 DEF SMode
    <3> QED BY <3>1, <3>2
  <2>5. SOne'
    BY <1>0, <2>1 DEF SOne
  <2>6. SMode'
    BY <2>1, <2>4 DEF SMode, Plan
  <2>7. SShown'
    <3>1. fetches' = <<>> /\ Len(fetches') = 0
      BY <2>1
    <3> QED BY <1>0, <2>1, <3>1 DEF SShown, Plan
  <2> QED BY <2>1, <2>5, <2>6, <2>7, <1>calls
<1>15. CASE \/ \E k \in DOMAIN fetches : Signals!PlanFails(k)
            \/ \E c \in Signals!Commands : Signals!Fails(c)
            \/ \E j \in Junctions, m \in Signals!Modes : Signals!OtherModeChange(j, m)
  BY <1>0, <1>15 DEF Signals!PlanFails, Signals!Fails, Signals!OtherModeChange
<1> QED BY <1>2, <1>3, <1>4, <1>5, <1>6, <1>7, <1>8, <1>9, <1>11, <1>12, <1>13, <1>14,
           <1>15 DEF Signals!Next

LEMMA SCarefulInit == Signals!Init => SCarefulInv
<1> SUFFICES ASSUME Signals!Init PROVE SOne /\ SMode /\ SShown /\ STargets
  BY DEF SCarefulInv
<1>1. ~SUnderWay
  BY DEF Signals!Init, SUnderWay, Signals!Waiting, Signals!Unused
<1> QED BY <1>1 DEF Signals!Init, SOne, SMode, SShown, STargets, Signals!Unused

LEMMA SCarefulSees ==
  Signals!TypeOK /\ SCarefulInv =>
    Signals!CarefulSeesSelected /\ Signals!CarefulHitsJunction
<1> SUFFICES ASSUME Signals!TypeOK, SCarefulInv
             PROVE  Signals!CarefulSeesSelected /\ Signals!CarefulHitsJunction
  OBVIOUS
<1>1. Signals!CarefulSeesSelected
  <2> SUFFICES ASSUME sCareful, sMounted, store, Signals!Quiet
               PROVE  /\ selectedJunctionId # J0
                      /\ activePlan = selectedJunctionId
                      /\ activeControl = mode[selectedJunctionId]
    BY DEF Signals!CarefulSeesSelected
  <2>1. SMode /\ SShown /\ fetches = <<>> /\ sWire = {}
    BY DEF SCarefulInv, Signals!Quiet
  <2>2. selectedJunctionId # J0 /\ activePlan = Plan(selectedJunctionId)
    BY <2>1 DEF SShown
  <2>3. activeControl = mode[Plan(selectedJunctionId)]
    BY <2>1 DEF SMode
  <2> QED BY <2>2, <2>3 DEF Plan
<1>2. Signals!CarefulHitsJunction
  BY DEF SCarefulInv, STargets, Signals!CarefulHitsJunction
<1> QED BY <1>1, <1>2

(***************************************************************************)
(* Both pages.                                                             *)
(***************************************************************************)
PagesInv ==
  /\ TypeOK /\ EventsInv /\ CarefulInv
  /\ Signals!TypeOK /\ SRetryInv /\ SCarefulInv

LEMMA PagesStep == PagesInv /\ [PagesNext]_pagesVars => PagesInv'
<1> SUFFICES ASSUME PagesInv, [PagesNext]_pagesVars PROVE PagesInv'
  OBVIOUS
<1>1. [Next]_vars
  BY DEF PagesNext, pagesVars
<1>2. [Signals!Next]_signalsVars
  BY DEF PagesNext, pagesVars
<1>3. TypeOK' /\ EventsInv' /\ CarefulInv'
  BY <1>1, TypeStep, CarefulStep DEF PagesInv
<1>4. Signals!TypeOK' /\ SRetryInv' /\ SCarefulInv'
  BY <1>2, SignalTypesStep, SRetryStep, SCarefulStep DEF PagesInv
<1> QED BY <1>3, <1>4 DEF PagesInv

\* Operators who wait until all is quiet see what the server has and command what they
\* see, on either page, and no command of the signal control page runs more than once
\* more than it should: whatever the number of clicks, junctions and plans under way.
THEOREM CarefulCorrect == PagesSpec => []CarefulOperators
<1>1. PagesInit => PagesInv
  BY TypeInit, CarefulInit, SignalTypesInit, SRetryInit, SCarefulInit DEF PagesInit, PagesInv
<1>2. PagesInv => CarefulOperators
  BY CarefulAgrees, SRetryBounds, SCarefulSees DEF PagesInv, CarefulOperators
<1> QED BY <1>1, <1>2, PagesStep, PTL DEF PagesSpec
=============================================================================
