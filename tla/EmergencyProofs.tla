--------------------------- MODULE EmergencyProofs ---------------------------
(***************************************************************************)
(* Proofs about EmergencyCorridor, for any number of workers, events and   *)
(* deactivation requests and any set of faults.                            *)
(***************************************************************************)
EXTENDS EmergencyCorridor, SequenceTheorems, TLAPS

-----------------------------------------------------------------------------
(* Command sequences *)

\* The two commands the API sends are commands, and each names its event.
LEMMA CommandTypes ==
  ASSUME NEW e \in Events
  PROVE  /\ Activated(e) \in Command /\ Deactivated(e) \in Command
         /\ \A x \in Events : Activated(e) = Activated(x) => e = x
         /\ \A x \in Events : Deactivated(e) # Activated(x)
BY DEF Command, Activated, Deactivated

\* Writing one end of a command sequence adds no activation but the one written.
LEMMA CommandsAppend ==
  ASSUME NEW s \in Seq(Command), NEW m \in Command
  PROVE  /\ Append(s, m) \in Seq(Command)
         /\ \A e \in ActivationsIn(Append(s, m)) : e \in ActivationsIn(s) \/ m = Activated(e)
BY DEF ActivationsIn

\* Reading the first command adds no activation.
LEMMA CommandsTail ==
  ASSUME NEW s \in Seq(Command), s # <<>>
  PROVE  /\ Head(s) \in Command /\ Tail(s) \in Seq(Command)
         /\ \A e \in Events : Head(s) = Activated(e) => e \in ActivationsIn(s)
         /\ ActivationsIn(Tail(s)) \subseteq ActivationsIn(s)
<1>1. /\ Head(s) \in Command /\ Tail(s) \in Seq(Command) /\ Head(s) = s[1]
      /\ 1 \in DOMAIN s /\ \A i \in DOMAIN Tail(s) : i + 1 \in DOMAIN s /\ Tail(s)[i] = s[i + 1]
  OBVIOUS
<1> QED BY <1>1 DEF ActivationsIn

\* No command, no activation.
LEMMA CommandsNone == <<>> \in Seq(Command) /\ ActivationsIn(<<>>) = {}
BY DEF ActivationsIn
-----------------------------------------------------------------------------
(* Types *)

\* The order of the activation handler's steps.
LEMMA AfterStepValues ==
  /\ AfterStep["memory"] = "commit"
  /\ AfterStep["commit"] = "publish"
  /\ AfterStep["publish"] = "answered"
BY DEF AfterStep

\* TypeOK is an invariant of EmergencyCorridor.
THEOREM TypeCorrect == Spec => []TypeOK
<1>1. ASSUME Init PROVE TypeOK
  <2>1. act \in [Events -> [pc : {"new", "commit", "publish"} \cup Over,
                           worker : Workers \cup {NoWorker}]]
    BY <1>1 DEF Init
  <2>2. /\ deact \in [Deacts -> [pc : {"new"} \cup Running \cup Over,
                                worker : Workers \cup {NoWorker},
                                event : Events \cup {NoEvent},
                                seen : BOOLEAN,
                                stored : BOOLEAN]]
        /\ \A d \in Deacts : deact[d].pc = "new"
    BY <1>1 DEF Init, NewDeact
  <2>3. /\ active \in [Workers -> SUBSET Events]
        /\ row \in [Events -> {"none", "ACTIVE", "COMPLETED"}]
        /\ announced \subseteq Events /\ link \in BOOLEAN /\ mode \in BOOLEAN
        /\ orderly \in BOOLEAN
    BY <1>1 DEF Init
  <2> QED BY <1>1, <2>1, <2>2, <2>3, CommandsNone DEF Init, TypeOK
<1>2. ASSUME TypeOK, [Next]_vars
      PROVE  TypeOK'
  <2> USE <1>2 DEF TypeOK, Over, Running
  <2>1. ASSUME NEW w \in Workers, NEW e \in Events, activate_begin(e, w)
        PROVE  TypeOK'
    BY <2>1, AfterStepValues DEF activate_begin, bridge
  <2>2. ASSUME NEW e \in Events, activate_commit(e)
        PROVE  TypeOK'
    BY <2>2, AfterStepValues DEF activate_commit, bridge
  <2>3. ASSUME NEW e \in Events, activate_commit_fails(e)
        PROVE  TypeOK'
    BY <2>3, AfterStepValues DEF activate_commit_fails, CommitFailure, bridge
  <2>4. ASSUME NEW e \in Events, activate_publish(e)
        PROVE  TypeOK'
    <3>1. wire' \in Seq(Command)
      BY <2>4, CommandTypes, CommandsAppend DEF activate_publish, Publish
    <3> QED BY <2>4, <3>1, AfterStepValues DEF activate_publish
  <2>5. ASSUME NEW e \in Events, activate_publish_fails(e)
        PROVE  TypeOK'
    BY <2>5, AfterStepValues DEF activate_publish_fails, bridge
  <2>6. ASSUME NEW w \in Workers, NEW e \in Events, NEW d \in Deacts, deactivate_begin(d, e, w)
        PROVE  TypeOK'
    <3> DEFINE k == Known(e)
    <3>1. k \in BOOLEAN
      BY DEF Known
    <3>2. /\ deact' = [deact EXCEPT ![d] = [pc |-> "commit", worker |-> w, event |-> e,
                                           seen |-> k, stored |-> FALSE]]
          /\ UNCHANGED <<active, row, act, announced, bridge, orderly>>
      BY <2>6 DEF deactivate_begin
    <3> HIDE DEF k
    <3> QED BY <3>1, <3>2 DEF bridge
  <2>7. ASSUME NEW d \in Deacts, deactivate_commit(d)
        PROVE  TypeOK'
    <3>2. deact' = [deact EXCEPT ![d] = [@ EXCEPT !.pc = "memory", !.stored = TRUE]]
      BY <2>7 DEF deactivate_commit
    <3>4. row' \in [Events -> {"none", "ACTIVE", "COMPLETED"}]
      BY <2>7 DEF deactivate_commit, RowAfterDeactivate
    <3>5. UNCHANGED <<active, act, announced, bridge, orderly>> /\ deact[d].pc = "commit"
      BY <2>7 DEF deactivate_commit
    <3> QED BY <3>2, <3>4, <3>5 DEF bridge
  <2>8. ASSUME NEW d \in Deacts, deactivate_commit_fails(d)
        PROVE  TypeOK'
    BY <2>8 DEF deactivate_commit_fails, bridge
  <2>9. ASSUME NEW d \in Deacts, deactivate_memory(d)
        PROVE  TypeOK'
    BY <2>9 DEF deactivate_memory, MemoryAfterDeactivate, bridge
  <2>10. ASSUME NEW d \in Deacts, deactivate_publish(d)
        PROVE  TypeOK'
    <3>1. wire' \in Seq(Command)
      BY <2>10, CommandTypes, CommandsAppend DEF deactivate_publish, Publish
    <3> QED BY <2>10, <3>1 DEF deactivate_publish
  <2>11. ASSUME NEW d \in Deacts, deactivate_publish_fails(d)
        PROVE  TypeOK'
    BY <2>11 DEF deactivate_publish_fails, bridge
  <2>12. ASSUME NEW w \in Workers, worker_restart(w)
        PROVE  TypeOK'
    <3>1. \A e \in Events : act'[e] = act[e] \/ act'[e] = [act[e] EXCEPT !.pc = "failed"]
      BY <2>12 DEF worker_restart
    <3>2. \A d \in Deacts :
            \/ deact'[d] = deact[d]
            \/ deact[d].pc \in Running /\ deact'[d] = [deact[d] EXCEPT !.pc = "failed"]
      BY <2>12 DEF worker_restart
    <3>3. act' \in [Events -> [pc : {"new", "commit", "publish"} \cup Over,
                              worker : Workers \cup {NoWorker}]]
      BY <2>12, <3>1 DEF worker_restart
    <3>4. /\ deact' \in [Deacts -> [pc : {"new"} \cup Running \cup Over,
                                   worker : Workers \cup {NoWorker},
                                   event : Events \cup {NoEvent},
                                   seen : BOOLEAN,
                                   stored : BOOLEAN]]
          /\ \A d \in Deacts : deact'[d].pc # "new" => deact'[d].event \in Events
      <4>1. deact' = [d \in Deacts |-> deact'[d]]
        BY <2>12 DEF worker_restart
      <4>2. ASSUME NEW d \in Deacts
            PROVE  /\ deact'[d] \in [pc : {"new"} \cup Running \cup Over,
                                     worker : Workers \cup {NoWorker},
                                     event : Events \cup {NoEvent},
                                     seen : BOOLEAN,
                                     stored : BOOLEAN]
                   /\ deact'[d].pc # "new" => deact'[d].event \in Events
        <5>1. CASE deact'[d] = deact[d]
          BY <5>1
        <5>2. CASE deact[d].pc \in Running /\ deact'[d] = [deact[d] EXCEPT !.pc = "failed"]
          BY <5>2
        <5> QED BY <3>2, <5>1, <5>2
      <4> QED BY <4>1, <4>2
    <3> QED BY <2>12, <3>3, <3>4 DEF worker_restart, bridge
  <2>13. CASE listener_drops
    BY <2>13, CommandsNone DEF listener_drops, server
  <2>14. CASE listener_reconnects
    BY <2>14 DEF listener_reconnects, server
  <2>15. CASE listener_reads
    BY <2>15, CommandsTail, CommandsAppend DEF listener_reads, server
  <2>16. CASE execute_command
    BY <2>16, CommandsTail DEF execute_command, ModeAfter, server
  <2>17. CASE UNCHANGED vars
    BY <2>17 DEF vars, server, bridge
  <2> QED
    BY <2>1, <2>2, <2>3, <2>4, <2>5, <2>6, <2>7, <2>8, <2>9,
       <2>10, <2>11, <2>12, <2>13, <2>14, <2>15, <2>16, <2>17
    DEF Next, Serve, Bridge
<1> QED BY <1>1, <1>2, PTL DEF Spec
-----------------------------------------------------------------------------
(* What is published has been recorded *)

\* An activation past its commit, and a deactivation by somebody who had seen the event,
\* concern a recorded event.
Recorded ==
  /\ \A e \in Events : act[e].pc \in {"publish", "answered"} => row[e] # "none"
  /\ \A d \in Deacts : deact[d].seen => deact[d].pc # "new" /\ row[deact[d].event] # "none"

\* What a step may do to a deactivation request: nothing, receive it, store its
\* result, or move it on.
DeactChange(d) ==
  \/ deact'[d] = deact[d]
  \/ /\ ~deact'[d].stored /\ deact'[d].pc = "commit"
     /\ deact'[d].event \in Events
     /\ deact'[d].seen => Known(deact'[d].event)
  \/ /\ deactivate_commit(d)
     /\ deact'[d].event = deact[d].event /\ deact'[d].pc = "memory"
     /\ deact'[d].seen = deact[d].seen /\ deact'[d].stored
  \/ /\ deact[d].pc # "new"
     /\ deact'[d].event = deact[d].event /\ deact'[d].stored = deact[d].stored
     /\ deact'[d].seen = deact[d].seen
     /\ deact'[d].pc \in {"memory", "publish", "answered", "failed"}

\* No step does anything else to a request.
LEMMA DeactStep ==
  ASSUME TypeOK, [Next]_vars, NEW d \in Deacts
  PROVE  DeactChange(d)
<1>1. ASSUME NEW w \in Workers, NEW f \in Events, NEW c \in Deacts, deactivate_begin(c, f, w)
      PROVE  DeactChange(d)
  <2>1. c # d => deact'[d] = deact[d]
    BY <1>1 DEF TypeOK, deactivate_begin
  <2> DEFINE k == Known(f)
  <2>2. deact'[c] = [pc |-> "commit", worker |-> w, event |-> f, seen |-> k, stored |-> FALSE]
    BY <1>1 DEF TypeOK, deactivate_begin
  <2>3. /\ ~deact'[c].stored /\ deact'[c].pc = "commit" /\ deact'[c].event = f
        /\ deact'[c].seen = k
    <3> HIDE DEF k
    <3> QED BY <2>2
  <2> QED BY <2>1, <2>3 DEF DeactChange
<1>2. ASSUME NEW c \in Deacts, deactivate_commit(c) PROVE DeactChange(d)
  <2>1. c # d => deact'[d] = deact[d]
    BY <1>2 DEF TypeOK, deactivate_commit
  <2>2. deact'[c] = [deact[c] EXCEPT !.pc = "memory", !.stored = TRUE]
    BY <1>2 DEF TypeOK, deactivate_commit
  <2>3. /\ deact'[c].event = deact[c].event /\ deact'[c].pc = "memory"
        /\ deact'[c].seen = deact[c].seen /\ deact'[c].stored
    BY <2>2 DEF TypeOK
  <2> QED BY <1>2, <2>1, <2>3 DEF DeactChange
<1>3. ASSUME NEW c \in Deacts, NEW p \in {"memory", "publish", "answered"},
             deact[c].pc # "new", deact' = [deact EXCEPT ![c].pc = p]
      PROVE  DeactChange(d)
  <2>1. c # d => deact'[d] = deact[d]
    BY <1>3 DEF TypeOK
  <2>2. deact'[c] = [deact[c] EXCEPT !.pc = p]
    BY <1>3 DEF TypeOK
  <2>3. /\ deact'[c].event = deact[c].event /\ deact'[c].stored = deact[c].stored
        /\ deact'[c].seen = deact[c].seen /\ deact'[c].pc = p
    BY <2>2 DEF TypeOK
  <2> QED BY <1>3, <2>1, <2>3 DEF DeactChange
<1>4. ASSUME NEW w \in Workers, worker_restart(w) PROVE DeactChange(d)
  <2>1. \/ deact'[d] = deact[d]
        \/ deact[d].pc \in Running /\ deact'[d] = [deact[d] EXCEPT !.pc = "failed"]
    BY <1>4 DEF worker_restart
  <2>2. CASE deact'[d] = deact[d]
    BY <2>2 DEF DeactChange
  <2>3. CASE deact[d].pc \in Running /\ deact'[d] = [deact[d] EXCEPT !.pc = "failed"]
    <3>1. /\ deact'[d].event = deact[d].event /\ deact'[d].stored = deact[d].stored
          /\ deact'[d].seen = deact[d].seen /\ deact'[d].pc = "failed"
      BY <2>3 DEF TypeOK
    <3> QED BY <2>3, <3>1 DEF Running, DeactChange
  <2> QED BY <2>1, <2>2, <2>3
<1>5. ASSUME UNCHANGED deact PROVE DeactChange(d)
  BY <1>5 DEF DeactChange
<1>6. ASSUME NEW c \in Deacts,
             \/ deactivate_commit_fails(c) \/ deactivate_memory(c)
             \/ deactivate_publish(c) \/ deactivate_publish_fails(c)
      PROVE  DeactChange(d)
  BY <1>3, <1>6 DEF deactivate_commit_fails, deactivate_memory, deactivate_publish,
                    deactivate_publish_fails
<1> QED
  BY <1>1, <1>2, <1>4, <1>5, <1>6
  DEF Next, Serve, Bridge, vars, server, activate_begin, activate_commit,
      activate_commit_fails, activate_publish, activate_publish_fails,
      listener_drops, listener_reconnects, listener_reads, execute_command

\* No step takes a row away.
LEMMA RowsStay ==
  ASSUME TypeOK, [Next]_vars, NEW e \in Events, row[e] # "none"
  PROVE  row'[e] # "none"
BY DEF TypeOK, Next, Serve, Bridge, vars, server, bridge, RowAfterDeactivate,
       activate_begin, activate_commit, activate_commit_fails, activate_publish,
       activate_publish_fails, deactivate_begin, deactivate_commit,
       deactivate_commit_fails, deactivate_memory, deactivate_publish,
       deactivate_publish_fails, worker_restart, listener_drops,
       listener_reconnects, listener_reads, execute_command

\* The inductive step for Recorded.
LEMMA RecordedStep ==
  ASSUME TypeOK, TypeOK', Recorded, PublishedImpliesPersisted, [Next]_vars
  PROVE  Recorded'
<1>1. ASSUME NEW e \in Events, act'[e].pc \in {"publish", "answered"}
      PROVE  row'[e] # "none"
  <2>1. \/ act[e].pc \in {"publish", "answered"}
        \/ activate_commit(e)
    <3>1. ASSUME NEW w \in Workers, NEW f \in Events, activate_begin(f, w)
          PROVE  act[e].pc \in {"publish", "answered"}
      BY <1>1, <3>1, AfterStepValues DEF TypeOK, activate_begin
    <3>2. ASSUME NEW f \in Events, activate_commit(f), f # e
          PROVE  act[e].pc \in {"publish", "answered"}
      BY <1>1, <3>2 DEF TypeOK, activate_commit
    <3>3. ASSUME NEW f \in Events, activate_commit_fails(f)
          PROVE  act[e].pc \in {"publish", "answered"}
      BY <1>1, <3>3 DEF TypeOK, activate_commit_fails, CommitFailure
    <3>4. ASSUME NEW f \in Events, activate_publish(f) \/ activate_publish_fails(f)
          PROVE  act[e].pc \in {"publish", "answered"}
      BY <1>1, <3>4 DEF TypeOK, activate_publish, activate_publish_fails
    <3>5. ASSUME NEW w \in Workers, worker_restart(w)
          PROVE  act[e].pc \in {"publish", "answered"}
      BY <1>1, <3>5 DEF TypeOK, worker_restart
    <3>6. CASE UNCHANGED act
      BY <1>1, <3>6
    <3> QED BY <3>1, <3>2, <3>3, <3>4, <3>5, <3>6
      DEF Next, Serve, Bridge, vars, server, bridge, deactivate_begin,
          deactivate_commit, deactivate_commit_fails, deactivate_memory,
          deactivate_publish, deactivate_publish_fails, listener_drops,
          listener_reconnects, listener_reads, execute_command
  <2>2. CASE act[e].pc \in {"publish", "answered"}
    BY <2>2, RowsStay DEF Recorded
  <2>3. CASE activate_commit(e)
    BY <2>3 DEF activate_commit, TypeOK
  <2> QED BY <2>1, <2>2, <2>3
<1>2. ASSUME NEW d \in Deacts, deact'[d].seen
      PROVE  deact'[d].pc # "new" /\ row'[deact'[d].event] # "none"
  <2>1. /\ deact'[d].pc # "new" /\ deact'[d].event \in Events
        /\ row[deact'[d].event] # "none"
    <3>1. CASE deact'[d] = deact[d]
      BY <1>2, <3>1 DEF Recorded, TypeOK
    <3>2. CASE /\ deact'[d].pc = "commit" /\ deact'[d].event \in Events
               /\ deact'[d].seen => Known(deact'[d].event)
      BY <1>2, <3>2 DEF Known, PublishedImpliesPersisted
    <3>3. CASE /\ deact[d].seen /\ deact'[d].event = deact[d].event
               /\ deact'[d].pc \in {"memory", "publish", "answered", "failed"}
      BY <3>3 DEF Recorded, TypeOK
    <3> QED BY <1>2, <3>1, <3>2, <3>3, DeactStep DEF DeactChange
  <2> QED BY <2>1, RowsStay
<1> QED BY <1>1, <1>2 DEF Recorded

\* PublishedImpliesPersisted is an invariant, for any faults and whatever ids are
\* deactivated: whichever commit, publish, link or worker fails and whenever, no
\* corridor is opened, on its way to the bridge or enforced that was never recorded.
THEOREM PublishedCorrect == Spec => []PublishedImpliesPersisted
<1>1. Init => Recorded /\ PublishedImpliesPersisted
  BY CommandsNone DEF Init, NewDeact, Recorded, PublishedImpliesPersisted, InFlight
<1>2. ASSUME TypeOK, TypeOK', Recorded, PublishedImpliesPersisted, [Next]_vars
      PROVE  PublishedImpliesPersisted'
  <2>1. ASSUME NEW e \in announced' \cup InFlight'
        PROVE  row'[e] # "none" /\ e \in Events
    <3>0. \A x \in announced \cup InFlight : x \in Events /\ row[x] # "none"
      BY <1>2 DEF PublishedImpliesPersisted, TypeOK, InFlight, ActivationsIn
    <3>1. CASE UNCHANGED <<announced, wire, queue>>
      BY <1>2, <2>1, <3>0, <3>1, RowsStay DEF InFlight, ActivationsIn
    <3>2. ASSUME NEW f \in Events, activate_publish(f)
          PROVE  row'[e] # "none" /\ e \in Events
      <4>1. row[f] # "none"
        BY <1>2, <3>2 DEF Recorded, activate_publish
      <4>2. e \in ActivationsIn(wire') => e \in ActivationsIn(wire) \/ e = f
        <5>1. Activated(f) \in Command /\ wire \in Seq(Command)
          BY <1>2, CommandTypes DEF TypeOK
        <5>2. \A x \in ActivationsIn(Append(wire, Activated(f))) :
                x \in ActivationsIn(wire) \/ Activated(f) = Activated(x)
          BY <5>1, CommandsAppend
        <5>3. wire' = wire \/ wire' = Append(wire, Activated(f))
          BY <3>2 DEF activate_publish, Publish
        <5> QED BY <5>2, <5>3, CommandTypes DEF ActivationsIn
      <4>3. e \in announced \cup InFlight \cup {f}
        BY <2>1, <3>2, <4>2 DEF activate_publish, InFlight
      <4> QED BY <1>2, <3>0, <4>1, <4>3, RowsStay
    <3>3. ASSUME NEW d \in Deacts, deactivate_publish(d)
          PROVE  row'[e] # "none" /\ e \in Events
      <4> DEFINE f == deact[d].event
      <4>1. f \in Events
        BY <1>2, <3>3 DEF deactivate_publish, TypeOK
      <4>2. e \in ActivationsIn(wire') => e \in ActivationsIn(wire)
        <5>1. Deactivated(f) \in Command /\ wire \in Seq(Command)
          BY <1>2, <4>1, CommandTypes DEF TypeOK
        <5>2. \A x \in ActivationsIn(Append(wire, Deactivated(f))) :
                x \in ActivationsIn(wire) \/ Deactivated(f) = Activated(x)
          BY <5>1, CommandsAppend
        <5>3. wire' = wire \/ wire' = Append(wire, Deactivated(f))
          BY <3>3 DEF deactivate_publish, Publish
        <5> QED BY <4>1, <5>2, <5>3, CommandTypes DEF ActivationsIn
      <4>3. e \in announced \cup InFlight
        BY <2>1, <3>3, <4>2 DEF deactivate_publish, InFlight
      <4> QED BY <1>2, <3>0, <4>3, RowsStay
    <3>4. CASE listener_drops
      <4>1. e \in announced \cup InFlight
        BY <2>1, <3>4, CommandsNone DEF listener_drops, server, InFlight
      <4> QED BY <1>2, <3>0, <4>1, RowsStay
    <3>5. CASE listener_reads
      <4>1. /\ ActivationsIn(wire') \subseteq ActivationsIn(wire)
            /\ ActivationsIn(queue') \subseteq ActivationsIn(queue) \cup ActivationsIn(wire)
        <5>1. /\ wire \in Seq(Command) /\ queue \in Seq(Command) /\ wire # <<>>
              /\ wire' = Tail(wire) /\ queue' = Append(queue, Head(wire))
          BY <1>2, <3>5 DEF listener_reads, TypeOK
        <5>2. /\ Head(wire) \in Command
              /\ \A x \in Events : Head(wire) = Activated(x) => x \in ActivationsIn(wire)
              /\ ActivationsIn(Tail(wire)) \subseteq ActivationsIn(wire)
          BY <5>1, CommandsTail
        <5>3. \A x \in ActivationsIn(Append(queue, Head(wire))) :
                x \in ActivationsIn(queue) \/ Head(wire) = Activated(x)
          BY <5>1, <5>2, CommandsAppend
        <5>4. \A x \in ActivationsIn(queue') : x \in Events
          BY DEF ActivationsIn
        <5> QED BY <5>1, <5>2, <5>3, <5>4
      <4>2. e \in announced \cup InFlight
        BY <2>1, <3>5, <4>1 DEF listener_reads, server, InFlight
      <4> QED BY <1>2, <3>0, <4>2, RowsStay
    <3>6. CASE execute_command
      <4>1. ActivationsIn(queue') \subseteq ActivationsIn(queue)
        BY <1>2, <3>6, CommandsTail DEF execute_command, TypeOK
      <4>2. e \in announced \cup InFlight
        BY <2>1, <3>6, <4>1 DEF execute_command, server, InFlight
      <4> QED BY <1>2, <3>0, <4>2, RowsStay
    <3> QED BY <1>2, <3>1, <3>2, <3>3, <3>4, <3>5, <3>6
      DEF Next, Serve, Bridge, vars, server, bridge, activate_begin,
          activate_commit, activate_commit_fails, activate_publish_fails,
          deactivate_begin, deactivate_commit, deactivate_commit_fails,
          deactivate_memory, deactivate_publish_fails, worker_restart,
          listener_reconnects
  <2>2. ASSUME mode'
        PROVE  \E e \in Events : row'[e] # "none"
    <3>1. CASE mode' = mode
      BY <1>2, <2>2, <3>1, RowsStay DEF PublishedImpliesPersisted
    <3>2. CASE execute_command
      <4>1. /\ Head(queue) \in Command /\ Head(queue).type = "EMERGENCY_ACTIVATED"
            /\ \A x \in Events : Head(queue) = Activated(x) => x \in ActivationsIn(queue)
        BY <1>2, <2>2, <3>2, CommandsTail DEF execute_command, ModeAfter, TypeOK
      <4>2. PICK x \in Events : Head(queue) = Activated(x)
        BY <4>1 DEF Command, Activated
      <4>3. x \in InFlight
        BY <4>1, <4>2 DEF InFlight
      <4> QED BY <1>2, <4>3, RowsStay DEF PublishedImpliesPersisted
    <3> QED BY <1>2, <3>1, <3>2
      DEF Next, Serve, Bridge, vars, server, bridge, activate_begin,
          activate_commit, activate_commit_fails, activate_publish, activate_publish_fails,
          deactivate_begin, deactivate_commit, deactivate_commit_fails,
          deactivate_memory, deactivate_publish, deactivate_publish_fails, worker_restart,
          listener_drops, listener_reads, listener_reconnects
  <2> QED BY <2>1, <2>2 DEF PublishedImpliesPersisted
<1> QED BY <1>1, <1>2, RecordedStep, TypeCorrect, PTL DEF Spec
-----------------------------------------------------------------------------
(* A deactivated event stays down *)

\* An activation that has not committed has no row yet.
Fresh == \A e \in Events : act[e].pc \in {"new", "commit"} => row[e] = "none"

\* Only a deactivation that has gone past the database is recorded as stored.
Began == \A d \in Deacts : deact[d].stored => deact[d].pc \notin {"new", "commit"}

\* The four facts about the requests and their rows, together inductive.
LEMMA RequestsCorrect ==
  Spec => [](Recorded /\ Fresh /\ Began /\ DeactivatedStaysDown)
<1>1. Init => Fresh /\ DeactivatedStaysDown
  BY DEF Init, NewDeact, Fresh, DeactivatedStaysDown
<1>2. Init => Recorded /\ Began
  BY DEF Init, NewDeact, Recorded, Began
<1>3. ASSUME TypeOK, Recorded, [Next]_vars, Fresh
      PROVE  Fresh'
  <2> SUFFICES ASSUME NEW e \in Events, act'[e].pc \in {"new", "commit"}
               PROVE  row'[e] = "none"
    BY DEF Fresh
  <2>1. act[e].pc \in {"new", "commit"} /\ ~activate_commit(e)
    <3>1. ASSUME NEW w \in Workers, NEW f \in Events, activate_begin(f, w)
          PROVE  act[e].pc \in {"new", "commit"}
      BY <1>3, <3>1 DEF TypeOK, activate_begin
    <3>2. ASSUME NEW f \in Events, activate_commit(f)
          PROVE  act[e].pc \in {"new", "commit"} /\ f # e
      BY <1>3, <3>2, AfterStepValues DEF TypeOK, activate_commit
    <3>3. ASSUME NEW f \in Events, activate_publish(f) \/ activate_publish_fails(f)
          PROVE  act[e].pc \in {"new", "commit"}
      BY <1>3, <3>3, AfterStepValues DEF TypeOK, activate_publish, activate_publish_fails
    <3>4. ASSUME NEW w \in Workers, worker_restart(w)
          PROVE  act[e].pc \in {"new", "commit"}
      BY <1>3, <3>4 DEF TypeOK, worker_restart
    <3>5. ASSUME UNCHANGED act
          PROVE  act[e].pc \in {"new", "commit"}
      BY <3>5
    <3>6. activate_commit(e) => act'[e].pc = "publish"
      BY <1>3, AfterStepValues DEF TypeOK, activate_commit
    <3>7. ASSUME NEW f \in Events, activate_commit_fails(f)
          PROVE  act[e].pc \in {"new", "commit"}
      BY <1>3, <3>7 DEF TypeOK, activate_commit_fails, CommitFailure
    <3> QED BY <1>3, <3>1, <3>2, <3>3, <3>4, <3>5, <3>6, <3>7
      DEF Next, Serve, Bridge, vars, server, bridge, deactivate_begin,
          deactivate_commit, deactivate_commit_fails, deactivate_memory,
          deactivate_publish, deactivate_publish_fails, listener_drops,
          listener_reconnects, listener_reads, execute_command
  <2>2. row[e] = "none"
    BY <1>3, <2>1 DEF Fresh
  <2>3. ASSUME NEW f \in Events, activate_commit(f)
        PROVE  row'[e] = row[e]
    BY <1>3, <2>1, <2>3 DEF TypeOK, activate_commit
  <2>4. ASSUME NEW d \in Deacts, deactivate_commit(d)
        PROVE  row'[e] = row[e]
    BY <1>3, <2>2, <2>4 DEF TypeOK, Recorded, deactivate_commit, RowAfterDeactivate
  <2> QED BY <1>3, <2>2, <2>3, <2>4
    DEF Next, Serve, Bridge, vars, server, bridge, activate_begin, activate_commit_fails,
        activate_publish, activate_publish_fails, deactivate_begin,
        deactivate_commit_fails, deactivate_memory, deactivate_publish,
        deactivate_publish_fails, worker_restart, listener_drops,
        listener_reconnects, listener_reads, execute_command
<1>4. ASSUME TypeOK, Began, [Next]_vars
      PROVE  Began' /\ \A d \in Deacts : deact'[d].stored =>
               /\ deact'[d].event = deact[d].event /\ deact'[d].seen = deact[d].seen
               /\ deactivate_commit(d) \/ deact[d].stored
  <2> SUFFICES ASSUME NEW d \in Deacts, deact'[d].stored
               PROVE  /\ deact'[d].pc \notin {"new", "commit"}
                      /\ deact'[d].event = deact[d].event /\ deact'[d].seen = deact[d].seen
                      /\ deactivate_commit(d) \/ deact[d].stored
    BY DEF Began
  <2> QED BY <1>4, DeactStep DEF DeactChange, Began
<1>5. ASSUME TypeOK, Recorded, Fresh, Began, DeactivatedStaysDown, [Next]_vars
      PROVE  DeactivatedStaysDown'
  <2> SUFFICES ASSUME NEW d \in Deacts, deact'[d].seen, deact'[d].stored
               PROVE  row'[deact'[d].event] # "ACTIVE"
    BY DEF DeactivatedStaysDown
  <2>1. CASE deactivate_commit(d)
    <3>1. deact'[d].event = deact[d].event /\ deact[d].event \in Events
      BY <1>4, <1>5, <2>1 DEF TypeOK, deactivate_commit
    <3> QED BY <1>5, <2>1, <3>1 DEF TypeOK, deactivate_commit, RowAfterDeactivate
  <2>2. CASE ~deactivate_commit(d)
    <3>1. deact[d].seen /\ deact[d].stored /\ deact'[d].event = deact[d].event
      BY <1>4, <1>5, <2>2
    <3>2. deact[d].event \in Events /\ row[deact[d].event] = "COMPLETED"
      BY <1>5, <3>1 DEF TypeOK, Began, Recorded, DeactivatedStaysDown
    <3>3. ASSUME NEW f \in Events, activate_commit(f)
          PROVE  f # deact[d].event
      BY <1>5, <3>2, <3>3 DEF Fresh, activate_commit
    <3>4. row'[deact[d].event] = "COMPLETED"
      BY <1>5, <3>2, <3>3
      DEF TypeOK, Next, Serve, Bridge, vars, server, bridge, RowAfterDeactivate,
          activate_begin, activate_commit, activate_commit_fails, activate_publish,
          activate_publish_fails, deactivate_begin, deactivate_commit,
          deactivate_commit_fails, deactivate_memory, deactivate_publish,
          deactivate_publish_fails, worker_restart, listener_drops,
          listener_reconnects, listener_reads, execute_command
    <3> QED BY <3>1, <3>4
  <2> QED BY <2>1, <2>2
<1> QED
  BY <1>1, <1>2, <1>3, <1>4, <1>5, RecordedStep, TypeCorrect, PublishedCorrect, PTL DEF Spec

\* DeactivatedStaysDown is an invariant, for any faults and any interleaving of
\* requests: also when the activation is still in progress, the deactivation of an
\* event that somebody has seen finds its row, and nothing writes the row again.
THEOREM DeactivatedCorrect == Spec => []DeactivatedStaysDown
BY RequestsCorrect, PTL

-----------------------------------------------------------------------------
(* Memory follows the rows, unless commits fail or workers restart. *)

\* Every deactivation of e comes from somebody who had seen the event.
Sound(e) == \A d \in Deacts : deact[d].event = e /\ deact[d].pc # "new" => deact[d].seen

\* Worker w has event e in memory from its activation there until a deactivation
\* has been served there as well.
Held(e, w) ==
  /\ e \in active[w] => act[e].worker = w /\ act[e].pc # "new"
  /\ Sound(e) /\ act[e].pc # "new" /\ act[e].worker = w =>
       (e \notin active[w] <=>
          \E d \in Deacts : /\ deact[d].event = e /\ deact[d].worker = w
                            /\ deact[d].pc \in {"publish", "answered"})

\* Once committed, a row is ACTIVE until a deactivation closes it.
Kept(e) ==
  /\ act[e].pc \in {"publish", "answered"} =>
       row[e] = "ACTIVE" \/ \E d \in Deacts : deact[d].stored /\ deact[d].event = e
  /\ act[e].pc # "failed"
  /\ act[e].pc # "new" => act[e].worker \in Workers

\* No deactivation is lost, in the database or with its worker.
Settled(d) ==
  /\ deact[d].pc \notin {"new", "commit"} => deact[d].stored
  /\ deact[d].pc # "failed"
  /\ deact[d].pc # "new" => deact[d].worker \in Workers

MemoryHeld ==
  /\ \A e \in Events, w \in Workers : Held(e, w)
  /\ \A e \in Events : Kept(e)
  /\ \A d \in Deacts : Settled(d)

\* The faults that undo it: a commit that raises, a worker that dies.
MemoryIsSafe == Faults \cap {"commit", "restart"} = {}

\* MemoryHeld says enough for MemoryFollowsRows.
LEMMA MemoryAtRest ==
  ASSUME TypeOK, Recorded, Fresh, Began, DeactivatedStaysDown, MemoryHeld
  PROVE  MemoryFollowsRows
<1> SUFFICES ASSUME Quiescent, NEW e \in Events, SameWorker(e)
             PROVE  (\E w \in Workers : e \in active[w]) <=> row[e] = "ACTIVE"
  BY DEF MemoryFollowsRows
<1>1. /\ act[e].pc \in {"new", "answered"}
      /\ \A d \in Deacts : deact[d].pc \in {"new", "answered"}
  BY DEF TypeOK, Quiescent, NothingRunning, MemoryHeld, Kept, Settled, Running, Over
<1>4. Sound(e)
  BY DEF SameWorker, Sound
<1>2. ASSUME NEW w \in Workers, e \in active[w] PROVE row[e] = "ACTIVE"
  <2>1. act[e].worker = w /\ act[e].pc = "answered"
    BY <1>1, <1>2 DEF MemoryHeld, Held
  <2>2. \A d \in Deacts : deact[d].event = e /\ deact[d].worker = w => deact[d].pc # "answered"
    BY <1>2, <1>4, <2>1 DEF MemoryHeld, Held
  <2>3. ASSUME NEW d \in Deacts, deact[d].stored, deact[d].event = e PROVE FALSE
    BY <1>1, <2>1, <2>2, <2>3 DEF Began, SameWorker
  <2> QED BY <2>1, <2>3 DEF MemoryHeld, Kept
<1>3. ASSUME row[e] = "ACTIVE" PROVE \E w \in Workers : e \in active[w]
  <2>1. act[e].pc = "answered" /\ act[e].worker \in Workers
    BY <1>1, <1>3 DEF Fresh, MemoryHeld, Kept
  <2>2. \A d \in Deacts : deact[d].event # e
    BY <1>1, <1>3 DEF SameWorker, DeactivatedStaysDown, Recorded, MemoryHeld, Settled
  <2> QED BY <1>4, <2>1, <2>2 DEF MemoryHeld, Held
<1> QED BY <1>2, <1>3

\* What a step may do to the memory, the rows and the requests when no commit
\* fails and no worker restarts.
LEMMA SafeSteps ==
  ASSUME MemoryIsSafe, [Next]_vars
  PROVE  \/ \E e \in Events, w \in Workers : activate_begin(e, w)
         \/ \E e \in Events : activate_commit(e)
         \/ \E e \in Events : /\ act[e].pc = "publish"
                              /\ act' = [act EXCEPT ![e].pc = "answered"]
                              /\ UNCHANGED <<active, row, deact>>
         \/ \E d \in Deacts, e \in Events, w \in Workers : deactivate_begin(d, e, w)
         \/ \E d \in Deacts : deactivate_commit(d)
         \/ \E d \in Deacts : deactivate_memory(d)
         \/ \E d \in Deacts : /\ deact[d].pc = "publish"
                              /\ deact' = [deact EXCEPT ![d].pc = "answered"]
                              /\ UNCHANGED <<active, row, act>>
         \/ UNCHANGED <<active, row, act, deact>>
BY AfterStepValues
DEF MemoryIsSafe, Next, Serve, Bridge, vars, server, activate_commit_fails,
    activate_publish, activate_publish_fails, deactivate_commit_fails,
    deactivate_publish, deactivate_publish_fails, worker_restart, listener_drops,
    listener_reconnects, listener_reads, execute_command

\* The inductive step for MemoryHeld.
LEMMA MemoryStep ==
  ASSUME MemoryIsSafe, TypeOK, Recorded, Fresh, Began, MemoryHeld, [Next]_vars
  PROVE  MemoryHeld'
<1> USE DEF TypeOK, Over, Running
<1>1. ASSUME NEW f \in Events, NEW v \in Workers, activate_begin(f, v)
      PROVE  MemoryHeld'
  <2>1. /\ act'[f].pc = "commit" /\ act'[f].worker = v
        /\ \A e \in Events \ {f} : act'[e] = act[e]
        /\ \A e \in Events, w \in Workers :
             e \in active'[w] <=> e \in active[w] \/ (e = f /\ w = v)
        /\ deact' = deact /\ row' = row
    BY <1>1, AfterStepValues DEF activate_begin
  <2>2. act[f].pc = "new" /\ row[f] = "none"
    BY <1>1 DEF activate_begin, Fresh
  <2>3. Sound(f) => \A d \in Deacts : deact[d].event = f => deact[d].pc \notin {"publish", "answered"}
    BY <2>2 DEF Sound, Recorded
  <2>4. \A e \in Events : Sound(e)' <=> Sound(e)
    BY <2>1 DEF Sound
  <2> HIDE DEF TypeOK
  <2>5. ASSUME NEW e \in Events, NEW w \in Workers PROVE Held(e, w)'
    <3>1. CASE e = f
      BY <2>1, <2>2, <2>3, <2>4, <3>1 DEF MemoryHeld, Held
    <3>2. CASE e # f
      BY <2>1, <2>4, <3>2 DEF MemoryHeld, Held
    <3> QED BY <3>1, <3>2
  <2> QED BY <2>1, <2>2, <2>5 DEF MemoryHeld, Kept, Settled
<1>2. ASSUME NEW f \in Events, activate_commit(f) PROVE MemoryHeld'
  <2>1. /\ act[f].pc = "commit" /\ act'[f].pc = "publish" /\ act'[f].worker = act[f].worker
        /\ \A e \in Events \ {f} : act'[e] = act[e] /\ row'[e] = row[e]
        /\ row'[f] = "ACTIVE" /\ active' = active /\ deact' = deact
    BY <1>2, AfterStepValues DEF activate_commit
  <2> HIDE DEF TypeOK
  <2>2. \A e \in Events, w \in Workers : Held(e, w)'
    BY <2>1 DEF MemoryHeld, Held, Sound
  <2> QED BY <2>1, <2>2 DEF MemoryHeld, Kept, Settled
<1>3. ASSUME NEW f \in Events, act[f].pc = "publish",
             act' = [act EXCEPT ![f].pc = "answered"], UNCHANGED <<active, row, deact>>
      PROVE  MemoryHeld'
  <2>1. /\ act'[f].pc = "answered" /\ act'[f].worker = act[f].worker
        /\ \A e \in Events \ {f} : act'[e] = act[e]
    BY <1>3
  <2> HIDE DEF TypeOK
  <2>2. \A e \in Events, w \in Workers : Held(e, w)'
    BY <1>3, <2>1 DEF MemoryHeld, Held, Sound
  <2> QED BY <1>3, <2>1, <2>2 DEF MemoryHeld, Kept, Settled
<1>4. ASSUME NEW d \in Deacts, NEW f \in Events, NEW v \in Workers, deactivate_begin(d, f, v)
      PROVE  MemoryHeld'
  <2>1. /\ deact[d].pc = "new" /\ deact'[d].pc = "commit" /\ deact'[d].worker = v
        /\ ~deact[d].stored
        /\ \A c \in Deacts \ {d} : deact'[c] = deact[c]
        /\ active' = active /\ row' = row /\ act' = act
    BY <1>4 DEF deactivate_begin, Began
  <2> HIDE DEF TypeOK
  <2>4. \A e \in Events : Sound(e)' => Sound(e)
    BY <2>1 DEF Sound
  <2>2. \A e \in Events, w \in Workers : Held(e, w)'
    BY <2>1, <2>4 DEF MemoryHeld, Held
  <2>3. \A e \in Events : Kept(e)'
    BY <2>1 DEF MemoryHeld, Kept
  <2> QED BY <2>1, <2>2, <2>3 DEF MemoryHeld, Settled
<1>5. ASSUME NEW d \in Deacts, deactivate_commit(d) PROVE MemoryHeld'
  <2>1. /\ deact[d].pc = "commit" /\ deact'[d].pc = "memory"
        /\ deact'[d].stored
        /\ deact'[d].worker = deact[d].worker
        /\ \A c \in Deacts \ {d} : deact'[c] = deact[c]
        /\ \A e \in Events \ {deact[d].event} : row'[e] = row[e]
        /\ active' = active /\ act' = act
    BY <1>5 DEF deactivate_commit, RowAfterDeactivate
  <2>2. \A c \in Deacts : deact'[c].event = deact[c].event /\ deact'[c].seen = deact[c].seen
    BY <1>5 DEF deactivate_commit
  <2>5. ~deact[d].stored
    BY <1>5 DEF deactivate_commit, Began
  <2> HIDE DEF TypeOK
  <2>6. \A e \in Events : Sound(e)' => Sound(e)
    BY <2>1, <2>2 DEF Sound
  <2>3. \A e \in Events, w \in Workers : Held(e, w)'
    BY <2>1, <2>2, <2>6 DEF MemoryHeld, Held
  <2>4. \A e \in Events : Kept(e)'
    BY <2>1, <2>2, <2>5 DEF MemoryHeld, Kept
  <2> QED BY <2>1, <2>3, <2>4 DEF MemoryHeld, Settled
<1>6. ASSUME NEW d \in Deacts, deactivate_memory(d) PROVE MemoryHeld'
  <2>1. /\ deact[d].pc = "memory" /\ deact'[d].pc = "publish"
        /\ deact'[d].worker = deact[d].worker
        /\ \A c \in Deacts \ {d} : deact'[c] = deact[c]
        /\ \A e \in Events, w \in Workers :
             e \in active'[w] <=> /\ e \in active[w]
                                  /\ ~(w = deact[d].worker /\ e = deact[d].event)
        /\ row' = row /\ act' = act
    BY <1>6 DEF deactivate_memory, MemoryAfterDeactivate
  <2>2. \A c \in Deacts : /\ deact'[c].event = deact[c].event /\ deact'[c].seen = deact[c].seen
                          /\ deact'[c].stored = deact[c].stored
    BY <1>6 DEF deactivate_memory
  <2> HIDE DEF TypeOK
  <2>6. \A e \in Events : Sound(e)' => Sound(e)
    BY <2>1, <2>2 DEF Sound
  <2>3. \A e \in Events, w \in Workers : Held(e, w)'
    BY <2>1, <2>2, <2>6 DEF MemoryHeld, Held
  <2>4. \A e \in Events : Kept(e)'
    BY <2>1, <2>2 DEF MemoryHeld, Kept
  <2> QED BY <2>1, <2>2, <2>3, <2>4 DEF MemoryHeld, Settled
<1>7. ASSUME NEW d \in Deacts, deact[d].pc = "publish",
             deact' = [deact EXCEPT ![d].pc = "answered"], UNCHANGED <<active, row, act>>
      PROVE  MemoryHeld'
  <2>1. /\ deact'[d].pc = "answered" /\ deact'[d].stored = deact[d].stored
        /\ deact'[d].worker = deact[d].worker /\ deact'[d].event = deact[d].event
        /\ deact'[d].seen = deact[d].seen
        /\ \A c \in Deacts \ {d} : deact'[c] = deact[c]
    BY <1>7
  <2> HIDE DEF TypeOK
  <2>3. \A e \in Events : Sound(e)' => Sound(e)
    BY <2>1 DEF Sound
  <2>2. \A e \in Events, w \in Workers : Held(e, w)'
    BY <1>7, <2>1, <2>3 DEF MemoryHeld, Held
  <2> QED BY <1>7, <2>1, <2>2 DEF MemoryHeld, Kept, Settled
<1>8. ASSUME UNCHANGED <<active, row, act, deact>> PROVE MemoryHeld'
  BY <1>8 DEF MemoryHeld, Held, Sound, Kept, Settled
<1> QED BY <1>1, <1>2, <1>3, <1>4, <1>5, <1>6, <1>7, <1>8, SafeSteps

\* MemoryFollowsRows is an invariant as long as no commit raises and no worker dies,
\* whatever Redis and the bridge's connection do and however requests overlap: at rest,
\* the workers have in memory just the events whose row is ACTIVE, provided one worker
\* serves both requests of an event and nobody deactivates it before having seen it.
THEOREM MemoryCorrect ==
  ASSUME MemoryIsSafe
  PROVE  Spec => []MemoryFollowsRows
<1>1. Init => MemoryHeld
  BY DEF Init, NewDeact, MemoryHeld, Held, Kept, Settled
<1> QED
  BY <1>1, MemoryStep, MemoryAtRest, TypeCorrect, RequestsCorrect, PTL DEF Spec

-----------------------------------------------------------------------------
(* Operators in order: one request at a time, for one corridor at a time. *)

\* The mode the bridge will be in once it has executed all that is on its way.
Activates(m) == m.type = "EMERGENCY_ACTIVATED"
Final == IF wire # <<>> THEN Activates(wire[Len(wire)])
         ELSE IF queue # <<>> THEN Activates(queue[Len(queue)]) ELSE mode

Activating(e) == act[e].pc \in Running
Deactivating(d) == deact[d].pc \in Running

OneRequest ==
  /\ \A e, f \in Events : Activating(e) /\ Activating(f) => e = f
  /\ \A d, c \in Deacts : Deactivating(d) /\ Deactivating(c) => d = c
  /\ \A e \in Events, d \in Deacts : ~(Activating(e) /\ Deactivating(d))

OneCorridor == \A e, f \in Events : row[e] = "ACTIVE" /\ row[f] = "ACTIVE" => e = f

\* Bridge and rows agree but for the request in progress.
InStep ==
  /\ \A e \in Events : act[e].pc = "commit" => ~SomeActive /\ ~Final
  /\ \A e \in Events : act[e].pc = "publish" => row[e] = "ACTIVE"
  /\ \A d \in Deacts : deact[d].pc = "commit" => row[deact[d].event] = "ACTIVE"
  /\ \A d \in Deacts : deact[d].pc \in {"memory", "publish"} => ~SomeActive
  /\ NothingRunning => (Final <=> SomeActive)

InOrder == orderly => OneRequest /\ OneCorridor /\ InStep

\* InOrder and MemoryHeld say enough for AgreeAtRest.
LEMMA InOrderAtRest ==
  ASSUME InOrder
  PROVE  OrderlyAgrees
BY DEF InOrder, InStep, OrderlyAgrees, NoStuckCorridor, NoDroppedCorridor, Quiescent, Final

\* The rest of a sequence ends as the sequence does.
LEMMA LastOfTail ==
  ASSUME NEW s \in Seq(Command), s # <<>>, Tail(s) # <<>>
  PROVE  Tail(s)[Len(Tail(s))] = s[Len(s)]
<1>1. /\ Tail(s) \in Seq(Command) /\ Len(Tail(s)) = Len(s) - 1
      /\ \A i \in 1 .. Len(s) - 1 : Tail(s)[i] = s[i + 1]
  BY HeadTailProperties
<1>2. Len(Tail(s)) \in Nat /\ Len(Tail(s)) # 0 /\ Len(s) \in Nat
  BY <1>1
<1>3. Len(s) - 1 \in 1 .. Len(s) - 1 /\ Len(s) - 1 + 1 = Len(s)
  BY <1>1, <1>2
<1> QED BY <1>1, <1>3

\* A sequence with nothing after its first command has one command.
LEMMA OnlyOne ==
  ASSUME NEW s \in Seq(Command), s # <<>>, Tail(s) = <<>>
  PROVE  Len(s) = 1
<1> DEFINE n == Len(Tail(s))
<1>1. Tail(s) \in Seq(Command) /\ n = Len(s) - 1 /\ Len(s) \in Nat
  BY HeadTailProperties
<1>2. n = 0
  BY <1>1, EmptySeq
<1> HIDE DEF n
<1> QED BY <1>1, <1>2

\* A command that is published decides the mode.
LEMMA FinalPublished ==
  ASSUME TypeOK, NEW m \in Command, link, Publish(m)
  PROVE  Final' <=> Activates(m)
<1>1. wire' = Append(wire, m) /\ wire \in Seq(Command)
  BY DEF Publish, TypeOK
<1>2. wire' # <<>> /\ wire'[Len(wire')] = m
  BY <1>1
<1> QED BY <1>2 DEF Final, Activates

\* The bridge's own steps do not change what it will come to.
LEMMA FinalStays ==
  ASSUME TypeOK, listener_reads \/ execute_command
  PROVE  Final' <=> Final
<1>1. wire \in Seq(Command) /\ queue \in Seq(Command)
  BY DEF TypeOK
<1>2. ASSUME listener_reads PROVE Final' <=> Final
  <2>1. wire # <<>> /\ queue' = Append(queue, Head(wire)) /\ wire' = Tail(wire)
    BY <1>2 DEF listener_reads
  <2>2. queue' # <<>> /\ queue'[Len(queue')] = wire[1]
    BY <1>1, <2>1
  <2>3. CASE wire' # <<>>
    <3>1. wire'[Len(wire')] = wire[Len(wire)]
      <4>1. wire # <<>> /\ Tail(wire) # <<>>
        BY <2>1, <2>3
      <4>2. Tail(wire)[Len(Tail(wire))] = wire[Len(wire)]
        BY <1>1, <4>1, LastOfTail
      <4> QED BY <2>1, <4>2, Zenon
    <3> QED BY <2>1, <2>3, <3>1 DEF Final, Activates
  <2>4. CASE wire' = <<>>
    <3>1. Len(wire) = 1
      BY <1>1, <2>1, <2>4, OnlyOne
    <3> QED BY <2>1, <2>2, <2>4, <3>1 DEF Final, Activates
  <2> QED BY <2>3, <2>4
<1>3. ASSUME execute_command PROVE Final' <=> Final
  <2>1. queue # <<>> /\ queue' = Tail(queue) /\ wire' = wire
        /\ mode' = Activates(queue[1])
    BY <1>1, <1>3 DEF execute_command, ModeAfter, Activates
  <2>2. CASE queue' # <<>>
    <3>1. queue'[Len(queue')] = queue[Len(queue)]
      <4>1. queue # <<>> /\ Tail(queue) # <<>>
        BY <2>1, <2>2
      <4>2. Tail(queue)[Len(Tail(queue))] = queue[Len(queue)]
        BY <1>1, <4>1, LastOfTail
      <4> QED BY <2>1, <4>2, Zenon
    <3> QED BY <2>1, <2>2, <3>1 DEF Final, Activates
  <2>3. CASE queue' = <<>>
    <3>1. Len(queue) = 1
      BY <1>1, <2>1, <2>3, OnlyOne
    <3> QED BY <2>1, <2>3, <3>1 DEF Final, Activates
  <2> QED BY <2>2, <2>3
<1> QED BY <1>2, <1>3

\* The inductive step for InOrder.
LEMMA InOrderStep ==
  ASSUME Faults = {}, TypeOK, link, InOrder, [Next]_vars
  PROVE  link' /\ InOrder'
<1>1. ASSUME NEW f \in Events, NEW v \in Workers, activate_begin(f, v)
      PROVE  link' /\ InOrder'
  <2>1. /\ act'[f].pc = "commit"
        /\ \A e \in Events \ {f} : act'[e] = act[e]
        /\ deact' = deact /\ row' = row /\ orderly' = orderly /\ link' = link
        /\ orderly => NothingRunning /\ ~SomeActive
    BY <1>1, AfterStepValues DEF TypeOK, activate_begin, bridge, SomeActive
  <2>2. Final' = Final
    BY <1>1 DEF activate_begin, bridge, Final, Activates
  <2>3. orderly => OneRequest' /\ OneCorridor'
    BY <2>1 DEF InOrder, OneRequest, OneCorridor, NothingRunning, Activating, Deactivating
  <2>4. orderly => InStep'
    BY <2>1, <2>2 DEF InOrder, InStep, NothingRunning, SomeActive, Running
  <2> QED BY <2>1, <2>3, <2>4 DEF InOrder
<1>2. ASSUME NEW f \in Events, activate_commit(f)
      PROVE  link' /\ InOrder'
  <2>1. /\ act[f].pc = "commit" /\ act'[f].pc = "publish"
        /\ \A e \in Events \ {f} : act'[e] = act[e] /\ row'[e] = row[e]
        /\ row'[f] = "ACTIVE" 
        /\ deact' = deact /\ orderly' = orderly /\ link' = link
    BY <1>2, AfterStepValues DEF TypeOK, activate_commit, bridge
  <2>3. orderly => OneRequest' /\ OneCorridor'
    BY <2>1 DEF InOrder, InStep, OneRequest, OneCorridor, SomeActive, Activating, Deactivating,
                Running
  <2>4. orderly => InStep'
    BY <2>1 DEF InOrder, InStep, OneRequest, NothingRunning, SomeActive, Running,
                Activating, Deactivating
  <2> QED BY <2>1, <2>3, <2>4 DEF InOrder
<1>3. ASSUME NEW f \in Events, activate_publish(f)
      PROVE  link' /\ InOrder'
  <2>1. /\ act[f].pc = "publish" /\ act'[f].pc = "answered"
        /\ \A e \in Events \ {f} : act'[e] = act[e]
        /\ deact' = deact /\ row' = row /\ orderly' = orderly /\ link' = link
    BY <1>3, AfterStepValues DEF TypeOK, activate_publish
  <2>2. Final'
    BY <1>3, CommandTypes, FinalPublished DEF activate_publish, Activates, Activated
  <2>3. orderly => OneRequest' /\ OneCorridor'
    BY <2>1 DEF InOrder, OneRequest, OneCorridor, Activating, Deactivating, Running
  <2>4. orderly => InStep'
    BY <2>1, <2>2 DEF InOrder, InStep, OneRequest, NothingRunning, SomeActive, Running,
                      Activating, Deactivating
  <2> QED BY <2>1, <2>3, <2>4 DEF InOrder
<1>4. ASSUME NEW d \in Deacts, NEW f \in Events, NEW v \in Workers, deactivate_begin(d, f, v)
      PROVE  link' /\ InOrder'
  <2>1. /\ deact'[d].pc = "commit" /\ deact'[d].event = f
        /\ \A c \in Deacts \ {d} : deact'[c] = deact[c]
        /\ act' = act /\ row' = row /\ orderly' = orderly /\ link' = link
        /\ orderly => NothingRunning /\ row[f] = "ACTIVE"
    BY <1>4 DEF TypeOK, deactivate_begin, bridge
  <2>2. Final' = Final
    BY <1>4 DEF deactivate_begin, bridge, Final, Activates
  <2>3. orderly => OneRequest' /\ OneCorridor'
    BY <2>1 DEF InOrder, OneRequest, OneCorridor, NothingRunning, Activating, Deactivating
  <2>4. orderly => InStep'
    BY <2>1, <2>2 DEF InOrder, InStep, NothingRunning, SomeActive, Running
  <2> QED BY <2>1, <2>3, <2>4 DEF InOrder
<1>5. ASSUME NEW d \in Deacts, deactivate_commit(d)
      PROVE  link' /\ InOrder'
  <2>1. /\ deact[d].pc = "commit" /\ deact'[d].pc = "memory"
        /\ \A c \in Deacts \ {d} : deact'[c] = deact[c]
        /\ \A e \in Events : row'[e] = "ACTIVE" => row[e] = "ACTIVE" /\ e # deact[d].event
        /\ deact[d].event \in Events
        /\ act' = act /\ orderly' = orderly /\ link' = link
    BY <1>5 DEF TypeOK, deactivate_commit, RowAfterDeactivate, bridge
  <2>2. orderly => ~SomeActive'
    BY <2>1 DEF InOrder, InStep, OneCorridor, SomeActive
  <2>3. orderly => OneRequest' /\ OneCorridor'
    BY <2>1 DEF InOrder, OneRequest, OneCorridor, Activating, Deactivating, Running
  <2>4. orderly => InStep'
    BY <2>1, <2>2 DEF InOrder, InStep, OneRequest, NothingRunning, Running,
                      Activating, Deactivating
  <2> QED BY <2>1, <2>3, <2>4 DEF InOrder
<1>6. ASSUME NEW d \in Deacts, deactivate_memory(d)
      PROVE  link' /\ InOrder'
  <2>1. /\ deact[d].pc = "memory" /\ deact'[d].pc = "publish"
        /\ \A c \in Deacts \ {d} : deact'[c] = deact[c]
        /\ act' = act /\ row' = row /\ orderly' = orderly /\ link' = link
    BY <1>6 DEF TypeOK, deactivate_memory, bridge
  <2>3. orderly => OneRequest' /\ OneCorridor'
    BY <2>1 DEF InOrder, OneRequest, OneCorridor, Activating, Deactivating, Running
  <2>4. orderly => InStep'
    BY <2>1 DEF InOrder, InStep, OneRequest, NothingRunning, SomeActive, Running,
                Activating, Deactivating
  <2> QED BY <2>1, <2>3, <2>4 DEF InOrder
<1>7. ASSUME NEW d \in Deacts, deactivate_publish(d)
      PROVE  link' /\ InOrder'
  <2>1. /\ deact[d].pc = "publish" /\ deact'[d].pc = "answered"
        /\ \A c \in Deacts \ {d} : deact'[c] = deact[c]
        /\ deact[d].event \in Events
        /\ act' = act /\ row' = row /\ orderly' = orderly /\ link' = link
    BY <1>7 DEF TypeOK, deactivate_publish
  <2>2. ~Final'
    BY <1>7, <2>1, CommandTypes, FinalPublished DEF deactivate_publish, Activates, Deactivated
  <2>3. orderly => OneRequest' /\ OneCorridor'
    BY <2>1 DEF InOrder, OneRequest, OneCorridor, Activating, Deactivating, Running
  <2>4. orderly => InStep'
    BY <2>1, <2>2 DEF InOrder, InStep, OneRequest, NothingRunning, SomeActive, Running,
                      Activating, Deactivating
  <2> QED BY <2>1, <2>3, <2>4 DEF InOrder
<1>8. ASSUME listener_reads \/ execute_command
      PROVE  link' /\ InOrder'
  <2>1. UNCHANGED <<act, deact, row, orderly, link>>
    BY <1>8 DEF listener_reads, execute_command, server
  <2>2. Final' <=> Final
    BY <1>8, FinalStays
  <2> QED BY <2>1, <2>2 DEF InOrder, OneRequest, OneCorridor, InStep, NothingRunning,
                            SomeActive, Activating, Deactivating
<1>9. ASSUME UNCHANGED vars
      PROVE  link' /\ InOrder'
  <2>1. UNCHANGED <<act, deact, row, orderly, link, wire, queue, mode>>
    BY <1>9 DEF vars, server, bridge
  <2> QED BY <2>1 DEF InOrder, OneRequest, OneCorridor, InStep, NothingRunning,
                      SomeActive, Activating, Deactivating, Final, Activates
<1> QED
  BY <1>1, <1>2, <1>3, <1>4, <1>5, <1>6, <1>7, <1>8, <1>9
  DEF Next, Serve, Bridge, activate_commit_fails, activate_publish_fails,
      deactivate_commit_fails, deactivate_publish_fails, worker_restart,
      listener_drops, listener_reconnects

\* AgreeAtRest is an invariant when nothing fails: at rest the workers' memory follows
\* the rows, and with operators who keep in order, whichever workers serve them, the
\* bridge is in emergency mode just when the database has an ACTIVE event.
THEOREM AgreeCorrect ==
  ASSUME Faults = {}
  PROVE  Spec => []AgreeAtRest
<1>1. Init => link /\ InOrder
  BY DEF Init, NewDeact, InOrder, OneRequest, OneCorridor, InStep, NothingRunning,
         SomeActive, Activating, Deactivating, Final, Running
<1>2. Spec => []MemoryFollowsRows
  BY MemoryCorrect DEF MemoryIsSafe
<1>3. TypeOK /\ link /\ InOrder /\ [Next]_vars => link' /\ InOrder'
  BY InOrderStep
<1>4. InOrder /\ MemoryFollowsRows => AgreeAtRest
  BY InOrderAtRest DEF AgreeAtRest
<1> QED BY <1>1, <1>2, <1>3, <1>4, TypeCorrect, PTL DEF Spec

-----------------------------------------------------------------------------
(* The command path: queue and wire, one after the other. *)

\* A command accepted by Redis is the last one pending.
LEMMA AcceptedIsLast ==
  ASSUME NEW S, NEW q \in Seq(S), NEW w \in Seq(S), NEW m \in S
  PROVE  q \o Append(w, m) = Append(q \o w, m)
<1>1. <<m>> \in Seq(S)
  OBVIOUS
<1>2. q \o w \in Seq(S)
  BY ConcatProperties
<1> QED BY <1>1, <1>2, AppendIsConcat, ConcatAssociative

\* Handing a command from one queue to the other changes nothing.
LEMMA ReadChangesNothing ==
  ASSUME NEW S, NEW q \in Seq(S), NEW w \in Seq(S), w # <<>>
  PROVE  Append(q, Head(w)) \o Tail(w) = q \o w
<1>1. Head(w) \in S /\ Tail(w) \in Seq(S) /\ <<Head(w)>> \in Seq(S)
  OBVIOUS
<1>2. <<Head(w)>> \o Tail(w) = w
  <2>1. 1 \in 1 .. Len(w) /\ Len(w) \in 1 .. Len(w) /\ Head(w) = w[1]
    OBVIOUS
  <2>2. SubSeq(w, 1, Len(w)) = <<w[1]>> \o SubSeq(w, 2, Len(w))
    BY <2>1, SubSeqRecursiveFirst
  <2> QED BY <2>1, <2>2, SubSeqFull, TailIsSubSeq
<1>3. Append(q, Head(w)) = q \o <<Head(w)>>
  BY <1>1, AppendIsConcat
<1>4. (q \o <<Head(w)>>) \o Tail(w) = q \o (<<Head(w)>> \o Tail(w))
  BY <1>1, ConcatAssociative
<1> QED BY <1>2, <1>3, <1>4

\* When the connection breaks, what the bridge has read is left.
LEMMA LossLeavesRead ==
  ASSUME NEW S, NEW q \in Seq(S), NEW w \in Seq(S)
  PROVE  /\ q \o <<>> = SubSeq(q \o w, 1, Len(q))
         /\ Len(q) \in 0 .. Len(q \o w)
<1>1. q \o <<>> = q
  BY ConcatEmptySeq
<1>2. Len(q \o w) = Len(q) + Len(w) /\ Len(q) \in Nat /\ Len(w) \in Nat
  BY ConcatProperties
<1>3. CASE q = <<>>
  <2>1. Len(q) = 0
    BY <1>3
  <2> QED BY <1>1, <1>2, <1>3, <2>1, SubSeqEmpty
<1>4. CASE q # <<>>
  <2>1. 1 \in 1 .. Len(q) /\ Len(q) \in 1 .. Len(q)
    BY <1>4, EmptySeq
  <2> QED BY <1>1, <1>2, <2>1, SubSeqOfConcat1, SubSeqFull
<1> QED BY <1>3, <1>4

\* What the bridge executes is the first command of all.
LEMMA ExecutedIsFirst ==
  ASSUME NEW S, NEW q \in Seq(S), NEW w \in Seq(S), q # <<>>
  PROVE  /\ q \o w # <<>> /\ Head(q \o w) = Head(q)
         /\ Tail(q) \o w = Tail(q \o w)
<1> DEFINE j == q \o w
           a == Tail(q) \o w
           b == Tail(j)
<1>1. /\ Tail(q) \in Seq(S) /\ Len(Tail(q)) = Len(q) - 1 /\ Len(q) \in Nat \ {0}
      /\ Len(w) \in Nat /\ Head(q) = q[1]
      /\ \A i \in 1 .. Len(q) - 1 : Tail(q)[i] = q[i + 1]
  BY HeadTailProperties, EmptySeq
<1>2. /\ j \in Seq(S) /\ Len(j) = Len(q) + Len(w)
      /\ \A i \in 1 .. Len(j) : j[i] = IF i <= Len(q) THEN q[i] ELSE w[i - Len(q)]
  BY ConcatProperties
<1>3. /\ a \in Seq(S) /\ Len(a) = Len(q) - 1 + Len(w)
      /\ \A i \in 1 .. Len(a) : a[i] = IF i <= Len(q) - 1 THEN Tail(q)[i] ELSE w[i - (Len(q) - 1)]
  BY <1>1, ConcatProperties
<1> HIDE DEF j, a
<1>4. j # <<>> /\ Head(j) = q[1]
  BY <1>1, <1>2
<1>5. /\ b \in Seq(S) /\ Len(b) = Len(j) - 1
      /\ \A i \in 1 .. Len(b) : b[i] = j[i + 1]
  BY <1>2, <1>4, HeadTailProperties
<1> HIDE DEF b
<1>6. Len(a) = Len(b)
  BY <1>1, <1>2, <1>3, <1>5
<1>7. ASSUME NEW i \in 1 .. Len(a)
      PROVE  a[i] = b[i]
  <2>1. i + 1 \in 1 .. Len(j) /\ b[i] = j[i + 1]
    BY <1>1, <1>2, <1>3, <1>5
  <2>2. CASE i <= Len(q) - 1
    <3>1. i \in 1 .. Len(q) - 1 /\ i + 1 <= Len(q)
      BY <1>1, <2>2
    <3>2. a[i] = Tail(q)[i] /\ j[i + 1] = q[i + 1]
      BY <1>2, <1>3, <2>1, <3>1
    <3> QED BY <1>1, <2>1, <3>1, <3>2
  <2>3. CASE ~(i <= Len(q) - 1)
    <3>1. ~(i + 1 <= Len(q)) /\ i - (Len(q) - 1) = i + 1 - Len(q)
      BY <1>1, <2>3
    <3>2. j[i + 1] = w[i + 1 - Len(q)]
      BY <1>2, <2>1, <3>1
    <3>3. a[i] = w[i - (Len(q) - 1)]
      BY <1>3, <2>3
    <3> QED BY <2>1, <3>1, <3>2, <3>3
  <2> QED BY <2>2, <2>3
<1>8. a = b
  BY <1>3, <1>5, <1>6, <1>7, SeqEqual
<1> QED BY <1>1, <1>4, <1>8 DEF j, a, b

\* Whatever is published is one more command pending, or is not received.
LEMMA PublishAccepts ==
  ASSUME TypeOK, NEW m \in Command, Publish(m), UNCHANGED <<queue, mode>>
  PROVE  [Path!Next]_Path!vars
<1>1. queue \in Seq(Command) /\ wire \in Seq(Command)
  BY DEF TypeOK
<1>2. CASE link
  <2>1. queue' \o wire' = Append(queue \o wire, m)
    BY <1>1, <1>2, AcceptedIsLast DEF Publish
  <2>2. Path!Accept(m)
    BY <2>1 DEF Path!Accept
  <2> QED BY <2>2 DEF Path!Next
<1>3. CASE ~link
  BY <1>3 DEF Publish, Path!vars
<1> QED BY <1>2, <1>3

\* Whatever interleaves, fails or restarts in any number of workers, commands take effect
\* in the order Redis accepted them, none twice, and only a broken connection loses some:
\* every step of the Emergency API and the bridge is one of the command path, or none.
THEOREM CommandPathImplemented == Spec => ImplementsCommandPath
<1>1. ASSUME Init PROVE Path!Init
  <2>1. queue = <<>> /\ wire = <<>> /\ mode = FALSE
    BY <1>1 DEF Init
  <2>2. <<>> \in Seq(Command) /\ <<>> \o <<>> = <<>>
    BY EmptySeq, ConcatEmptySeq
  <2> QED BY <2>1, <2>2 DEF Path!Init
<1>2. ASSUME TypeOK, [Next]_vars PROVE [Path!Next]_Path!vars
  <2>1. queue \in Seq(Command) /\ wire \in Seq(Command)
    BY <1>2 DEF TypeOK
  <2>2. ASSUME NEW e \in Events, activate_publish(e)
        PROVE  [Path!Next]_Path!vars
    BY <1>2, <2>2, CommandTypes, PublishAccepts DEF activate_publish
  <2>3. ASSUME NEW d \in Deacts, deactivate_publish(d)
        PROVE  [Path!Next]_Path!vars
    <3>1. deact[d].event \in Events
      BY <1>2, <2>3 DEF TypeOK, deactivate_publish
    <3> QED BY <1>2, <2>3, <3>1, CommandTypes, PublishAccepts DEF deactivate_publish
  <2>4. ASSUME listener_drops
        PROVE  [Path!Next]_Path!vars
    <3>1. /\ queue' \o wire' = SubSeq(queue \o wire, 1, Len(queue))
          /\ Len(queue) \in 0 .. Len(queue \o wire)
      BY <2>1, <2>4, LossLeavesRead DEF listener_drops
    <3>2. Path!Lose(Len(queue))
      BY <2>4, <3>1 DEF listener_drops, Path!Lose
    <3> QED BY <3>1, <3>2 DEF Path!Next
  <2>5. ASSUME listener_reads
        PROVE  [Path!Next]_Path!vars
    BY <2>1, <2>5, ReadChangesNothing DEF listener_reads, Path!vars
  <2>6. ASSUME execute_command
        PROVE  [Path!Next]_Path!vars
    <3>1. /\ queue \o wire # <<>> /\ Head(queue \o wire) = Head(queue)
          /\ queue' \o wire' = Tail(queue \o wire)
      BY <2>1, <2>6, ExecutedIsFirst DEF execute_command
    <3>2. Head(queue).type \in {"EMERGENCY_ACTIVATED", "EMERGENCY_DEACTIVATED"}
      <4>1. Head(queue) \in Command
        BY <2>1, <2>6 DEF execute_command
      <4> QED BY <4>1 DEF Command
    <3>3. mode' = CASE Head(queue).type = "EMERGENCY_ACTIVATED" -> TRUE
                    [] Head(queue).type = "EMERGENCY_DEACTIVATED" -> FALSE
                    [] OTHER -> mode
      <4>1. CASE Head(queue).type = "EMERGENCY_ACTIVATED"
        BY <2>6, <4>1 DEF execute_command, ModeAfter
      <4>2. CASE Head(queue).type = "EMERGENCY_DEACTIVATED"
        BY <2>6, <4>2 DEF execute_command, ModeAfter
      <4> QED BY <3>2, <4>1, <4>2
    <3>4. Path!Execute
      BY <3>1, <3>3 DEF Path!Execute
    <3> QED BY <3>4 DEF Path!Next
  <2>7. ASSUME UNCHANGED <<wire, queue, mode>>
        PROVE  [Path!Next]_Path!vars
    BY <2>7 DEF Path!vars
  <2> QED BY <1>2, <2>2, <2>3, <2>4, <2>5, <2>6, <2>7
    DEF Next, Serve, Bridge, vars, server, bridge, activate_begin, activate_commit,
        activate_commit_fails, activate_publish_fails, deactivate_begin,
        deactivate_commit, deactivate_commit_fails, deactivate_memory,
        deactivate_publish_fails, worker_restart, listener_reconnects
<1> QED BY <1>1, <1>2, TypeCorrect, PTL DEF Spec, ImplementsCommandPath, Path!Spec
=============================================================================
