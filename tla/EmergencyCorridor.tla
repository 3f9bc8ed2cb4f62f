-------------------------- MODULE EmergencyCorridor --------------------------
(***************************************************************************)
(* The emergency corridor end to end: the REST handlers of                 *)
(* backend/app/api/emergency.py in every API worker, the emergency_events  *)
(* table, the Redis channel and the command path of                        *)
(* simulation/sumo_live_bridge.py.                                         *)
(*                                                                         *)
(* A handler is a coroutine: it gives up control at every await, so its    *)
(* steps are actions of their own and interleave with the other requests,  *)
(* of the same worker or of another.                                       *)
(*                                                                         *)
(* active[w]   keys of green_wave_ctrl.active_events in worker w           *)
(* row[e]      status of event e in the database, or "none"                *)
(* act[e]      the POST /activate request that creates event e             *)
(* deact[d]    the POST /deactivate request d, for any id; seen: its       *)
(*             sender had seen the event; stored: its database part went   *)
(*             through                                                     *)
(* announced   events whose EMERGENCY_ACTIVATED reached Redis; the workers *)
(*             forward it to the dashboards                                *)
(* link, wire  the bridge listener's subscription, and what Redis sent on  *)
(*             it that the listener has not read                           *)
(* queue, mode the bridge's command_queue and emergency_mode               *)
(* orderly     whether the operators send one request at a time, for one   *)
(*             corridor at a time; chosen once                             *)
(***************************************************************************)
EXTENDS Naturals, Sequences

CONSTANTS
  Workers,      \* uvicorn worker processes
  Events,       \* event uuids, one per activation request
  Deacts,       \* deactivation requests
  Faults,       \* which of the faults below may happen
  NoEvent, NoWorker

AllFaults == {"commit", "publish", "link", "restart"}

ASSUME EmergencyAssumption ==
  /\ Faults \subseteq AllFaults
  /\ NoEvent \notin Events /\ NoWorker \notin Workers

VARIABLES active, row, act, deact, announced, link, wire, queue, mode, orderly
server == <<active, row, act, deact, announced, orderly>>
bridge == <<link, wire, queue, mode>>
vars == <<server, bridge>>

Command == [type : {"EMERGENCY_ACTIVATED", "EMERGENCY_DEACTIVATED"}, event : Events]
Activated(e) == [type |-> "EMERGENCY_ACTIVATED", event |-> e]
Deactivated(e) == [type |-> "EMERGENCY_DEACTIVATED", event |-> e]

Over == {"answered", "failed"}
Running == {"commit", "memory", "publish"}

NewDeact ==
  [pc |-> "new", worker |-> NoWorker, event |-> NoEvent, seen |-> FALSE, stored |-> FALSE]

-----------------------------------------------------------------------------
Init ==
  /\ active = [w \in Workers |-> {}]
  /\ row = [e \in Events |-> "none"]
  /\ act = [e \in Events |-> [pc |-> "new", worker |-> NoWorker]]
  /\ deact = [d \in Deacts |-> NewDeact]
  /\ announced = {}
  /\ link = TRUE /\ wire = <<>> /\ queue = <<>> /\ mode = FALSE
  /\ orderly \in BOOLEAN

\* redis.publish: pub/sub keeps nothing for a subscriber that is not connected.
Publish(m) == wire' = IF link THEN Append(wire, m) ELSE wire

NothingRunning ==
  /\ \A e \in Events : act[e].pc \notin Running
  /\ \A d \in Deacts : deact[d].pc \notin Running

-----------------------------------------------------------------------------
(* POST /emergency/activate *)

\* The order of the handler's statements.
\* Mutants: the broadcast is sent before the row is committed; it is forgotten.
AfterStepNoPublish ==
  [memory |-> "commit", commit |-> "answered", publish |-> "answered"]
AfterStepPublishFirst ==
  [memory |-> "publish", publish |-> "commit", commit |-> "answered"]
AfterStep == [memory |-> "commit", commit |-> "publish", publish |-> "answered"]

\* Up to the first await: a fresh uuid, green_wave_ctrl.activate in this worker.
activate_begin(e, w) ==
  /\ act[e].pc = "new"
  /\ orderly => NothingRunning /\ \A x \in Events : row[x] # "ACTIVE"
  /\ active' = [active EXCEPT ![w] = @ \cup {e}]
  /\ act' = [act EXCEPT ![e] = [pc |-> AfterStep["memory"], worker |-> w]]
  /\ UNCHANGED <<row, deact, announced, bridge, orderly>>

activate_commit(e) ==
  /\ act[e].pc = "commit"
  /\ row' = [row EXCEPT ![e] = "ACTIVE"]
  /\ act' = [act EXCEPT ![e].pc = AfterStep["commit"]]
  /\ UNCHANGED <<active, deact, announced, bridge, orderly>>

\* The commit raises: nothing catches it, the client gets a 500, and the
\* worker's controller keeps the event.
\* Mutant: the exception is swallowed, as it is everywhere else in the file.
CommitFailureSwallowed == AfterStep["commit"]
CommitFailure == "failed"

activate_commit_fails(e) ==
  /\ "commit" \in Faults
  /\ act[e].pc = "commit"
  /\ act' = [act EXCEPT ![e].pc = CommitFailure]
  /\ UNCHANGED <<active, row, deact, announced, bridge, orderly>>

activate_publish(e) ==
  /\ act[e].pc = "publish"
  /\ Publish(Activated(e))
  /\ announced' = announced \cup {e}
  /\ act' = [act EXCEPT ![e].pc = AfterStep["publish"]]
  /\ UNCHANGED <<active, row, deact, link, queue, mode, orderly>>

activate_publish_fails(e) ==
  /\ "publish" \in Faults
  /\ act[e].pc = "publish"
  /\ act' = [act EXCEPT ![e].pc = AfterStep["publish"]]
  /\ UNCHANGED <<active, row, deact, announced, bridge, orderly>>

-----------------------------------------------------------------------------
(* POST /emergency/deactivate/{event_id} *)

\* What the operators can have seen of event e: its row in GET /emergency/active, or
\* the EMERGENCY_ACTIVATED the dashboards received.
Known(e) == row[e] # "none" \/ e \in announced

\* The id is whatever the client sent: nothing asks whether there is such an event,
\* or whether its activation has come as far as its row.
deactivate_begin(d, e, w) ==
  /\ deact[d].pc = "new"
  /\ orderly => NothingRunning /\ row[e] = "ACTIVE"
  /\ deact' = [deact EXCEPT ![d] = [pc |-> "commit", worker |-> w, event |-> e,
                                    seen |-> Known(e), stored |-> FALSE]]
  /\ UNCHANGED <<active, row, act, announced, bridge, orderly>>

\* select; when there is a row, its update and the commit.
\* Mutant: the event is marked CANCELLED, which deactivation never means.
RowAfterDeactivateCancels(e) == IF row[e] = "none" THEN "none" ELSE "CANCELLED"
RowAfterDeactivate(e) == IF row[e] = "none" THEN "none" ELSE "COMPLETED"

deactivate_commit(d) ==
  /\ deact[d].pc = "commit"
  /\ row' = [row EXCEPT ![deact[d].event] = RowAfterDeactivate(deact[d].event)]
  /\ deact' = [deact EXCEPT ![d] = [@ EXCEPT !.pc = "memory", !.stored = TRUE]]
  /\ UNCHANGED <<active, act, announced, bridge, orderly>>

\* Any exception of the database part is swallowed.
deactivate_commit_fails(d) ==
  /\ "commit" \in Faults
  /\ deact[d].pc = "commit"
  /\ deact' = [deact EXCEPT ![d].pc = "memory"]
  /\ UNCHANGED <<active, row, act, announced, bridge, orderly>>

\* green_wave_ctrl.deactivate in this worker; an unknown event is an error the
\* handler ignores.
\* Mutant: the call is left out, the row alone is closed.
MemoryAfterDeactivateKept(w, e) == active[w]
MemoryAfterDeactivate(w, e) == active[w] \ {e}

deactivate_memory(d) ==
  /\ deact[d].pc = "memory"
  /\ LET w == deact[d].worker
     IN  active' = [active EXCEPT ![w] = MemoryAfterDeactivate(w, deact[d].event)]
  /\ deact' = [deact EXCEPT ![d].pc = "publish"]
  /\ UNCHANGED <<row, act, announced, bridge, orderly>>

deactivate_publish(d) ==
  /\ deact[d].pc = "publish"
  /\ Publish(Deactivated(deact[d].event))
  /\ deact' = [deact EXCEPT ![d].pc = "answered"]
  /\ UNCHANGED <<active, row, act, announced, link, queue, mode, orderly>>

deactivate_publish_fails(d) ==
  /\ "publish" \in Faults
  /\ deact[d].pc = "publish"
  /\ deact' = [deact EXCEPT ![d].pc = "answered"]
  /\ UNCHANGED <<active, row, act, announced, bridge, orderly>>

\* A worker process dies and is started again: its memory and the requests it
\* was serving are gone.
worker_restart(w) ==
  LET killed(r) == r.worker = w /\ r.pc \in Running
  IN  /\ "restart" \in Faults
      /\ active' = [active EXCEPT ![w] = {}]
      /\ act' = [e \in Events |->
                   IF killed(act[e]) THEN [act[e] EXCEPT !.pc = "failed"] ELSE act[e]]
      /\ deact' = [d \in Deacts |->
                     IF killed(deact[d]) THEN [deact[d] EXCEPT !.pc = "failed"] ELSE deact[d]]
      /\ UNCHANGED <<row, announced, bridge, orderly>>

-----------------------------------------------------------------------------
(* The live bridge *)

\* listen_dashboard_commands: end of file or an exception ends the
\* subscription; what was on the wire is lost with it.
listener_drops ==
  /\ "link" \in Faults
  /\ link
  /\ link' = FALSE /\ wire' = <<>>
  /\ UNCHANGED <<server, queue, mode>>

listener_reconnects ==
  /\ ~link
  /\ link' = TRUE
  /\ UNCHANGED <<server, wire, queue, mode>>

listener_reads ==
  /\ wire # <<>>
  /\ queue' = Append(queue, Head(wire))
  /\ wire' = Tail(wire)
  /\ UNCHANGED <<server, link, mode>>

\* trigger_emergency_corridor / clear_emergency_corridor: neither looks at the
\* event the command is about.
\* Mutants: a deactivation does not clear the mode; an activation does not set it.
ModeAfterNoSet(m) == mode /\ m.type = "EMERGENCY_ACTIVATED"
ModeAfterNoClear(m) == mode \/ m.type = "EMERGENCY_ACTIVATED"
ModeAfter(m) == m.type = "EMERGENCY_ACTIVATED"

\* One turn of the command loop in the main thread.
execute_command ==
  /\ queue # <<>>
  /\ mode' = ModeAfter(Head(queue))
  /\ queue' = Tail(queue)
  /\ UNCHANGED <<server, link, wire>>

-----------------------------------------------------------------------------
Serve(w) ==
  \/ \E e \in Events :
       /\ act[e].worker = w
       /\ \/ activate_commit(e) \/ activate_commit_fails(e)
          \/ activate_publish(e) \/ activate_publish_fails(e)
  \/ \E d \in Deacts :
       /\ deact[d].worker = w
       /\ \/ deactivate_commit(d) \/ deactivate_commit_fails(d)
          \/ deactivate_memory(d)
          \/ deactivate_publish(d) \/ deactivate_publish_fails(d)

Bridge == listener_reads \/ listener_reconnects \/ execute_command

Next ==
  \/ \E w \in Workers : Serve(w)
  \/ \E w \in Workers, e \in Events : activate_begin(e, w)
  \/ \E w \in Workers, e \in Events, d \in Deacts : deactivate_begin(d, e, w)
  \/ \E w \in Workers : worker_restart(w)
  \/ listener_drops
  \/ Bridge

Spec == Init /\ [][Next]_vars

\* The event loop of a worker resumes every coroutine whose await is done, and
\* the two bridge threads keep running.  Requests need not arrive.
Fairness ==
  /\ \A e \in Events : WF_vars(activate_commit(e)) /\ WF_vars(activate_publish(e))
  /\ \A d \in Deacts : /\ WF_vars(deactivate_commit(d)) /\ WF_vars(deactivate_memory(d))
                       /\ WF_vars(deactivate_publish(d))
  /\ WF_vars(listener_reads) /\ WF_vars(listener_reconnects)
  /\ WF_vars(execute_command)

FairSpec == Spec /\ Fairness

-----------------------------------------------------------------------------
(* Properties *)

\* Type invariant of the composed system.
TypeOK ==
  /\ active \in [Workers -> SUBSET Events]
  /\ row \in [Events -> {"none", "ACTIVE", "COMPLETED"}]
  /\ act \in [Events -> [pc : {"new", "commit", "publish"} \cup Over,
                         worker : Workers \cup {NoWorker}]]
  /\ deact \in [Deacts -> [pc : {"new"} \cup Running \cup Over,
                           worker : Workers \cup {NoWorker},
                           event : Events \cup {NoEvent},
                           seen : BOOLEAN,
                           stored : BOOLEAN]]
  /\ \A d \in Deacts : deact[d].pc # "new" => deact[d].event \in Events
  /\ orderly \in BOOLEAN
  /\ announced \subseteq Events
  /\ link \in BOOLEAN /\ mode \in BOOLEAN
  /\ wire \in Seq(Command) /\ queue \in Seq(Command)

\* The events whose activation is on its way to the bridge.
ActivationsIn(cmds) == {e \in Events : \E i \in DOMAIN cmds : cmds[i] = Activated(e)}
InFlight == ActivationsIn(wire) \cup ActivationsIn(queue)

\* Whatever fails or restarts, a corridor that the dashboards or the bridge are told
\* to open has its row in the database (activate_emergency commits before it
\* publishes), and the bridge is in emergency mode only after some event was
\* recorded.  A deactivation has no such backing: it is announced for any id.
PublishedImpliesPersisted ==
  /\ \A e \in announced \cup InFlight : row[e] # "none"
  /\ mode => \E e \in Events : row[e] # "none"

\* Once the deactivation of an event that somebody has seen went through the database,
\* the event is not ACTIVE, then or later: no activation in progress brings the row
\* back, and none is announced so early that its deactivation misses the row.
DeactivatedStaysDown ==
  \A d \in Deacts : deact[d].seen /\ deact[d].stored => row[deact[d].event] # "ACTIVE"

\* No request in progress and no command on its way.
Quiescent == NothingRunning /\ wire = <<>> /\ queue = <<>>
SomeActive == \E e \in Events : row[e] = "ACTIVE"

\* At rest with no ACTIVE event the bridge is out of emergency mode: "Deactivate
\* an active green wave and restore default signal cycles."
NoStuckCorridor == Quiescent /\ mode => SomeActive

\* At rest with an ACTIVE event the bridge enforces the corridor: "When emergency
\* corridor is active, enforce Green wave across all corridor traffic lights".
NoDroppedCorridor == Quiescent /\ SomeActive => mode

\* Operators who work in order keep bridge and database in agreement, also when
\* their requests are served by different workers.
OrderlyAgrees == orderly => NoStuckCorridor /\ NoDroppedCorridor

\* The deactivations of e came from operators who had seen it, and were served by the
\* worker that has it in memory.
SameWorker(e) ==
  \A d \in Deacts : deact[d].event = e => deact[d].seen /\ deact[d].worker = act[e].worker

\* At rest an event is in some worker's memory just when it is ACTIVE (the status
\* of an event, GET /status/{id}, agrees with the list, GET /active), provided one
\* worker served it and nobody guessed its id; no overlap of its requests undoes that.
MemoryFollowsRows ==
  Quiescent => \A e \in Events : SameWorker(e) =>
    ((\E w \in Workers : e \in active[w]) <=> row[e] = "ACTIVE")

\* At rest bridge, rows and memory tell the same, as far as operators keep in order and
\* one worker serves an event.
AgreeAtRest == OrderlyAgrees /\ MemoryFollowsRows

\* Every deactivation that gets as far as its broadcast takes the bridge out of
\* emergency mode for a moment, however requests interleave.
DeactivationReachesBridge == \A d \in Deacts : deact[d].pc = "publish" ~> ~mode

\* Every activation that gets as far as its broadcast puts it into the mode.
ActivationReachesBridge == \A e \in Events : act[e].pc = "publish" ~> mode

\* No broadcast is lost on the way to the bridge.
CommandsReachBridge == DeactivationReachesBridge /\ ActivationReachesBridge

\* The composed system implements the command path: whatever interleaves, fails
\* or restarts on the server, commands take effect in the order Redis accepted
\* them, none twice, and only a broken subscription loses some.
Path == INSTANCE CommandPath WITH pending <- queue \o wire, Commands <- Command
ImplementsCommandPath == Path!Spec
=============================================================================
