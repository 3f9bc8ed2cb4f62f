---------------------------- MODULE EmergencyPage ----------------------------
(***************************************************************************)
(* The emergency page of the dashboard (pages/EmergencyPage.tsx) against   *)
(* the server it talks to.  The page learns what is active in three ways:  *)
(* the answer to the query it sends when it is mounted, the messages of    *)
(* the emergency socket, and the answers to its own requests.  They travel *)
(* separately and may overtake each other.  A request that fails at axios  *)
(* is sent a second time by fetch, whether or not the server had it.       *)
(*                                                                         *)
(* careful    chosen once: nothing gets lost, the operators act in turn,   *)
(*            when all is quiet, and open one corridor at a time           *)
(* rows       the server's active events                                   *)
(* issued     events recorded so far; they are numbered from 1, the newest *)
(*            has the highest number, 0 is none                            *)
(* pushes     messages on the socket, oldest first                         *)
(* wire       requests the server has not handled yet                      *)
(* replies    answers on their way back                                    *)
(* made[c]    how many events the server recorded for click c              *)
(* lost[c]    how many requests or answers of click c failed               *)
(* faults     everything that failed                                       *)
(* query      the request for what is active sent when mounting            *)
(* call[c]    click c: its request, and whether the page that sent it is   *)
(*            still there                                                  *)
(* ticking    whether the interval runs that moves the green on; React     *)
(*            starts and stops it some time after isActivated changed      *)
(***************************************************************************)
EXTENDS Integers, Sequences

CONSTANTS
  MaxFaults,  \* bound: faults of the network
  Clicks,     \* clicks on the corridor button, each once
  MaxEvents,  \* bound: emergency events the server records
  Stops       \* junctions of the route

ASSUME EmergencyPageAssumption ==
  /\ MaxEvents \in Nat /\ MaxFaults \in Nat
  /\ Stops \in Nat \ {0}

VARIABLES careful, rows, issued, pushes, wire, replies, made, lost, faults,
          mounted, query, call, isActivated, activeEventId, junctions, ticking
server == <<rows, issued, made>>
network == <<pushes, wire, replies, lost, faults>>
shown == <<isActivated, activeEventId, junctions>>
vars == <<careful, server, network, mounted, query, call, shown, ticking>>

EventIds == 1..MaxEvents
Status == {"CLEARED", "ACTIVE_GREEN", "PRE_EMPTING", "STANDARD"}

\* The route as it looks while junction g is the green one.
Corridor(g) ==
  [k \in 1..Stops |-> CASE k < g     -> "CLEARED"
                        [] k = g     -> "ACTIVE_GREEN"
                        [] k = g + 1 -> "PRE_EMPTING"
                        [] OTHER     -> "STANDARD"]

DEFAULT_ROUTE_JUNCTIONS == Corridor(1)

NoQuery == [at |-> "none", event |-> 0]
Unused == [stage |-> "unused", kind |-> "activate", event |-> 0, mine |-> FALSE]
Waiting(c) == call[c].stage \in {"axios", "fetch"}
Quiet == /\ wire = {} /\ replies = {} /\ pushes = <<>> /\ query.at = "none"
         /\ \A c \in Clicks : ~Waiting(c)
MayAct == careful => Quiet
MayFail == ~careful /\ faults < MaxFaults /\ faults' = faults + 1

Init ==
  /\ careful \in BOOLEAN
  /\ rows = {} /\ issued = 0 /\ made = [c \in Clicks |-> 0]
  /\ pushes = <<>> /\ wire = {} /\ replies = {}
  /\ lost = [c \in Clicks |-> 0] /\ faults = 0
  /\ mounted = FALSE
  /\ query = NoQuery
  /\ call = [c \in Clicks |-> Unused]
  /\ isActivated = FALSE /\ activeEventId = 0
  /\ junctions = DEFAULT_ROUTE_JUNCTIONS
  /\ ticking = FALSE

\* Mutants: the id is not taken over; the route is not put back.
ShowActiveKeepsId(e) == isActivated' = TRUE /\ UNCHANGED <<activeEventId, junctions>>
ShowActive(e) == isActivated' = TRUE /\ activeEventId' = e /\ UNCHANGED junctions
ShowInactiveKeepsRoute == isActivated' = FALSE /\ activeEventId' = 0 /\ UNCHANGED junctions
ShowInactive == /\ isActivated' = FALSE /\ activeEventId' = 0
                /\ junctions' = DEFAULT_ROUTE_JUNCTIONS

(***************************************************************************)
(* Coming to the page and leaving it.                                      *)
(***************************************************************************)

\* useState gives a new page its initial state; the effect sends the query and
\* subscribes.
Mount ==
  /\ ~mounted /\ MayAct
  /\ mounted' = TRUE
  /\ query' = [at |-> "asked", event |-> 0]
  /\ ShowInactive
  /\ UNCHANGED <<careful, server, network, call, ticking>>

\* React forgets the state; handlers still running go on and show nothing.
Unmount ==
  /\ mounted /\ MayAct
  /\ mounted' = FALSE
  /\ query' = NoQuery
  /\ call' = [c \in Clicks |-> [call[c] EXCEPT !.mine = FALSE]]
  /\ ShowInactive /\ ticking' = FALSE
  /\ UNCHANGED <<careful, server, network>>

\* The answer names the newest active event, if there is one, and is as old as
\* the moment at which the server read its rows.
\* Mutant: the page looks in the wrong field of the answer.
NewestNowhere == {0}
Newest == IF rows = {} THEN {0} ELSE {e \in rows : \A x \in rows : x <= e}

QueryServed ==
  /\ query.at = "asked"
  /\ \E e \in Newest : query' = [at |-> "answered", event |-> e]
  /\ UNCHANGED <<careful, server, network, mounted, call, shown, ticking>>

QueryAnswered ==
  /\ query.at = "answered"
  /\ query' = NoQuery
  /\ IF query.event # 0 THEN ShowActive(query.event) ELSE UNCHANGED shown
  /\ UNCHANGED <<careful, server, network, mounted, call, ticking>>

QueryFails ==
  /\ query.at # "none" /\ MayFail
  /\ query' = NoQuery
  /\ UNCHANGED <<careful, server, pushes, wire, replies, lost, mounted, call, shown,
                 ticking>>

(***************************************************************************)
(* The socket.                                                             *)
(***************************************************************************)
Receive ==
  /\ pushes # <<>>
  /\ pushes' = Tail(pushes)
  /\ IF ~mounted THEN UNCHANGED shown
     ELSE IF Head(pushes).type = "EMERGENCY_ACTIVATED" THEN ShowActive(Head(pushes).event)
     ELSE ShowInactive
  /\ UNCHANGED <<careful, server, wire, replies, lost, faults, mounted, query, call,
                 ticking>>

PushLost ==
  /\ pushes # <<>> /\ MayFail
  /\ pushes' = Tail(pushes)
  /\ UNCHANGED <<careful, server, wire, replies, lost, mounted, query, call, shown, ticking>>

(***************************************************************************)
(* handleToggleCorridor.                                                   *)
(***************************************************************************)
Message(c, leg, kind, event) == [click |-> c, leg |-> leg, kind |-> kind, event |-> event]
Request(c, leg) == Message(c, leg, call[c].kind, call[c].event)

\* Mutant: the second attempt does not wait for the first to fail.
SentTwice(c, kind, event) == {Message(c, leg, kind, event) : leg \in {"axios", "fetch"}}
Sent(c, kind, event) == {Message(c, "axios", kind, event)}

\* The button is never disabled: what it offers, and what a click does, depends on what
\* is shown.
Kind == IF isActivated THEN "deactivate" ELSE "activate"

handleToggleCorridor(c) ==
  /\ mounted /\ call[c] = Unused /\ MayAct
  /\ LET event == IF isActivated THEN activeEventId ELSE 0
     IN /\ call' = [call EXCEPT ![c] = [stage |-> "axios", kind |-> Kind,
                                        event |-> event, mine |-> TRUE]]
        /\ wire' = wire \cup Sent(c, Kind, event)
  /\ UNCHANGED <<careful, server, pushes, replies, lost, faults, mounted, query, shown,
                 ticking>>

Finish(c) == call' = [call EXCEPT ![c].stage = "over"]

Answered(c) ==
  /\ Waiting(c)
  /\ \E r \in replies :
       /\ r.click = c /\ r.leg = call[c].stage
       /\ replies' = replies \ {r}
       /\ IF ~call[c].mine THEN UNCHANGED shown
          ELSE IF call[c].kind = "activate" THEN ShowActive(r.event)
          ELSE ShowInactive
  /\ Finish(c)
  /\ UNCHANGED <<careful, server, pushes, wire, lost, faults, mounted, query, ticking>>

\* The request or its answer is lost; or axios gives up after ten seconds while
\* the request may still reach the server.  A deactivation is shown as done even
\* when both attempts failed.
Fails(c) ==
  /\ Waiting(c) /\ MayFail
  /\ lost' = [lost EXCEPT ![c] = @ + 1]
  /\ LET sent == Request(c, call[c].stage)
         again == IF call[c].stage = "axios" THEN {Request(c, "fetch")} ELSE {}
     IN /\ \/ wire' = (wire \ {sent}) \cup again
           \/ call[c].stage = "axios" /\ wire' = wire \cup again
        /\ replies' = {r \in replies : r.click # c}
  /\ IF call[c].stage = "axios"
     THEN call' = [call EXCEPT ![c].stage = "fetch"] /\ UNCHANGED shown
     ELSE /\ Finish(c)
          /\ IF call[c].kind = "deactivate" /\ call[c].mine
             THEN ShowInactive ELSE UNCHANGED shown
  /\ UNCHANGED <<careful, server, pushes, mounted, query, ticking>>

\* React runs the effect of a change of isActivated.
EffectRuns ==
  /\ mounted /\ ticking # isActivated /\ ticking' = isActivated
  /\ UNCHANGED <<careful, server, network, mounted, query, call, shown>>

\* Every 8 seconds the green moves on one junction.  The interval of a corridor that
\* has ended may come once more before React stops it, and no more than once.
Progress ==
  /\ mounted /\ ticking /\ ticking' = isActivated
  /\ \E i \in 1..Stops :
       /\ junctions[i] = "ACTIVE_GREEN"
       /\ \A k \in 1..(i - 1) : junctions[k] # "ACTIVE_GREEN"
       /\ junctions' = [k \in 1..Stops |-> CASE k = i     -> "CLEARED"
                                             [] k = i + 1 -> "ACTIVE_GREEN"
                                             [] k = i + 2 -> "PRE_EMPTING"
                                             [] OTHER     -> junctions[k]]
  /\ UNCHANGED <<careful, server, network, mounted, query, call, isActivated, activeEventId>>

(***************************************************************************)
(* The server, for this page and for other dashboards.                     *)
(***************************************************************************)
Record(e) == /\ issued' = e /\ rows' = rows \cup {e}
             /\ pushes' = Append(pushes, [type |-> "EMERGENCY_ACTIVATED", event |-> e])
Complete(e) == /\ rows' = rows \ {e} /\ UNCHANGED issued
               /\ pushes' = Append(pushes, [type |-> "EMERGENCY_DEACTIVATED", event |-> e])

Serve(r) ==
  /\ wire' = wire \ {r}
  /\ \/ /\ r.kind = "activate" /\ issued < MaxEvents
        /\ Record(issued + 1)
        /\ made' = [made EXCEPT ![r.click] = @ + 1]
     \/ /\ r.kind = "deactivate"
        /\ Complete(r.event)
        /\ UNCHANGED made
  /\ replies' = IF call[r.click].stage = r.leg
                THEN replies \cup {[click |-> r.click, leg |-> r.leg,
                                    event |-> IF r.kind = "activate" THEN issued' ELSE r.event]}
                ELSE replies
  /\ UNCHANGED <<careful, lost, faults, mounted, query, call, shown, ticking>>

OtherActivates ==
  /\ issued < MaxEvents /\ MayAct /\ (careful => rows = {})
  /\ Record(issued + 1)
  /\ UNCHANGED <<careful, made, wire, replies, lost, faults, mounted, query, call, shown,
                 ticking>>

OtherDeactivates ==
  /\ MayAct
  /\ \E e \in rows : Complete(e)
  /\ UNCHANGED <<careful, made, wire, replies, lost, faults, mounted, query, call, shown,
                 ticking>>

Next ==
  \/ Mount \/ Unmount \/ QueryServed \/ QueryAnswered \/ QueryFails
  \/ Receive \/ PushLost \/ Progress \/ EffectRuns
  \/ \E c \in Clicks : handleToggleCorridor(c) \/ Answered(c) \/ Fails(c)
  \/ \E r \in wire : Serve(r)
  \/ OtherActivates \/ OtherDeactivates

Spec == Init /\ [][Next]_vars

(***************************************************************************)
(* Properties.                                                             *)
(***************************************************************************)

\* Every variable has its type.
TypeOK ==
  /\ careful \in BOOLEAN /\ mounted \in BOOLEAN /\ isActivated \in BOOLEAN
  /\ rows \subseteq EventIds /\ issued \in 0..MaxEvents /\ activeEventId \in 0..MaxEvents
  /\ pushes \in Seq([type : {"EMERGENCY_ACTIVATED", "EMERGENCY_DEACTIVATED"}, event : EventIds])
  /\ wire \subseteq [click : Clicks, leg : {"axios", "fetch"},
                     kind : {"activate", "deactivate"}, event : 0..MaxEvents]
  /\ replies \subseteq [click : Clicks, leg : {"axios", "fetch"}, event : 0..MaxEvents]
  /\ made \in [Clicks -> Nat] /\ lost \in [Clicks -> Nat] /\ faults \in 0..MaxFaults
  /\ query \in [at : {"none", "asked", "answered"}, event : 0..MaxEvents]
  /\ call \in [Clicks -> [stage : {"unused", "axios", "fetch", "over"},
                          kind : {"activate", "deactivate"}, event : 0..MaxEvents,
                          mine : BOOLEAN]]
  /\ junctions \in [1..Stops -> Status] /\ ticking \in BOOLEAN

\* Whatever arrives in whatever order, the route shows one green junction, all before
\* it cleared, the next one pre-empting; and a page that shows no corridor shows the
\* route from its start, unless the last tick of the corridor before came after it.
CorridorInShape ==
  /\ \E g \in 1..(Stops + 1) : junctions = Corridor(g)
  /\ ~isActivated => junctions \in {Corridor(1), Corridor(2)}
  /\ ~isActivated /\ ticking => junctions = DEFAULT_ROUTE_JUNCTIONS

\* A request to stop names an event the server recorded: the id "latest", which the
\* handler falls back to and the server would announce without ending anything, is
\* never sent, however answers, messages and clicks interleave.
StopNamesEvent ==
  \A r \in wire : r.kind = "deactivate" => r.event \in 1..issued

\* A click creates one event, and a second one only when its first request or the
\* answer to it failed: the retry is no third source of corridors.
RetryCreatesOneMore ==
  \A c \in Clicks : made[c] <= 1 + lost[c] /\ made[c] <= 2

\* Operators who wait until all is quiet, without faults, see what the server has,
\* also after leaving the page and coming back.
CarefulOperatorsAgree ==
  careful /\ mounted /\ Quiet =>
    /\ isActivated = (rows # {})
    /\ isActivated => activeEventId \in Newest
=============================================================================
