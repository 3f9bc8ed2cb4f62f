--------------------------- MODULE SignalControlPage ---------------------------
(***************************************************************************)
(* The signal control page of the dashboard (pages/SignalControlPage.tsx). *)
(* Selecting a junction fetches its plan; no fetch is ever cancelled, and  *)
(* its answer sets the plan and the mode shown, whatever is selected by    *)
(* then.  A mode is shown before the server has it.                        *)
(*                                                                         *)
(* careful    chosen once: nothing fails, plans are answered in the order  *)
(*            they were asked for, and the one operator waits for quiet    *)
(* mode[j]    the mode of junction j's plan in the database                *)
(* runs[c]    how often the server carried out command c                   *)
(* wire       commands the server has not handled                          *)
(* replies    commands whose answer is on its way                          *)
(* lost[c]    attempts of c that failed                                    *)
(* store      whether the dashboard's list of junctions has arrived        *)
(* list       the page's own request for that list                         *)
(* fetches    requests for plans, oldest first                             *)
(* call[c]    command c of the operator                                    *)
(* lines      entries of the telemetry panel                               *)
(***************************************************************************)
EXTENDS Integers, Sequences, SequencesExt

CONSTANTS
  Junctions, First,  \* the junctions, and the first one in the list
  Fallback,          \* the junction whose plan the server gives for an unknown id
  J0, None,          \* an id that is no junction's, and nothing
  ModeClicks,        \* clicks on the mode buttons, each once
  OverrideClicks,    \* clicks on the override buttons, each once
  MaxFaults,         \* bound: faults of the network, and mode changes of others
  MaxFetches,        \* bound: plans being fetched
  MaxLines           \* entries the telemetry panel keeps

Commands == ModeClicks \cup OverrideClicks

VARIABLES careful, mode, runs, wire, replies, lost, faults, store, list, fetches,
          call, mounted, selectedJunctionId, activePlan, activeControl, lines
server == <<mode, runs>>
network == <<wire, replies, lost>>
shown == <<selectedJunctionId, activePlan, activeControl>>
vars == <<careful, server, network, faults, store, list, fetches, call, mounted, shown, lines>>

\* The page treats "webster" as it treats "manual".
Modes == {"marl", "manual"}
Unused == [stage |-> "unused", kind |-> "override", target |-> J0, mode |-> "marl"]
Waiting(c) == call[c].stage \in {"axios", "fetch"}
Quiet == /\ list = "none" /\ fetches = <<>> /\ wire = {} /\ replies = {}
         /\ \A c \in Commands : ~Waiting(c)
MayAct == mounted /\ (careful => store /\ Quiet)
MayFail == ~careful /\ faults < MaxFaults /\ faults' = faults + 1

\* Mutant: the list is not cut.
MoreUncut(n) == n + 1
More(n) == IF n < MaxLines THEN n + 1 ELSE n

Init ==
  /\ careful \in BOOLEAN
  /\ mode = [j \in Junctions |-> "marl"]
  /\ runs = [c \in Commands |-> 0] /\ lost = [c \in Commands |-> 0]
  /\ wire = {} /\ replies = {} /\ faults = 0
  /\ store \in BOOLEAN
  /\ list = "none" /\ fetches = <<>>
  /\ call = [c \in Commands |-> Unused]
  /\ mounted = FALSE
  /\ selectedJunctionId = J0 /\ activePlan = None /\ activeControl = "marl"
  /\ lines = 5

Fetch(j) == [junction |-> j, answer |-> "asked"]

\* Mutants: the effect does not depend on the selection; the list's first junction is
\* looked up by a name that is no id.
SelectWithoutPlan(j) == selectedJunctionId' = j /\ UNCHANGED fetches
Select(j) == /\ selectedJunctionId' = j
             /\ fetches' = IF j = selectedJunctionId THEN fetches
                           ELSE Append(fetches, Fetch(j))
PreselectedByName == J0
Preselected == First

(***************************************************************************)
(* The selection and the plan it fetches.                                  *)
(***************************************************************************)

\* The effects of the first render: the plan of the placeholder J0 is fetched in any
\* case; with a list at hand its first junction is selected, otherwise the page
\* asks for the list itself.
Mount ==
  /\ ~mounted /\ (careful => Quiet)
  /\ mounted' = TRUE
  /\ IF store
     THEN /\ selectedJunctionId' = Preselected
          /\ fetches' = <<Fetch(J0), Fetch(Preselected)>>
          /\ UNCHANGED list
     ELSE /\ list' = "asked"
          /\ fetches' = <<Fetch(J0)>>
          /\ UNCHANGED selectedJunctionId
  /\ UNCHANGED <<careful, server, network, faults, store, call, activePlan, activeControl, lines>>

\* The layout's fetchJunctions is answered.
StoreLoads ==
  /\ ~store /\ store' = TRUE
  /\ IF mounted /\ selectedJunctionId = J0
     THEN Select(Preselected) ELSE UNCHANGED <<selectedJunctionId, fetches>>
  /\ UNCHANGED <<careful, server, network, faults, list, call, mounted, activePlan,
                 activeControl, lines>>

ListAnswered ==
  /\ list = "asked" /\ list' = "none"
  /\ \/ Select(Preselected) /\ UNCHANGED faults
     \/ MayFail /\ UNCHANGED <<selectedJunctionId, fetches>>
  /\ UNCHANGED <<careful, server, network, store, call, mounted, activePlan, activeControl, lines>>

\* The dropdown lists the junctions of the store.
Choose(j) ==
  /\ MayAct /\ store /\ Len(fetches) < MaxFetches
  /\ Select(j)
  /\ UNCHANGED <<careful, server, network, faults, store, list, call, mounted, activePlan,
                 activeControl, lines>>

PlanServed(k) ==
  /\ fetches[k].answer = "asked"
  /\ LET j == fetches[k].junction
     IN fetches' = [fetches EXCEPT ![k].answer = mode[IF j = J0 THEN Fallback ELSE j]]
  /\ UNCHANGED <<careful, server, network, faults, store, list, call, mounted, shown, lines>>

PlanArrives(k) ==
  /\ fetches[k].answer # "asked"
  /\ careful => k = 1
  /\ activePlan' = IF fetches[k].junction = J0 THEN Fallback ELSE fetches[k].junction
  /\ activeControl' = fetches[k].answer
  /\ fetches' = RemoveAt(fetches, k)
  /\ UNCHANGED <<careful, server, network, faults, store, list, call, mounted,
                 selectedJunctionId, lines>>

PlanFails(k) ==
  /\ MayFail
  /\ fetches' = RemoveAt(fetches, k)
  /\ UNCHANGED <<careful, server, network, store, list, call, mounted, shown, lines>>

(***************************************************************************)
(* handleModeChange and handleOverride.                                    *)
(***************************************************************************)
Request(c, leg) == [command |-> c, leg |-> leg]

\* Mutant: the second attempt does not wait for the first to fail.
SentTwice(c) == {Request(c, "axios"), Request(c, "fetch")}
Sent(c) == {Request(c, "axios")}

Send(c, command) ==
  /\ call[c] = Unused /\ MayAct
  /\ call' = [call EXCEPT ![c] = command]
  /\ wire' = wire \cup Sent(c)

handleModeChange(c, m) ==
  /\ Send(c, [stage |-> "axios", kind |-> "mode", target |-> selectedJunctionId, mode |-> m])
  /\ activeControl' = m
  /\ UNCHANGED <<careful, server, replies, lost, faults, store, list, fetches, mounted,
                 selectedJunctionId, activePlan, lines>>

handleOverride(c) ==
  /\ Send(c, [stage |-> "axios", kind |-> "override", target |-> selectedJunctionId,
              mode |-> "marl"])
  /\ UNCHANGED <<careful, server, replies, lost, faults, store, list, fetches, mounted, shown,
                 lines>>

\* Success is reported, and an override is put in the panel, whatever became of it.
Finish(c) ==
  /\ call' = [call EXCEPT ![c].stage = "over"]
  /\ lines' = IF mounted /\ call[c].kind = "override" THEN More(lines) ELSE lines

Answered(c) ==
  /\ Waiting(c) /\ Request(c, call[c].stage) \in replies
  /\ replies' = replies \ {Request(c, call[c].stage)}
  /\ Finish(c)
  /\ UNCHANGED <<careful, server, wire, lost, faults, store, list, fetches, mounted, shown>>

\* The request or its answer is lost, or axios times out while the request may still
\* reach the server.  What axios could not do is tried once more by fetch.
Fails(c) ==
  /\ Waiting(c) /\ MayFail
  /\ lost' = [lost EXCEPT ![c] = @ + 1]
  /\ replies' = replies \ {Request(c, call[c].stage)}
  /\ IF call[c].stage = "axios"
     THEN /\ wire' \in {wire \cup {Request(c, "fetch")},
                        (wire \ {Request(c, "axios")}) \cup {Request(c, "fetch")}}
          /\ call' = [call EXCEPT ![c].stage = "fetch"]
          /\ UNCHANGED lines
     ELSE /\ wire' = wire \ {Request(c, "fetch")}
          /\ Finish(c)
  /\ UNCHANGED <<careful, server, store, list, fetches, mounted, shown>>

(***************************************************************************)
(* The server, the telemetry panel, leaving.                               *)
(***************************************************************************)

\* A mode for an id the server does not know is answered with success and not kept.
Serve(r) ==
  /\ LET c == r.command
     IN /\ mode' = IF call[c].kind = "mode" /\ call[c].target # J0
                   THEN [mode EXCEPT ![call[c].target] = call[c].mode] ELSE mode
        /\ runs' = [runs EXCEPT ![c] = @ + 1]
        /\ replies' = IF call[c].stage = r.leg THEN replies \cup {r} ELSE replies
  /\ wire' = wire \ {r}
  /\ UNCHANGED <<careful, lost, faults, store, list, fetches, call, mounted, shown, lines>>

OtherModeChange(j, m) ==
  /\ MayFail
  /\ mode' = [mode EXCEPT ![j] = m]
  /\ UNCHANGED <<careful, runs, network, store, list, fetches, call, mounted, shown, lines>>

\* A message of the signals socket, or the synthetic entry while MARL is shown.
Telemetry ==
  /\ mounted /\ lines < MaxLines
  /\ lines' = More(lines)
  /\ UNCHANGED <<careful, server, network, faults, store, list, fetches, call, mounted, shown>>

\* React drops the page's state, and what arrives later sets nothing.
Unmount ==
  /\ mounted /\ mounted' = FALSE /\ (careful => Quiet)
  /\ selectedJunctionId' = J0 /\ activePlan' = None /\ activeControl' = "marl"
  /\ lines' = 5 /\ list' = "none" /\ fetches' = <<>>
  /\ UNCHANGED <<careful, server, network, faults, store, call>>

Next ==
  \/ Mount \/ Unmount \/ StoreLoads \/ ListAnswered \/ Telemetry
  \/ \E j \in Junctions : Choose(j)
  \/ \E k \in DOMAIN fetches : PlanServed(k) \/ PlanArrives(k) \/ PlanFails(k)
  \/ \E c \in Commands : Answered(c) \/ Fails(c)
  \/ \E c \in OverrideClicks : handleOverride(c)
  \/ \E c \in ModeClicks, m \in Modes : handleModeChange(c, m)
  \/ \E r \in wire : Serve(r)
  \/ \E j \in Junctions, m \in Modes : OtherModeChange(j, m)

Spec == Init /\ [][Next]_vars

(***************************************************************************)
(* Properties.                                                             *)
(***************************************************************************)

\* Every variable has its type.
TypeOK ==
  /\ careful \in BOOLEAN /\ store \in BOOLEAN /\ mounted \in BOOLEAN
  /\ mode \in [Junctions -> Modes] /\ runs \in [Commands -> Nat] /\ lost \in [Commands -> Nat]
  /\ wire \subseteq [command : Commands, leg : {"axios", "fetch"}]
  /\ replies \subseteq [command : Commands, leg : {"axios", "fetch"}]
  /\ faults \in 0..MaxFaults /\ list \in {"none", "asked"}
  /\ fetches \in Seq([junction : Junctions \cup {J0}, answer : Modes \cup {"asked"}])
  /\ call \in [Commands -> [stage : {"unused", "axios", "fetch", "over"},
                            kind : {"mode", "override"}, target : Junctions \cup {J0},
                            mode : Modes]]
  /\ selectedJunctionId \in Junctions \cup {J0} /\ activePlan \in Junctions \cup {None}
  /\ activeControl \in Modes /\ lines \in 5..MaxLines

\* One operator who waits for quiet, with plans answered in order, sees the selected
\* junction's plan and its mode as the database has it, also when the placeholder's
\* plan and the list's first junction are fetched side by side.
CarefulSeesSelected ==
  careful /\ mounted /\ store /\ Quiet =>
    /\ selectedJunctionId # J0
    /\ activePlan = selectedJunctionId
    /\ activeControl = mode[selectedJunctionId]

\* What the operator sends goes to a junction of the list, never to the placeholder,
\* when the operator waits for quiet.
CarefulHitsJunction ==
  careful => \A c \in Commands : call[c] # Unused => call[c].target # J0

\* A command runs once, and once more only if an attempt of it failed: an extension
\* that is not idempotent is at most doubled.
RunsOnceMore ==
  \A c \in Commands : runs[c] <= 1 + lost[c] /\ runs[c] <= 2
=============================================================================
