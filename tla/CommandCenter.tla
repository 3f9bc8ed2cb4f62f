----------------------------- MODULE CommandCenter -----------------------------
(***************************************************************************)
(* The command center of the dashboard (pages/CommandCenterPage.tsx and    *)
(* components/CommandCenter).  The page keeps the tab, the intersection    *)
(* whose window is open, and whether the corridor counts as optimized; the *)
(* panel of the signal control showcase keeps a copy of the latter, and    *)
(* counts down with an interval that nothing clears when the panel goes    *)
(* away with its tab.                                                      *)
(*                                                                         *)
(* panel      what the mounted panel shows; countdown 0 is none            *)
(* timers     intervals of the mounted panel                               *)
(* orphans    intervals of panels that are gone and last showed 1; each    *)
(*            may still complete once.  The others run on without effect   *)
(* incidents  the status of each incident of the list                      *)
(***************************************************************************)
EXTENDS InformationBounds

VARIABLES activeTab, selectedIntersection, isOptimized, panel, timers, orphans,
          incidents, filter, showNotifications
page == <<activeTab, selectedIntersection, isOptimized>>
list == <<incidents, filter>>
vars == <<page, panel, timers, orphans, list, showNotifications>>

Tabs == {"overview", "live-map", "traffic-ai", "signal-control", "incidents", "analytics"}
PanelTabs == {"overview", "signal-control"}
MapTabs == {"overview", "live-map"}
ListTabs == {"overview", "incidents"}

\* What the map knows of each intersection: its level, and the traffic and the light of
\* its lanes.
INITIAL_INTERSECTIONS ==
  [A102 |-> [level |-> "CRITICAL", lanes |-> <<[traffic |-> 87, signal |-> "RED"],
             [traffic |-> 32, signal |-> "GREEN"], [traffic |-> 61, signal |-> "YELLOW"]>>],
   B007 |-> [level |-> "MODERATE", lanes |-> <<[traffic |-> 45, signal |-> "GREEN"],
             [traffic |-> 58, signal |-> "GREEN"], [traffic |-> 30, signal |-> "RED"]>>],
   C042 |-> [level |-> "SMOOTH", lanes |-> <<[traffic |-> 22, signal |-> "GREEN"],
             [traffic |-> 28, signal |-> "GREEN"]>>],
   D114 |-> [level |-> "CRITICAL", lanes |-> <<[traffic |-> 92, signal |-> "RED"],
             [traffic |-> 40, signal |-> "GREEN"]>>],
   E019 |-> [level |-> "SMOOTH", lanes |-> <<[traffic |-> 18, signal |-> "GREEN"],
             [traffic |-> 20, signal |-> "GREEN"]>>]]
Nodes == DOMAIN INITIAL_INTERSECTIONS
FreeLane == [traffic |-> 24, signal |-> "GREEN"]

FreshPanel == [isApplying |-> FALSE, isOptimized |-> FALSE, countdown |-> 0]
Severity == [i901 |-> "CRITICAL", i884 |-> "HIGH", i872 |-> "WARNING", i850 |-> "WARNING"]
INITIAL_INCIDENTS == [i901 |-> "PENDING", i884 |-> "PENDING",
                      i872 |-> "DISPATCHED", i850 |-> "RESOLVED"]

Init ==
  /\ activeTab = "overview" /\ selectedIntersection = None /\ isOptimized = FALSE
  /\ panel = FreshPanel /\ timers = 0 /\ orphans = 0
  /\ incidents = INITIAL_INCIDENTS /\ filter = "ALL"
  /\ showNotifications = FALSE

(***************************************************************************)
(* Tabs: what is on the old tab is unmounted, what is on the new is fresh. *)
(***************************************************************************)
LeftBehind == IF timers # 0 /\ panel.countdown = 1 THEN 1 ELSE 0

SetActiveTab(t) ==
  /\ activeTab' = t
  /\ IF t = activeTab THEN UNCHANGED <<panel, timers, orphans, list>>
     ELSE /\ orphans + LeftBehind <= MaxOrphans /\ orphans' = orphans + LeftBehind
          /\ panel' = FreshPanel /\ timers' = 0
          /\ incidents' = INITIAL_INCIDENTS /\ filter' = "ALL"

\* The bar at the top, and at the bottom of a small screen.
onTabChange(t) ==
  /\ SetActiveTab(t)
  /\ UNCHANGED <<selectedIntersection, isOptimized, showNotifications>>

ExpandFullMap ==
  /\ activeTab = "overview" /\ SetActiveTab("live-map")
  /\ UNCHANGED <<selectedIntersection, isOptimized, showNotifications>>

ToggleNotifications ==
  /\ showNotifications' = ~showNotifications
  /\ UNCHANGED <<page, panel, timers, orphans, list>>

\* Another route: the page is gone, and what its intervals set is not shown.
ToStudioAndBack ==
  /\ activeTab' = "overview" /\ selectedIntersection' = None /\ isOptimized' = FALSE
  /\ panel' = FreshPanel /\ timers' = 0 /\ orphans' = 0
  /\ incidents' = INITIAL_INCIDENTS /\ filter' = "ALL" /\ showNotifications' = FALSE

(***************************************************************************)
(* The map and the window of an intersection.                              *)
(***************************************************************************)
\* The colours of the roads, in the map's order; the vehicles of the first crawl while
\* it is red; the intersections by their level.
roads == IF isOptimized
         THEN <<"green", "amber", "green", "green", "red", "green", "green", "blue">>
         ELSE <<"red", "amber", "green", "amber", "red", "green", "green", "blue">>

SlowRoads == {r \in DOMAIN roads : r = 1 /\ ~isOptimized}

nodeColor(node) ==
  CASE INITIAL_INTERSECTIONS[node].level = "SMOOTH" -> "green"
    [] INITIAL_INTERSECTIONS[node].level = "MODERATE" -> "amber"
    [] OTHER -> IF isOptimized /\ node = "A102" THEN "green" ELSE "red"

handleSelectIntersection(node) ==
  /\ activeTab \in MapTabs
  /\ selectedIntersection' = node
  /\ UNCHANGED <<activeTab, isOptimized, panel, timers, orphans, list, showNotifications>>

CloseModal ==
  /\ activeTab \in MapTabs /\ selectedIntersection # None
  /\ selectedIntersection' = None
  /\ UNCHANGED <<activeTab, isOptimized, panel, timers, orphans, list, showNotifications>>

isCurrentOptimized == selectedIntersection = "A102" /\ isOptimized

currentLevel == IF isCurrentOptimized THEN "SMOOTH"
                ELSE INITIAL_INTERSECTIONS[selectedIntersection].level

\* The lanes in the window: the first one as the showcase leaves it.
windowLanes ==
  LET lanes == INITIAL_INTERSECTIONS[selectedIntersection].lanes IN
  IF isCurrentOptimized THEN [lanes EXCEPT ![1] = FreeLane] ELSE lanes

\* The window of A-102 has the button until the page counts as optimized, that of any
\* other intersection always; both mark the page, and with it A-102.
MayOptimize == selectedIntersection # None /\ ~isCurrentOptimized

handleQuickOptimize ==
  /\ activeTab \in MapTabs /\ MayOptimize
  /\ isOptimized' = TRUE
  /\ SetActiveTab(IF selectedIntersection = "A102" THEN "signal-control" ELSE activeTab)
  /\ UNCHANGED <<selectedIntersection, showNotifications>>

(***************************************************************************)
(* The panel.                                                              *)
(***************************************************************************)
\* The panel's cards of the lanes of A-102.
lane1 == IF panel.isOptimized THEN FreeLane ELSE [traffic |-> 87, signal |-> "RED"]
laneCards == <<lane1, [traffic |-> 32, signal |-> "GREEN"],
                      [traffic |-> 61, signal |-> "YELLOW"]>>

\* The recommendation, and its button.  Mutant: it stays enabled while it applies.
Recommended == ~panel.isOptimized
MayApplyAgain == Recommended
MayApply == Recommended /\ ~panel.isApplying

handleApplyRecommendation ==
  /\ activeTab \in PanelTabs /\ MayApply
  /\ panel' = [panel EXCEPT !.isApplying = TRUE, !.countdown = CountFrom]
  /\ timers' = timers + 1
  /\ UNCHANGED <<page, orphans, list, showNotifications>>

\* Mutants: the last second is counted down without an end; the page is not told.
CountedOn(p) == IF p.countdown < 1
                THEN [isApplying |-> FALSE, isOptimized |-> TRUE, countdown |-> 0]
                ELSE [p EXCEPT !.countdown = @ - 1]
Counted(p) == IF p.countdown <= 1
              THEN [isApplying |-> FALSE, isOptimized |-> TRUE, countdown |-> 0]
              ELSE [p EXCEPT !.countdown = @ - 1]
onOptimizeNothing == UNCHANGED isOptimized
onOptimize == isOptimized' = TRUE

Tick ==
  /\ timers > 0
  /\ panel' = Counted(panel)
  /\ IF panel'.countdown = 0
     THEN timers' = timers - 1 /\ onOptimize
     ELSE UNCHANGED <<timers, isOptimized>>
  /\ UNCHANGED <<activeTab, selectedIntersection, orphans, list, showNotifications>>

\* React may run the updater of a panel that is gone once, on the countdown it showed
\* last, or only put it in a queue it never looks at.
OrphanTick ==
  /\ orphans > 0 /\ orphans' = orphans - 1
  /\ isOptimized' \in {isOptimized, TRUE}
  /\ UNCHANGED <<activeTab, selectedIntersection, panel, timers, list, showNotifications>>

handleReset ==
  /\ activeTab \in PanelTabs /\ panel.isOptimized
  /\ panel' = [panel EXCEPT !.isOptimized = FALSE]
  /\ isOptimized' = FALSE
  /\ UNCHANGED <<activeTab, selectedIntersection, timers, orphans, list, showNotifications>>

(***************************************************************************)
(* The list of incidents.                                                  *)
(***************************************************************************)
SetFilter(f) ==
  /\ activeTab \in ListTabs /\ filter' = f
  /\ UNCHANGED <<page, panel, timers, orphans, incidents, showNotifications>>

Advanced(status) == IF status = "PENDING" THEN "DISPATCHED" ELSE "RESOLVED"

handleAction(i) ==
  /\ activeTab \in ListTabs /\ filter \in {"ALL", Severity[i]}
  /\ incidents[i] # "RESOLVED"
  /\ incidents' = [incidents EXCEPT ![i] = Advanced(@)]
  /\ UNCHANGED <<page, panel, timers, orphans, filter, showNotifications>>

Filters == {"ALL", "CRITICAL", "HIGH", "WARNING"}

Next ==
  \/ \E t \in Tabs : onTabChange(t)
  \/ \E n \in Nodes : handleSelectIntersection(n)
  \/ \E f \in Filters : SetFilter(f)
  \/ \E i \in DOMAIN INITIAL_INCIDENTS : handleAction(i)
  \/ ExpandFullMap \/ ToggleNotifications \/ ToStudioAndBack \/ CloseModal
  \/ handleQuickOptimize \/ handleApplyRecommendation \/ Tick \/ OrphanTick \/ handleReset

\* The browser's clock.
Fairness == WF_vars(Tick)
Spec == Init /\ [][Next]_vars /\ Fairness

(***************************************************************************)
(* Properties.                                                             *)
(***************************************************************************)

\* Every variable has its type.
TypeOK ==
  /\ activeTab \in Tabs /\ selectedIntersection \in Nodes \cup {None}
  /\ isOptimized \in BOOLEAN /\ showNotifications \in BOOLEAN
  /\ panel \in [isApplying : BOOLEAN, isOptimized : BOOLEAN, countdown : 0..CountFrom]
  /\ timers \in Nat /\ orphans \in 0..MaxOrphans
  /\ DOMAIN incidents = DOMAIN INITIAL_INCIDENTS
  /\ \A i \in DOMAIN incidents : incidents[i] \in {"PENDING", "DISPATCHED", "RESOLVED"}
  /\ filter \in Filters

\* A panel that shows the corridor as optimized is backed by the map: A-102 and its road
\* are green, the vehicles move, and an open window of A-102 has the level and the lanes
\* of the panel's cards, whatever tabs, windows and left-over intervals did in between.
\* The cards and the window take their numbers from different files.
PanelBackedByMap ==
  panel.isOptimized =>
    /\ nodeColor("A102") = "green" /\ roads[1] = "green" /\ SlowRoads = {}
    /\ selectedIntersection = "A102" => currentLevel = "SMOOTH" /\ windowLanes = laneCards

\* The mounted panel has one interval exactly while it is applying, and shows its
\* countdown exactly then; it is on no tab but its own.
OneCountdown ==
  /\ timers = IF panel.isApplying THEN 1 ELSE 0
  /\ panel.isApplying <=> panel.countdown # 0
  /\ activeTab \notin PanelTabs => panel = FreshPanel

\* An application that was started ends, also by leaving the tab.
ApplyingEnds == panel.isApplying ~> ~panel.isApplying
=============================================================================
