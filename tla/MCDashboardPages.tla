--------------------------- MODULE MCDashboardPages ---------------------------
(***************************************************************************)
(* The dashboard's other pages, its showcase and its session, side by      *)
(* side: a behaviour is one of a single part, chosen in the variable part; *)
(* the others stay in an initial state.  The parts share nothing that a    *)
(* step of one could change for another.  WsClient, AlertsPage and         *)
(* DashboardSession are extended, the other modules are instances whose    *)
(* variables get a prefix where two have the same name.                    *)
(***************************************************************************)
EXTENDS WsClient, AlertsPage, DashboardSession

CONSTANT Parts   \* the parts a run is about

VARIABLES
  part,
  \* RoutingPage
  routingTopology, originId, destId, asked, calc, isCalculating, routeResult, message,
  send, broadcasts, met,
  \* TrafficMapPage
  isPlaying, isTwinConnected, loop, pins, where, report, step, restarted,
  feedEvents,
  \* JunctionsPage
  storeJunctions, search, statusFilter, cityTab, opened,
  \* JunctionDetailPage
  detailInOrder, id, detailStore, version, detail, plan, junctionData, signalPlan, countdown,
  flash, ran, detailFaults,
  \* ForecastingPage
  forecastInOrder, forecastTopology, selectedJunctionId, horizon, acknowledged,
  forecastLoading, requests, forecast, forecastFaults,
  \* CommandCenter
  activeTab, selectedIntersection, isOptimized, panel, panelTimers, orphans, incidents,
  incidentFilter, showNotifications,
  \* EmergencyDialog
  emergencyOpen, selectedAction, isConfirming, isActivated, dialogTimers,
  \* StudioSlider
  activeIdx, fade, sliderTimers, clicked

Routing == INSTANCE RoutingPage WITH
  topology <- routingTopology
TrafficMap == INSTANCE TrafficMapPage
Directory == INSTANCE JunctionsPage
Detail == INSTANCE JunctionDetailPage WITH
  faults <- detailFaults, inOrder <- detailInOrder, store <- detailStore
Forecasting == INSTANCE ForecastingPage WITH
  faults <- forecastFaults, inOrder <- forecastInOrder, topology <- forecastTopology,
  loading <- forecastLoading
Showcase == INSTANCE CommandCenter WITH
  timers <- panelTimers, filter <- incidentFilter
Dialog == INSTANCE EmergencyDialog WITH
  timers <- dialogTimers
Studio == INSTANCE StudioSlider WITH
  timers <- sliderTimers

routingVars ==
  <<routingTopology, originId, destId, asked, calc, isCalculating, routeResult,
    message, send, broadcasts, met>>
trafficMapVars ==
  <<isPlaying, isTwinConnected, loop, pins, where, report, step,
    restarted, feedEvents>>
directoryVars ==
  <<storeJunctions, search, statusFilter, cityTab, opened>>
detailVars ==
  <<detailInOrder, id, detailStore, version, detail, plan, junctionData, signalPlan,
    countdown, flash, ran, detailFaults>>
forecastingVars ==
  <<forecastInOrder, forecastTopology, selectedJunctionId, horizon, acknowledged,
    forecastLoading, requests, forecast, forecastFaults>>
showcaseVars ==
  <<activeTab, selectedIntersection, isOptimized, panel, panelTimers, orphans,
    incidents, incidentFilter, showNotifications>>
dialogVars ==
  <<emergencyOpen, selectedAction, isConfirming, isActivated, dialogTimers>>
studioVars ==
  <<activeIdx, fade, sliderTimers, clicked>>
pagesVars ==
  <<part, routingVars, alertsVars, trafficMapVars, directoryVars, detailVars,
    forecastingVars, showcaseVars, sessionVars, dialogVars, studioVars, vars>>

AllParts == {"routing", "alerts", "map", "directory", "junction", "forecasts", "showcase",
             "session", "dialog", "studio", "channel"}
ASSUME PartsAssumption == Parts \subseteq AllParts

PagesInit ==
  /\ part \in Parts
  /\ Routing!Init
  /\ AlertsInit /\ (part # "alerts" => raised = {})
  /\ TrafficMap!Init /\ (part # "map" => pins[1].queue = MinQueue /\ pins[1].speed = MinSpeed)
  /\ Directory!Init
  /\ Detail!Init /\ (part # "junction" => detailInOrder /\ id = J0 /\ detailStore = {})
  /\ Forecasting!Init /\ (part # "forecasts" => forecastInOrder /\ forecastTopology = <<>>)
  /\ Showcase!Init
  /\ SessionInit /\ (part # "session" => careful /\ storageWorks)
  /\ Dialog!Init
  /\ Studio!Init
  /\ Init /\ (part # "channel" => kept /\ allowed)

\* What all parts but one leave alone.
ButRouting == UNCHANGED <<part, alertsVars, trafficMapVars, directoryVars, detailVars,
                    forecastingVars, showcaseVars, sessionVars, dialogVars, studioVars, vars>>
ButAlerts == UNCHANGED <<part, routingVars, trafficMapVars, directoryVars, detailVars,
                    forecastingVars, showcaseVars, sessionVars, dialogVars, studioVars, vars>>
ButTrafficMap == UNCHANGED <<part, routingVars, alertsVars, directoryVars, detailVars,
                    forecastingVars, showcaseVars, sessionVars, dialogVars, studioVars, vars>>
ButDirectory == UNCHANGED <<part, routingVars, alertsVars, trafficMapVars, detailVars,
                    forecastingVars, showcaseVars, sessionVars, dialogVars, studioVars, vars>>
ButDetail == UNCHANGED <<part, routingVars, alertsVars, trafficMapVars, directoryVars,
                    forecastingVars, showcaseVars, sessionVars, dialogVars, studioVars, vars>>
ButForecasting == UNCHANGED <<part, routingVars, alertsVars, trafficMapVars, directoryVars,
                    detailVars, showcaseVars, sessionVars, dialogVars, studioVars, vars>>
ButShowcase == UNCHANGED <<part, routingVars, alertsVars, trafficMapVars, directoryVars,
                    detailVars, forecastingVars, sessionVars, dialogVars, studioVars, vars>>
ButSession == UNCHANGED <<part, routingVars, alertsVars, trafficMapVars, directoryVars,
                    detailVars, forecastingVars, showcaseVars, dialogVars, studioVars, vars>>
ButDialog == UNCHANGED <<part, routingVars, alertsVars, trafficMapVars, directoryVars,
                    detailVars, forecastingVars, showcaseVars, sessionVars, studioVars, vars>>
ButStudio == UNCHANGED <<part, routingVars, alertsVars, trafficMapVars, directoryVars,
                    detailVars, forecastingVars, showcaseVars, sessionVars, dialogVars, vars>>
ButChannel == UNCHANGED <<part, routingVars, alertsVars, trafficMapVars, directoryVars,
                    detailVars, forecastingVars, showcaseVars, sessionVars, dialogVars, studioVars>>

PagesNext ==
  \/ part = "routing" /\ Routing!Next /\ ButRouting
  \/ part = "alerts" /\ AlertsNext /\ ButAlerts
  \/ part = "map" /\ TrafficMap!Next /\ ButTrafficMap
  \/ part = "directory" /\ Directory!Next /\ ButDirectory
  \/ part = "junction" /\ Detail!Next /\ ButDetail
  \/ part = "forecasts" /\ Forecasting!Next /\ ButForecasting
  \/ part = "showcase" /\ Showcase!Next /\ ButShowcase
  \/ part = "session" /\ SessionNext /\ ButSession
  \/ part = "dialog" /\ Dialog!Next /\ ButDialog
  \/ part = "studio" /\ Studio!Next /\ ButStudio
  \/ part = "channel" /\ Next /\ ButChannel

\* The fairness of the parts, each for its own behaviours.
PagesFairness ==
  /\ \A p \in Polls :
       /\ WF_pagesVars(part = "alerts" /\ fetchAlerts(p) /\ ButAlerts)
       /\ WF_pagesVars(part = "alerts" /\ PollServed(p) /\ ButAlerts)
       /\ WF_pagesVars(part = "alerts" /\ PollArrives(p) /\ ButAlerts)
  /\ WF_pagesVars(part = "showcase" /\ Showcase!Tick /\ ButShowcase)
  /\ \A a \in Attempts : WF_pagesVars(part = "session" /\ LoginStep(a) /\ ButSession)
  /\ WF_pagesVars(part = "dialog" /\ Dialog!TimerFires /\ ButDialog)
  /\ WF_pagesVars(part = "channel" /\ timeout /\ ButChannel)
  /\ \A s \in Sockets : WF_pagesVars(part = "channel" /\ SocketAnswers(s) /\ ButChannel)

SafeSpec == PagesInit /\ [][PagesNext]_pagesVars
LiveSpec == SafeSpec /\ PagesFairness

\* A calm junction and a congested one; the second's numbers alone would not say so.
TwoReports == {[queue |-> 4, speed |-> 2, is_congested |-> FALSE],
               [queue |-> 3, speed |-> 3, is_congested |-> TRUE]}

(***************************************************************************)
(* The properties of the parts, by the names they have in their modules.   *)
(***************************************************************************)

\* What is shown is what was said: a junction on the map shows one report of the twin's
\* last, what the map makes up itself agrees with itself, and the bridge's steps are in
\* order in the feed, whoever else sends; the page of a junction
\* shows its own name and its own, recent plan (TrafficMapPage, JunctionDetailPage).
ReportsAreTrue ==
  /\ TrafficMap!TypeOK
  /\ TrafficMap!OneReportEach /\ TrafficMap!OwnStatusFollows /\ TrafficMap!FeedInOrder
  /\ Detail!TypeOK /\ Detail!NameIsTrue /\ Detail!PlanIsRecent

\* The numbers the twin reported stay until it reports others (TrafficMapPage).
TwinNumbersStay == TrafficMap!TwinNumbersStay

\* The directory has each junction once (JunctionsPage).
DirectoryIsTrue == Directory!TypeOK /\ Directory!DirectoryIsComplete

\* Late and overlapping answers do not show something else than what is selected: the
\* route is that of the ends asked for last, the forecast that of the junction selected,
\* which is one of the list, a gantry message is missing only when two overlapped, and
\* the panel's result is that of the map (RoutingPage, ForecastingPage, CommandCenter).
ShownIsCurrent ==
  /\ Routing!TypeOK /\ Routing!RouteAnswersLastAsked /\ Routing!MissingOnlyIfOverlapped
  /\ Forecasting!TypeOK /\ Forecasting!ForecastOfSelected /\ Forecasting!SelectionIsOffered
  /\ Showcase!TypeOK /\ Showcase!PanelBackedByMap

\* Whatever says that something is under way is backed by what will end it: a spinner by
\* a request, a button by a submission, a countdown, a confirmation and a fade by one
\* timer each, and a channel somebody listens to by a socket or a retry.
WaitingIsBacked ==
  /\ AlertsTypeOK /\ LoadingHasPoll
  /\ Forecasting!LoadingHasRequest
  /\ SessionTypeOK /\ LoadingHasAttempt
  /\ Showcase!OneCountdown
  /\ Dialog!TypeOK /\ Dialog!OneConfirmation
  /\ Studio!TypeOK /\ Studio!ShowsLastClicked
  /\ TypeOK /\ AlwaysTrying

\* And it does end: an application, a login, a confirmation; an acknowledged alert is
\* shown as one; a channel gets connected or uses up its attempts.
WaitingEnds ==
  /\ Showcase!ApplyingEnds /\ LoginEnds /\ Dialog!ConfirmationEnds
  /\ AcknowledgedIsShown /\ Reconnects
=============================================================================
