--------------------------- MODULE InformationBounds ---------------------------
(***************************************************************************)
(* What is fixed of the dashboard's other pages and of its showcase: the   *)
(* modules that MCDashboardPages puts side by side.                        *)
(***************************************************************************)
EXTENDS Integers, FiniteSets

CONSTANTS
  Junctions,       \* junctions of the city
  J0, None,        \* an id that is no junction's, and nothing
  MaxFaults,       \* bound: requests that fail
  MaxStore,        \* bound: junctions in the dashboard's store
  \* RoutingPage
  Texts,           \* what the gantry form may hold
  Blank,           \* a form with an empty line
  Sends,           \* clicks on the broadcast button, each once
  OldMessage,      \* what the list of messages starts with
  \* AlertsPage
  Alerts,          \* alerts that may be raised
  Critical,        \* those of them that are critical
  Polls,           \* bound: requests for the list at the same time
  \* TrafficMapPage
  Pins,            \* number of pins the map starts with
  Reports,         \* what the twin may say of a junction
  Lights,          \* number of traffic lights the bridge reports of
  MinQueue, MaxQueue, LongQueue,   \* a pin's own queue, and what is long
  MinSpeed, MaxSpeed, SlowSpeed,   \* a pin's own speed, and what is slow
  Every,           \* each Every-th step is put in the feed
  MaxSteps,        \* bound: steps of the bridge
  FeedLength,      \* entries the feed keeps
  \* JunctionsPage
  Names,           \* names of junctions
  Sensors,         \* those that start with "Reading" or "Sensor"
  BlrNames,        \* those that contain a place in Bangalore
  SumoNames,       \* those that contain "sumo" or start with J0..J3
  \* JunctionDetailPage
  Fallback,        \* the junction whose plan the server gives for an unknown id
  FlashClicks,     \* clicks on Flash All-Red, each once
  MaxChanges,      \* bound: changes of the plan
  Start, Hold,     \* where the countdown starts, and where it starts again
  \* ForecastingPage
  Default,         \* the id DEL-CP-01, which the page starts with
  MaxRequests,     \* bound: forecasts under way
  \* CommandCenter
  CountFrom,       \* where the countdown starts
  MaxOrphans,      \* bound: intervals left behind that may complete
  \* DashboardSession
  Attempts,        \* submissions of the login form, each once
  Requests,        \* requests of pages, each used again and again
  MaxTokens,       \* bound: tokens given out
  \* StudioSlider
  Projects         \* how many projects there are

\* The store's list has each of finitely many junctions once, and the forecasting page
\* may have a request under way.
ASSUME PagesAssumption ==
  /\ {MaxFaults, MaxStore, MaxRequests, MaxTokens, MaxOrphans} \subseteq Nat
  /\ MaxRequests # 0
  /\ IsFiniteSet(Junctions)
  /\ J0 \notin Junctions /\ Default \notin Junctions /\ Fallback \in Junctions
  /\ Critical \subseteq Alerts
  /\ Projects \in Nat \ {0}

ASSUME RoutingPageAssumption ==
  Blank \in Texts /\ None \notin Junctions /\ OldMessage \notin Sends

ASSUME AlertsPageAssumption == Polls # {}

ASSUME TrafficMapPageAssumption ==
  /\ {Pins, Lights, Every, FeedLength} \subseteq Nat \ {0}
  /\ MaxSteps \in Nat
  /\ {MinQueue, MaxQueue, LongQueue, MinSpeed, MaxSpeed, SlowSpeed} \subseteq Int
  /\ MinQueue <= MaxQueue /\ MinSpeed <= MaxSpeed
  /\ Reports \subseteq [queue : Int, speed : Int, is_congested : BOOLEAN]

ASSUME JunctionsPageAssumption ==
  Sensors \cup BlrNames \cup SumoNames \subseteq Names /\ Sensors # Names

ASSUME JunctionDetailPageAssumption ==
  {MaxChanges, Start, Hold} \subseteq Nat /\ Start <= Hold

ASSUME CommandCenterAssumption ==
  CountFrom \in Nat \ {0}
=============================================================================
