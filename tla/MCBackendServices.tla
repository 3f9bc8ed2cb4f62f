--------------------------- MODULE MCBackendServices ---------------------------
(***************************************************************************)
(* The backend's other services, side by side: a behaviour is one of a     *)
(* single part, chosen in the variable part; the others stay in an initial *)
(* state.  The parts share nothing that a step of one could change for     *)
(* another.                                                                *)
(***************************************************************************)
EXTENDS ServiceBounds

CONSTANT Parts   \* the parts a run is about

VARIABLES
  part,
  \* LoginLimit
  orderly, login, count, ttl, loginFaults, tried,
  \* MlTraining
  spaced, isTraining, episode, task, stopped, since,
  \* MqttConsumer
  phase, thread, stage, begun, stamp, ticker,
  \* RtspWorker
  patient, isRunning, grabber, inference, latestFrame, grabbed, frame, lastTelemetry,
  \* RouteSearch
  net, start, end, weight, openSet, gScore, cameFrom, routes, searching

Accounts == INSTANCE LoginLimit
Training == INSTANCE MlTraining
Consumer == INSTANCE MqttConsumer
Camera == INSTANCE RtspWorker
Routes == INSTANCE RouteSearch

loginVars == <<orderly, login, count, ttl, loginFaults, tried>>
trainingVars == <<spaced, isTraining, episode, task, stopped, since>>
consumerVars == <<phase, thread, stage, begun, stamp, ticker>>
cameraVars == <<patient, isRunning, grabber, inference, latestFrame, grabbed, frame, lastTelemetry>>
routeVars == <<net, start, end, weight, openSet, gScore, cameFrom, routes, searching>>
vars == <<part, loginVars, trainingVars, consumerVars, cameraVars, routeVars>>

AllParts == {"accounts", "training", "telemetry", "camera", "routes"}
ASSUME PartsAssumption == Parts \subseteq AllParts

Init ==
  /\ part \in Parts
  /\ Accounts!Init /\ (part # "accounts" => orderly)
  /\ Training!Init /\ (part # "training" => spaced)
  /\ Consumer!Init
  /\ Camera!Init /\ (part # "camera" => patient)
  /\ Routes!Init /\ (part # "routes" => net = {} /\ start = 1 /\ end = 1)

\* What all parts but one leave alone.
ButAccounts == UNCHANGED <<part, trainingVars, consumerVars, cameraVars, routeVars>>
ButTraining == UNCHANGED <<part, loginVars, consumerVars, cameraVars, routeVars>>
ButConsumer == UNCHANGED <<part, loginVars, trainingVars, cameraVars, routeVars>>
ButCamera == UNCHANGED <<part, loginVars, trainingVars, consumerVars, routeVars>>
ButRoutes == UNCHANGED <<part, loginVars, trainingVars, consumerVars, cameraVars>>

Next ==
  \/ part = "accounts" /\ Accounts!Next /\ ButAccounts
  \/ part = "training" /\ Training!Next /\ ButTraining
  \/ part = "telemetry" /\ Consumer!Next /\ ButConsumer
  \/ part = "camera" /\ Camera!Next /\ ButCamera
  \/ part = "routes" /\ Routes!Next /\ ButRoutes

\* The fairness of the parts, each for its own behaviours.
Fairness ==
  /\ WF_vars(part = "accounts" /\ Accounts!Tick /\ ButAccounts)
  /\ \A t \in Trainings :
       /\ WF_vars(part = "training" /\ Training!run_marl_training_task(t) /\ ButTraining)
       /\ WF_vars(part = "training" /\ Training!Wake(t) /\ ButTraining)
  /\ WF_vars(part = "telemetry" /\ Consumer!on_message /\ ButConsumer)
  /\ WF_vars(part = "telemetry" /\ Consumer!StopReturns /\ ButConsumer)
  /\ WF_vars(part = "telemetry" /\ Consumer!TickerStep /\ ButConsumer)
  /\ \A p \in Pairs :
       /\ WF_vars(part = "camera" /\ Camera!GrabberStep(p) /\ ButCamera)
       /\ WF_vars(part = "camera" /\ Camera!InferenceStep(p) /\ ButCamera)
  /\ WF_vars(part = "routes" /\ Routes!Next /\ ButRoutes)

Spec == Init /\ [][Next]_vars /\ Fairness

\* Five junctions, two of them at the same place, on a grid.
FivePlaces == <<<<0, 0>>, <<0, 1>>, <<0, 1>>, <<5, 1>>, <<4, 0>>>>
\* The roads there may be between them: a short way to the last, a longer one by the
\* fourth, a road back, and roads both ways between the two at the same place.
SomeRoads == {<<1, 2>>, <<2, 3>>, <<3, 2>>, <<2, 5>>, <<3, 5>>, <<1, 4>>, <<4, 5>>, <<4, 1>>}
\* A training that ends at once, one that is short, and one that is cut off.
SomeEpisodes == {-1, 2, 9}

(***************************************************************************)
(* The properties of the parts, by the names they have in their modules.   *)
(***************************************************************************)

\* However logins of one account overlap, the wrong passwords tried in a row are bounded
\* (LoginLimit).
GuessesAreBounded == Accounts!TypeOK /\ Accounts!GuessesAreBounded

\* Operators who wait have one training at a time, a stop leaves it the episode under
\* way, and a camera that is restarted with patience has one pair of threads (MlTraining,
\* RtspWorker).
OneAtATime ==
  /\ Training!TypeOK /\ Training!OneTraining /\ Training!StopLeavesOneEpisode
  /\ Camera!TypeOK /\ Camera!OnePair

\* The rows' times follow the order in which readings arrived, and a camera's telemetry
\* does not go back (MqttConsumer, RtspWorker).
OrderIsKept ==
  [](Consumer!TypeOK /\ Consumer!StampsFollowArrival) /\ Camera!FramesAdvance

\* Each route leads from start to end, the first is a shortest one, and the weights the
\* search changed are restored (RouteSearch).
RoutesAreRight == Routes!TypeOK /\ Routes!RoutesAreRight /\ Routes!WeightsRestored

\* A lock ends whatever is tried meanwhile; a training ends; nothing comes after the
\* consumer's stop, which returns, while until then its ticker outlives failures; the
\* threads of a stopped camera end; so does a search.
WorkEnds ==
  /\ Accounts!LockEnds /\ Training!TrainingIsOver
  /\ Consumer!NothingAfterStop /\ Consumer!StopEnds
  /\ part = "telemetry" => Consumer!TickerGoesOn
  /\ Camera!ThreadsEnd
  /\ part = "routes" => Routes!SearchEnds
=============================================================================
