----------------------------- MODULE ServiceBounds -----------------------------
(***************************************************************************)
(* What is fixed of the backend's other services: the modules that         *)
(* MCBackendServices puts side by side.                                    *)
(***************************************************************************)
EXTENDS Integers, FiniteSets

CONSTANTS
  \* LoginLimit
  Logins,          \* requests for one account at the same time
  Limit,           \* failures after which the account is locked
  Window,          \* how long a failure is remembered
  MaxFaults,       \* bound: Redis commands that fail
  \* MlTraining
  Trainings,       \* trainings at the same time
  Episodes,        \* numbers of episodes that may be asked for
  Rounds,          \* episodes after which a training is over in any case
  \* MqttConsumer
  Readings,        \* bound: readings that arrive
  \* RtspWorker
  Pairs,           \* bound: pairs of threads that are started
  Frames,          \* bound: frames that are told apart
  \* RouteSearch
  Places,          \* where each junction is
  Roads,           \* pairs of junctions that may be connected
  Wanted,          \* routes asked for
  Scale            \* a unit of distance, a multiple of 2^Wanted

ASSUME LoginLimitAssumption ==
  /\ IsFiniteSet(Logins)
  /\ Limit \in Nat \ {0} /\ Window \in Nat \ {0} /\ MaxFaults \in Nat
ASSUME MlTrainingAssumption == Episodes \subseteq Int /\ Rounds \in Nat \ {0}
ASSUME MqttConsumerAssumption == Readings \in Nat
ASSUME RtspWorkerAssumption == Frames \in Nat \ {0}
ASSUME RouteSearchAssumption == Wanted \in Nat \ {0} /\ Scale % (2 ^ Wanted) = 0
=============================================================================
