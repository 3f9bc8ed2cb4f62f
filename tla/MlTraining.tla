------------------------------ MODULE MlTraining ------------------------------
(***************************************************************************)
(* Training on request (api/ml.py), in one worker: /train/start checks     *)
(* the status and adds a background task that begins after the response;   *)
(* the task itself sets the status, /train/stop clears it, and so does     *)
(* each task at its end.                                                   *)
(*                                                                         *)
(* spaced       whether the operators start a training only when none is   *)
(*              about to begin, nor after a stop still under way           *)
(* isTraining   the status's flag                                          *)
(* episode      the episode the status shows                               *)
(* task         each task: where it is, its round and its episodes         *)
(* stopped      whether a stop came last, with no task about to begin      *)
(* since        the episodes each task has completed since then            *)
(***************************************************************************)
EXTENDS ServiceBounds, FiniteSets

VARIABLES spaced, isTraining, episode, task, stopped, since
vars == <<spaced, isTraining, episode, task, stopped, since>>

Free == [at |-> "free", round |-> 0, episodes |-> 0]
InState(where) == {t \in Trainings : task[t].at = where}

Init ==
  /\ spaced \in BOOLEAN
  /\ isTraining = FALSE /\ episode = 0 /\ stopped = FALSE
  /\ task = [t \in Trainings |-> Free] /\ since = [t \in Trainings |-> 0]

\* Mutant: a training may be started next to another.
MayStartAlways == TRUE
MayStart == ~isTraining

start_training(t, n) ==
  /\ task[t] = Free /\ MayStart
  /\ spaced => InState("added") = {} /\ (isTraining \/ InState("asleep") = {})
  /\ task' = [task EXCEPT ![t] = [at |-> "added", round |-> 0, episodes |-> n]]
  /\ stopped' = FALSE
  /\ UNCHANGED <<spaced, isTraining, episode, since>>

stop_training ==
  /\ isTraining' = FALSE
  /\ stopped' = (InState("added") = {})
  /\ since' = [t \in Trainings |-> 0]
  /\ UNCHANGED <<spaced, episode, task>>

\* Mutant: the number of rounds is not cut.
LastUncut(n) == n
\* The last round of a training of n episodes.
Last(n) == IF n < Rounds THEN n ELSE Rounds

\* Mutant: the flag stays when a training comes to its end.
FlagAtEndKept(flag) == flag
FlagAtEnd(flag) == FALSE

\* Mutant: the flag is not looked at between two rounds.
GoesOnAnyway(flag) == TRUE
GoesOn(flag) == flag

\* The head of the loop: task t sleeps through another round, or it is over and clears
\* the flag whether or not another task is under way.
Loop(t, round, n, flag) ==
  IF round <= Last(n) /\ GoesOn(flag)
  THEN /\ task' = [task EXCEPT ![t] = [at |-> "asleep", round |-> round, episodes |-> n]]
       /\ isTraining' = flag
  ELSE task' = [task EXCEPT ![t] = Free] /\ isTraining' = FlagAtEnd(flag)

run_marl_training_task(t) ==
  /\ task[t].at = "added"
  /\ episode' = 0
  /\ Loop(t, 1, task[t].episodes, TRUE)
  /\ UNCHANGED <<spaced, stopped, since>>

Wake(t) ==
  /\ task[t].at = "asleep"
  /\ episode' = task[t].round
  /\ since' = IF stopped THEN [since EXCEPT ![t] = @ + 1] ELSE since
  /\ Loop(t, task[t].round + 1, task[t].episodes, isTraining)
  /\ UNCHANGED <<spaced, stopped>>

Next ==
  \/ \E t \in Trainings : \/ \E n \in Episodes : start_training(t, n)
                          \/ run_marl_training_task(t) \/ Wake(t)
  \/ stop_training
Fairness == \A t \in Trainings : WF_vars(run_marl_training_task(t)) /\ WF_vars(Wake(t))
Spec == Init /\ [][Next]_vars /\ Fairness

(***************************************************************************)
(* Properties.                                                             *)
(***************************************************************************)

\* Every variable has its type.
TypeOK ==
  /\ {spaced, isTraining, stopped} \subseteq BOOLEAN
  /\ episode \in 0..Rounds
  /\ task \in [Trainings -> [at : {"free", "added", "asleep"}, round : 0..Rounds,
                             episodes : Episodes \cup {0}]]
  /\ since \in [Trainings -> 0..Rounds]

\* Operators who leave the response, and a stop, the time to take effect never have two
\* trainings at once, however often they ask: the flag refuses the second.
OneTraining == spaced => Cardinality(InState("added") \cup InState("asleep")) <= 1

\* After a stop that found no training about to begin, and until the next start, a
\* training completes the episode it is in and no other.
StopLeavesOneEpisode == stopped => \A t \in Trainings : since[t] <= 1

\* The status does not say forever that a training is under way, which would refuse every
\* later start: each task clears the flag at its end.
TrainingIsOver == isTraining ~> ~isTraining
=============================================================================
