---------------------------- MODULE ServicesProofs ----------------------------
(***************************************************************************)
(* Proofs about the backend's services, for every value of their bounds:   *)
(* the account's lock, the training, the camera and the telemetry          *)
(* consumer.  Each part has an invariant that its own steps preserve; a    *)
(* step of MCBackendServices is one of a part, or none of its.             *)
(***************************************************************************)
EXTENDS MCBackendServices, FiniteSetTheorems, WellFoundedInduction, TLAPS

\* What a step is for each part: one of its own, or none.
LEMMA PartSteps ==
  ASSUME [Next]_vars
  PROVE  /\ [Accounts!Next]_loginVars
         /\ [Training!Next]_trainingVars
         /\ [Consumer!Next]_consumerVars
         /\ [Camera!Next]_cameraVars
BY DEF Next, vars, ButAccounts, ButTraining, ButConsumer, ButCamera, ButRoutes

\* A set of which all members are the same has at most one.
LEMMA AtMostOne ==
  ASSUME NEW S, \A a, b \in S : a = b
  PROVE  Cardinality(S) <= 1
<1>1. CASE S = {}
  BY <1>1, FS_EmptySet
<1>2. CASE S # {}
  <2>1. PICK a \in S : TRUE
    BY <1>2
  <2>2. S = {a}
    BY <2>1
  <2> QED BY <2>2, FS_Singleton
<1> QED BY <1>1, <1>2

-----------------------------------------------------------------------------
(* The account's lock: LoginLimit *)

\* The requests in a state.
LoginsAt(s) == {l \in Logins : login[l] = s}

\* A set of requests, with one request more or less.
LEMMA LoginSets ==
  ASSUME NEW S \in SUBSET Logins, NEW l \in Logins
  PROVE  /\ Cardinality(S) \in Nat /\ Cardinality(S) <= Cardinality(Logins)
         /\ l \notin S => Cardinality(S \cup {l}) = Cardinality(S) + 1
         /\ l \in S => Cardinality(S \ {l}) = Cardinality(S) - 1
<1>1. IsFiniteSet(Logins) /\ IsFiniteSet(S)
  BY LoginLimitAssumption, FS_Subset
<1>2. Cardinality(S) \in Nat /\ Cardinality(S) <= Cardinality(Logins)
  BY <1>1, FS_CardinalityType, FS_Subset
<1> QED BY <1>1, <1>2, FS_AddElement, FS_RemoveElement

\* Requests in two states are different requests.
LEMMA LoginsApart ==
  ASSUME NEW S \in SUBSET Logins, NEW T \in SUBSET Logins, S \cap T = {}
  PROVE  Cardinality(S) + Cardinality(T) <= Cardinality(Logins)
<1>1. IsFiniteSet(Logins) /\ IsFiniteSet(S) /\ IsFiniteSet(T)
  BY LoginLimitAssumption, FS_Subset
<1>2. Cardinality(S \cup T) = Cardinality(S) + Cardinality(T) - Cardinality(S \cap T)
  BY <1>1, FS_Union
<1>3. Cardinality(S \cap T) = 0
  BY FS_EmptySet
<1>4. S \cup T \in SUBSET Logins
  OBVIOUS
<1>5. Cardinality(S \cup T) <= Cardinality(Logins)
  BY <1>1, <1>4, FS_Subset
<1>6. Cardinality(S) \in Nat /\ Cardinality(T) \in Nat
  BY <1>1, FS_CardinalityType
<1> QED BY <1>2, <1>3, <1>5, <1>6

\* As long as no Redis command failed: each wrong password is counted or about to be,
\* requests that passed the check leave room for themselves, and those that come one
\* after the other have it to themselves.
GuessesCounted ==
  /\ tried <= count + Cardinality(LoginsAt("wrong"))
  /\ tried + Cardinality(LoginsAt("checked")) <= Limit - 1 + Cardinality(Logins)
OneLogin ==
  \A k, l \in Logins : login[k] \notin {"idle", "refused"} /\ login[l] \notin {"idle", "refused"}
                         => k = l
LoginInOrder ==
  /\ tried <= Limit
  /\ \A l \in Logins : login[l] = "checked" => tried < Limit

LoginInv ==
  /\ Accounts!TypeOK
  /\ orderly => OneLogin
  /\ loginFaults = 0 => GuessesCounted /\ (orderly => LoginInOrder)

\* The lock's types.
LEMMA LoginTypes ==
  ASSUME Accounts!TypeOK, [Accounts!Next]_loginVars
  PROVE  Accounts!TypeOK'
<1> USE LoginLimitAssumption DEF Accounts!TypeOK
<1>1. ASSUME NEW l \in Logins, Accounts!check_login_rate_limit(l) PROVE Accounts!TypeOK'
  BY <1>1 DEF Accounts!check_login_rate_limit, Accounts!At, Accounts!MayFail,
              Accounts!TtlAfterRefusal
<1>2. ASSUME NEW l \in Logins, Accounts!authenticate_user(l) PROVE Accounts!TypeOK'
  BY <1>2 DEF Accounts!authenticate_user, Accounts!At
<1>3. ASSUME NEW l \in Logins, Accounts!record_login_failure(l) PROVE Accounts!TypeOK'
  BY <1>3 DEF Accounts!record_login_failure, Accounts!At, Accounts!MayFail
<1>4. ASSUME NEW l \in Logins, Accounts!reset_login_failures(l) PROVE Accounts!TypeOK'
  BY <1>4 DEF Accounts!reset_login_failures, Accounts!At, Accounts!MayFail
<1>5. CASE Accounts!Tick
  BY <1>5 DEF Accounts!Tick
<1>6. CASE UNCHANGED loginVars
  BY <1>6 DEF loginVars
<1> QED BY <1>1, <1>2, <1>3, <1>4, <1>5, <1>6 DEF Accounts!Next

\* Requests one after the other stay so.
LEMMA OneLoginStep ==
  ASSUME Accounts!TypeOK, orderly, OneLogin, [Accounts!Next]_loginVars
  PROVE  OneLogin'
<1> USE DEF Accounts!TypeOK, OneLogin, Accounts!At
<1>1. ASSUME NEW l \in Logins, Accounts!check_login_rate_limit(l) PROVE OneLogin'
  BY <1>1 DEF Accounts!check_login_rate_limit, Accounts!Idle
<1>2. ASSUME NEW l \in Logins, Accounts!authenticate_user(l) PROVE OneLogin'
  BY <1>2 DEF Accounts!authenticate_user
<1>3. ASSUME NEW l \in Logins, Accounts!record_login_failure(l) PROVE OneLogin'
  BY <1>3 DEF Accounts!record_login_failure
<1>4. ASSUME NEW l \in Logins, Accounts!reset_login_failures(l) PROVE OneLogin'
  BY <1>4 DEF Accounts!reset_login_failures
<1>5. CASE Accounts!Tick
  BY <1>5 DEF Accounts!Tick
<1>6. CASE UNCHANGED loginVars
  BY <1>6 DEF loginVars
<1> QED BY <1>1, <1>2, <1>3, <1>4, <1>5, <1>6 DEF Accounts!Next

\* One request moves from s to t.
LEMMA LoginMoves ==
  ASSUME Accounts!TypeOK, NEW l \in Logins, NEW t, Accounts!At(l, t)
  PROVE  \A s : LoginsAt(s)' = IF s = t THEN LoginsAt(s) \cup {l} ELSE LoginsAt(s) \ {l}
BY DEF Accounts!TypeOK, Accounts!At, LoginsAt

\* The inductive step for the lock.
LEMMA LoginStep ==
  ASSUME LoginInv, [Accounts!Next]_loginVars
  PROVE  LoginInv'
<1> DEFINE W == Cardinality(LoginsAt("wrong"))
           C == Cardinality(LoginsAt("checked"))
           N == Cardinality(Logins)
<1>1. /\ Accounts!TypeOK /\ Accounts!TypeOK' /\ orderly' = orderly
      /\ orderly => OneLogin /\ OneLogin'
  <2>1. orderly' = orderly
    BY DEF Accounts!Next, loginVars, Accounts!check_login_rate_limit,
           Accounts!authenticate_user, Accounts!record_login_failure,
           Accounts!reset_login_failures, Accounts!Tick
  <2> QED BY <2>1, LoginTypes, OneLoginStep DEF LoginInv
<1>2. /\ count \in Nat /\ tried \in Nat /\ Limit \in Nat /\ loginFaults \in Nat
      /\ count' \in Nat /\ tried' \in Nat /\ loginFaults' \in Nat /\ Limit # 0
  BY <1>1, LoginLimitAssumption DEF Accounts!TypeOK
<1>3. \A s : LoginsAt(s) \in SUBSET Logins /\ LoginsAt(s)' \in SUBSET Logins
  BY DEF LoginsAt
<1>4. W \in Nat /\ C \in Nat /\ N \in Nat /\ W' \in Nat /\ C' \in Nat /\ C' <= N
  <2>1. IsFiniteSet(Logins) /\ N \in Nat
    BY LoginLimitAssumption, FS_CardinalityType
  <2>2. \A S \in SUBSET Logins : Cardinality(S) \in Nat /\ Cardinality(S) <= N
    BY <2>1, FS_Subset, FS_CardinalityType
  <2> QED BY <1>3, <2>1, <2>2
<1> HIDE DEF W, C, N
<1>5. ASSUME NEW l \in Logins, Accounts!check_login_rate_limit(l), loginFaults' = 0
      PROVE  GuessesCounted' /\ (orderly => LoginInOrder')
  <2>1. /\ loginFaults = 0 /\ tried' = tried /\ count' = count
        /\ login[l] \in {"idle", "refused"}
        /\ \/ Accounts!At(l, "checked") /\ count < Limit
           \/ Accounts!At(l, "refused")
        /\ orderly => \A k \in Logins : login[k] \in {"idle", "refused"}
    BY <1>2, <1>5 DEF Accounts!check_login_rate_limit, Accounts!MayFail, Accounts!Locked,
                      Accounts!Idle
  <2>2. GuessesCounted /\ (orderly => LoginInOrder)
    BY <2>1 DEF LoginInv
  <2>3. /\ LoginsAt("wrong")' = LoginsAt("wrong")
        /\ l \notin LoginsAt("checked")
    BY <1>1, <2>1, LoginMoves DEF LoginsAt
  <2>4. tried' <= count' + W'
    BY <2>1, <2>2, <2>3 DEF GuessesCounted, W
  <2>5. tried' + C' <= Limit - 1 + N
    <3>1. CASE Accounts!At(l, "checked") /\ count < Limit
      <4>1. LoginsAt("wrong") \cap LoginsAt("checked")' = {}
        BY <1>1, <2>3, <3>1, LoginMoves DEF LoginsAt
      <4>2. W + C' <= N
        BY <1>3, <4>1, LoginsApart DEF W, C, N
      <4>3. tried <= count + W /\ count <= Limit - 1
        BY <1>2, <2>2, <3>1 DEF GuessesCounted, W
      <4>4. tried <= Limit - 1 + W
        BY <1>2, <1>4, <4>3
      <4>5. tried' = tried
        BY <2>1
      <4>6. tried + C' <= Limit - 1 + N
        BY <1>2, <1>4, <4>2, <4>4 DEF W, C, N
      <4> QED BY <4>5, <4>6
    <3>2. CASE Accounts!At(l, "refused")
      <4>1. LoginsAt("checked")' = LoginsAt("checked")
        BY <1>1, <2>3, <3>2, LoginMoves
      <4> QED BY <2>1, <2>2, <4>1 DEF GuessesCounted, C, N
    <3> QED BY <2>1, <3>1, <3>2
  <2>6. ASSUME orderly PROVE LoginInOrder'
    <3>1. tried <= count
      <4>1. LoginsAt("wrong") = {}
        BY <2>1, <2>6 DEF LoginsAt
      <4>2. W = 0
        BY <4>1, FS_EmptySet DEF W
      <4> QED BY <1>2, <2>2, <4>2 DEF GuessesCounted, W
    <3>2. CASE Accounts!At(l, "checked") /\ count < Limit
      BY <1>2, <2>1, <2>2, <2>6, <3>1, <3>2 DEF LoginInOrder
    <3>3. CASE Accounts!At(l, "refused")
      BY <1>1, <2>1, <2>2, <2>6, <3>3 DEF LoginInOrder, Accounts!At, Accounts!TypeOK
    <3> QED BY <2>1, <3>2, <3>3
  <2> QED BY <2>4, <2>5, <2>6 DEF GuessesCounted, W, C, N
<1>6. ASSUME NEW l \in Logins, Accounts!authenticate_user(l), loginFaults' = 0
      PROVE  GuessesCounted' /\ (orderly => LoginInOrder')
  <2>1. /\ loginFaults = 0 /\ count' = count /\ login[l] = "checked"
        /\ \/ /\ Accounts!At(l, "right") \/ Accounts!At(l, "idle")
              /\ tried' = tried
           \/ Accounts!At(l, "wrong") /\ tried' = tried + 1
    BY <1>6 DEF Accounts!authenticate_user
  <2>2. GuessesCounted /\ (orderly => LoginInOrder)
    BY <2>1 DEF LoginInv
  <2>3. l \in LoginsAt("checked") /\ l \notin LoginsAt("wrong")
    BY <2>1 DEF LoginsAt
  <2>4. C' = C - 1
    <3>1. LoginsAt("checked")' = LoginsAt("checked") \ {l}
      BY <1>1, <2>1, LoginMoves
    <3> QED BY <1>3, <2>3, <3>1, LoginSets DEF C
  <2>5. CASE Accounts!At(l, "wrong") /\ tried' = tried + 1
    <3>1. W' = W + 1
      <4>1. LoginsAt("wrong")' = LoginsAt("wrong") \cup {l}
        BY <1>1, <2>5, LoginMoves
      <4> QED BY <1>3, <2>3, <4>1, LoginSets DEF W
    <3>2. GuessesCounted'
      BY <1>2, <1>4, <2>1, <2>2, <2>4, <2>5, <3>1 DEF GuessesCounted, W, C, N
    <3>3. ASSUME orderly PROVE LoginInOrder'
      <4>1. tried < Limit
        BY <2>1, <2>2, <3>3 DEF LoginInOrder
      <4>2. \A k \in Logins : login'[k] # "checked"
        BY <1>1, <2>1, <2>5, <3>3 DEF OneLogin, Accounts!At, Accounts!TypeOK
      <4> QED BY <1>2, <2>5, <4>1, <4>2 DEF LoginInOrder
    <3> QED BY <3>2, <3>3
  <2>6. CASE tried' = tried /\ (Accounts!At(l, "right") \/ Accounts!At(l, "idle"))
    <3>1. W' = W
      <4>1. LoginsAt("wrong")' = LoginsAt("wrong")
        BY <1>1, <2>3, <2>6, LoginMoves
      <4> QED BY <4>1 DEF W
    <3>2. GuessesCounted'
      BY <1>2, <1>4, <2>1, <2>2, <2>4, <2>6, <3>1 DEF GuessesCounted, W, C, N
    <3>3. ASSUME orderly PROVE LoginInOrder'
      BY <1>1, <2>1, <2>2, <2>6, <3>3 DEF LoginInOrder, Accounts!At, Accounts!TypeOK
    <3> QED BY <3>2, <3>3
  <2> QED BY <2>1, <2>5, <2>6
<1>7. ASSUME NEW l \in Logins, Accounts!record_login_failure(l), loginFaults' = 0
      PROVE  GuessesCounted' /\ (orderly => LoginInOrder')
  <2>1. /\ loginFaults = 0 /\ count' = count + 1 /\ tried' = tried
        /\ login[l] = "wrong" /\ Accounts!At(l, "idle")
    BY <1>2, <1>7 DEF Accounts!record_login_failure, Accounts!MayFail
  <2>2. GuessesCounted /\ (orderly => LoginInOrder)
    BY <2>1 DEF LoginInv
  <2>3. /\ LoginsAt("wrong")' = LoginsAt("wrong") \ {l} /\ l \in LoginsAt("wrong")
        /\ LoginsAt("checked")' = LoginsAt("checked")
    BY <1>1, <2>1, LoginMoves DEF LoginsAt
  <2>4. W' = W - 1 /\ C' = C
    BY <1>3, <2>3, LoginSets DEF W, C
  <2>5. GuessesCounted'
    BY <1>2, <1>4, <2>1, <2>2, <2>4 DEF GuessesCounted, W, C, N
  <2>6. ASSUME orderly PROVE LoginInOrder'
    BY <1>1, <2>1, <2>2, <2>6 DEF LoginInOrder, Accounts!At, Accounts!TypeOK
  <2> QED BY <2>5, <2>6
<1>8. ASSUME tried' = 0, count' \in Nat, \A k \in Logins : login'[k] = "checked" => Limit > 0
      PROVE  GuessesCounted' /\ (orderly => LoginInOrder')
  BY <1>2, <1>4, <1>8 DEF GuessesCounted, LoginInOrder, W, C, N
<1>9. ASSUME NEW l \in Logins, Accounts!reset_login_failures(l), loginFaults' = 0
      PROVE  GuessesCounted' /\ (orderly => LoginInOrder')
  <2>1. tried' = 0
    BY <1>2, <1>9 DEF Accounts!reset_login_failures, Accounts!MayFail
  <2> QED BY <1>2, <1>8, <2>1
<1>10. ASSUME Accounts!Tick, loginFaults' = 0
       PROVE  GuessesCounted' /\ (orderly => LoginInOrder')
  <2>1. \/ tried' = 0
        \/ UNCHANGED <<tried, count, login>> /\ loginFaults = 0
    BY <1>10 DEF Accounts!Tick
  <2>2. CASE UNCHANGED <<tried, count, login>> /\ loginFaults = 0
    BY <2>2 DEF LoginInv, GuessesCounted, LoginInOrder, LoginsAt
  <2> QED BY <1>2, <1>8, <2>1, <2>2
<1>11. ASSUME UNCHANGED loginVars, loginFaults' = 0
       PROVE  GuessesCounted' /\ (orderly => LoginInOrder')
  BY <1>11 DEF loginVars, LoginInv, GuessesCounted, LoginInOrder, LoginsAt
<1>12. loginFaults' = 0 => GuessesCounted' /\ (orderly => LoginInOrder')
  BY <1>5, <1>6, <1>7, <1>9, <1>10, <1>11 DEF Accounts!Next
<1> QED BY <1>1, <1>12 DEF LoginInv

\* GuessesAreBounded is an invariant, for any number of requests at the same time and any
\* limit: as long as Redis answers, requests that come one after the other try at most
\* Limit wrong passwords in a row, and each further one at the same time adds one.
THEOREM GuessesCorrect == Spec => []GuessesAreBounded
<1>1. Init => LoginInv
  <2> SUFFICES ASSUME Init PROVE LoginInv
    OBVIOUS
  <2>1. Accounts!Init
    BY DEF Init
  <2>2. Accounts!TypeOK /\ OneLogin
    BY <2>1, LoginLimitAssumption DEF Accounts!Init, Accounts!TypeOK, OneLogin
  <2>3. LoginsAt("wrong") = {} /\ LoginsAt("checked") = {}
    BY <2>1 DEF Accounts!Init, LoginsAt
  <2>4. Cardinality({}) = 0 /\ Cardinality(Logins) \in Nat
    BY LoginLimitAssumption, FS_EmptySet, FS_CardinalityType
  <2>5. GuessesCounted
    BY <2>1, <2>3, <2>4, LoginLimitAssumption DEF Accounts!Init, GuessesCounted
  <2>6. LoginInOrder
    BY <2>1, LoginLimitAssumption DEF Accounts!Init, LoginInOrder
  <2> QED BY <2>2, <2>5, <2>6 DEF LoginInv
<1>2. LoginInv => GuessesAreBounded
  <2> SUFFICES ASSUME LoginInv PROVE GuessesAreBounded
    OBVIOUS
  <2>1. /\ tried \in Nat /\ Cardinality(LoginsAt("checked")) \in Nat
        /\ Cardinality(Logins) \in Nat
    <3>1. LoginsAt("checked") \in SUBSET Logins
      BY DEF LoginsAt
    <3> QED BY <3>1, LoginLimitAssumption, FS_CardinalityType, FS_Subset
            DEF LoginInv, Accounts!TypeOK
  <2>2. loginFaults = 0 => tried <= IF orderly THEN Limit ELSE Limit - 1 + Cardinality(Logins)
    <3>1. CASE loginFaults = 0 /\ orderly
      BY <3>1 DEF LoginInv, LoginInOrder
    <3>2. CASE loginFaults = 0 /\ ~orderly
      <4>1. tried + Cardinality(LoginsAt("checked")) <= Limit - 1 + Cardinality(Logins)
        BY <3>2 DEF LoginInv, GuessesCounted
      <4> QED BY <2>1, <3>2, <4>1, LoginLimitAssumption
    <3> QED BY <3>1, <3>2
  <2>3. Accounts!Cardinality(Logins) = Cardinality(Logins)
    BY DEF Accounts!Cardinality, Cardinality
  <2> QED BY <2>2, <2>3 DEF LoginInv, GuessesAreBounded, Accounts!GuessesAreBounded
<1>3. LoginInv /\ [Next]_vars => LoginInv'
  BY LoginStep, PartSteps
<1> QED BY <1>1, <1>2, <1>3, PTL DEF Spec
-----------------------------------------------------------------------------
(* The training: MlTraining *)

\* Whoever starts trainings one at a time has one task at a time.  After a stop the flag
\* is down and no task is about to begin, and a task that sleeps through a stop has
\* completed nothing since.
TrainingInv ==
  /\ Training!TypeOK
  /\ spaced => \A t, u \in Trainings : task[t].at # "free" /\ task[u].at # "free" => t = u
  /\ stopped => ~isTraining /\ \A t \in Trainings : task[t].at # "added"
  /\ \A t \in Trainings : /\ since[t] <= 1
                          /\ stopped /\ task[t].at = "asleep" => since[t] = 0

Tasks == [at : {"free", "added", "asleep"}, round : 0..Rounds, episodes : Episodes \cup {0}]

\* A task that is over, or added with so many episodes, is a task.
LEMMA TaskValues ==
  /\ Training!Free \in Tasks /\ Training!Free.at = "free"
  /\ \A n \in Episodes : [at |-> "added", round |-> 0, episodes |-> n] \in Tasks
<1>1. 0 \in 0 .. Rounds
  BY MlTrainingAssumption
<1> QED BY <1>1 DEF Tasks, Training!Free

\* A sleeping task's round is one of its training.
LEMMA LastRound ==
  ASSUME NEW n \in Episodes \cup {0}
  PROVE  Training!Last(n) \in Int /\ Training!Last(n) <= Rounds
BY MlTrainingAssumption DEF Training!Last

\* What the head of the loop leaves: a task that sleeps, with the flag it saw up, or that
\* is over.
LEMMA LoopResult ==
  ASSUME Training!TypeOK, NEW t \in Trainings, NEW round \in 1 .. Rounds + 1,
         NEW flag \in BOOLEAN, Training!Loop(t, round, task[t].episodes, flag)
  PROVE  /\ task' \in [Trainings -> Tasks]
         /\ \A u \in Trainings \ {t} : task'[u] = task[u]
         /\ isTraining' \in BOOLEAN
         /\ ~flag => ~isTraining' /\ task'[t].at = "free"
         /\ task'[t].at # "added"
<1>1. task[t].episodes \in Episodes \cup {0}
  BY DEF Training!TypeOK
<1>2. CASE /\ round <= Training!Last(task[t].episodes) /\ flag
           /\ task' = [task EXCEPT ![t] = [at |-> "asleep", round |-> round,
                                           episodes |-> task[t].episodes]]
           /\ isTraining' = flag
  <2>1. round \in 0 .. Rounds
    BY <1>1, <1>2, LastRound, MlTrainingAssumption
  <2>2. /\ task \in [Trainings -> Tasks]
        /\ [at |-> "asleep", round |-> round, episodes |-> task[t].episodes] \in Tasks
    BY <1>1, <2>1 DEF Training!TypeOK, Tasks
  <2> QED BY <1>2, <2>2
<1>3. CASE task' = [task EXCEPT ![t] = Training!Free] /\ isTraining' = FALSE
  <2>1. /\ task \in [Trainings -> Tasks] /\ Training!Free \in Tasks
        /\ Training!Free.at = "free"
    BY TaskValues DEF Training!TypeOK, Tasks
  <2> QED BY <1>3, <2>1
<1> QED BY <1>2, <1>3 DEF Training!Loop, Training!GoesOn, Training!FlagAtEnd

\* The inductive step for the training.
LEMMA TrainingStep ==
  ASSUME TrainingInv, [Training!Next]_trainingVars
  PROVE  TrainingInv'
<1> USE MlTrainingAssumption
<1>1. ASSUME NEW t \in Trainings, NEW n \in Episodes, Training!start_training(t, n)
      PROVE  TrainingInv'
  <2>1. /\ \A u \in Trainings \ {t} : task'[u] = task[u]
        /\ task'[t] = [at |-> "added", round |-> 0, episodes |-> n]
        /\ stopped' = FALSE /\ UNCHANGED <<spaced, isTraining, episode, since>>
        /\ spaced => \A u \in Trainings : task[u].at = "free"
    BY <1>1 DEF TrainingInv, Training!TypeOK, Training!start_training, Training!MayStart,
                Training!InState
  <2>2. Training!TypeOK'
    <3>1. task' \in [Trainings -> Tasks]
      BY <1>1, TaskValues DEF TrainingInv, Training!TypeOK, Tasks, Training!start_training
    <3>2. {spaced', isTraining', stopped'} \subseteq BOOLEAN
      BY <2>1, Zenon DEF TrainingInv, Training!TypeOK
    <3> QED BY <2>1, <3>1, <3>2 DEF TrainingInv, Training!TypeOK, Tasks
  <2> QED BY <2>1, <2>2 DEF TrainingInv
<1>2. ASSUME NEW t \in Trainings, Training!run_marl_training_task(t)
      PROVE  TrainingInv'
  <2>1. /\ task[t].at = "added" /\ episode' = 0 /\ UNCHANGED <<spaced, stopped, since>>
        /\ Training!Loop(t, 1, task[t].episodes, TRUE)
    BY <1>2 DEF Training!run_marl_training_task
  <2>2. ~stopped
    BY <2>1 DEF TrainingInv
  <2>3. /\ task' \in [Trainings -> Tasks]
        /\ \A u \in Trainings \ {t} : task'[u] = task[u]
        /\ isTraining' \in BOOLEAN
    <3>1. 1 \in 1 .. Rounds + 1 /\ Training!TypeOK
      BY DEF TrainingInv
    <3> QED BY <2>1, <3>1, LoopResult
  <2>4. Training!TypeOK'
    BY <2>1, <2>3 DEF TrainingInv, Training!TypeOK, Tasks
  <2> QED BY <2>1, <2>2, <2>3, <2>4 DEF TrainingInv
<1>3. ASSUME NEW t \in Trainings, Training!Wake(t)
      PROVE  TrainingInv'
  <2>1. /\ task[t].at = "asleep" /\ episode' = task[t].round /\ UNCHANGED <<spaced, stopped>>
        /\ since' = IF stopped THEN [since EXCEPT ![t] = @ + 1] ELSE since
        /\ Training!Loop(t, task[t].round + 1, task[t].episodes, isTraining)
    BY <1>3 DEF Training!Wake
  <2>2. task[t].round \in 0 .. Rounds /\ task[t].round + 1 \in 1 .. Rounds + 1
        /\ isTraining \in BOOLEAN
    BY DEF TrainingInv, Training!TypeOK
  <2>3. /\ task' \in [Trainings -> Tasks]
        /\ \A u \in Trainings \ {t} : task'[u] = task[u]
        /\ isTraining' \in BOOLEAN
        /\ ~isTraining => ~isTraining' /\ task'[t].at = "free"
        /\ task'[t].at # "added"
    BY <2>1, <2>2, LoopResult DEF TrainingInv
  <2>4. /\ since' \in [Trainings -> 0 .. Rounds]
        /\ \A u \in Trainings \ {t} : since'[u] = since[u]
        /\ since'[t] <= 1
    BY <2>1 DEF TrainingInv, Training!TypeOK
  <2>5. Training!TypeOK'
    BY <2>1, <2>2, <2>3, <2>4 DEF TrainingInv, Training!TypeOK, Tasks
  <2> QED BY <2>1, <2>3, <2>4, <2>5 DEF TrainingInv
<1>4. ASSUME Training!stop_training PROVE TrainingInv'
  <2>1. /\ isTraining' = FALSE /\ stopped' = (Training!InState("added") = {})
        /\ UNCHANGED <<spaced, episode, task>>
        /\ since' = [t \in Trainings |-> 0]
    BY <1>4 DEF Training!stop_training
  <2>2. since' \in [Trainings -> 0 .. Rounds] /\ \A t \in Trainings : since'[t] = 0
    BY <2>1
  <2>3. Training!TypeOK'
    <3>1. {spaced', isTraining', stopped'} \subseteq BOOLEAN
      BY <2>1, Zenon DEF TrainingInv, Training!TypeOK
    <3> QED BY <2>1, <2>2, <3>1 DEF TrainingInv, Training!TypeOK
  <2>4. stopped' => \A t \in Trainings : task[t].at # "added"
    BY <2>1 DEF Training!InState
  <2> QED BY <2>1, <2>2, <2>3, <2>4 DEF TrainingInv
<1>5. CASE UNCHANGED trainingVars
  BY <1>5 DEF trainingVars, TrainingInv, Training!TypeOK
<1> QED BY <1>1, <1>2, <1>3, <1>4, <1>5 DEF Training!Next

\* TrainingInv says what OneAtATime says of the training.
LEMMA TrainingOne ==
  ASSUME TrainingInv
  PROVE  Training!TypeOK /\ Training!OneTraining /\ Training!StopLeavesOneEpisode
<1>1. ASSUME spaced
      PROVE  Cardinality(Training!InState("added") \cup Training!InState("asleep")) <= 1
  <2>1. \A t, u \in Training!InState("added") \cup Training!InState("asleep") : t = u
    BY <1>1 DEF TrainingInv, Training!InState
  <2> QED BY <2>1, AtMostOne
<1>2. \A S : Training!Cardinality(S) = Cardinality(S)
  BY DEF Training!Cardinality, Cardinality
<1> QED BY <1>1, <1>2 DEF TrainingInv, Training!OneTraining, Training!StopLeavesOneEpisode

-----------------------------------------------------------------------------
(* The camera: RtspWorker *)

\* A camera restarted with patience has one pair of threads, and no frame is newer than
\* the buffer's, which none of the threads' copies and no telemetry overtakes.
CameraInv ==
  /\ Camera!TypeOK
  /\ latestFrame = grabbed
  /\ lastTelemetry <= latestFrame
  /\ \A p \in Pairs : frame[p] <= latestFrame
  /\ patient =>
       /\ \A p, q \in Pairs : ~Camera!Over(p) /\ ~Camera!Over(q) => p = q
       /\ \A p \in Pairs : inference[p] = "processing" => lastTelemetry <= frame[p]

\* The camera's types, and what a step does to the frames.
LEMMA CameraTypes ==
  ASSUME Camera!TypeOK, latestFrame = grabbed, [Camera!Next]_cameraVars
  PROVE  /\ Camera!TypeOK' /\ latestFrame' = grabbed' /\ latestFrame <= latestFrame'
         /\ patient' = patient
<1> USE RtspWorkerAssumption DEF Camera!TypeOK, Camera!Grabber, Camera!Inference
<1>1. ASSUME NEW p \in Pairs, Camera!start(p)
      PROVE  /\ Camera!TypeOK' /\ latestFrame' = grabbed' /\ latestFrame <= latestFrame'
             /\ patient' = patient
  BY <1>1 DEF Camera!start
<1>2. ASSUME NEW p \in Pairs, Camera!GrabberStep(p)
      PROVE  /\ Camera!TypeOK' /\ latestFrame' = grabbed' /\ latestFrame <= latestFrame'
             /\ patient' = patient
  <2>1. /\ latestFrame' = grabbed' /\ grabbed' \in 0 .. Frames /\ latestFrame <= latestFrame'
        /\ UNCHANGED <<patient, isRunning, inference, frame, lastTelemetry>>
    BY <1>2 DEF Camera!GrabberStep, Camera!Grab, Camera!NoFrame
  <2>2. grabber' = grabber \/ \E s \in {"top", "reading", "released", "pause", "ended"} :
                                 grabber' = [grabber EXCEPT ![p] = s]
    BY <1>2 DEF Camera!GrabberStep
  <2> QED BY <2>1, <2>2
<1>3. ASSUME NEW p \in Pairs, Camera!InferenceStep(p)
      PROVE  /\ Camera!TypeOK' /\ latestFrame' = grabbed' /\ latestFrame <= latestFrame'
             /\ patient' = patient
  <2>1. UNCHANGED <<patient, isRunning, grabber, latestFrame, grabbed>>
    BY <1>3 DEF Camera!InferenceStep
  <2>2. \E s \in {"top", "processing", "pause", "ended"} :
          inference' = [inference EXCEPT ![p] = s]
    BY <1>3 DEF Camera!InferenceStep
  <2>3. frame' \in [Pairs -> 0 .. Frames] /\ lastTelemetry' \in 0 .. Frames
    BY <1>3 DEF Camera!InferenceStep
  <2>4. inference' \in [Pairs -> {"none", "top", "processing", "pause", "ended"}]
    BY <2>2
  <2> HIDE DEF Camera!Inference
  <2> QED BY <2>1, <2>3, <2>4
<1>4. CASE Camera!stop
  <2>1. isRunning' \in BOOLEAN
    BY <1>4 DEF Camera!stop
  <2>2. UNCHANGED <<patient, grabber, inference, latestFrame, grabbed, frame, lastTelemetry>>
    BY <1>4 DEF Camera!stop
  <2> QED BY <2>1, <2>2
<1>5. CASE UNCHANGED cameraVars
  BY <1>5 DEF cameraVars
<1> QED BY <1>1, <1>2, <1>3, <1>4, <1>5 DEF Camera!Next

\* The inductive step for the camera; with patience its telemetry advances.
LEMMA CameraStep ==
  ASSUME CameraInv, [Camera!Next]_cameraVars
  PROVE  CameraInv' /\ (patient => lastTelemetry' >= lastTelemetry)
<1> DEFINE Goal == CameraInv' /\ (patient => lastTelemetry' >= lastTelemetry)
<1>1. /\ Camera!TypeOK /\ Camera!TypeOK' /\ latestFrame' = grabbed'
      /\ latestFrame <= latestFrame' /\ patient' = patient
  BY CameraTypes DEF CameraInv
<1>2. /\ latestFrame \in Int /\ latestFrame' \in Int /\ lastTelemetry \in Int
      /\ lastTelemetry' \in Int
      /\ \A p \in Pairs : frame[p] \in Int /\ frame'[p] \in Int
  BY <1>1, RtspWorkerAssumption DEF Camera!TypeOK
<1>3. ASSUME NEW p \in Pairs, Camera!start(p) PROVE Goal
  <2>1. /\ patient => \A q \in Pairs : Camera!Over(q)
        /\ \A q \in Pairs \ {p} : grabber'[q] = grabber[q] /\ inference'[q] = inference[q]
        /\ inference'[p] = "top"
        /\ UNCHANGED <<latestFrame, frame, lastTelemetry>>
    BY <1>1, <1>3 DEF Camera!start, Camera!MayStart, Camera!TypeOK
  <2> QED BY <1>1, <1>2, <2>1 DEF CameraInv, Camera!Over
<1>4. ASSUME NEW p \in Pairs, Camera!GrabberStep(p) PROVE Goal
  <2>1. /\ ~Camera!Over(p)
        /\ \A q \in Pairs \ {p} : grabber'[q] = grabber[q]
        /\ UNCHANGED <<inference, frame, lastTelemetry>>
    BY <1>1, <1>4 DEF Camera!GrabberStep, Camera!TypeOK, Camera!Over, Camera!Gone,
                      Camera!Grabber
  <2>2. patient => \A q, r \in Pairs : ~Camera!Over(q)' /\ ~Camera!Over(r)' => q = r
    BY <2>1 DEF CameraInv, Camera!Over
  <2>3. lastTelemetry <= latestFrame' /\ \A q \in Pairs : frame[q] <= latestFrame'
    BY <1>1, <1>2 DEF CameraInv
  <2> QED BY <1>1, <1>2, <2>1, <2>2, <2>3 DEF CameraInv
<1>5. ASSUME NEW p \in Pairs, Camera!InferenceStep(p) PROVE Goal
  <2>1. /\ ~Camera!Over(p)
        /\ \A q \in Pairs \ {p} : inference'[q] = inference[q] /\ frame'[q] = frame[q]
        /\ UNCHANGED <<grabber, latestFrame>>
        /\ \/ /\ lastTelemetry' = lastTelemetry
              /\ frame'[p] = frame[p] \/ frame'[p] = latestFrame
              /\ inference'[p] = "processing" => frame'[p] = latestFrame
           \/ /\ lastTelemetry' \in {frame[p], lastTelemetry} /\ frame'[p] = frame[p]
              /\ inference[p] = "processing" /\ inference'[p] = "pause"
    BY <1>1, <1>5 DEF Camera!InferenceStep, Camera!TypeOK, Camera!Over, Camera!Gone,
                      Camera!Inference
  <2>2. patient => \A q, r \in Pairs : ~Camera!Over(q)' /\ ~Camera!Over(r)' => q = r
    BY <2>1 DEF CameraInv, Camera!Over
  <2>3. patient => \A q \in Pairs \ {p} : inference[q] # "processing"
    BY <2>1 DEF CameraInv, Camera!Over, Camera!Gone
  <2>4. patient => lastTelemetry' >= lastTelemetry
    BY <1>2, <2>1 DEF CameraInv
  <2>5. lastTelemetry' <= latestFrame' /\ \A q \in Pairs : frame'[q] <= latestFrame'
    BY <1>2, <2>1 DEF CameraInv
  <2>6. patient => \A q \in Pairs : inference'[q] = "processing" => lastTelemetry' <= frame'[q]
    BY <1>2, <2>1, <2>3 DEF CameraInv
  <2> QED BY <1>1, <2>2, <2>4, <2>5, <2>6 DEF CameraInv
<1>6. ASSUME UNCHANGED <<grabber, inference, latestFrame, frame, lastTelemetry>> PROVE Goal
  BY <1>1, <1>2, <1>6 DEF CameraInv, Camera!Over
<1> QED BY <1>3, <1>4, <1>5, <1>6 DEF Camera!Next, Camera!stop, cameraVars

\* CameraInv says what OneAtATime says of the camera.
LEMMA CameraOne ==
  ASSUME CameraInv
  PROVE  Camera!TypeOK /\ Camera!OnePair
<1>1. ASSUME patient
      PROVE  Cardinality({p \in Pairs : ~Camera!Over(p)}) <= 1
  <2> DEFINE S == {p \in Pairs : ~Camera!Over(p)}
  <2>1. \A p, q \in S : p = q
    BY <1>1 DEF CameraInv
  <2> QED BY <2>1, AtMostOne
<1>2. \A S : Camera!Cardinality(S) = Cardinality(S)
  BY DEF Camera!Cardinality, Cardinality
<1> QED BY <1>1, <1>2 DEF CameraInv, Camera!OnePair

\* The initial states of the training and the camera.
LEMMA OneInit ==
  ASSUME Init
  PROVE  TrainingInv /\ CameraInv
<1>1. Training!Init /\ Camera!Init
  BY DEF Init
<1>2. TrainingInv
  <2>1. /\ \A t \in Trainings : task[t] = Training!Free /\ since[t] = 0
        /\ task \in [Trainings -> Tasks] /\ since \in [Trainings -> 0 .. Rounds]
    BY <1>1, TaskValues, MlTrainingAssumption DEF Training!Init
  <2>2. Training!TypeOK
    <3>1. {spaced, isTraining, stopped} \subseteq BOOLEAN
      BY <1>1, Zenon DEF Training!Init
    <3>2. episode \in 0 .. Rounds
      BY <1>1, MlTrainingAssumption DEF Training!Init
    <3> QED BY <2>1, <3>1, <3>2 DEF Training!TypeOK, Tasks
  <2> QED BY <1>1, <2>1, <2>2, TaskValues DEF Training!Init, TrainingInv
<1>3. CameraInv
  <2>1. Camera!TypeOK
    <3>1. patient \in BOOLEAN /\ isRunning \in BOOLEAN
      BY <1>1 DEF Camera!Init
    <3>2. 0 \in 0 .. Frames
      BY RtspWorkerAssumption
    <3> QED BY <1>1, <3>1, <3>2 DEF Camera!Init, Camera!TypeOK
  <2>2. \A p \in Pairs : Camera!Over(p) /\ frame[p] = 0 /\ inference[p] = "none"
    BY <1>1 DEF Camera!Init, Camera!Over, Camera!Gone
  <2>3. latestFrame = 0 /\ grabbed = 0 /\ lastTelemetry = 0
    BY <1>1 DEF Camera!Init
  <2> QED BY <2>1, <2>2, <2>3 DEF CameraInv
<1> QED BY <1>2, <1>3

\* OneAtATime is an invariant, for any number of trainings, episodes, pairs of threads
\* and frames: operators who leave a start and a stop the time to take effect have one
\* training, a stop leaves it its episode, and a patient restart leaves one pair.
THEOREM OneAtATimeCorrect == Spec => []OneAtATime
<1>1. TrainingInv /\ CameraInv /\ [Next]_vars => TrainingInv' /\ CameraInv'
  BY TrainingStep, CameraStep, PartSteps
<1>2. TrainingInv /\ CameraInv => OneAtATime
  BY TrainingOne, CameraOne DEF OneAtATime
<1> QED BY <1>1, <1>2, OneInit, PTL DEF Spec
-----------------------------------------------------------------------------
(* The telemetry consumer: MqttConsumer *)

\* A set of readings has a first.
LEMMA FirstReading ==
  ASSUME NEW S \in SUBSET Consumer!Arrivals, S # {}
  PROVE  Consumer!First(S) \in S /\ \A q \in S : Consumer!First(S) <= q
<1> DEFINE R == OpToRel(<, Nat)
<1>1. S \subseteq Nat
  BY MqttConsumerAssumption DEF Consumer!Arrivals
<1>2. \A q, r \in Nat : q < r => <<q, r>> \in R
  BY DEF OpToRel
<1>3. IsWellFoundedOn(R, Nat)
  BY NatLessThanWellFounded
<1> HIDE DEF R
<1>4. PICK r \in S : \A q \in S : <<q, r>> \notin R
  BY <1>1, <1>3, WFMin
<1>5. ASSUME NEW q \in S PROVE r <= q
  <2>1. r \in Nat /\ q \in Nat /\ ~(q < r)
    BY <1>1, <1>2, <1>4
  <2> QED BY <2>1
<1> QED BY <1>4, <1>5 DEF Consumer!First

\* Nothing overtakes on the way to the event loop: a later reading is not further than an
\* earlier one that has not been begun, unless it is lost.
ReadingsInOrder ==
  /\ thread # "callback" => Consumer!InStage("handled") = {}
  /\ \A q, r \in Consumer!Arrivals : q < r =>
       /\ stage[q] \in {"sent", "handled"} => stage[r] = "sent"
       /\ stage[q] = "ready" => stage[r] \in {"sent", "handled", "ready", "lost"}

\* A reading gets its time when it is begun; what is left will get later ones.
TimesInOrder ==
  /\ \A r \in Consumer!Arrivals :
       /\ stage[r] \in {"sent", "handled", "ready"} => stamp[r] = 0 /\ begun < r
       /\ stamp[r] <= begun
  /\ \A q, r \in Consumer!Arrivals :
       q < r /\ stage[q] = "ready" => stamp[r] = 0

ConsumerInv ==
  /\ Consumer!TypeOK
  /\ ReadingsInOrder /\ TimesInOrder
  /\ Consumer!StampsFollowArrival

\* The steps that give no time.
LEMMA TimesStay ==
  ASSUME ConsumerInv, UNCHANGED <<begun, stamp>>,
         \A r \in Consumer!Arrivals :
           /\ stage'[r] \in {"sent", "handled", "ready"} =>
                stage[r] \in {"sent", "handled", "ready"}
           /\ stage'[r] = "ready" /\ stage[r] # "ready" =>
                \A q \in Consumer!Arrivals : q > r => stage[q] = "sent"
  PROVE  TimesInOrder' /\ Consumer!StampsFollowArrival'
BY DEF ConsumerInv, TimesInOrder, Consumer!StampsFollowArrival

\* The inductive step for the consumer.
LEMMA ConsumerStep ==
  ASSUME ConsumerInv, [Consumer!Next]_consumerVars
  PROVE  ConsumerInv'
<1> USE DEF Consumer!To, Consumer!Stages
<1>1. \A r \in Consumer!Arrivals : r \in Int
  BY MqttConsumerAssumption DEF Consumer!Arrivals
<1>2. ASSUME Consumer!MessageArrives PROVE ConsumerInv'
  <2> DEFINE f == Consumer!First(Consumer!InStage("sent"))
  <2>1. /\ f \in Consumer!Arrivals /\ stage[f] = "sent"
        /\ \A r \in Consumer!Arrivals : stage[r] = "sent" => f <= r
    BY <1>2, FirstReading DEF Consumer!MessageArrives, Consumer!InStage
  <2>2. /\ stage' = [stage EXCEPT ![f] = "handled"] /\ thread' = "callback"
        /\ thread # "callback" /\ UNCHANGED <<phase, begun, stamp, ticker>>
    BY <1>2 DEF Consumer!MessageArrives
  <2> HIDE DEF f
  <2>3. Consumer!TypeOK'
    BY <2>1, <2>2 DEF ConsumerInv, Consumer!TypeOK
  <2>4. /\ stage'[f] = "handled"
        /\ \A r \in Consumer!Arrivals \ {f} : stage'[r] = stage[r]
    BY <2>1, <2>2 DEF ConsumerInv, Consumer!TypeOK
  <2>5. \A r \in Consumer!Arrivals : stage[r] # "handled"
    BY <2>2 DEF ConsumerInv, ReadingsInOrder, Consumer!InStage
  <2>6. ReadingsInOrder'
    BY <1>1, <2>1, <2>2, <2>4, <2>5 DEF ConsumerInv, ReadingsInOrder
  <2>7. TimesInOrder' /\ Consumer!StampsFollowArrival'
    BY <2>1, <2>2, <2>4, TimesStay
  <2> QED BY <2>3, <2>6, <2>7 DEF ConsumerInv
<1>3. ASSUME Consumer!on_message PROVE ConsumerInv'
  <2>1. PICK f \in Consumer!Arrivals :
          /\ stage[f] = "handled"
          /\ stage' = [stage EXCEPT ![f] = "ready"] \/ stage' = [stage EXCEPT ![f] = "lost"]
          /\ thread' = "waiting" /\ UNCHANGED <<phase, begun, stamp, ticker>>
    BY <1>3 DEF Consumer!on_message, Consumer!InStage, Consumer!AfterHandoff
  <2>2. Consumer!TypeOK'
    BY <2>1 DEF ConsumerInv, Consumer!TypeOK
  <2>3. /\ stage'[f] \in {"ready", "lost"}
        /\ \A r \in Consumer!Arrivals \ {f} : stage'[r] = stage[r]
    BY <2>1 DEF ConsumerInv, Consumer!TypeOK
  <2>4. /\ \A r \in Consumer!Arrivals \ {f} : stage[r] # "handled"
        /\ \A r \in Consumer!Arrivals : r > f => stage[r] = "sent"
    BY <1>1, <2>1 DEF ConsumerInv, ReadingsInOrder
  <2>5. ReadingsInOrder'
    BY <1>1, <2>1, <2>3, <2>4 DEF ConsumerInv, ReadingsInOrder, Consumer!InStage
  <2>6. TimesInOrder' /\ Consumer!StampsFollowArrival'
    BY <2>1, <2>3, <2>4, TimesStay
  <2> QED BY <2>2, <2>5, <2>6 DEF ConsumerInv
<1>4. ASSUME Consumer!ProcessBegins PROVE ConsumerInv'
  <2> DEFINE f == Consumer!First(Consumer!InStage("ready"))
  <2>1. /\ f \in Consumer!Arrivals /\ stage[f] = "ready"
        /\ \A r \in Consumer!Arrivals : stage[r] = "ready" => f <= r
    BY <1>4, FirstReading DEF Consumer!ProcessBegins, Consumer!InStage
  <2>2. /\ UNCHANGED <<phase, thread, ticker>>
        /\ \/ /\ stage' = [stage EXCEPT ![f] = "committing"]
              /\ begun' = begun + 1 /\ stamp' = [stamp EXCEPT ![f] = begun + 1]
           \/ /\ stage' = [stage EXCEPT ![f] = "lost"]
              /\ UNCHANGED <<begun, stamp>>
    BY <1>4 DEF Consumer!ProcessBegins, Consumer!Stamp, Consumer!StampedWhen
  <2> HIDE DEF f
  <2>3. /\ stage'[f] \in {"committing", "lost"}
        /\ \A r \in Consumer!Arrivals \ {f} : stage'[r] = stage[r]
    BY <2>1, <2>2 DEF ConsumerInv, Consumer!TypeOK
  <2>4. begun < f /\ begun \in Nat /\ begun + 1 \in 0 .. Readings
    BY <2>1, MqttConsumerAssumption
    DEF ConsumerInv, TimesInOrder, Consumer!TypeOK, Consumer!Arrivals
  <2>5. Consumer!TypeOK'
    BY <2>1, <2>2, <2>4 DEF ConsumerInv, Consumer!TypeOK
  <2>6. ReadingsInOrder'
    BY <1>1, <2>1, <2>2, <2>3 DEF ConsumerInv, ReadingsInOrder, Consumer!InStage
  <2>7. CASE UNCHANGED <<begun, stamp>>
    BY <2>1, <2>3, <2>5, <2>6, <2>7, TimesStay DEF ConsumerInv
  <2>8. CASE begun' = begun + 1 /\ stamp' = [stamp EXCEPT ![f] = begun + 1]
    <3>1. stamp'[f] = begun + 1 /\ \A r \in Consumer!Arrivals \ {f} : stamp'[r] = stamp[r]
      BY <2>1, <2>8 DEF ConsumerInv, Consumer!TypeOK
    <3>2. \A r \in Consumer!Arrivals : stamp[r] \in Nat /\ stamp[r] <= begun
      BY MqttConsumerAssumption DEF ConsumerInv, TimesInOrder, Consumer!TypeOK
    <3>3. \A r \in Consumer!Arrivals : r > f => stamp[r] = 0
      BY <1>1, <2>1 DEF ConsumerInv, TimesInOrder
    <3>4. \A r \in Consumer!Arrivals \ {f} : stage[r] \in {"sent", "handled", "ready"} => r > f
      BY <1>1, <2>1 DEF ConsumerInv, ReadingsInOrder
    <3>5. ASSUME NEW r \in Consumer!Arrivals
          PROVE  /\ stage'[r] \in {"sent", "handled", "ready"} => stamp'[r] = 0 /\ begun' < r
                 /\ stamp'[r] <= begun'
      BY <1>1, <2>1, <2>3, <2>4, <2>8, <3>1, <3>2, <3>3, <3>4
    <3>6. ASSUME NEW q \in Consumer!Arrivals, NEW r \in Consumer!Arrivals, q < r,
                 stage'[q] = "ready"
          PROVE  stamp'[r] = 0
      BY <1>1, <2>1, <2>3, <3>1, <3>4, <3>6 DEF ConsumerInv, TimesInOrder
    <3>7. Consumer!StampsFollowArrival'
      BY <1>1, <2>1, <2>4, <3>1, <3>2, <3>3 DEF ConsumerInv, Consumer!StampsFollowArrival
    <3> QED BY <2>5, <2>6, <3>5, <3>6, <3>7 DEF ConsumerInv, TimesInOrder
  <2> QED BY <2>2, <2>7, <2>8
<1>5. ASSUME NEW f \in Consumer!Arrivals, Consumer!CommitDone(f) \/ Consumer!PublishDone(f)
      PROVE  ConsumerInv'
  <2>1. /\ stage[f] \in {"committing", "publishing"}
        /\ \E s \in {"publishing", "lost", "announced", "stored"} :
             stage' = [stage EXCEPT ![f] = s]
        /\ UNCHANGED <<phase, thread, begun, stamp, ticker>>
    BY <1>5 DEF Consumer!CommitDone, Consumer!PublishDone, Consumer!Stamp, Consumer!StampedWhen
  <2>2. Consumer!TypeOK'
    BY <2>1 DEF ConsumerInv, Consumer!TypeOK
  <2>3. /\ stage'[f] \in {"publishing", "lost", "announced", "stored"}
        /\ \A r \in Consumer!Arrivals \ {f} : stage'[r] = stage[r]
    BY <2>1 DEF ConsumerInv, Consumer!TypeOK
  <2>4. ReadingsInOrder'
    BY <2>1, <2>3 DEF ConsumerInv, ReadingsInOrder, Consumer!InStage
  <2>5. TimesInOrder' /\ Consumer!StampsFollowArrival'
    BY <2>1, <2>3, TimesStay
  <2> QED BY <2>2, <2>4, <2>5 DEF ConsumerInv
<1>6. ASSUME UNCHANGED <<stage, begun, stamp>>, thread' # "callback" \/ thread' = thread,
             phase' \in {"running", "stopping", "stopped"},
             thread' \in {"waiting", "callback", "off"},
             ticker' \in {"asleep", "reading", "publishing", "ended"},
             thread # "callback" \/ thread' = thread
      PROVE  ConsumerInv'
  <2>1. Consumer!TypeOK'
    BY <1>6 DEF ConsumerInv, Consumer!TypeOK
  <2>2. ReadingsInOrder'
    BY <1>6 DEF ConsumerInv, ReadingsInOrder, Consumer!InStage
  <2>3. TimesInOrder' /\ Consumer!StampsFollowArrival'
    BY <1>6 DEF ConsumerInv, TimesInOrder, Consumer!StampsFollowArrival
  <2> QED BY <2>1, <2>2, <2>3 DEF ConsumerInv
<1>7. ASSUME Consumer!TickerStep \/ Consumer!Stop \/ Consumer!StopReturns
      PROVE  ConsumerInv'
  BY <1>6, <1>7
  DEF Consumer!TickerStep, Consumer!AfterFailedTick, Consumer!Stop, Consumer!StopReturns,
      Consumer!ThreadAfterStop, ConsumerInv, Consumer!TypeOK
<1>8. CASE UNCHANGED consumerVars
  BY <1>6, <1>8 DEF consumerVars, ConsumerInv, Consumer!TypeOK
<1> QED BY <1>2, <1>3, <1>4, <1>5, <1>7, <1>8 DEF Consumer!Next

\* OrderIsKept is a property, for any number of readings, pairs of threads and frames:
\* commits may end in any order, times follow the order of arrival; a frame may come in
\* while another is analysed, the telemetry of one pair of threads does not go back.
THEOREM OrderCorrect == Spec => OrderIsKept
<1>1. Init => ConsumerInv
  <2> SUFFICES ASSUME Init PROVE ConsumerInv
    OBVIOUS
  <2>1. Consumer!Init
    BY DEF Init
  <2>2. /\ thread = "waiting" /\ begun = 0
        /\ \A r \in Consumer!Arrivals : stage[r] = "sent" /\ stamp[r] = 0 /\ r \in Int /\ 0 < r
    BY <2>1, MqttConsumerAssumption DEF Consumer!Init, Consumer!Arrivals
  <2>3. Consumer!TypeOK
    BY <2>1, MqttConsumerAssumption DEF Consumer!Init, Consumer!TypeOK, Consumer!Stages
  <2>4. ReadingsInOrder /\ TimesInOrder /\ Consumer!StampsFollowArrival
    BY <2>2 DEF ReadingsInOrder, TimesInOrder, Consumer!InStage, Consumer!StampsFollowArrival
  <2> QED BY <2>3, <2>4 DEF ConsumerInv
<1>2. ConsumerInv /\ [Next]_vars => ConsumerInv'
  BY ConsumerStep, PartSteps
<1>3. CameraInv /\ [Next]_vars => CameraInv'
  BY CameraStep, PartSteps
<1>4. CameraInv /\ [Next]_vars => [patient => lastTelemetry' >= lastTelemetry]_lastTelemetry
  BY CameraStep, PartSteps
<1>5. ConsumerInv => Consumer!TypeOK /\ Consumer!StampsFollowArrival
  BY DEF ConsumerInv
<1> QED
  BY <1>1, <1>2, <1>3, <1>4, <1>5, OneInit, PTL DEF Spec, OrderIsKept, Camera!FramesAdvance
=============================================================================
