---------------------------- MODULE DashboardProofs ----------------------------
(***************************************************************************)
(* What holds of the dashboard's connections, alerts and session for any   *)
(* number of sockets, pages, requests and alerts, and any failures; and    *)
(* what its other pages show, for any city, reports, answers and failures. *)
(***************************************************************************)
EXTENDS MCDashboardPages, SequenceTheorems, FiniteSetTheorems, TLAPS

(***************************************************************************)
(* The connections: their types; a channel some page keeps has at most one *)
(* connection, and as long as anybody listens there is one, or there will  *)
(* be.                                                                     *)
(***************************************************************************)
\* connect creates one socket, or changes nothing.
LEMMA ConnectEffect ==
  ASSUME TypeOK, connect
  PROVE  \/ UNCHANGED <<sock, current>>
         \/ /\ current = NoSocket
            /\ \E s \in Sockets : /\ sock[s] = "free"
                                  /\ sock' = [sock EXCEPT ![s] = "connecting"]
                                  /\ current' = s
BY DEF connect, MayConnect

\* connect keeps the types of what it assigns.
LEMMA ConnectTypes ==
  ASSUME TypeOK, connect
  PROVE  /\ sock' \in [Sockets -> {"free", "connecting", "open", "closing"}]
         /\ current' \in Sockets \cup {NoSocket}
         /\ \A s \in Sockets : sock[s] # "free" => sock'[s] # "free"
BY ConnectEffect DEF TypeOK

\* Whether some page stays, and whether sockets can be constructed, is decided once.
LEMMA KeptStays ==
  ASSUME [Next]_vars
  PROVE  kept' = kept /\ allowed' = allowed
BY DEF chosen, Next, Browser, vars, subscribe, unsubscribe, onopen, onclose, timeout

LEMMA ConnectionTypeInit == Init => TypeOK
<1> SUFFICES ASSUME Init PROVE TypeOK
  OBVIOUS
<1>1. strays \in 0 .. MaxStrays /\ attempts \in 0 .. MaxAttempts
  BY WsClientAssumption DEF Init
<1>2. timer \in BOOLEAN
  BY DEF Init
<1>3. /\ sock \in [Sockets -> {"free", "connecting", "open", "closing"}]
      /\ current \in Sockets \cup {NoSocket}
      /\ callbacks \subseteq Pages
      /\ beat = NoSocket
  BY DEF Init
<1>4. kept \in BOOLEAN /\ allowed \in BOOLEAN
  BY DEF Init
<1> QED BY <1>1, <1>2, <1>3, <1>4 DEF TypeOK

LEMMA ConnectionTypeStep == TypeOK /\ [Next]_vars => TypeOK'
<1> SUFFICES ASSUME TypeOK, [Next]_vars PROVE TypeOK'
  OBVIOUS
<1>0. kept' \in BOOLEAN /\ allowed' \in BOOLEAN
  BY KeptStays DEF TypeOK
<1>1. ASSUME NEW p \in Pages, subscribe(p) PROVE TypeOK'
  BY <1>0, <1>1, ConnectTypes, WsClientAssumption DEF subscribe, TypeOK
<1>2. ASSUME NEW p \in Pages, unsubscribe(p) PROVE TypeOK'
  <2>1. CASE callbacks = {p}
    <3>1. strays' \in 0 .. MaxStrays /\ attempts' \in 0 .. MaxAttempts
      BY <1>2, <2>1, WsClientAssumption DEF unsubscribe, disconnect, TypeOK
    <3>2. timer' \in BOOLEAN
      BY <1>2, <2>1 DEF unsubscribe, disconnect
    <3>3. /\ sock' \in [Sockets -> {"free", "connecting", "open", "closing"}]
          /\ current' = NoSocket /\ beat' = NoSocket
      BY <1>2, <2>1 DEF unsubscribe, disconnect, TypeOK
    <3>4. callbacks' \subseteq Pages
      BY <1>2, <2>1 DEF unsubscribe, TypeOK
    <3> QED BY <3>1, <3>2, <3>3, <3>4, <1>0 DEF TypeOK
  <2>2. CASE callbacks # {p}
    BY <1>0, <1>2, <2>2 DEF unsubscribe, TypeOK
  <2> QED BY <2>1, <2>2
<1>3. ASSUME NEW s \in Sockets, onopen(s) PROVE TypeOK'
  BY <1>0, <1>3, WsClientAssumption DEF onopen, TypeOK
<1>4. ASSUME NEW s \in Sockets, onclose(s) PROVE TypeOK'
  <2>1. CASE MayRetry
    BY <1>0, <1>4, <2>1, WsClientAssumption DEF onclose, MayRetry, TypeOK
  <2>2. CASE ~MayRetry
    BY <1>0, <1>4, <2>2 DEF onclose, TypeOK
  <2> QED BY <2>1, <2>2
<1>5. CASE timeout
  <2>1. strays' \in 0 .. MaxStrays
    BY <1>5, WsClientAssumption DEF timeout, TypeOK
  <2>2. timer' \in BOOLEAN
    BY <1>5 DEF timeout, TypeOK
  <2>3. /\ sock' \in [Sockets -> {"free", "connecting", "open", "closing"}]
        /\ current' \in Sockets \cup {NoSocket}
        /\ \A s \in Sockets : sock[s] # "free" => sock'[s] # "free"
    BY <1>5, ConnectTypes DEF timeout
  <2>4. UNCHANGED <<callbacks, attempts, beat>>
    BY <1>5 DEF timeout
  <2> QED BY <2>1, <2>2, <2>3, <2>4, <1>0 DEF TypeOK
<1>6. CASE UNCHANGED vars
  BY <1>0, <1>6 DEF vars, TypeOK
<1> QED BY <1>1, <1>2, <1>3, <1>4, <1>5, <1>6 DEF Next, Browser

\* TypeOK is an invariant: attempts stay within the cap, and the heartbeat is
\* stopped with its socket, whatever pages and browser do.
THEOREM ConnectionTypeCorrect == Spec => []TypeOK
BY ConnectionTypeInit, ConnectionTypeStep, PTL DEF Spec

-----------------------------------------------------------------------------
\* Every socket that exists is the registered one, none is being closed by the
\* service, and an open one is pinged.
Registered ==
  \A s \in Sockets : sock[s] # "free" =>
    /\ current = s
    /\ sock[s] # "closing"
    /\ sock[s] = "open" => beat = s

\* connect keeps Registered: it creates a socket only when there is none.
LEMMA ConnectRegisters ==
  ASSUME TypeOK, Registered, connect, beat' = beat
  PROVE  Registered'
<1>1. CASE UNCHANGED <<sock, current>>
  BY <1>1 DEF Registered
<1>2. CASE current = NoSocket
  <2>1. \A s \in Sockets : sock[s] = "free"
    BY <1>2, WsClientAssumption DEF Registered
  <2> QED BY <1>2, <2>1, ConnectEffect DEF Registered, TypeOK
<1> QED BY <1>1, <1>2, ConnectEffect

\* OneConnection is an invariant: while some page stays, the channel's sockets
\* are replaced one by one, whenever they fail and whoever connects again.
THEOREM OneConnectionCorrect == Spec => []OneConnection
<1>1. Init => Registered
  BY DEF Init, Registered
<1>2. TypeOK /\ kept /\ Registered /\ [Next]_vars => Registered'
  <2> SUFFICES ASSUME TypeOK, kept, Registered, [Next]_vars PROVE Registered'
    OBVIOUS
  <2>1. ASSUME NEW p \in Pages, subscribe(p) PROVE Registered'
    BY <2>1, ConnectRegisters DEF subscribe
  <2>2. ASSUME NEW p \in Pages, unsubscribe(p) PROVE Registered'
    <3>1. UNCHANGED <<sock, current, beat>>
      BY <2>2 DEF unsubscribe
    <3> QED BY <3>1 DEF Registered
  <2>3. ASSUME NEW s \in Sockets, onopen(s) PROVE Registered'
    BY <2>3 DEF onopen, Registered, TypeOK
  <2>4. ASSUME NEW s \in Sockets, onclose(s) PROVE Registered'
    <3>1. \A t \in Sockets : sock'[t] = "free"
      <4>1. sock' = [sock EXCEPT ![s] = "free"] /\ sock[s] # "free"
        BY <2>4 DEF onclose
      <4>2. \A t \in Sockets : sock[t] # "free" => t = s
        BY <4>1 DEF Registered
      <4> QED BY <4>1, <4>2 DEF TypeOK
    <3> QED BY <3>1 DEF Registered
  <2>5. CASE timeout
    BY <2>5, ConnectRegisters DEF timeout
  <2>6. CASE UNCHANGED vars
    BY <2>6 DEF vars, Registered
  <2> QED BY <2>1, <2>2, <2>3, <2>4, <2>5, <2>6 DEF Next, Browser
<1> DEFINE Kept == kept => Registered
<1>3. Init => Kept
  BY <1>1
<1>4. TypeOK /\ Kept /\ [Next]_vars => Kept'
  BY <1>2, KeptStays
<1>5. Kept => OneConnection
  BY DEF Registered, OneConnection, Live
<1> QED BY <1>3, <1>4, <1>5, ConnectionTypeCorrect, PTL DEF Spec

-----------------------------------------------------------------------------
\* The registered socket is there.
CurrentExists == current # NoSocket => sock[current] # "free"

SomeSocket == \E s \in Sockets : sock[s] # "free"

\* connect leaves a socket behind where it may construct one, and the registered one is
\* there.
LEMMA ConnectLeavesSocket ==
  ASSUME TypeOK, CurrentExists, connect
  PROVE  CurrentExists' /\ (allowed => SomeSocket')
<1>1. CASE current = NoSocket /\ allowed
  <2>1. PICK s \in Sockets : /\ sock' = [sock EXCEPT ![s] = "connecting"]
                             /\ current' = s
    BY <1>1 DEF connect, MayConnect
  <2>2. sock'[s] = "connecting"
    BY <2>1 DEF TypeOK
  <2> QED BY <2>1, <2>2 DEF CurrentExists, SomeSocket
<1>2. CASE current # NoSocket
  <2>1. UNCHANGED <<sock, current>>
    BY <1>2 DEF connect, MayConnect
  <2> QED BY <1>2, <2>1 DEF CurrentExists, SomeSocket, TypeOK
<1>3. CASE ~allowed
  BY <1>3 DEF connect, CurrentExists
<1> QED BY <1>1, <1>2, <1>3

Trying == CurrentExists /\ AlwaysTrying

LEMMA TryingInit == Init => Trying
  BY DEF Init, Trying, CurrentExists, AlwaysTrying

\* Each step that takes the last socket away leaves a timeout behind, until the attempts
\* are used up, and each timeout leaves a socket.
LEMMA TryingStep == TypeOK /\ Trying /\ [Next]_vars => Trying'
<1> SUFFICES ASSUME TypeOK, CurrentExists, AlwaysTrying, [Next]_vars
             PROVE  CurrentExists' /\ AlwaysTrying'
  BY DEF Trying
<1> allowed' = allowed
  BY KeptStays
<1>0. (allowed => SomeSocket') => AlwaysTrying'
  BY DEF SomeSocket, AlwaysTrying
<1>1. ASSUME NEW p \in Pages, subscribe(p) PROVE CurrentExists' /\ AlwaysTrying'
  BY <1>0, <1>1, ConnectLeavesSocket DEF subscribe
<1>2. ASSUME NEW p \in Pages, unsubscribe(p) PROVE CurrentExists' /\ AlwaysTrying'
  <2>1. CASE callbacks = {p}
    <3>1. callbacks' = {} /\ current' = NoSocket
      BY <1>2, <2>1 DEF unsubscribe, disconnect
    <3> QED BY <3>1 DEF CurrentExists, AlwaysTrying
  <2>2. CASE callbacks # {p}
    <3>1. callbacks # {} /\ UNCHANGED <<sock, current, timer, strays, attempts>>
      BY <1>2, <2>2 DEF unsubscribe
    <3> QED BY <3>1 DEF CurrentExists, AlwaysTrying
  <2> QED BY <2>1, <2>2
<1>3. ASSUME NEW s \in Sockets, onopen(s) PROVE CurrentExists' /\ AlwaysTrying'
  <2>1. sock'[s] = "open" /\ current' = current
        /\ \A t \in Sockets : t # s => sock'[t] = sock[t]
    BY <1>3 DEF onopen, TypeOK
  <2> QED BY <1>0, <2>1 DEF CurrentExists, SomeSocket, TypeOK
<1>4. ASSUME NEW s \in Sockets, onclose(s) PROVE CurrentExists' /\ AlwaysTrying'
  <2>1. current' = NoSocket
    BY <1>4 DEF onclose
  <2>2. CASE MayRetry
    BY <1>4, <2>1, <2>2 DEF onclose, CurrentExists, AlwaysTrying
  <2>3. CASE ~MayRetry
    <3>1. attempts' = MaxAttempts
      BY <1>4, <2>3, WsClientAssumption DEF onclose, MayRetry, TypeOK
    <3> QED BY <2>1, <3>1 DEF CurrentExists, AlwaysTrying
  <2> QED BY <2>2, <2>3
<1>5. CASE timeout
  BY <1>0, <1>5, ConnectLeavesSocket DEF timeout
<1>6. CASE UNCHANGED vars
  BY <1>6 DEF vars, CurrentExists, AlwaysTrying
<1> QED BY <1>1, <1>2, <1>3, <1>4, <1>5, <1>6 DEF Next, Browser

\* AlwaysTrying is an invariant: where sockets can be constructed, as long as anybody
\* listens there is a socket or a timeout that will make one, until the attempts are
\* used up.
THEOREM TryingCorrect == Spec => []AlwaysTrying
<1>1. Trying => AlwaysTrying
  BY DEF Trying
<1> QED BY <1>1, TryingInit, TryingStep, ConnectionTypeInit, ConnectionTypeStep, PTL DEF Spec

(***************************************************************************)
(* The alerts.  The invariant says what each answer on its way knows: all  *)
(* that was acknowledged is acknowledged, and all that the page had        *)
(* confirmed when it asked is in the answer.                               *)
(***************************************************************************)
AnswersInv ==
  /\ acked \subseteq raised /\ alerts \subseteq raised /\ known \subseteq acked
  /\ \A a \in Alerts : /\ ack[a] # "none" => a \in raised
                       /\ ack[a] = "served" => a \in acked
  /\ \A p \in Polls : /\ poll[p].raised \subseteq raised
                      /\ poll[p].acked \subseteq acked \cap poll[p].raised
                      /\ poll[p].knew \subseteq acked
                      /\ poll[p].at = "served" => poll[p].knew \subseteq poll[p].acked

AlertsInv == /\ AlertsTypeOK /\ AnswersInv
       /\ MarkedIsAcknowledged /\ OwnAcknowledgementsStay /\ LoadingHasPoll

LEMMA FirstIsPoll == First \in Polls
  BY AlertsPageAssumption DEF First

LEMMA AlertsInvInit == AlertsInit => AlertsInv
<1> SUFFICES ASSUME AlertsInit PROVE AlertsInv
  OBVIOUS
<1> USE PagesAssumption, FirstIsPoll
<1>1. /\ poll \in [Polls -> [at : {"idle", "asked", "served"}, raised : SUBSET Alerts,
                             acked : SUBSET Alerts, knew : SUBSET Alerts]]
      /\ poll[First].at = "asked"
      /\ \A p \in Polls : /\ poll[p].raised = {} /\ poll[p].acked = {} /\ poll[p].knew = {}
                          /\ poll[p].at # "served"
  BY DEF AlertsInit, Idle
<1>2. AlertsTypeOK
  BY <1>1 DEF AlertsInit, AlertsTypeOK
<1>3. AnswersInv
  BY <1>1 DEF AlertsInit, AnswersInv
<1>4. MarkedIsAcknowledged /\ OwnAcknowledgementsStay
  BY DEF AlertsInit, MarkedIsAcknowledged, OwnAcknowledgementsStay
<1>5. LoadingHasPoll
  BY <1>1 DEF LoadingHasPoll
<1> QED BY <1>2, <1>3, <1>4, <1>5 DEF AlertsInv

LEMMA AlertsInvStep == AlertsInv /\ [AlertsNext]_alertsVars => AlertsInv'
<1> SUFFICES ASSUME AlertsInv, [AlertsNext]_alertsVars PROVE AlertsInv'
  OBVIOUS
<1> USE PagesAssumption
<1> DEFINE Marks == MarkedIsAcknowledged /\ OwnAcknowledgementsStay /\ LoadingHasPoll
<1>0. AlertsTypeOK /\ AnswersInv /\ Marks
  BY DEF AlertsInv
<1>1. ASSUME NEW p \in Polls, fetchAlerts(p) PROVE AlertsInv'
  <2>1. AlertsTypeOK' /\ AnswersInv'
    BY <1>0, <1>1 DEF fetchAlerts, Idle, AlertsTypeOK, AnswersInv, alertServer, choice
  <2>2. Marks'
    BY <1>0, <1>1 DEF fetchAlerts, Idle, AlertsTypeOK, MarkedIsAcknowledged,
       OwnAcknowledgementsStay, LoadingHasPoll, alertServer
  <2> QED BY <2>1, <2>2 DEF AlertsInv
<1>2. ASSUME NEW p \in Polls, PollServed(p) PROVE AlertsInv'
  <2>0. raised \subseteq Alerts /\ acked \subseteq raised
    BY <1>0 DEF AlertsTypeOK, AnswersInv
  <2>1. AlertsTypeOK'
    <3>1. poll' = [poll EXCEPT ![p] = [poll[p] EXCEPT !.at = "served", !.raised = raised,
                                                    !.acked = acked]]
      BY <1>2 DEF PollServed
    <3>2. poll' \in [Polls -> [at : {"idle", "asked", "served"}, raised : SUBSET Alerts,
                              acked : SUBSET Alerts, knew : SUBSET Alerts]]
      <4> DEFINE Answers == [at : {"idle", "asked", "served"}, raised : SUBSET Alerts,
                             acked : SUBSET Alerts, knew : SUBSET Alerts]
                 served == [poll[p] EXCEPT !.at = "served", !.raised = raised, !.acked = acked]
      <4>1. poll \in [Polls -> Answers] /\ raised \in SUBSET Alerts /\ acked \in SUBSET Alerts
        BY <1>0 DEF AlertsTypeOK
      <4>2. served \in Answers
        BY <4>1
      <4> HIDE DEF Answers, served
      <4>3. poll' = [poll EXCEPT ![p] = served]
        BY <3>1 DEF served
      <4>4. poll' \in [Polls -> Answers]
        BY <4>1, <4>2, <4>3
      <4> QED BY <4>4 DEF Answers
    <3>3. UNCHANGED <<raised, acked, ack, alerts, marked, loading, filter, showAcknowledged,
                      known, faults>>
      BY <1>2 DEF PollServed, alertServer, choice
    <3> QED BY <1>0, <3>2, <3>3 DEF AlertsTypeOK
  <2>3. AnswersInv'
    BY <1>0, <1>2, <2>0 DEF PollServed, AlertsTypeOK, AnswersInv, alertServer
  <2>2. Marks'
    BY <1>0, <1>2 DEF PollServed, AlertsTypeOK, MarkedIsAcknowledged, OwnAcknowledgementsStay,
       LoadingHasPoll, alertServer
  <2> QED BY <2>1, <2>2, <2>3 DEF AlertsInv
<1>3. ASSUME NEW p \in Polls, PollArrives(p) PROVE AlertsInv'
  <2>1. AlertsTypeOK'
    BY <1>0, <1>3 DEF PollArrives, MarkedIn, Idle, AlertsTypeOK, alertServer, choice
  <2>2. AnswersInv'
    BY <1>0, <1>3 DEF PollArrives, Idle, AlertsTypeOK, AnswersInv, alertServer
  <2>3. Marks'
    BY <1>0, <1>3 DEF PollArrives, MarkedIn, AlertsTypeOK, AnswersInv, MarkedIsAcknowledged,
       OwnAcknowledgementsStay, LoadingHasPoll, alertServer
  <2> QED BY <2>1, <2>2, <2>3 DEF AlertsInv
<1>4. ASSUME NEW p \in Polls, PollFails(p) PROVE AlertsInv'
  <2>1. AlertsTypeOK'
    <3>0. loading' = FALSE
      BY <1>4 DEF PollFails, LoadingAfterFailure
    <3>1. faults' \in 0..MaxFaults
      BY <1>0, <1>4 DEF PollFails, MayFail, AlertsTypeOK
    <3>2. poll' \in [Polls -> [at : {"idle", "asked", "served"}, raised : SUBSET Alerts,
                              acked : SUBSET Alerts, knew : SUBSET Alerts]]
      BY <1>0, <1>4 DEF PollFails, Idle, AlertsTypeOK
    <3>3. UNCHANGED <<alertServer, ack, alerts, marked, choice, known>>
      BY <1>4 DEF PollFails
    <3> QED BY <1>0, <3>0, <3>1, <3>2, <3>3 DEF AlertsTypeOK, alertServer, choice
  <2>3. AnswersInv'
    BY <1>0, <1>4 DEF PollFails, Idle, AlertsTypeOK, AnswersInv, alertServer
  <2>2. Marks'
    BY <1>0, <1>4 DEF PollFails, LoadingAfterFailure, MarkedIsAcknowledged,
       OwnAcknowledgementsStay, LoadingHasPoll, alertServer
  <2> QED BY <2>1, <2>2, <2>3 DEF AlertsInv
<1>5. ASSUME NEW a \in Alerts,
             handleAcknowledge(a) \/ AckServed(a) \/ AckArrives(a) \/ AckFails(a)
      PROVE  AlertsInv'
  <2>1. CASE handleAcknowledge(a)
    BY <1>0, <2>1 DEF AlertsInv, handleAcknowledge, Acknowledgeable, filteredAlerts,
       AlertsTypeOK, AnswersInv,
       MarkedIsAcknowledged, OwnAcknowledgementsStay, LoadingHasPoll, alertServer, choice
  <2>2. CASE AckServed(a)
    BY <1>0, <2>2 DEF AlertsInv, AckServed, AlertsTypeOK, AnswersInv, MarkedIsAcknowledged,
       OwnAcknowledgementsStay, LoadingHasPoll, choice
  <2>3. CASE AckArrives(a)
    BY <1>0, <2>3 DEF AlertsInv, AckArrives, Confirmed, AlertsTypeOK, AnswersInv,
       MarkedIsAcknowledged,
       OwnAcknowledgementsStay, LoadingHasPoll, alertServer, choice
  <2>4. CASE AckFails(a)
    BY <1>0, <2>4 DEF AlertsInv, AckFails, MayFail, AfterFailure, AlertsTypeOK, AnswersInv,
       MarkedIsAcknowledged, OwnAcknowledgementsStay, LoadingHasPoll, alertServer, choice
  <2> QED BY <1>5, <2>1, <2>2, <2>3, <2>4
<1>6. ASSUME NEW a \in Alerts, Raise(a) \/ OtherAcknowledges(a) PROVE AlertsInv'
  BY <1>0, <1>6 DEF AlertsInv, Raise, OtherAcknowledges, AlertsTypeOK, AnswersInv,
     MarkedIsAcknowledged,
     OwnAcknowledgementsStay, LoadingHasPoll, choice
<1>7. ASSUME NEW f \in {"ALL", "CRITICAL", "WARNING"}, SetFilter(f) PROVE AlertsInv'
  BY <1>0, <1>7 DEF AlertsInv, SetFilter, AlertsTypeOK, AnswersInv, MarkedIsAcknowledged,
     OwnAcknowledgementsStay, LoadingHasPoll, alertServer
<1>8. CASE ToggleAcknowledged
  <2>1. showAcknowledged' \in BOOLEAN
    BY <1>0, <1>8 DEF ToggleAcknowledged, AlertsTypeOK
  <2> QED BY <1>0, <1>8, <2>1 DEF AlertsInv, ToggleAcknowledged, AlertsTypeOK, AnswersInv,
       MarkedIsAcknowledged, OwnAcknowledgementsStay, LoadingHasPoll, alertServer
<1>9. CASE UNCHANGED alertsVars
  BY <1>0, <1>9 DEF AlertsInv, AlertsTypeOK, AnswersInv, MarkedIsAcknowledged,
     OwnAcknowledgementsStay,
     LoadingHasPoll, alertServer, choice, alertsVars
<1> QED BY <1>1, <1>2, <1>3, <1>4, <1>5, <1>6, <1>7, <1>8, <1>9 DEF AlertsNext

\* The types hold in every state.
THEOREM AlertsTypeCorrect == AlertsSpec => []AlertsTypeOK
<1>1. AlertsInv => AlertsTypeOK
  BY DEF AlertsInv
<1> QED BY <1>1, AlertsInvInit, AlertsInvStep, PTL DEF AlertsSpec

\* No order of polls, acknowledgements and failures shows an alert as acknowledged that
\* is not, and only a poll that overlapped an acknowledgement can hide it again, however
\* many polls there are.
THEOREM AcknowledgementsCorrect == AlertsSpec => []AcknowledgementsAreTrue
<1>1. AlertsInv => AcknowledgementsAreTrue
  BY DEF AlertsInv, AcknowledgementsAreTrue
<1> QED BY <1>1, AlertsInvInit, AlertsInvStep, PTL DEF AlertsSpec

\* The spinner never turns without a request.
THEOREM LoadingCorrect == AlertsSpec => []LoadingHasPoll
<1>1. AlertsInv => LoadingHasPoll
  BY DEF AlertsInv
<1> QED BY <1>1, AlertsInvInit, AlertsInvStep, PTL DEF AlertsSpec

(***************************************************************************)
(* The session.  A login that was granted has a token; a request that was  *)
(* refused carries none, or one the server does not accept any longer, so  *)
(* that a refusal of one of the session's own requests says the same of    *)
(* the session's token.                                                    *)
(***************************************************************************)
TokensInv ==
  /\ \A r \in Requests : request[r].stage = "401" => request[r].token \in expired \cup {0}
  /\ \A a \in Attempts : attempt[a].stage = "granted" => attempt[a].token # 0

SessionInv == SessionTypeOK /\ TokensInv

LEMMA SessionInvInit == SessionInit => SessionInv
<1> SUFFICES ASSUME SessionInit PROVE SessionInv
  OBVIOUS
<1> USE PagesAssumption
<1>1. /\ token \in 0..MaxTokens /\ stored \in 0..MaxTokens /\ issued \in 0..MaxTokens
      /\ expired \subseteq 1..issued
  BY DEF SessionInit
<1>2. attempt \in [Attempts -> [stage : {"unused", "delay", "sent", "granted", "over"},
                                token : 0..MaxTokens]]
  BY DEF SessionInit, NoAttempt
<1>3. request \in [Requests -> [stage : {"idle", "sent", "401", "200", "failed"},
                                token : 0..MaxTokens]]
  BY DEF SessionInit, NoRequest
<1>4. SessionTypeOK
  BY <1>1, <1>2, <1>3 DEF SessionInit, SessionTypeOK
<1>5. TokensInv
  BY DEF SessionInit, NoRequest, NoAttempt, TokensInv
<1> QED BY <1>4, <1>5 DEF SessionInv

\* What logging in and out leave behind.
LEMMA LogInLeaves ==
  ASSUME SessionTypeOK, NEW t \in 0..MaxTokens, LogIn(t)
  PROVE  token' \in 0..MaxTokens /\ isAuthenticated' \in BOOLEAN /\ stored' \in 0..MaxTokens
BY DEF SessionTypeOK, LogIn

LEMMA LogOutLeaves ==
  ASSUME SessionTypeOK, LogOut
  PROVE  token' \in 0..MaxTokens /\ isAuthenticated' \in BOOLEAN /\ stored' \in 0..MaxTokens
<1>1. token' = 0 /\ isAuthenticated' = FALSE /\ stored' \in {0, stored}
  BY DEF LogOut
<1>2. 0 \in 0..MaxTokens /\ stored \in 0..MaxTokens
  BY PagesAssumption DEF SessionTypeOK
<1>3. isAuthenticated' \in BOOLEAN
  BY <1>1
<1> QED BY <1>1, <1>2, <1>3

LEMMA SessionInvStep == SessionInv /\ [SessionNext]_sessionVars => SessionInv'
<1> SUFFICES ASSUME SessionInv, [SessionNext]_sessionVars PROVE SessionInv'
  OBVIOUS
<1> USE PagesAssumption
<1>0. SessionTypeOK /\ TokensInv
  BY DEF SessionInv
<1>1. ASSUME NEW a \in Attempts, Submitted(a) PROVE SessionInv'
  BY <1>0, <1>1 DEF Submitted, NoAttempt, SessionInv, SessionTypeOK, TokensInv, store,
     sessionServer
<1>2. ASSUME NEW a \in Attempts, SendLogin(a) PROVE SessionInv'
  BY <1>0, <1>2 DEF SendLogin, SessionInv, SessionTypeOK, TokensInv, store, sessionServer
<1>3. ASSUME NEW a \in Attempts, Granted(a) PROVE SessionInv'
  BY <1>0, <1>3 DEF Granted, SessionInv, SessionTypeOK, TokensInv, store
<1>4. ASSUME token' \in 0..MaxTokens, isAuthenticated' \in BOOLEAN, stored' \in 0..MaxTokens,
             isLoading' \in BOOLEAN, at' \in {"app", "login"},
             attempt' \in [Attempts -> [stage : {"unused", "delay", "sent", "granted", "over"},
                                        token : 0..MaxTokens]],
             request' \in [Requests -> [stage : {"idle", "sent", "401", "200", "failed"},
                                        token : 0..MaxTokens]],
             \A r \in Requests : request'[r].stage = "401" => request'[r] = request[r],
             \A a \in Attempts : attempt'[a].stage = "granted" => attempt'[a] = attempt[a],
             UNCHANGED <<careful, storageWorks, sessionServer>>
      PROVE  SessionInv'
  <2>1. SessionTypeOK'
    BY <1>0, <1>4 DEF SessionTypeOK, sessionServer
  <2>2. TokensInv'
    BY <1>0, <1>4 DEF TokensInv, sessionServer
  <2> QED BY <2>1, <2>2 DEF SessionInv
<1>5. ASSUME NEW a \in Attempts, LoginSucceeds(a) PROVE SessionInv'
  <2>1. attempt[a].token \in 0..MaxTokens
    BY <1>0 DEF SessionTypeOK
  <2>2. /\ token' \in 0..MaxTokens /\ isAuthenticated' \in BOOLEAN
        /\ stored' \in 0..MaxTokens
    BY <1>0, <1>5, <2>1, LogInLeaves DEF LoginSucceeds
  <2> QED BY <1>0, <1>4, <1>5, <2>2 DEF LoginSucceeds, Navigate, SessionTypeOK
<1>6. ASSUME NEW a \in Attempts, LoginFails(a) PROVE SessionInv'
  <2>1. /\ token' \in 0..MaxTokens /\ isAuthenticated' \in BOOLEAN
        /\ stored' \in 0..MaxTokens
    BY <1>0, <1>6, LogOutLeaves DEF LoginFails
  <2> QED BY <1>0, <1>4, <1>6, <2>1 DEF LoginFails, Navigate, SessionTypeOK
<1>7. CASE logout
  <2>1. /\ token' \in 0..MaxTokens /\ isAuthenticated' \in BOOLEAN
        /\ stored' \in 0..MaxTokens
    BY <1>0, <1>7, LogOutLeaves DEF logout
  <2> QED BY <1>0, <1>4, <1>7, <2>1 DEF logout, Navigate, SessionTypeOK
<1>8. CASE BrowserBack
  BY <1>0, <1>8 DEF BrowserBack, Navigate, SessionInv, SessionTypeOK, TokensInv, store,
     sessionServer
<1>9. CASE Reload
  <2>1. /\ token' = 0 /\ isAuthenticated' = FALSE /\ isLoading' = FALSE /\ stored' = stored
        /\ at' \in {"app", "login"}
    BY <1>9 DEF Reload, Navigate
  <2>2. /\ attempt' \in [Attempts -> [stage : {"unused", "delay", "sent", "granted", "over"},
                                      token : 0..MaxTokens]]
        /\ \A a \in Attempts : attempt'[a].stage = "granted" => attempt'[a] = attempt[a]
    BY <1>0, <1>9 DEF Reload, NoAttempt, SessionTypeOK, Pending
  <2>3. /\ request' \in [Requests -> [stage : {"idle", "sent", "401", "200", "failed"},
                                      token : 0..MaxTokens]]
        /\ \A r \in Requests : request'[r].stage # "401"
    BY <1>9 DEF Reload, NoRequest
  <2>4. token' \in 0..MaxTokens /\ stored' \in 0..MaxTokens
    BY <1>0, <2>1 DEF SessionTypeOK
  <2>5. isAuthenticated' \in BOOLEAN /\ isLoading' \in BOOLEAN
    BY <2>1
  <2>6. UNCHANGED <<careful, storageWorks, sessionServer>>
    BY <1>9 DEF Reload
  <2> QED BY <1>4, <2>1, <2>2, <2>3, <2>4, <2>5, <2>6
<1>10. ASSUME NEW r \in Requests, Ask(r) PROVE SessionInv'
  BY <1>0, <1>10 DEF Ask, TokenOfTheMoment, SessionInv, SessionTypeOK, TokensInv, store,
     sessionServer
<1>11. ASSUME NEW r \in Requests, Serve(r) PROVE SessionInv'
  BY <1>0, <1>11 DEF Serve, SessionInv, SessionTypeOK, TokensInv, store, sessionServer
<1>12. ASSUME NEW r \in Requests, RequestFails(r) PROVE SessionInv'
  BY <1>0, <1>12 DEF RequestFails, SessionInv, SessionTypeOK, TokensInv, store, sessionServer
<1>13. ASSUME NEW r \in Requests, AnswerArrives(r) PROVE SessionInv'
  <2>1. /\ token' \in 0..MaxTokens /\ isAuthenticated' \in BOOLEAN
        /\ stored' \in 0..MaxTokens
    BY <1>0, <1>13, LogOutLeaves DEF AnswerArrives, store, SessionTypeOK
  <2> QED BY <1>0, <1>4, <1>13, <2>1 DEF AnswerArrives, NoRequest, SessionTypeOK
<1>14. ASSUME NEW t \in 1..MaxTokens, Expire(t) PROVE SessionInv'
  BY <1>0, <1>14 DEF Expire, SessionInv, SessionTypeOK, TokensInv, store
<1>15. CASE UNCHANGED sessionVars
  BY <1>0, <1>15 DEF SessionInv, SessionTypeOK, TokensInv, store, sessionServer, sessionVars
<1> QED BY <1>1, <1>2, <1>3, <1>5, <1>6, <1>7, <1>8, <1>9, <1>10, <1>11, <1>12, <1>13, <1>14,
           <1>15
        DEF SessionNext, handleSubmit, handleDemoAccess

\* The types hold in every state.
THEOREM SessionTypeCorrect == SessionSpec => []SessionTypeOK
<1>1. SessionInv => SessionTypeOK
  BY DEF SessionInv
<1> QED BY <1>1, SessionInvInit, SessionInvStep, PTL DEF SessionSpec

\* However many requests and logins overlap, and whatever the answers: a session whose
\* token is still accepted is ended by logging out, a reload, a failed login, or the
\* refusal of a request sent outside it; a failure, or a request of its own, never ends it.
THEOREM SessionsEndCorrect == SessionSpec => SessionsEndWithCause
<1> DEFINE Caused ==
      token # 0 /\ token' = 0 =>
        \/ logout \/ Reload \/ token \in expired
        \/ \E a \in Attempts : LoginFails(a)
        \/ \E r \in Requests : request[r].stage = "401" /\ request[r].token # token
<1>1. SessionInv /\ [SessionNext]_sessionVars => [Caused]_sessionVars
  <2> SUFFICES ASSUME SessionInv, [SessionNext]_sessionVars, token # 0, token' = 0,
                      ~logout, ~Reload, \A a \in Attempts : ~LoginFails(a)
               PROVE  \/ token \in expired
                      \/ \E r \in Requests : /\ request[r].stage = "401"
                                            /\ request[r].token # token
    OBVIOUS
  <2>1. \A a \in Attempts : ~LoginSucceeds(a)
    BY DEF LoginSucceeds, LogIn, SessionInv, TokensInv
  <2>2. PICK r \in Requests : AnswerArrives(r)
    BY <2>1 DEF SessionNext, handleSubmit, handleDemoAccess, Submitted, SendLogin, Granted,
       BrowserBack, Ask, Serve, RequestFails, Expire, sessionVars, store
  <2>3. request[r].stage = "401"
    BY <2>2 DEF AnswerArrives, EndsSession, store
  <2>4. request[r].token # token \/ token \in expired
    BY <2>3 DEF SessionInv, TokensInv
  <2> QED BY <2>3, <2>4
<1> QED BY <1>1, SessionInvInit, SessionInvStep, PTL DEF SessionSpec, SessionsEndWithCause

(***************************************************************************)
(* The operator who does one thing after the other.                        *)
(***************************************************************************)
CarefulInv ==
  careful => \A r \in Requests :
    /\ request[r].stage # "idle" => /\ token = 0 \/ request[r].token = token
                                    /\ \A a \in Attempts : ~Pending(a)
    /\ request[r].stage = "401" => request[r].token \in expired \cup {0}

LEMMA CarefulInit == SessionInit => CarefulInv
  BY DEF SessionInit, CarefulInv, NoRequest

\* While a login is under way, or when the operator does something, nothing is asked for.
LEMMA NothingAsked ==
  ASSUME CarefulInv, careful, Quiet \/ \E a \in Attempts : Pending(a)
  PROVE  \A r \in Requests : request[r].stage = "idle"
  BY DEF CarefulInv, Quiet, NoRequest

LEMMA CarefulStep == SessionInv /\ CarefulInv /\ [SessionNext]_sessionVars => CarefulInv'
<1> SUFFICES ASSUME SessionInv, CarefulInv, [SessionNext]_sessionVars, careful' PROVE CarefulInv'
  BY DEF CarefulInv
<1>0. SessionTypeOK
  BY DEF SessionInv
<1>1. careful
  BY DEF SessionNext, handleSubmit, handleDemoAccess, Submitted, SendLogin, Granted,
     LoginSucceeds,
     LoginFails, logout, BrowserBack, Reload, Ask, Serve, RequestFails, AnswerArrives, Expire,
     sessionVars
<1>2. ASSUME \A r \in Requests : request[r].stage = "idle", request' = request PROVE CarefulInv'
  BY <1>2 DEF CarefulInv
<1>3. ASSUME NEW a \in Attempts,
             \/ Submitted(a) \/ SendLogin(a) \/ Granted(a) \/ LoginSucceeds(a) \/ LoginFails(a)
      PROVE  CarefulInv'
  <2>1. /\ request' = request
        /\ Quiet \/ Pending(a)
    BY <1>1, <1>3 DEF Submitted, MayAct, SendLogin, Granted, LoginSucceeds, LoginFails, Pending
  <2>2. \A r \in Requests : request[r].stage = "idle"
    BY <1>1, <2>1, NothingAsked
  <2> QED BY <1>2, <2>1, <2>2
<1>4. CASE logout \/ BrowserBack
  <2>1. request' = request /\ Quiet
    BY <1>1, <1>4 DEF logout, BrowserBack, MayAct
  <2> QED BY <1>1, <1>2, <2>1, NothingAsked
<1>5. CASE Reload
  <2>1. \A r \in Requests : request'[r].stage = "idle"
    BY <1>5 DEF Reload, NoRequest
  <2> QED BY <2>1 DEF CarefulInv
<1>6. ASSUME NEW r \in Requests, Ask(r) PROVE CarefulInv'
  <2>1. /\ request' = [request EXCEPT ![r] = [stage |-> "sent", token |-> token]]
        /\ token' = token /\ expired' = expired /\ attempt' = attempt
        /\ \A a \in Attempts : ~Pending(a)
    BY <1>1, <1>6 DEF Ask, TokenOfTheMoment, store, sessionServer
  <2> QED BY <1>0, <1>1, <2>1 DEF CarefulInv, SessionTypeOK, Pending
<1>7. ASSUME NEW r \in Requests, Serve(r) PROVE CarefulInv'
  <2>1. /\ request[r].stage = "sent" /\ token' = token /\ expired' = expired
        /\ attempt' = attempt
        /\ request' = [request EXCEPT ![r].stage =
                         IF request[r].token \in expired \cup {0} THEN "401" ELSE "200"]
    BY <1>7 DEF Serve, store, sessionServer
  <2> QED BY <1>0, <1>1, <2>1 DEF CarefulInv, SessionTypeOK, Pending
<1>8. ASSUME NEW r \in Requests, AnswerArrives(r) PROVE CarefulInv'
  <2>1. /\ request' = [request EXCEPT ![r] = NoRequest] /\ token' \in {0, token}
        /\ expired' = expired /\ attempt' = attempt
    BY <1>8 DEF AnswerArrives, LogOut, store, sessionServer
  <2> QED BY <1>0, <1>1, <2>1 DEF CarefulInv, SessionTypeOK, Pending, NoRequest
<1>9. ASSUME NEW t \in 1..MaxTokens, Expire(t) PROVE CarefulInv'
  BY <1>1, <1>9 DEF Expire, CarefulInv, Pending, store
<1>10. CASE UNCHANGED sessionVars
  BY <1>1, <1>10 DEF CarefulInv, Pending, sessionVars, store, sessionServer
<1>11. ASSUME NEW r \in Requests, RequestFails(r) PROVE CarefulInv'
  <2>1. /\ request[r].stage = "sent" /\ token' = token /\ expired' = expired
        /\ attempt' = attempt
        /\ request' = [request EXCEPT ![r].stage = "failed"]
    BY <1>11 DEF RequestFails, store, sessionServer
  <2> QED BY <1>0, <1>1, <2>1 DEF CarefulInv, SessionTypeOK, Pending
<1> QED BY <1>3, <1>4, <1>5, <1>6, <1>7, <1>8, <1>9, <1>10, <1>11
        DEF SessionNext, handleSubmit, handleDemoAccess

\* An operator who does one thing after the other is logged out by nothing but logging
\* out or in, a reload, or a token that ran out: no late answer 401 ends the session.
THEOREM CarefulCorrect == SessionSpec => CarefulKeepsSession
<1> DEFINE Kept == careful /\ token # 0 /\ token' # token =>
                     \/ logout \/ Reload \/ token \in expired
                     \/ \E a \in Attempts : LoginSucceeds(a) \/ LoginFails(a)
<1>1. SessionInv /\ CarefulInv /\ [SessionNext]_sessionVars => [Kept]_sessionVars
  <2> SUFFICES ASSUME CarefulInv, [SessionNext]_sessionVars, careful, token # 0, token' # token
               PROVE  \/ logout \/ Reload \/ token \in expired
                      \/ \E a \in Attempts : LoginSucceeds(a) \/ LoginFails(a)
    OBVIOUS
  <2>1. ASSUME NEW r \in Requests, AnswerArrives(r) PROVE token \in expired
    <3>1. request[r].stage = "401"
      BY <2>1 DEF AnswerArrives, EndsSession, store
    <3> QED BY <3>1 DEF CarefulInv
  <2>2. \/ logout \/ Reload \/ \E r \in Requests : AnswerArrives(r)
        \/ \E a \in Attempts : LoginSucceeds(a) \/ LoginFails(a)
    BY DEF SessionNext, handleSubmit, handleDemoAccess, Submitted, SendLogin, Granted,
       BrowserBack, Ask, Serve, RequestFails, Expire, sessionVars, store
  <2> QED BY <2>1, <2>2
<1>2. SessionInit => SessionInv /\ CarefulInv
  BY SessionInvInit, CarefulInit
<1>3. SessionInv /\ CarefulInv /\ [SessionNext]_sessionVars => (SessionInv /\ CarefulInv)'
  BY SessionInvStep, CarefulStep
<1> QED BY <1>1, <1>2, <1>3, PTL DEF SessionSpec, CarefulKeepsSession

-----------------------------------------------------------------------------
(***************************************************************************)
(* The emergency dialog.                                                   *)
(***************************************************************************)
DialogInv == Dialog!TypeOK /\ Dialog!OneConfirmation

\* A fresh dialog confirms nothing.
LEMMA DialogInit == Dialog!Init => DialogInv
<1> SUFFICES ASSUME Dialog!Init PROVE DialogInv
  OBVIOUS
<1>1. Dialog!TypeOK
  BY DEF Dialog!Init, Dialog!TypeOK
<1>2. ~isConfirming /\ ~isActivated /\ dialogTimers = 0
  BY DEF Dialog!Init
<1> QED BY <1>1, <1>2 DEF DialogInv, Dialog!OneConfirmation

\* Each step keeps the timer with its confirmation: the button starts one when there is
\* none, and what closes the dialog leaves both alone.
LEMMA DialogStep == DialogInv /\ [Dialog!Next]_dialogVars => DialogInv'
<1> SUFFICES ASSUME DialogInv, [Dialog!Next]_dialogVars PROVE DialogInv'
  OBVIOUS
<1> USE DEF DialogInv, Dialog!TypeOK, Dialog!OneConfirmation
<1>1. CASE Dialog!Open
  BY <1>1 DEF Dialog!Open
<1>2. CASE Dialog!onClose
  BY <1>2 DEF Dialog!onClose, Dialog!TimersAfterClose
<1>3. CASE Dialog!handleActivate
  BY <1>3 DEF Dialog!handleActivate, Dialog!MayActivate, Dialog!Cards
<1>4. CASE Dialog!TimerFires
  <2>1. isConfirming /\ dialogTimers = 1 /\ selectedAction # "null"
    BY <1>4 DEF Dialog!TimerFires
  <2>2. isActivated' /\ ~isConfirming'
    BY <1>4 DEF Dialog!TimerFires
  <2>3. dialogTimers' = 0 /\ UNCHANGED <<emergencyOpen, selectedAction>>
    BY <1>4, <2>1 DEF Dialog!TimerFires
  <2>4. isConfirming' \in BOOLEAN /\ isActivated' \in BOOLEAN
    BY <1>4 DEF Dialog!TimerFires
  <2> QED BY <2>1, <2>2, <2>3, <2>4
<1>5. CASE Dialog!handleReset
  BY <1>5 DEF Dialog!handleReset
<1>6. CASE Dialog!LeaveAndReturn
  BY <1>6 DEF Dialog!LeaveAndReturn
<1>7. ASSUME NEW a \in Dialog!Actions, Dialog!SelectAction(a) PROVE DialogInv'
  BY <1>7 DEF Dialog!SelectAction, Dialog!Cards, Dialog!Actions
<1>8. CASE UNCHANGED dialogVars
  BY <1>8 DEF dialogVars
<1> QED BY <1>1, <1>2, <1>3, <1>4, <1>5, <1>6, <1>7, <1>8 DEF Dialog!Next

(***************************************************************************)
(* The studio's slider.                                                    *)
(***************************************************************************)
\* The one change under way leads to what was clicked last.
StudioInv ==
  /\ Studio!TypeOK
  /\ ~fade => sliderTimers = {} /\ activeIdx = clicked
  /\ fade => \E t \in -1..(Projects - 1) :
       /\ sliderTimers = {t}
       /\ clicked = IF t = -1 THEN Studio!Following(activeIdx) ELSE t

\* The project after any project is one.
LEMMA FollowingIsProject ==
  ASSUME NEW i \in 0..(Projects - 1)
  PROVE  Studio!Following(i) \in 0..(Projects - 1)
BY PagesAssumption DEF Studio!Following

LEMMA StudioInit == Studio!Init => StudioInv
<1> SUFFICES ASSUME Studio!Init PROVE StudioInv
  OBVIOUS
<1>1. ~fade /\ sliderTimers = {} /\ activeIdx = clicked
  BY DEF Studio!Init
<1>2. fade \in BOOLEAN
  BY DEF Studio!Init
<1>3. Studio!TypeOK
  BY <1>1, <1>2, PagesAssumption DEF Studio!Init, Studio!TypeOK
<1> QED BY <1>1, <1>3 DEF StudioInv

\* The instance has a copy of Cardinality.
LEMMA StudioCardinality ==
  ASSUME NEW S
  PROVE  Studio!Cardinality(S) = Cardinality(S)
BY DEF Studio!Cardinality, Cardinality

\* The invariant is what the property says.
LEMMA StudioFollows == StudioInv => Studio!ShowsLastClicked
<1> SUFFICES ASSUME StudioInv PROVE Studio!ShowsLastClicked
  OBVIOUS
<1>1. CASE fade
  <2>1. PICK t \in -1..(Projects - 1) : sliderTimers = {t}
    BY <1>1 DEF StudioInv
  <2>2. Cardinality(sliderTimers) = 1
    BY <2>1, FS_Singleton
  <2>3. (IF fade THEN 1 ELSE 0) = 1
    BY <1>1
  <2> QED BY <1>1, <2>2, <2>3, StudioCardinality DEF Studio!ShowsLastClicked
<1>2. CASE ~fade
  <2>1. sliderTimers = {} /\ activeIdx = clicked
    BY <1>2 DEF StudioInv
  <2>2. Cardinality(sliderTimers) = 0
    BY <2>1, FS_EmptySet
  <2>3. (IF fade THEN 1 ELSE 0) = 0
    BY <1>2
  <2> QED BY <2>1, <2>2, <2>3, StudioCardinality DEF Studio!ShowsLastClicked
<1> QED BY <1>1, <1>2 DEF StudioInv, Studio!TypeOK

\* Clicks count at rest only, so there is one change at most.
LEMMA StudioStep == StudioInv /\ [Studio!Next]_studioVars => StudioInv'
<1> SUFFICES ASSUME StudioInv, [Studio!Next]_studioVars PROVE StudioInv'
  OBVIOUS
<1>0. Projects \in Nat \ {0}
  BY PagesAssumption
<1>1. CASE Studio!goNext
  <2>1. /\ ~fade /\ fade' = TRUE /\ sliderTimers' = {-1} /\ activeIdx' = activeIdx
        /\ clicked' = Studio!Following(activeIdx)
    BY <1>1 DEF Studio!goNext, Studio!MayTurn, StudioInv
  <2>2. clicked' \in 0..(Projects - 1)
    BY <2>1, FollowingIsProject DEF StudioInv, Studio!TypeOK
  <2>3. -1 \in -1..(Projects - 1)
    BY <1>0
  <2>4. Studio!TypeOK'
    BY <2>1, <2>2, <2>3 DEF StudioInv, Studio!TypeOK
  <2>5. clicked' = Studio!Following(activeIdx)'
    BY <2>1 DEF Studio!Following
  <2> QED BY <2>1, <2>3, <2>4, <2>5 DEF StudioInv
<1>2. ASSUME NEW i \in 0..(Projects - 1), Studio!goTo(i) PROVE StudioInv'
  <2>1. /\ ~fade /\ fade' = TRUE /\ sliderTimers' = {i} /\ activeIdx' = activeIdx
        /\ clicked' = i
    BY <1>2 DEF Studio!goTo, Studio!MayTurn, StudioInv
  <2>2. i \in -1..(Projects - 1) /\ i # -1
    BY <1>0
  <2> QED BY <2>1, <2>2 DEF StudioInv, Studio!TypeOK
<1>3. CASE Studio!TimerFires
  <2>1. PICK t \in sliderTimers :
          /\ sliderTimers' = sliderTimers \ {t}
          /\ activeIdx' = IF t = -1 THEN Studio!Following(activeIdx) ELSE t
    BY <1>3 DEF Studio!TimerFires
  <2>2. fade
    BY <2>1 DEF StudioInv, Studio!TypeOK
  <2>3. sliderTimers = {t} /\ clicked = IF t = -1 THEN Studio!Following(activeIdx) ELSE t
    BY <2>1, <2>2 DEF StudioInv
  <2>4. fade' = FALSE /\ clicked' = clicked /\ sliderTimers' = {} /\ activeIdx' = clicked'
    BY <1>3, <2>1, <2>3 DEF Studio!TimerFires
  <2> QED BY <2>4 DEF StudioInv, Studio!TypeOK
<1>4. CASE Studio!LeaveAndReturn
  <2>1. ~fade' /\ sliderTimers' = {} /\ activeIdx' = clicked'
    BY <1>4 DEF Studio!LeaveAndReturn
  <2>2. fade' \in BOOLEAN
    BY <1>4 DEF Studio!LeaveAndReturn
  <2>3. Studio!TypeOK'
    BY <1>0, <1>4, <2>1, <2>2 DEF Studio!LeaveAndReturn, Studio!TypeOK
  <2> QED BY <2>1, <2>3 DEF StudioInv
<1>5. CASE UNCHANGED studioVars
  BY <1>5 DEF studioVars, StudioInv, Studio!TypeOK, Studio!Following
<1> QED BY <1>1, <1>2, <1>3, <1>4, <1>5 DEF Studio!Next

(***************************************************************************)
(* The command center and its showcase.                                    *)
(***************************************************************************)
ShowcasePanels == [isApplying : BOOLEAN, isOptimized : BOOLEAN, countdown : 0..CountFrom]

\* What the panel shows as optimized, the page does as well.
ShowcaseInv ==
  /\ Showcase!TypeOK /\ Showcase!OneCountdown
  /\ panel.isOptimized => isOptimized

\* A fresh panel shows nothing.
LEMMA ShowcaseFresh ==
  /\ Showcase!FreshPanel \in ShowcasePanels
  /\ ~Showcase!FreshPanel.isApplying /\ ~Showcase!FreshPanel.isOptimized
  /\ Showcase!FreshPanel.countdown = 0
  /\ DOMAIN Showcase!INITIAL_INCIDENTS = {"i901", "i884", "i872", "i850"}
  /\ \A i \in DOMAIN Showcase!INITIAL_INCIDENTS :
       Showcase!INITIAL_INCIDENTS[i] \in {"PENDING", "DISPATCHED", "RESOLVED"}
<1>1. Showcase!FreshPanel \in ShowcasePanels
  BY CommandCenterAssumption DEF Showcase!FreshPanel, ShowcasePanels
<1>2. /\ ~Showcase!FreshPanel.isApplying /\ ~Showcase!FreshPanel.isOptimized
      /\ Showcase!FreshPanel.countdown = 0
  BY DEF Showcase!FreshPanel
<1>3. DOMAIN Showcase!INITIAL_INCIDENTS = {"i901", "i884", "i872", "i850"}
  BY DEF Showcase!INITIAL_INCIDENTS
<1>4. \A i \in DOMAIN Showcase!INITIAL_INCIDENTS :
        Showcase!INITIAL_INCIDENTS[i] \in {"PENDING", "DISPATCHED", "RESOLVED"}
  BY <1>3 DEF Showcase!INITIAL_INCIDENTS
<1> QED BY <1>1, <1>2, <1>3, <1>4

LEMMA ShowcaseInit == Showcase!Init => ShowcaseInv
<1> SUFFICES ASSUME Showcase!Init PROVE ShowcaseInv
  OBVIOUS
<1>1. isOptimized \in BOOLEAN /\ showNotifications \in BOOLEAN
  BY DEF Showcase!Init
<1>2. panel = Showcase!FreshPanel /\ panelTimers = 0 /\ orphans = 0
  BY DEF Showcase!Init
<1>3. /\ activeTab \in Showcase!Tabs /\ selectedIntersection \in Showcase!Nodes \cup {None}
      /\ incidentFilter \in Showcase!Filters /\ incidents = Showcase!INITIAL_INCIDENTS
  BY DEF Showcase!Init, Showcase!Tabs, Showcase!Filters
<1>4. 0 \in 0..MaxOrphans
  BY PagesAssumption
<1>5. Showcase!TypeOK
  BY <1>1, <1>2, <1>3, <1>4, ShowcaseFresh DEF Showcase!TypeOK, ShowcasePanels
<1>6. Showcase!OneCountdown
  BY <1>2, ShowcaseFresh DEF Showcase!OneCountdown
<1> QED BY <1>2, <1>5, <1>6, ShowcaseFresh DEF ShowcaseInv

\* What a tab leaves behind is one interval at most.
LEMMA ShowcaseTab ==
  ASSUME ShowcaseInv, NEW t \in Showcase!Tabs, Showcase!SetActiveTab(t),
         UNCHANGED selectedIntersection,
         isOptimized' \in {isOptimized, TRUE}, showNotifications' \in BOOLEAN
  PROVE  ShowcaseInv'
<1>0. isOptimized' \in BOOLEAN /\ (isOptimized => isOptimized')
  BY DEF ShowcaseInv, Showcase!TypeOK
<1>1. CASE t = activeTab
  <2>1. UNCHANGED <<activeTab, selectedIntersection, panel, panelTimers, orphans, incidents,
                    incidentFilter>>
    BY <1>1 DEF Showcase!SetActiveTab, Showcase!list
  <2>2. Showcase!TypeOK'
    BY <1>0, <2>1 DEF ShowcaseInv, Showcase!TypeOK
  <2>3. Showcase!OneCountdown'
    BY <2>1 DEF ShowcaseInv, Showcase!OneCountdown
  <2> QED BY <1>0, <2>1, <2>2, <2>3 DEF ShowcaseInv
<1>2. CASE t # activeTab
  <2>1. /\ activeTab' = t /\ panel' = Showcase!FreshPanel /\ panelTimers' = 0
        /\ incidents' = Showcase!INITIAL_INCIDENTS /\ incidentFilter' = "ALL"
        /\ orphans + Showcase!LeftBehind <= MaxOrphans
        /\ orphans' = orphans + Showcase!LeftBehind
    BY <1>2 DEF Showcase!SetActiveTab
  <2>2. Showcase!LeftBehind \in {0, 1}
    BY DEF Showcase!LeftBehind
  <2>3. orphans' \in 0..MaxOrphans
    BY <2>1, <2>2, PagesAssumption DEF ShowcaseInv, Showcase!TypeOK
  <2>4. incidentFilter' \in Showcase!Filters
    BY <2>1 DEF Showcase!Filters
  <2>5. Showcase!TypeOK'
    BY <1>0, <2>1, <2>3, <2>4, ShowcaseFresh DEF ShowcaseInv, Showcase!TypeOK, ShowcasePanels
  <2>6. Showcase!OneCountdown'
    BY <2>1, ShowcaseFresh DEF Showcase!OneCountdown
  <2> QED BY <2>1, <2>5, <2>6, ShowcaseFresh DEF ShowcaseInv
<1> QED BY <1>1, <1>2

\* What the clock, an application and a reset make of a panel.
LEMMA ShowcasePanel ==
  ASSUME NEW p \in ShowcasePanels
  PROVE  /\ LET q == [p EXCEPT !.isApplying = TRUE, !.countdown = CountFrom]
            IN /\ q \in ShowcasePanels /\ q.isApplying /\ q.countdown = CountFrom
               /\ q.isOptimized = p.isOptimized
         /\ LET q == [p EXCEPT !.isOptimized = FALSE]
            IN /\ q \in ShowcasePanels /\ ~q.isOptimized
               /\ q.isApplying = p.isApplying /\ q.countdown = p.countdown
         /\ p.countdown > 1 =>
              /\ Showcase!Counted(p) \in ShowcasePanels
              /\ Showcase!Counted(p).countdown = p.countdown - 1
              /\ Showcase!Counted(p).isApplying = p.isApplying
              /\ Showcase!Counted(p).isOptimized = p.isOptimized
         /\ p.countdown <= 1 =>
              /\ Showcase!Counted(p) \in ShowcasePanels
              /\ Showcase!Counted(p).countdown = 0
              /\ ~Showcase!Counted(p).isApplying /\ Showcase!Counted(p).isOptimized
<1>0. CountFrom \in Nat \ {0}
  BY CommandCenterAssumption
<1>1. LET q == [p EXCEPT !.isApplying = TRUE, !.countdown = CountFrom]
      IN /\ q \in ShowcasePanels /\ q.isApplying /\ q.countdown = CountFrom
         /\ q.isOptimized = p.isOptimized
  <2>1. CountFrom \in 0..CountFrom
    BY <1>0
  <2> DEFINE q == [p EXCEPT !.isApplying = TRUE, !.countdown = CountFrom]
  <2> DEFINE r == [p EXCEPT !.isApplying = TRUE]
  <2>2. r \in ShowcasePanels /\ r.isApplying /\ r.isOptimized = p.isOptimized
    BY DEF ShowcasePanels
  <2>3. q = [r EXCEPT !.countdown = CountFrom]
    BY DEF ShowcasePanels
  <2> HIDE DEF r, q
  <2>4. /\ q \in ShowcasePanels /\ q.countdown = CountFrom
        /\ q.isApplying = r.isApplying /\ q.isOptimized = r.isOptimized
    BY <2>1, <2>2, <2>3 DEF ShowcasePanels
  <2>5. q \in ShowcasePanels /\ q.isApplying /\ q.countdown = CountFrom
        /\ q.isOptimized = p.isOptimized
    BY <2>2, <2>4
  <2> QED BY <2>5 DEF q
<1>2. LET q == [p EXCEPT !.isOptimized = FALSE]
      IN /\ q \in ShowcasePanels /\ ~q.isOptimized
         /\ q.isApplying = p.isApplying /\ q.countdown = p.countdown
  BY DEF ShowcasePanels
<1>3. ASSUME p.countdown > 1
      PROVE  /\ Showcase!Counted(p) \in ShowcasePanels
             /\ Showcase!Counted(p).countdown = p.countdown - 1
             /\ Showcase!Counted(p).isApplying = p.isApplying
             /\ Showcase!Counted(p).isOptimized = p.isOptimized
  <2>1. Showcase!Counted(p) = [p EXCEPT !.countdown = p.countdown - 1]
    BY <1>3 DEF Showcase!Counted, ShowcasePanels
  <2>2. p.countdown - 1 \in 0..CountFrom
    BY <1>0, <1>3 DEF ShowcasePanels
  <2> QED BY <2>1, <2>2 DEF ShowcasePanels
<1>4. ASSUME p.countdown <= 1
      PROVE  /\ Showcase!Counted(p) \in ShowcasePanels
             /\ Showcase!Counted(p).countdown = 0
             /\ ~Showcase!Counted(p).isApplying /\ Showcase!Counted(p).isOptimized
  <2>1. Showcase!Counted(p) = [isApplying |-> FALSE, isOptimized |-> TRUE, countdown |-> 0]
    BY <1>4 DEF Showcase!Counted
  <2> QED BY <1>0, <2>1 DEF ShowcasePanels
<1> QED BY <1>1, <1>2, <1>3, <1>4

\* Each step keeps one interval for one countdown, and panel and page together.
LEMMA ShowcaseStep == ShowcaseInv /\ [Showcase!Next]_showcaseVars => ShowcaseInv'
<1> SUFFICES ASSUME ShowcaseInv, [Showcase!Next]_showcaseVars PROVE ShowcaseInv'
  OBVIOUS
<1>0. Showcase!TypeOK /\ Showcase!OneCountdown /\ (panel.isOptimized => isOptimized)
  BY DEF ShowcaseInv
<1>p. panel \in ShowcasePanels
  BY <1>0 DEF Showcase!TypeOK, ShowcasePanels
<1>1. ASSUME NEW t \in Showcase!Tabs, Showcase!onTabChange(t) PROVE ShowcaseInv'
  BY <1>0, <1>1, ShowcaseTab DEF Showcase!onTabChange, Showcase!TypeOK
<1>2. CASE Showcase!ExpandFullMap
  BY <1>0, <1>2, ShowcaseTab DEF Showcase!ExpandFullMap, Showcase!TypeOK, Showcase!Tabs
<1>3. CASE Showcase!handleQuickOptimize
  <2>1. /\ Showcase!SetActiveTab(IF selectedIntersection = "A102" THEN "signal-control"
                                 ELSE activeTab)
        /\ isOptimized' = TRUE /\ UNCHANGED <<selectedIntersection, showNotifications>>
    BY <1>3 DEF Showcase!handleQuickOptimize
  <2>2. (IF selectedIntersection = "A102" THEN "signal-control" ELSE activeTab) \in Showcase!Tabs
    BY <1>0 DEF Showcase!TypeOK, Showcase!Tabs
  <2>3. isOptimized' \in {isOptimized, TRUE}
    BY <2>1
  <2> QED BY <1>0, <2>1, <2>2, <2>3, ShowcaseTab DEF Showcase!TypeOK
<1>4. ASSUME NEW n \in Showcase!Nodes, Showcase!handleSelectIntersection(n) PROVE ShowcaseInv'
  BY <1>0, <1>4 DEF ShowcaseInv, Showcase!handleSelectIntersection, Showcase!TypeOK,
       Showcase!OneCountdown, Showcase!list
<1>5. CASE Showcase!CloseModal
  BY <1>0, <1>5 DEF ShowcaseInv, Showcase!CloseModal, Showcase!TypeOK,
       Showcase!OneCountdown, Showcase!list
<1>6. CASE Showcase!ToggleNotifications
  BY <1>0, <1>6 DEF ShowcaseInv, Showcase!ToggleNotifications, Showcase!TypeOK,
       Showcase!OneCountdown, Showcase!list, Showcase!page
<1>7. ASSUME NEW f \in Showcase!Filters, Showcase!SetFilter(f) PROVE ShowcaseInv'
  BY <1>0, <1>7 DEF ShowcaseInv, Showcase!SetFilter, Showcase!TypeOK,
       Showcase!OneCountdown, Showcase!page
<1>8. ASSUME NEW i \in DOMAIN Showcase!INITIAL_INCIDENTS, Showcase!handleAction(i)
      PROVE  ShowcaseInv'
  <2>1. incidents' = [incidents EXCEPT ![i] = Showcase!Advanced(incidents[i])]
    BY <1>8 DEF Showcase!handleAction
  <2>2. Showcase!Advanced(incidents[i]) \in {"PENDING", "DISPATCHED", "RESOLVED"}
    BY DEF Showcase!Advanced
  <2>3. /\ DOMAIN incidents' = DOMAIN Showcase!INITIAL_INCIDENTS
        /\ \A j \in DOMAIN incidents' : incidents'[j] \in {"PENDING", "DISPATCHED", "RESOLVED"}
    BY <1>0, <2>1, <2>2 DEF Showcase!TypeOK
  <2>4. UNCHANGED <<activeTab, selectedIntersection, isOptimized, panel, panelTimers, orphans,
                    incidentFilter, showNotifications>>
    BY <1>8 DEF Showcase!handleAction, Showcase!page
  <2> QED BY <1>0, <2>3, <2>4 DEF ShowcaseInv, Showcase!TypeOK, Showcase!OneCountdown
<1>9. CASE Showcase!ToStudioAndBack
  <2>1. isOptimized' \in BOOLEAN /\ showNotifications' \in BOOLEAN
    BY <1>9 DEF Showcase!ToStudioAndBack
  <2>2. panel' = Showcase!FreshPanel /\ panelTimers' = 0 /\ orphans' = 0
    BY <1>9 DEF Showcase!ToStudioAndBack
  <2>3. /\ activeTab' \in Showcase!Tabs
        /\ selectedIntersection' \in Showcase!Nodes \cup {None}
        /\ incidentFilter' \in Showcase!Filters /\ incidents' = Showcase!INITIAL_INCIDENTS
    BY <1>9 DEF Showcase!ToStudioAndBack, Showcase!Tabs, Showcase!Filters
  <2>4. 0 \in 0..MaxOrphans
    BY PagesAssumption
  <2>5. Showcase!TypeOK'
    BY <2>1, <2>2, <2>3, <2>4, ShowcaseFresh DEF Showcase!TypeOK, ShowcasePanels
  <2>6. Showcase!OneCountdown'
    BY <2>2, ShowcaseFresh DEF Showcase!OneCountdown
  <2> QED BY <2>2, <2>5, <2>6, ShowcaseFresh DEF ShowcaseInv
<1>10. CASE Showcase!handleApplyRecommendation
  <2>1. /\ activeTab \in Showcase!PanelTabs /\ ~panel.isOptimized /\ ~panel.isApplying
        /\ panel' = [panel EXCEPT !.isApplying = TRUE, !.countdown = CountFrom]
        /\ panelTimers' = panelTimers + 1
        /\ UNCHANGED <<activeTab, selectedIntersection, isOptimized, orphans, incidents,
                       incidentFilter, showNotifications>>
    BY <1>10 DEF Showcase!handleApplyRecommendation, Showcase!MayApply, Showcase!Recommended,
         Showcase!page, Showcase!list
  <2>2. /\ panel' \in ShowcasePanels /\ panel'.isApplying /\ panel'.countdown = CountFrom
        /\ ~panel'.isOptimized
    BY <1>p, <2>1, ShowcasePanel
  <2>3. panelTimers' = 1
    BY <1>0, <2>1 DEF Showcase!OneCountdown
  <2>4. Showcase!TypeOK'
    BY <1>0, <2>1, <2>2, <2>3 DEF Showcase!TypeOK, ShowcasePanels
  <2>5. Showcase!OneCountdown'
    BY <2>1, <2>2, <2>3, CommandCenterAssumption DEF Showcase!OneCountdown
  <2> QED BY <2>2, <2>4, <2>5 DEF ShowcaseInv
<1>11. CASE Showcase!Tick
  <2>1. /\ panelTimers > 0 /\ panel' = Showcase!Counted(panel)
        /\ UNCHANGED <<activeTab, selectedIntersection, orphans, incidents, incidentFilter,
                       showNotifications>>
    BY <1>11 DEF Showcase!Tick, Showcase!list
  <2>2. panel.isApplying /\ panelTimers = 1 /\ panel.countdown # 0
    BY <1>0, <2>1 DEF Showcase!OneCountdown
  <2>3. activeTab \in Showcase!PanelTabs
    BY <1>0, <2>2, ShowcaseFresh DEF Showcase!OneCountdown
  <2>4. panel.countdown \in Nat
    BY <1>p DEF ShowcasePanels
  <2>5. CASE panel.countdown > 1
    <3>1. /\ panel' \in ShowcasePanels /\ panel'.countdown = panel.countdown - 1
          /\ panel'.isApplying /\ panel'.isOptimized = panel.isOptimized
      BY <1>p, <2>1, <2>2, <2>5, ShowcasePanel
    <3>2. panel'.countdown # 0
      BY <2>4, <2>5, <3>1
    <3>3. UNCHANGED <<panelTimers, isOptimized>>
      BY <1>11, <3>2 DEF Showcase!Tick
    <3>4. Showcase!TypeOK'
      BY <1>0, <2>1, <3>1, <3>3 DEF Showcase!TypeOK, ShowcasePanels
    <3>5. Showcase!OneCountdown'
      BY <2>1, <2>2, <2>3, <3>1, <3>2, <3>3 DEF Showcase!OneCountdown
    <3> QED BY <1>0, <3>1, <3>3, <3>4, <3>5 DEF ShowcaseInv
  <2>6. CASE panel.countdown <= 1
    <3>1. /\ panel' \in ShowcasePanels /\ panel'.countdown = 0
          /\ ~panel'.isApplying /\ panel'.isOptimized
      BY <1>p, <2>1, <2>6, ShowcasePanel
    <3>2. panelTimers' = 0 /\ isOptimized'
      BY <1>11, <2>2, <3>1 DEF Showcase!Tick, Showcase!onOptimize
    <3>3. isOptimized' \in BOOLEAN
      BY <1>11, <3>1 DEF Showcase!Tick, Showcase!onOptimize
    <3>4. Showcase!TypeOK'
      BY <1>0, <2>1, <3>1, <3>2, <3>3 DEF Showcase!TypeOK, ShowcasePanels
    <3>5. Showcase!OneCountdown'
      BY <2>1, <2>3, <3>1, <3>2 DEF Showcase!OneCountdown
    <3> QED BY <3>2, <3>4, <3>5 DEF ShowcaseInv
  <2> QED BY <2>4, <2>5, <2>6
<1>12. CASE Showcase!OrphanTick
  <2>1. /\ orphans > 0 /\ orphans' = orphans - 1
        /\ UNCHANGED <<activeTab, selectedIntersection, panel, panelTimers, incidents,
                       incidentFilter, showNotifications>>
    BY <1>12 DEF Showcase!OrphanTick, Showcase!list
  <2>2. isOptimized' \in BOOLEAN /\ (isOptimized => isOptimized')
    <3>1. isOptimized' = isOptimized \/ isOptimized' = TRUE
      BY <1>12 DEF Showcase!OrphanTick
    <3>2. isOptimized \in BOOLEAN
      BY <1>0 DEF Showcase!TypeOK
    <3>3. CASE isOptimized' = TRUE
      BY <3>3
    <3>4. CASE isOptimized' = isOptimized
      BY <3>2, <3>4, Zenon
    <3> QED BY <3>1, <3>3, <3>4
  <2>3. orphans' \in 0..MaxOrphans
    BY <1>0, <2>1, PagesAssumption DEF Showcase!TypeOK
  <2>4. Showcase!TypeOK'
    BY <1>0, <2>1, <2>2, <2>3 DEF Showcase!TypeOK
  <2> QED BY <1>0, <2>1, <2>2, <2>4 DEF ShowcaseInv, Showcase!OneCountdown
<1>13. CASE Showcase!handleReset
  <2>1. /\ activeTab \in Showcase!PanelTabs
        /\ panel' = [panel EXCEPT !.isOptimized = FALSE]
        /\ UNCHANGED <<activeTab, selectedIntersection, panelTimers, orphans, incidents,
                       incidentFilter, showNotifications>>
    BY <1>13 DEF Showcase!handleReset, Showcase!list
  <2>2. /\ panel' \in ShowcasePanels /\ ~panel'.isOptimized
        /\ panel'.isApplying = panel.isApplying /\ panel'.countdown = panel.countdown
    BY <1>p, <2>1, ShowcasePanel
  <2>3. isOptimized' \in BOOLEAN
    BY <1>13 DEF Showcase!handleReset
  <2>4. Showcase!TypeOK'
    BY <1>0, <2>1, <2>2, <2>3 DEF Showcase!TypeOK, ShowcasePanels
  <2>5. Showcase!OneCountdown'
    BY <1>0, <2>1, <2>2 DEF Showcase!OneCountdown
  <2> QED BY <2>2, <2>4, <2>5 DEF ShowcaseInv
<1>14. CASE UNCHANGED showcaseVars
  BY <1>0, <1>14 DEF ShowcaseInv, showcaseVars, Showcase!TypeOK, Showcase!OneCountdown
<1> QED BY <1>1, <1>2, <1>3, <1>4, <1>5, <1>6, <1>7, <1>8, <1>9, <1>10, <1>11, <1>12, <1>13,
           <1>14 DEF Showcase!Next

\* The page's colours, lanes and level are those of the panel once the page is optimized.
LEMMA ShowcaseFollows == ShowcaseInv => Showcase!PanelBackedByMap
<1> SUFFICES ASSUME ShowcaseInv, panel.isOptimized PROVE Showcase!PanelBackedByMap
  BY DEF Showcase!PanelBackedByMap
<1>0. isOptimized
  BY DEF ShowcaseInv
<1>1. Showcase!INITIAL_INTERSECTIONS["A102"].level = "CRITICAL"
  BY DEF Showcase!INITIAL_INTERSECTIONS
<1>2. Showcase!nodeColor("A102") = "green"
  BY <1>0, <1>1 DEF Showcase!nodeColor
<1>3. Showcase!roads[1] = "green" /\ Showcase!SlowRoads = {}
  BY <1>0 DEF Showcase!roads, Showcase!SlowRoads
<1>4. ASSUME selectedIntersection = "A102"
      PROVE  Showcase!currentLevel = "SMOOTH" /\ Showcase!windowLanes = Showcase!laneCards
  <2>1. Showcase!isCurrentOptimized
    BY <1>0, <1>4 DEF Showcase!isCurrentOptimized
  <2>2. Showcase!currentLevel = "SMOOTH"
    BY <2>1 DEF Showcase!currentLevel
  <2>3. Showcase!INITIAL_INTERSECTIONS["A102"].lanes =
          <<[traffic |-> 87, signal |-> "RED"], [traffic |-> 32, signal |-> "GREEN"],
            [traffic |-> 61, signal |-> "YELLOW"]>>
    BY DEF Showcase!INITIAL_INTERSECTIONS
  <2>4. Showcase!windowLanes =
          <<Showcase!FreeLane, [traffic |-> 32, signal |-> "GREEN"],
            [traffic |-> 61, signal |-> "YELLOW"]>>
    BY <1>4, <2>1, <2>3 DEF Showcase!windowLanes
  <2>5. Showcase!lane1 = Showcase!FreeLane
    BY DEF Showcase!lane1
  <2> QED BY <2>2, <2>4, <2>5 DEF Showcase!laneCards
<1> QED BY <1>2, <1>3, <1>4 DEF Showcase!PanelBackedByMap

(***************************************************************************)
(* The page of a junction.                                                 *)
(***************************************************************************)
DetailPlans == [stage : {"unused", "asked", "served", "over"},
                asked : 0..MaxChanges, says : 0..MaxChanges]

\* No request was asked later than now, none is answered with an older plan than it asked
\* for, the first was asked first, and the plan shown is of a run that is over.
DetailInv ==
  /\ Detail!TypeOK /\ Detail!NameIsTrue
  /\ \A n \in Detail!Runs : plan[n].asked <= version
  /\ \A n \in Detail!Runs : plan[n].stage = "served" => plan[n].says >= plan[n].asked
  /\ plan[1].asked = 0
  /\ signalPlan # Detail!NoPlan =>
       /\ signalPlan.run \in Detail!Runs /\ plan[signalPlan.run].stage = "over"
       /\ signalPlan.says >= plan[signalPlan.run].asked
       /\ id \in Junctions => signalPlan.of = id
  /\ detailInOrder /\ detailFaults = 0 =>
       /\ \A n \in Detail!Runs : plan[n].stage = "over" => signalPlan.says >= plan[n].asked
       /\ plan[2].stage = "over" => plan[1].stage = "over"

\* The invariant is what the property says.
LEMMA DetailFollows == DetailInv => Detail!PlanIsRecent
BY DEF DetailInv, Detail!PlanIsRecent

\* A run's request for the plan is served.
ServedPlan(p, n, v) == [p EXCEPT ![n].stage = "served", ![n].says = v]
LEMMA DetailPlanServed ==
  ASSUME NEW p \in [Detail!Runs -> DetailPlans], NEW n \in Detail!Runs, NEW v \in 0..MaxChanges,
         NEW q, q = ServedPlan(p, n, v)
  PROVE  /\ q \in [Detail!Runs -> DetailPlans]
         /\ q[n].stage = "served" /\ q[n].says = v /\ q[n].asked = p[n].asked
         /\ \A m \in Detail!Runs : m # n => q[m] = p[m]
<1>0. p[n] \in DetailPlans
  OBVIOUS
<1> DEFINE served == [p[n] EXCEPT !.stage = "served"]
           said == [served EXCEPT !.says = v]
<1>1. served \in DetailPlans /\ served.stage = "served" /\ served.asked = p[n].asked
  BY <1>0 DEF DetailPlans
<1>2. /\ said \in DetailPlans /\ said.stage = "served" /\ said.says = v
      /\ said.asked = p[n].asked
  <2> HIDE DEF served
  <2> QED BY <1>1 DEF DetailPlans
<1>3. q = [p EXCEPT ![n] = said]
  BY <1>0 DEF DetailPlans, ServedPlan
<1> HIDE DEF said
<1> QED BY <1>2, <1>3

\* It is over.
LEMMA DetailPlanOver ==
  ASSUME NEW p \in [Detail!Runs -> DetailPlans], NEW n \in Detail!Runs,
         NEW q, q = [p EXCEPT ![n].stage = "over"]
  PROVE  /\ q \in [Detail!Runs -> DetailPlans]
         /\ q[n].stage = "over" /\ q[n].says = p[n].says /\ q[n].asked = p[n].asked
         /\ \A m \in Detail!Runs : m # n => q[m] = p[m]
<1>0. p[n] \in DetailPlans
  OBVIOUS
<1> DEFINE over == [p[n] EXCEPT !.stage = "over"]
<1>1. /\ over \in DetailPlans /\ over.stage = "over" /\ over.says = p[n].says
      /\ over.asked = p[n].asked
  BY <1>0 DEF DetailPlans
<1>2. q = [p EXCEPT ![n] = over]
  OBVIOUS
<1> HIDE DEF over
<1> QED BY <1>1, <1>2

LEMMA DetailInit == Detail!Init => DetailInv
<1> SUFFICES ASSUME Detail!Init PROVE DetailInv
  OBVIOUS
<1>0. Detail!Runs = {1, 2} /\ 0 \in 0..MaxChanges
  BY JunctionDetailPageAssumption DEF Detail!Runs
<1>1. plan[1] = [stage |-> "asked", asked |-> 0, says |-> 0]
  BY <1>0 DEF Detail!Init, Detail!NotSent
<1>2. plan[2] = [stage |-> "unused", asked |-> 0, says |-> 0]
  BY <1>0 DEF Detail!Init, Detail!NotSent
<1>3. plan \in [Detail!Runs -> DetailPlans]
  <2>1. plan = [n \in Detail!Runs |-> plan[n]]
    BY DEF Detail!Init
  <2>2. plan[1] \in DetailPlans /\ plan[2] \in DetailPlans
    BY <1>0, <1>1, <1>2 DEF DetailPlans
  <2> QED BY <1>0, <2>1, <2>2
<1>4. detail \in [Detail!Runs -> {"unused", "asked", "over"}]
  BY DEF Detail!Init
<1>5. /\ signalPlan = Detail!NoPlan
      /\ signalPlan \in [of : Junctions \cup {J0}, run : 0..2, says : 0..MaxChanges]
  BY <1>0 DEF Detail!Init, Detail!NoPlan
<1>6. /\ junctionData \in {"none", "ours", "placeholder"}
      /\ junctionData # "placeholder" /\ (id \in detailStore => junctionData = "ours")
  <2>1. junctionData = IF id \in detailStore THEN "ours" ELSE "none"
    BY DEF Detail!Init, Detail!DataFrom
  <2> QED BY <2>1
<1>7. /\ flash \in [FlashClicks -> {"unused", "sent", "engaged on controller", "engaged locally"}]
      /\ ran \in [FlashClicks -> BOOLEAN]
  BY DEF Detail!Init
<1>8. /\ detailInOrder \in BOOLEAN /\ id \in Junctions \cup {J0}
      /\ detailStore \subseteq Junctions
  BY DEF Detail!Init
<1>v. version = 0 /\ countdown = Start /\ detailFaults = 0
  BY DEF Detail!Init
<1>9. version \in 0..MaxChanges /\ countdown \in 0..Hold /\ detailFaults \in 0..MaxFaults
  BY <1>v, JunctionDetailPageAssumption, PagesAssumption
<1>10. Detail!TypeOK
  BY <1>3, <1>4, <1>5, <1>6, <1>7, <1>8, <1>9 DEF Detail!TypeOK, DetailPlans
<1>11. Detail!NameIsTrue
  BY <1>6 DEF Detail!NameIsTrue
<1>12. \A n \in Detail!Runs : plan[n].asked <= version /\ plan[n].stage # "served"
                              /\ plan[n].stage # "over"
  BY <1>0, <1>1, <1>2, <1>v
<1> QED BY <1>0, <1>1, <1>5, <1>10, <1>11, <1>12 DEF DetailInv

\* What a step that leaves the plans alone has to keep.
LEMMA DetailKeeps ==
  ASSUME DetailInv, UNCHANGED <<detailInOrder, id, version, plan, signalPlan>>,
         detailFaults' \in {detailFaults, detailFaults + 1},
         Detail!TypeOK', Detail!NameIsTrue'
  PROVE  DetailInv'
<1>1. detailFaults' = 0 => detailFaults = 0
  <2>1. detailFaults \in 0..MaxFaults /\ MaxFaults \in Nat
    BY PagesAssumption DEF DetailInv, Detail!TypeOK
  <2> QED BY <2>1
<1> QED BY <1>1 DEF DetailInv, Detail!NoPlan

\* Each step keeps the plan shown as recent as the request it answers.
LEMMA DetailStep == DetailInv /\ [Detail!Next]_detailVars => DetailInv'
<1> SUFFICES ASSUME DetailInv, [Detail!Next]_detailVars PROVE DetailInv'
  OBVIOUS
<1>0. Detail!TypeOK /\ Detail!NameIsTrue
  BY DEF DetailInv
<1>r. Detail!Runs = {1, 2}
  BY DEF Detail!Runs
<1>b. MaxFaults \in Nat /\ MaxChanges \in Nat /\ Start \in Nat /\ Hold \in Nat
  BY PagesAssumption, JunctionDetailPageAssumption
<1>p. plan \in [Detail!Runs -> DetailPlans]
  BY <1>0 DEF Detail!TypeOK, DetailPlans
<1>f. version \in 0..MaxChanges /\ detailFaults \in 0..MaxFaults
  BY <1>0 DEF Detail!TypeOK
<1>g. ASSUME Detail!MayFail PROVE detailFaults' = detailFaults + 1 /\ detailFaults' \in 0..MaxFaults
  BY <1>b, <1>f, <1>g DEF Detail!MayFail
<1>1. CASE Detail!StoreLoads
  <2>1. /\ detailStore = {} /\ plan[2] = Detail!NotSent
        /\ detailStore' \subseteq Junctions
        /\ plan' = [plan EXCEPT ![2] = Detail!AskPlan(2)]
        /\ junctionData' = Detail!DataFrom(detailStore', junctionData)
        /\ UNCHANGED <<detailInOrder, id, version, signalPlan, countdown, flash, ran,
                       detailFaults>>
    BY <1>1 DEF Detail!StoreLoads, Detail!override
  <2>2. detail' \in [Detail!Runs -> {"unused", "asked", "over"}]
    <3>1. detail' = [detail EXCEPT ![2] = IF Detail!AsksDetail(detailStore') THEN "asked"
                                          ELSE detail[2]]
      BY <1>1 DEF Detail!StoreLoads
    <3>2. (IF Detail!AsksDetail(detailStore') THEN "asked" ELSE detail[2])
            \in {"unused", "asked", "over"}
      BY <1>0, <1>r DEF Detail!TypeOK
    <3> QED BY <1>0, <3>1, <3>2 DEF Detail!TypeOK
  <2>3. Detail!AskPlan(2) = [stage |-> "asked", asked |-> version, says |-> 0]
    <3> DEFINE r == [Detail!NotSent EXCEPT !.stage = "asked"]
    <3>1. r = [stage |-> "asked", asked |-> 0, says |-> 0]
      BY DEF Detail!NotSent
    <3>2. Detail!AskPlan(2) = [r EXCEPT !.asked = version]
      BY DEF Detail!AskPlan, Detail!NotSent
    <3> HIDE DEF r
    <3> QED BY <3>1, <3>2
  <2>4. Detail!AskPlan(2) \in DetailPlans
    BY <1>b, <1>f, <2>3 DEF DetailPlans
  <2>5. plan' \in [Detail!Runs -> DetailPlans] /\ plan'[2] = Detail!AskPlan(2)
        /\ plan'[1] = plan[1]
    BY <1>p, <1>r, <2>1, <2>4
  <2>6. /\ junctionData' \in {"none", "ours", "placeholder"}
        /\ id \in detailStore' => junctionData' = "ours"
        /\ id \notin detailStore' => junctionData' = junctionData
    BY <1>0, <2>1 DEF Detail!DataFrom, Detail!TypeOK
  <2>7. Detail!TypeOK'
    BY <1>0, <2>1, <2>2, <2>5, <2>6 DEF Detail!TypeOK, DetailPlans
  <2>8. Detail!NameIsTrue'
    BY <1>0, <2>1, <2>6 DEF Detail!NameIsTrue
  <2>9. plan[2].stage = "unused"
    BY <2>1 DEF Detail!NotSent
  <2>10. ASSUME signalPlan # Detail!NoPlan
         PROVE  signalPlan.run = 1
    BY <1>r, <2>9, <2>10 DEF DetailInv
  <2>11. Detail!NoPlan' = Detail!NoPlan
    BY DEF Detail!NoPlan
  <2>12. /\ plan'[2].stage = "asked" /\ plan'[2].asked = version
         /\ plan'[1] = plan[1]
    BY <2>3, <2>5
  <2> HIDE DEF Detail!NoPlan
  <2>13. \A n \in Detail!Runs : plan'[n].asked <= version'
    BY <1>r, <1>f, <2>1, <2>12 DEF DetailInv
  <2>14. \A n \in Detail!Runs : plan'[n].stage = "served" => plan'[n].says >= plan'[n].asked
    BY <1>r, <2>12 DEF DetailInv
  <2>15. signalPlan' # Detail!NoPlan' =>
           /\ signalPlan'.run \in Detail!Runs /\ plan'[signalPlan'.run].stage = "over"
           /\ signalPlan'.says >= plan'[signalPlan'.run].asked
           /\ id' \in Junctions => signalPlan'.of = id'
    BY <1>r, <2>1, <2>10, <2>11, <2>12 DEF DetailInv
  <2>16. detailInOrder' /\ detailFaults' = 0 =>
           /\ \A n \in Detail!Runs : plan'[n].stage = "over" => signalPlan'.says >= plan'[n].asked
           /\ plan'[2].stage = "over" => plan'[1].stage = "over"
    BY <1>r, <2>1, <2>12 DEF DetailInv
  <2>17. plan'[1].asked = 0
    BY <2>12 DEF DetailInv
  <2> QED BY <2>7, <2>8, <2>13, <2>14, <2>15, <2>16, <2>17 DEF DetailInv
<1>2. CASE Detail!PlanChanges
  <2>1. /\ version < MaxChanges /\ version' = version + 1
        /\ UNCHANGED <<detailInOrder, id, detailStore, detail, plan, junctionData, signalPlan,
                       countdown, flash, ran, detailFaults>>
    BY <1>2 DEF Detail!PlanChanges, Detail!shown, Detail!override
  <2>2. version' \in 0..MaxChanges /\ \A n \in Detail!Runs : plan'[n].asked <= version'
    <3>1. \A n \in Detail!Runs : plan[n].asked \in Nat /\ plan[n].asked <= version
      BY <1>p DEF DetailInv, DetailPlans
    <3> QED BY <1>b, <1>f, <2>1, <3>1
  <2>3. Detail!TypeOK' /\ Detail!NameIsTrue'
    BY <1>0, <2>1, <2>2 DEF Detail!TypeOK, Detail!NameIsTrue
  <2> QED BY <2>1, <2>2, <2>3 DEF DetailInv, Detail!NoPlan
<1>3. CASE Detail!Tick
  <2>1. /\ countdown' = Detail!Counted(countdown)
        /\ UNCHANGED <<detailInOrder, id, detailStore, version, detail, plan, junctionData,
                       signalPlan, flash, ran, detailFaults>>
    BY <1>3 DEF Detail!Tick, Detail!shown, Detail!override
  <2>2. countdown' \in 0..Hold
    <3>1. countdown \in 0..Hold
      BY <1>0 DEF Detail!TypeOK
    <3> QED BY <1>b, <2>1, <3>1 DEF Detail!Counted
  <2>3. Detail!TypeOK' /\ Detail!NameIsTrue'
    BY <1>0, <2>1, <2>2 DEF Detail!TypeOK, Detail!NameIsTrue
  <2> QED BY <2>1, <2>3, DetailKeeps
<1>4. ASSUME NEW n \in Detail!Runs, Detail!DetailAnswered(n) PROVE DetailInv'
  <2>1. /\ detail' = [detail EXCEPT ![n] = "over"] /\ junctionData' = "ours"
        /\ UNCHANGED <<detailInOrder, id, detailStore, version, plan, signalPlan, countdown,
                       flash, ran, detailFaults>>
    BY <1>4 DEF Detail!DetailAnswered, Detail!override
  <2>2. Detail!TypeOK' /\ Detail!NameIsTrue'
    BY <1>0, <2>1 DEF Detail!TypeOK, Detail!NameIsTrue
  <2> QED BY <2>1, <2>2, DetailKeeps
<1>5. ASSUME NEW n \in Detail!Runs, Detail!DetailFails(n) PROVE DetailInv'
  <2>1. /\ detail' = [detail EXCEPT ![n] = "over"] /\ junctionData' = "placeholder"
        /\ UNCHANGED <<detailInOrder, id, detailStore, version, plan, signalPlan, countdown,
                       flash, ran>>
    BY <1>5 DEF Detail!DetailFails, Detail!override
  <2>2. /\ detailFaults' \in 0..MaxFaults /\ detailFaults' \in {detailFaults, detailFaults + 1}
        /\ id \in Junctions => detailFaults' # 0
    <3>1. CASE id \in Junctions
      BY <1>5, <1>b, <1>f, <1>g, <3>1 DEF Detail!DetailFails
    <3>2. CASE id \notin Junctions
      BY <1>5, <1>f, <3>2 DEF Detail!DetailFails
    <3> QED BY <3>1, <3>2
  <2>3. Detail!TypeOK' /\ Detail!NameIsTrue'
    BY <1>0, <2>1, <2>2 DEF Detail!TypeOK, Detail!NameIsTrue
  <2> QED BY <2>1, <2>2, <2>3, DetailKeeps
<1>6. ASSUME NEW n \in Detail!Runs, Detail!PlanServed(n) PROVE DetailInv'
  <2>1. /\ plan[n].stage = "asked"
        /\ plan' = [plan EXCEPT ![n].stage = "served", ![n].says = version]
        /\ UNCHANGED <<detailInOrder, id, detailStore, version, detail, junctionData, signalPlan,
                       countdown, flash, ran, detailFaults>>
    BY <1>6 DEF Detail!PlanServed, Detail!shown, Detail!override
  <2>2. /\ plan' \in [Detail!Runs -> DetailPlans]
        /\ plan'[n].stage = "served" /\ plan'[n].says = version /\ plan'[n].asked = plan[n].asked
        /\ \A m \in Detail!Runs : m # n => plan'[m] = plan[m]
    <3>1. plan' = ServedPlan(plan, n, version)
      BY <2>1 DEF ServedPlan
    <3>2. version \in 0..MaxChanges
      BY <1>f
    <3> QED BY <1>p, <3>1, <3>2, DetailPlanServed
  <2>3. Detail!TypeOK' /\ Detail!NameIsTrue'
    BY <1>0, <2>1, <2>2 DEF Detail!TypeOK, Detail!NameIsTrue, DetailPlans
  <2>4. \A m \in Detail!Runs : plan'[m].asked = plan[m].asked
    BY <2>2
  <2>5. \A m \in Detail!Runs : (plan'[m].stage = "over") = (plan[m].stage = "over")
    BY <2>1, <2>2
  <2>6. \A m \in Detail!Runs : plan'[m].stage = "served" => plan'[m].says >= plan'[m].asked
    <3>1. version >= plan[n].asked
      <4>1. plan[n].asked \in Nat /\ plan[n].asked <= version
        BY <1>p DEF DetailInv, DetailPlans
      <4> QED BY <1>b, <1>f, <4>1
    <3> QED BY <2>2, <3>1 DEF DetailInv
  <2> QED BY <1>r, <2>1, <2>3, <2>4, <2>5, <2>6 DEF DetailInv, Detail!NoPlan
<1>7. ASSUME NEW n \in Detail!Runs, Detail!PlanArrives(n) PROVE DetailInv'
  <2>1. /\ plan[n].stage = "served"
        /\ detailInOrder => \A m \in Detail!Runs : m < n => plan[m].stage = "over"
        /\ plan' = [plan EXCEPT ![n].stage = "over"]
        /\ signalPlan' = [of |-> Detail!Owner, run |-> n, says |-> plan[n].says]
        /\ UNCHANGED <<detailInOrder, id, detailStore, version, detail, junctionData,
                       countdown, flash, ran, detailFaults>>
    BY <1>7 DEF Detail!PlanArrives, Detail!Shown, Detail!override
  <2>2. /\ plan' \in [Detail!Runs -> DetailPlans]
        /\ plan'[n].stage = "over" /\ plan'[n].says = plan[n].says
        /\ plan'[n].asked = plan[n].asked
        /\ \A m \in Detail!Runs : m # n => plan'[m] = plan[m]
    BY <1>p, <2>1, DetailPlanOver
  <2>3. Detail!Owner \in Junctions /\ (id \in Junctions => Detail!Owner = id)
    BY PagesAssumption DEF Detail!Owner
  <2>4. n \in 0..2 /\ plan[n].says \in 0..MaxChanges
    BY <1>p, <1>r DEF DetailPlans
  <2>5. Detail!TypeOK' /\ Detail!NameIsTrue'
    BY <1>0, <2>1, <2>2, <2>3, <2>4 DEF Detail!TypeOK, Detail!NameIsTrue, DetailPlans
  <2>6. \A m \in Detail!Runs : plan'[m].asked = plan[m].asked /\ plan[m].asked \in Nat
    BY <1>p, <2>2 DEF DetailPlans
  <2>7. \A m \in Detail!Runs : plan'[m].stage = "served" => plan'[m].says >= plan'[m].asked
    BY <2>2 DEF DetailInv
  <2>8. plan[n].says >= plan[n].asked
    BY <2>1 DEF DetailInv
  <2>9. /\ signalPlan'.run = n /\ signalPlan'.says = plan[n].says
        /\ signalPlan'.of = Detail!Owner
    BY <2>1
  <2>10. /\ signalPlan'.run \in Detail!Runs /\ plan'[signalPlan'.run].stage = "over"
         /\ signalPlan'.says >= plan'[signalPlan'.run].asked
         /\ id' \in Junctions => signalPlan'.of = id'
    BY <2>1, <2>2, <2>3, <2>8, <2>9
  <2>11. ASSUME detailInOrder, detailFaults = 0
         PROVE  /\ \A m \in Detail!Runs :
                     plan'[m].stage = "over" => signalPlan'.says >= plan'[m].asked
                /\ plan'[2].stage = "over" => plan'[1].stage = "over"
    <3>1. plan[1].asked = 0 /\ plan[n].says \in Nat
      BY <2>4 DEF DetailInv
    <3>2. CASE n = 1
      <4>1. plan[1].stage # "over"
        BY <2>1, <3>2
      <4>2. plan'[2].stage # "over"
        BY <1>r, <2>2, <2>11, <3>2, <4>1 DEF DetailInv
      <4> QED BY <1>r, <2>2, <2>8, <2>9, <3>2, <4>2
    <3>3. CASE n = 2
      <4>1. plan'[1] = plan[1] /\ plan[1].stage = "over"
        BY <1>r, <2>1, <2>2, <2>11, <3>3
      <4>2. signalPlan'.says >= plan'[1].asked
        BY <2>9, <3>1, <4>1
      <4>3. signalPlan'.says >= plan'[2].asked
        BY <2>2, <2>8, <2>9, <3>3
      <4> QED BY <1>r, <4>1, <4>2, <4>3
    <3> QED BY <1>r, <3>2, <3>3
  <2>12. \A m \in Detail!Runs : plan'[m].asked <= version'
    BY <2>1, <2>6 DEF DetailInv
  <2>13. plan'[1].asked = 0
    BY <1>r, <2>6 DEF DetailInv
  <2>14. detailInOrder' = detailInOrder /\ detailFaults' = detailFaults
    BY <2>1
  <2> QED BY <2>5, <2>7, <2>10, <2>11, <2>12, <2>13, <2>14 DEF DetailInv
<1>8. ASSUME NEW n \in Detail!Runs, Detail!PlanFails(n) PROVE DetailInv'
  <2>1. /\ plan[n].stage \in {"asked", "served"}
        /\ plan' = [plan EXCEPT ![n].stage = "over"]
        /\ detailFaults' = detailFaults + 1 /\ detailFaults' \in 0..MaxFaults
        /\ UNCHANGED <<detailInOrder, id, detailStore, version, detail, junctionData, signalPlan,
                       countdown, flash, ran>>
    BY <1>8, <1>g DEF Detail!PlanFails, Detail!shown, Detail!override
  <2>2. /\ plan' \in [Detail!Runs -> DetailPlans]
        /\ plan'[n].stage = "over" /\ plan'[n].says = plan[n].says
        /\ plan'[n].asked = plan[n].asked
        /\ \A m \in Detail!Runs : m # n => plan'[m] = plan[m]
    BY <1>p, <2>1, DetailPlanOver
  <2>3. detailFaults' # 0
    BY <1>f, <1>b, <2>1
  <2>4. Detail!TypeOK' /\ Detail!NameIsTrue'
    BY <1>0, <2>1, <2>2, <2>3 DEF Detail!TypeOK, Detail!NameIsTrue, DetailPlans
  <2>5. \A m \in Detail!Runs : plan'[m].asked = plan[m].asked
    BY <2>2
  <2>6. \A m \in Detail!Runs : /\ plan[m].stage = "over" => plan'[m].stage = "over"
                               /\ plan'[m].stage = "served" => plan[m] = plan'[m]
    BY <2>1, <2>2
  <2> QED BY <1>r, <2>1, <2>3, <2>4, <2>5, <2>6 DEF DetailInv, Detail!NoPlan
<1>9. ASSUME NEW c \in FlashClicks,
             Detail!Flash(c) \/ Detail!FlashServed(c) \/ Detail!FlashAnswered(c)
               \/ Detail!FlashFails(c)
      PROVE  DetailInv'
  <2>1. UNCHANGED <<detailInOrder, id, detailStore, version, detail, plan, junctionData,
                    signalPlan, countdown>>
    BY <1>9 DEF Detail!Flash, Detail!FlashServed, Detail!FlashAnswered, Detail!FlashFails,
         Detail!shown
  <2>2. detailFaults' \in 0..MaxFaults /\ detailFaults' \in {detailFaults, detailFaults + 1}
    BY <1>9, <1>f, <1>g DEF Detail!Flash, Detail!FlashServed, Detail!FlashAnswered,
         Detail!FlashFails
  <2>3. flash' \in [FlashClicks -> {"unused", "sent", "engaged on controller", "engaged locally"}]
    BY <1>0, <1>9 DEF Detail!Flash, Detail!FlashServed, Detail!FlashAnswered,
         Detail!FlashFails, Detail!TypeOK
  <2>4. ran' \in [FlashClicks -> BOOLEAN]
    BY <1>0, <1>9 DEF Detail!Flash, Detail!FlashServed, Detail!FlashAnswered,
         Detail!FlashFails, Detail!TypeOK
  <2>5. Detail!TypeOK'
    BY <1>0, <2>1, <2>2, <2>3, <2>4 DEF Detail!TypeOK
  <2>6. Detail!NameIsTrue'
    BY <1>0, <1>b, <1>f, <2>1, <2>2 DEF Detail!NameIsTrue
  <2> QED BY <2>1, <2>2, <2>5, <2>6, DetailKeeps
<1>10. CASE UNCHANGED detailVars
  <2>1. UNCHANGED <<detailInOrder, id, detailStore, version, detail, plan, junctionData,
                    signalPlan, countdown, flash, ran, detailFaults>>
    BY <1>10 DEF detailVars
  <2>2. Detail!TypeOK' /\ Detail!NameIsTrue'
    BY <1>0, <2>1 DEF Detail!TypeOK, Detail!NameIsTrue
  <2> QED BY <2>1, <2>2, DetailKeeps
<1> QED BY <1>1, <1>2, <1>3, <1>4, <1>5, <1>6, <1>7, <1>8, <1>9, <1>10 DEF Detail!Next

\* The requests under way but the k-th.
LEMMA RequestRemoved ==
  ASSUME NEW S, requests \in Seq(S), NEW k \in 1..Len(requests)
  PROVE  /\ Forecasting!Without(k) \in Seq(S)
         /\ Len(Forecasting!Without(k)) = Len(requests) - 1
         /\ \A i \in 1..(Len(requests) - 1) :
              Forecasting!Without(k)[i] = IF i < k THEN requests[i] ELSE requests[i + 1]
<1> DEFINE s == requests
           before == SubSeq(s, 1, k - 1)
           after == SubSeq(s, k + 1, Len(s))
<1>1. /\ before \in Seq(S) /\ Len(before) = k - 1
      /\ \A i \in 1..(k - 1) : before[i] = s[i]
  <2>1. \A i \in 1..(k - 1) : s[i] \in S
    OBVIOUS
  <2> QED BY <2>1, SubSeqProperties
<1>2. /\ after \in Seq(S) /\ Len(after) = Len(s) - k
      /\ \A i \in 1..(Len(s) - k) : after[i] = s[i + k]
  <2>1. \A i \in (k + 1)..Len(s) : s[i] \in S
    OBVIOUS
  <2>2. /\ after \in Seq(S)
        /\ Len(after) = IF k + 1 <= Len(s) THEN Len(s) - (k + 1) + 1 ELSE 0
        /\ \A i \in 1..(Len(s) - (k + 1) + 1) : after[i] = s[k + 1 + i - 1]
    BY <2>1, SubSeqProperties
  <2> QED BY <2>2
<1>3. Forecasting!Without(k) = before \o after
  BY DEF Forecasting!Without
<1> HIDE DEF before, after
<1>4. /\ before \o after \in Seq(S) /\ Len(before \o after) = Len(before) + Len(after)
      /\ \A i \in 1..(Len(before) + Len(after)) :
           (before \o after)[i] = IF i <= Len(before) THEN before[i] ELSE after[i - Len(before)]
  BY <1>1, <1>2, ConcatProperties
<1>5. ASSUME NEW i \in 1..(Len(s) - 1)
      PROVE  (before \o after)[i] = IF i < k THEN s[i] ELSE s[i + 1]
  <2>1. CASE i < k
    BY <1>1, <1>2, <1>4, <2>1
  <2>2. CASE ~(i < k)
    <3>1. i - (k - 1) \in 1..(Len(s) - k) /\ (i - (k - 1)) + k = i + 1
      BY <2>2
    <3>2. (before \o after)[i] = after[i - (k - 1)]
      BY <1>1, <1>2, <1>4, <2>2
    <3>3. after[i - (k - 1)] = s[i + 1]
      BY <1>2, <3>1
    <3> QED BY <2>2, <3>2, <3>3
  <2> QED BY <2>1, <2>2
<1> DEFINE rest == before \o after
<1>6. Forecasting!Without(k) = rest
  BY <1>3
<1>7. rest \in Seq(S)
  BY <1>4
<1>8. Len(rest) = Len(s) - 1
  <2>1. Len(rest) = Len(before) + Len(after)
    BY <1>4
  <2> HIDE DEF rest
  <2> QED BY <1>1, <1>2, <2>1
<1>9. \A i \in 1..(Len(s) - 1) : rest[i] = IF i < k THEN s[i] ELSE s[i + 1]
  BY <1>5
<1> HIDE DEF rest
<1> QED BY <1>6, <1>7, <1>8, <1>9

(***************************************************************************)
(* The forecasting page.                                                   *)
(***************************************************************************)
\* A list of the store's names junctions only.
LEMMA StoreLists ==
  ASSUME NEW js \in Forecasting!Stores, js # <<>>
  PROVE  /\ js \in Seq(Junctions) /\ Len(js) >= 1 /\ js[1] \in Junctions
         /\ js[1] \in {js[i] : i \in DOMAIN js}
         /\ {js[i] : i \in DOMAIN js} \subseteq Junctions
<1>1. PICK S \in SUBSET Junctions : js \in Forecasting!Injection(1..Cardinality(S), S)
  BY DEF Forecasting!Stores, Forecasting!Cardinality, Cardinality
<1>2. Cardinality(S) \in Nat
  BY PagesAssumption, FS_Subset, FS_CardinalityType
<1>3. js \in [1..Cardinality(S) -> S]
  BY <1>1 DEF Forecasting!Injection
<1>4. js \in Seq(S) /\ Len(js) = Cardinality(S)
  BY <1>2, <1>3
<1>5. Len(js) # 0
  BY <1>4, EmptySeq
<1>6. js \in [1..Len(js) -> Junctions]
  BY <1>3, <1>4
<1> QED BY <1>2, <1>4, <1>5, <1>6

ForecastIds == Junctions \cup {Default}

\* What is shown, or will be by the last request under way, is about what is selected.
ForecastInv ==
  /\ Forecasting!TypeOK /\ Forecasting!SelectionIsOffered /\ Forecasting!LoadingHasRequest
  /\ forecastTopology = <<>> => Len(requests) <= MaxRequests
  /\ forecastInOrder /\ forecastFaults = 0 =>
       /\ requests = <<>> => forecast.of = selectedJunctionId
       /\ requests # <<>> => requests[Len(requests)] = selectedJunctionId

\* The invariant is what the property says.
LEMMA ForecastFollows == ForecastInv => Forecasting!ForecastOfSelected
BY DEF ForecastInv, Forecasting!ForecastOfSelected

LEMMA ForecastInit == Forecasting!Init => ForecastInv
<1> SUFFICES ASSUME Forecasting!Init PROVE ForecastInv
  OBVIOUS
<1>0. MaxRequests \in Nat \ {0} /\ MaxFaults \in Nat
  BY PagesAssumption
<1>1. /\ forecastInOrder \in BOOLEAN /\ acknowledged \in BOOLEAN /\ forecastLoading \in BOOLEAN
      /\ horizon \in Forecasting!Horizons
  BY DEF Forecasting!Init, Forecasting!Horizons
<1>2. forecast \in [of : ForecastIds, high : BOOLEAN]
  BY DEF Forecasting!Init, ForecastIds
<1>3. forecastTopology \in Forecasting!Stores /\ forecastFaults \in 0..MaxFaults
  BY <1>0 DEF Forecasting!Init
<1>4. CASE forecastTopology = <<>>
  <2>1. requests = <<Default>> /\ selectedJunctionId = Default
    BY <1>4 DEF Forecasting!Init
  <2>2. requests \in Seq(ForecastIds) /\ Len(requests) = 1 /\ requests[1] = Default
        /\ requests # <<>> /\ selectedJunctionId \in ForecastIds
    BY <2>1 DEF ForecastIds
  <2>3. Forecasting!TypeOK
    BY <1>0, <1>1, <1>2, <1>3, <2>2 DEF Forecasting!TypeOK, ForecastIds
  <2>4. Forecasting!SelectionIsOffered /\ Forecasting!LoadingHasRequest
    BY <1>4, <2>1, <2>2 DEF Forecasting!SelectionIsOffered, Forecasting!LoadingHasRequest
  <2> QED BY <1>0, <1>4, <2>1, <2>2, <2>3, <2>4 DEF ForecastInv
<1>5. CASE forecastTopology # <<>>
  <2>2. requests = <<Default, forecastTopology[1]>> /\ selectedJunctionId = forecastTopology[1]
    BY <1>5 DEF Forecasting!Init
  <2>3. /\ forecastTopology[1] \in ForecastIds /\ Default \in ForecastIds
        /\ forecastTopology[1] \in Forecasting!Range(forecastTopology)
    BY <1>3, <1>5, StoreLists DEF ForecastIds, Forecasting!Range
  <2>4. requests \in Seq(ForecastIds) /\ Len(requests) = 2
        /\ requests[2] = selectedJunctionId /\ requests # <<>>
    BY <2>2, <2>3
  <2>5. Forecasting!TypeOK
    BY <1>0, <1>1, <1>2, <1>3, <2>2, <2>3, <2>4 DEF Forecasting!TypeOK, ForecastIds
  <2>6. Forecasting!SelectionIsOffered /\ Forecasting!LoadingHasRequest
    BY <1>5, <2>2, <2>3, <2>4 DEF Forecasting!SelectionIsOffered, Forecasting!LoadingHasRequest
  <2> QED BY <1>5, <2>4, <2>5, <2>6 DEF ForecastInv
<1> QED BY <1>4, <1>5

\* What asks for a forecast of what is selected, or changes neither, keeps the last
\* request about what is selected.
LEMMA ForecastChoice ==
  ASSUME ForecastInv, UNCHANGED <<forecastInOrder, forecast, forecastFaults>>,
         forecastTopology' \in Forecasting!Stores, horizon' \in Forecasting!Horizons,
         acknowledged' \in BOOLEAN, selectedJunctionId' \in ForecastIds,
         Forecasting!SelectionIsOffered',
         \/ /\ Forecasting!Fetch(selectedJunctionId') /\ Len(requests) <= MaxRequests
            /\ forecastTopology' = <<>> => Len(requests) < MaxRequests
         \/ /\ UNCHANGED <<requests, forecastLoading, selectedJunctionId>>
            /\ forecastTopology' = <<>> => Len(requests) <= MaxRequests
  PROVE  ForecastInv'
<1>0. requests \in Seq(ForecastIds) /\ Len(requests) \in Nat /\ MaxRequests \in Nat
  BY PagesAssumption DEF ForecastInv, Forecasting!TypeOK, ForecastIds
<1>1. CASE /\ Forecasting!Fetch(selectedJunctionId') /\ Len(requests) <= MaxRequests
           /\ forecastTopology' = <<>> => Len(requests) < MaxRequests
  <2>1. requests' = Append(requests, selectedJunctionId') /\ forecastLoading' = TRUE
    BY <1>1 DEF Forecasting!Fetch
  <2>2. /\ requests' \in Seq(ForecastIds) /\ requests' # <<>>
        /\ requests'[Len(requests')] = selectedJunctionId'
        /\ Len(requests') = Len(requests) + 1
    BY <1>0, <2>1
  <2>3. forecastLoading' \in BOOLEAN
    BY <2>1
  <2>4. Len(requests') <= MaxRequests + 1
        /\ (forecastTopology' = <<>> => Len(requests') <= MaxRequests)
    BY <1>0, <1>1, <2>2
  <2>5. Forecasting!TypeOK'
    BY <2>2, <2>3, <2>4 DEF ForecastInv, Forecasting!TypeOK, ForecastIds
  <2>6. Forecasting!LoadingHasRequest'
    BY <2>2 DEF Forecasting!LoadingHasRequest
  <2> QED BY <2>2, <2>4, <2>5, <2>6 DEF ForecastInv
<1>2. CASE /\ UNCHANGED <<requests, forecastLoading, selectedJunctionId>>
           /\ forecastTopology' = <<>> => Len(requests) <= MaxRequests
  <2>1. Forecasting!TypeOK'
    BY <1>2 DEF ForecastInv, Forecasting!TypeOK, ForecastIds
  <2>2. Forecasting!LoadingHasRequest'
    BY <1>2 DEF ForecastInv, Forecasting!LoadingHasRequest
  <2>3. forecastTopology' = <<>> => Len(requests') <= MaxRequests
    BY <1>0, <1>2
  <2> QED BY <1>2, <2>1, <2>2, <2>3 DEF ForecastInv
<1> QED BY <1>1, <1>2

\* An answer or an error takes its request from the list, in order the first.
LEMMA ForecastAnswer ==
  ASSUME ForecastInv, NEW k \in DOMAIN requests, forecastInOrder => k = 1,
         requests' = Forecasting!Without(k), forecastLoading' = FALSE,
         forecastFaults' \in 0..MaxFaults, forecast' \in [of : ForecastIds, high : BOOLEAN],
         forecastFaults' = 0 => forecastFaults = 0 /\ forecast'.of = requests[k],
         UNCHANGED <<forecastInOrder, forecastTopology, selectedJunctionId, horizon, acknowledged>>
  PROVE  ForecastInv'
<1>0. /\ requests \in Seq(ForecastIds) /\ Len(requests) \in Nat /\ MaxRequests \in Nat
      /\ k \in 1..Len(requests)
  BY PagesAssumption DEF ForecastInv, Forecasting!TypeOK, ForecastIds
<1>1. /\ requests' \in Seq(ForecastIds) /\ Len(requests') = Len(requests) - 1
      /\ \A i \in 1..(Len(requests) - 1) :
           requests'[i] = IF i < k THEN requests[i] ELSE requests[i + 1]
  BY <1>0, RequestRemoved
<1>2. /\ Len(requests') <= MaxRequests + 1
      /\ (forecastTopology' = <<>> => Len(requests') <= MaxRequests)
  BY <1>0, <1>1 DEF ForecastInv, Forecasting!TypeOK
<1>3. forecastLoading' \in BOOLEAN
  OBVIOUS
<1>4. Forecasting!TypeOK'
  BY <1>1, <1>2, <1>3 DEF ForecastInv, Forecasting!TypeOK, ForecastIds
<1>5. Forecasting!LoadingHasRequest' /\ Forecasting!SelectionIsOffered'
  BY DEF ForecastInv, Forecasting!LoadingHasRequest, Forecasting!SelectionIsOffered
<1>6. ASSUME forecastInOrder', forecastFaults' = 0
      PROVE  /\ requests' = <<>> => forecast'.of = selectedJunctionId'
             /\ requests' # <<>> => requests'[Len(requests')] = selectedJunctionId'
  <2>1. k = 1 /\ forecastFaults = 0 /\ forecastInOrder /\ forecast'.of = requests[1]
    BY <1>6
  <2>2. requests # <<>> /\ requests[Len(requests)] = selectedJunctionId
    BY <1>0, <2>1 DEF ForecastInv
  <2>3. CASE Len(requests) = 1
    BY <1>1, <2>1, <2>2, <2>3
  <2>4. CASE Len(requests) # 1
    <3>1. Len(requests') \in 1..(Len(requests) - 1) /\ Len(requests') + 1 = Len(requests)
      BY <1>0, <1>1, <2>4
    <3>2. requests'[Len(requests')] = requests[Len(requests)]
      BY <1>1, <2>1, <3>1
    <3> QED BY <1>1, <2>2, <3>1, <3>2
  <2> QED BY <2>3, <2>4
<1> QED BY <1>2, <1>4, <1>5, <1>6 DEF ForecastInv

\* Each step keeps the last request about what is selected.
LEMMA ForecastStep == ForecastInv /\ [Forecasting!Next]_forecastingVars => ForecastInv'
<1> SUFFICES ASSUME ForecastInv, [Forecasting!Next]_forecastingVars PROVE ForecastInv'
  OBVIOUS
<1>0. /\ Forecasting!TypeOK /\ Forecasting!SelectionIsOffered
      /\ requests \in Seq(ForecastIds) /\ Len(requests) \in Nat /\ MaxRequests \in Nat
      /\ selectedJunctionId \in ForecastIds /\ MaxFaults \in Nat
  BY PagesAssumption DEF ForecastInv, Forecasting!TypeOK, ForecastIds
<1>s. ASSUME UNCHANGED <<forecastTopology, selectedJunctionId>>
      PROVE  Forecasting!SelectionIsOffered'
  BY <1>0, <1>s DEF Forecasting!SelectionIsOffered
<1>1. CASE Forecasting!StoreLoads
  <2>1. /\ forecastTopology' \in Forecasting!Stores /\ forecastTopology' # <<>>
        /\ Forecasting!Range(forecastTopology) \subseteq Forecasting!Range(forecastTopology')
        /\ selectedJunctionId' = Forecasting!Selection(forecastTopology')
        /\ UNCHANGED <<forecastInOrder, horizon, acknowledged, forecast, forecastFaults>>
    BY <1>1 DEF Forecasting!StoreLoads
  <2>2. horizon' \in Forecasting!Horizons /\ acknowledged' \in BOOLEAN
    BY <1>0, <2>1 DEF Forecasting!TypeOK
  <2>3. CASE forecastTopology = <<>>
    <3>1. selectedJunctionId = Default
      BY <1>0, <2>3 DEF Forecasting!SelectionIsOffered
    <3>2. selectedJunctionId' = forecastTopology'[1]
      BY <2>1, <3>1 DEF Forecasting!Selection
    <3>3. /\ selectedJunctionId' \in Junctions
          /\ selectedJunctionId' \in Forecasting!Range(forecastTopology')
      BY <2>1, <3>2, StoreLists DEF Forecasting!Range
    <3>4. selectedJunctionId' # selectedJunctionId
      BY <3>1, <3>3, PagesAssumption
    <3>5. Forecasting!Fetch(selectedJunctionId')
      BY <1>1, <3>4 DEF Forecasting!StoreLoads, Forecasting!FetchIf
    <3>6. Forecasting!SelectionIsOffered'
      BY <2>1, <3>3 DEF Forecasting!SelectionIsOffered, Forecasting!Range
    <3>7. Len(requests) <= MaxRequests
      BY <2>3 DEF ForecastInv
    <3>8. selectedJunctionId' \in ForecastIds
      BY <3>3 DEF ForecastIds
    <3> QED BY <2>1, <2>2, <3>5, <3>6, <3>7, <3>8, ForecastChoice
  <2>4. CASE forecastTopology # <<>>
    <3>1. selectedJunctionId \in Forecasting!Range(forecastTopology)
      BY <1>0, <2>4 DEF Forecasting!SelectionIsOffered, Forecasting!Range
    <3>2. selectedJunctionId \in Junctions
      BY <1>0, <2>4, <3>1, StoreLists DEF Forecasting!Range, Forecasting!TypeOK
    <3>3. selectedJunctionId' = selectedJunctionId
      BY <2>1, <3>2, PagesAssumption DEF Forecasting!Selection
    <3>4. UNCHANGED <<requests, forecastLoading, selectedJunctionId>>
      BY <1>1, <3>3 DEF Forecasting!StoreLoads, Forecasting!FetchIf
    <3>5. selectedJunctionId' \in Forecasting!Range(forecastTopology')
      BY <2>1, <3>1, <3>3
    <3>6. Forecasting!SelectionIsOffered'
      BY <2>1, <3>5 DEF Forecasting!SelectionIsOffered, Forecasting!Range
    <3> QED BY <1>0, <2>1, <2>2, <3>3, <3>4, <3>6, ForecastChoice
  <2> QED BY <2>3, <2>4
<1>2. ASSUME NEW j \in Junctions, Forecasting!Select(j) PROVE ForecastInv'
  <2>1. /\ j \in Forecasting!Range(forecastTopology) /\ Len(requests) < MaxRequests
        /\ selectedJunctionId' = j
        /\ UNCHANGED <<forecastInOrder, forecastTopology, horizon, acknowledged, forecast,
                       forecastFaults>>
    BY <1>2 DEF Forecasting!Select
  <2>2. \/ Forecasting!Fetch(selectedJunctionId')
        \/ UNCHANGED <<requests, forecastLoading, selectedJunctionId>>
    BY <1>2 DEF Forecasting!Select, Forecasting!FetchIf
  <2>3. forecastTopology # <<>>
    BY <2>1 DEF Forecasting!Range
  <2>4. Forecasting!SelectionIsOffered'
    BY <2>1, <2>3 DEF Forecasting!SelectionIsOffered, Forecasting!Range
  <2>5. /\ forecastTopology' \in Forecasting!Stores /\ horizon' \in Forecasting!Horizons
        /\ acknowledged' \in BOOLEAN /\ selectedJunctionId' \in ForecastIds
    BY <1>0, <2>1 DEF Forecasting!TypeOK, ForecastIds
  <2>6. Len(requests) <= MaxRequests
    BY <1>0, <2>1
  <2> QED BY <1>0, <2>1, <2>2, <2>4, <2>5, <2>6, ForecastChoice
<1>3. ASSUME NEW h \in Forecasting!Horizons, Forecasting!SetHorizon(h) PROVE ForecastInv'
  <2>1. /\ Len(requests) < MaxRequests /\ horizon' = h
        /\ UNCHANGED <<forecastInOrder, forecastTopology, selectedJunctionId, acknowledged,
                       forecast, forecastFaults>>
    BY <1>3 DEF Forecasting!SetHorizon
  <2>2. \/ Forecasting!Fetch(selectedJunctionId')
        \/ UNCHANGED <<requests, forecastLoading, selectedJunctionId>>
    BY <1>3 DEF Forecasting!SetHorizon, Forecasting!FetchIf, Forecasting!Fetch
  <2>3. /\ forecastTopology' \in Forecasting!Stores
        /\ acknowledged' \in BOOLEAN /\ selectedJunctionId' \in ForecastIds
    BY <1>0, <2>1 DEF Forecasting!TypeOK, ForecastIds
  <2>4. Len(requests) <= MaxRequests
    BY <1>0, <2>1
  <2> QED BY <1>0, <1>s, <2>1, <2>2, <2>3, <2>4, ForecastChoice
<1>4. CASE Forecasting!Refresh
  <2>1. /\ Len(requests) < MaxRequests
        /\ UNCHANGED <<forecastInOrder, forecastTopology, selectedJunctionId, horizon,
                       acknowledged, forecast, forecastFaults>>
    BY <1>4 DEF Forecasting!Refresh
  <2>2. Forecasting!Fetch(selectedJunctionId')
    BY <1>4 DEF Forecasting!Refresh, Forecasting!Fetch
  <2>3. /\ forecastTopology' \in Forecasting!Stores /\ horizon' \in Forecasting!Horizons
        /\ acknowledged' \in BOOLEAN /\ selectedJunctionId' \in ForecastIds
    BY <1>0, <2>1 DEF Forecasting!TypeOK, ForecastIds
  <2>4. Len(requests) <= MaxRequests
    BY <1>0, <2>1
  <2> QED BY <1>0, <1>s, <2>1, <2>2, <2>3, <2>4, ForecastChoice
<1>5. ASSUME NEW k \in 1..(MaxRequests + 1), Forecasting!Arrives(k) PROVE ForecastInv'
  <2>1. /\ k \in DOMAIN requests /\ (forecastInOrder => k = 1)
        /\ requests' = Forecasting!Without(k)
        /\ UNCHANGED <<forecastInOrder, forecastTopology, selectedJunctionId, horizon,
                       acknowledged, forecastFaults>>
    BY <1>5 DEF Forecasting!Arrives
  <2>2. PICK h \in BOOLEAN : forecast' = [of |-> requests[k], high |-> h]
    BY <1>5 DEF Forecasting!Arrives
  <2>3. forecastLoading' = FALSE
    BY <1>5 DEF Forecasting!Arrives, Forecasting!LoadingAfter
  <2>4. requests[k] \in ForecastIds
    BY <1>0, <2>1
  <2>5. forecast' \in [of : ForecastIds, high : BOOLEAN] /\ forecast'.of = requests[k]
    BY <2>2, <2>4
  <2>6. forecastFaults' \in 0..MaxFaults
    BY <1>0, <2>1 DEF Forecasting!TypeOK
  <2> QED BY <2>1, <2>3, <2>5, <2>6, ForecastAnswer
<1>6. ASSUME NEW k \in 1..(MaxRequests + 1), Forecasting!Fails(k) PROVE ForecastInv'
  <2>1. /\ k \in DOMAIN requests /\ (forecastInOrder => k = 1)
        /\ requests' = Forecasting!Without(k)
        /\ forecastFaults < MaxFaults /\ forecastFaults' = forecastFaults + 1
        /\ UNCHANGED <<forecastInOrder, forecastTopology, selectedJunctionId, horizon,
                       acknowledged, forecast>>
    BY <1>6 DEF Forecasting!Fails
  <2>2. forecastLoading' = FALSE
    BY <1>6 DEF Forecasting!Fails, Forecasting!LoadingAfter
  <2>3. forecastFaults' \in 0..MaxFaults /\ forecastFaults' # 0
    BY <1>0, <2>1 DEF Forecasting!TypeOK
  <2>4. forecast' \in [of : ForecastIds, high : BOOLEAN]
    BY <1>0, <2>1 DEF Forecasting!TypeOK, ForecastIds
  <2> QED BY <2>1, <2>2, <2>3, <2>4, ForecastAnswer
<1>7. CASE Forecasting!Acknowledge \/ UNCHANGED forecastingVars
  <2>1. UNCHANGED <<forecastInOrder, forecastTopology, selectedJunctionId, horizon,
                    forecastLoading, requests, forecast, forecastFaults>>
    BY <1>7 DEF Forecasting!Acknowledge, forecastingVars
  <2>2. acknowledged' \in BOOLEAN
    BY <1>0, <1>7 DEF Forecasting!Acknowledge, forecastingVars, Forecasting!TypeOK
  <2>3. Forecasting!TypeOK'
    BY <1>0, <2>1, <2>2 DEF Forecasting!TypeOK
  <2>4. Forecasting!LoadingHasRequest'
    BY <2>1 DEF ForecastInv, Forecasting!LoadingHasRequest
  <2> QED BY <1>s, <2>1, <2>3, <2>4 DEF ForecastInv
<1> QED BY <1>1, <1>2, <1>3, <1>4, <1>5, <1>6, <1>7 DEF Forecasting!Next

(***************************************************************************)
(* The routing page.                                                       *)
(***************************************************************************)
Lists == Seq(Sends \cup {OldMessage})
SendStates == [stage : {"unused", "sent", "over"}, text : Texts, saw : Lists]

\* A list as the page may show it: it ends with the message it started with, has each of
\* the others once, and none that was not sent.
GantryList(list, states) ==
  /\ list \in Lists /\ list # <<>> /\ Routing!IsInjective(list)
  /\ list[Len(list)] = OldMessage
  /\ \A s \in Sends : s \in Routing!Range(list) => states[s].stage = "over"

MetSome(s) == \E t \in Sends : t # s /\ {s, t} \in met

\* What each handler saw was such a list, without a message only where two met; and
\* two on their way at the same time have met.
GantryInv ==
  /\ send \in [Sends -> SendStates]
  /\ GantryList(broadcasts, send)
  /\ \A s \in Sends : send[s].stage = "over" => s \in Routing!Range(broadcasts) \/ MetSome(s)
  /\ \A s \in Sends : send[s].stage = "sent" =>
       /\ GantryList(send[s].saw, send)
       /\ \A u \in Sends : send[u].stage = "over" => u \in Routing!Range(send[s].saw) \/ MetSome(u)
  /\ \A s, t \in Sends : send[s].stage = "sent" /\ send[t].stage = "sent" /\ s # t =>
       {s, t} \in met

\* A route is calculated exactly while its request is under way.
RouteInv ==
  /\ isCalculating = (calc = "sent")
  /\ ~isCalculating => (Routing!RouteShown => routeResult.pair = asked)

RoutingInv == Routing!TypeOK /\ RouteInv /\ GantryInv

\* The invariants are what the properties say.
LEMMA RoutingFollows ==
  RoutingInv => Routing!RouteAnswersLastAsked /\ Routing!MissingOnlyIfOverlapped
<1> SUFFICES ASSUME RoutingInv
             PROVE  Routing!RouteAnswersLastAsked /\ Routing!MissingOnlyIfOverlapped
  OBVIOUS
<1>1. Routing!RouteAnswersLastAsked
  BY DEF RoutingInv, RouteInv, Routing!TypeOK, Routing!RouteAnswersLastAsked
<1>2. Routing!MissingOnlyIfOverlapped
  BY DEF RoutingInv, GantryInv, GantryList, MetSome, Routing!MissingOnlyIfOverlapped,
         Routing!Listed
<1> QED BY <1>1, <1>2

LEMMA RoutingInit == Routing!Init => RoutingInv
<1> SUFFICES ASSUME Routing!Init PROVE RoutingInv
  OBVIOUS
<1>1. /\ routingTopology \in Seq(Junctions) /\ originId \in Routing!Places
      /\ destId \in Routing!Places /\ asked \in Routing!Places \X Routing!Places
      /\ calc = "idle" /\ message \in Texts
  BY DEF Routing!Init, Routing!Places
<1>2. isCalculating \in BOOLEAN /\ ~isCalculating
  BY DEF Routing!Init
<1>3. /\ routeResult \in [kind : {"none", "answer", "fallback"},
                          pair : Routing!Places \X Routing!Places]
      /\ routeResult.kind = "none"
  BY DEF Routing!Init, Routing!Places
<1>4. broadcasts = <<OldMessage>> /\ met = {}
  BY DEF Routing!Init
<1>5. broadcasts \in Lists /\ Len(broadcasts) = 1 /\ broadcasts[1] = OldMessage
  BY <1>4 DEF Lists
<1>6. send \in [Sends -> SendStates] /\ \A s \in Sends : send[s].stage = "unused"
  <2>1. <<>> \in Lists /\ Blank \in Texts
    BY RoutingPageAssumption DEF Lists
  <2>2. send = [s \in Sends |-> [stage |-> "unused", text |-> Blank, saw |-> <<>>]]
    BY DEF Routing!Init
  <2> QED BY <2>1, <2>2 DEF SendStates
<1>7. GantryList(broadcasts, send)
  <2>1. \A s \in Sends : s \notin Routing!Range(broadcasts)
    BY <1>5, RoutingPageAssumption DEF Routing!Range, Lists
  <2>2. Routing!IsInjective(broadcasts) /\ broadcasts # <<>>
    BY <1>5 DEF Routing!IsInjective, Lists
  <2> QED BY <1>5, <2>1, <2>2 DEF GantryList
<1>8. Routing!TypeOK
  BY <1>1, <1>2, <1>3, <1>4, <1>5, <1>6 DEF Routing!TypeOK, Lists, SendStates
<1>9. RouteInv
  <2>1. ~Routing!RouteShown
    BY <1>3 DEF Routing!RouteShown
  <2>2. isCalculating = (calc = "sent")
    BY <1>1, <1>2
  <2> QED BY <2>1, <2>2 DEF RouteInv
<1>10. GantryInv
  BY <1>6, <1>7 DEF GantryInv
<1> QED BY <1>8, <1>9, <1>10 DEF RoutingInv

\* A message put in front of a list.
LEMMA Prepended ==
  ASSUME NEW S, NEW list \in Seq(S), NEW s \in S, NEW new, new = <<s>> \o list
  PROVE  /\ new \in Seq(S) /\ Len(new) = Len(list) + 1 /\ new[1] = s
         /\ \A i \in 1..Len(list) : new[i + 1] = list[i]
         /\ \A i \in 2..Len(new) : new[i] = list[i - 1]
<1>1. <<s>> \in Seq(S) /\ Len(<<s>>) = 1 /\ <<s>>[1] = s
  OBVIOUS
<1>2. /\ new \in Seq(S) /\ Len(new) = Len(<<s>>) + Len(list)
      /\ \A i \in 1..(Len(<<s>>) + Len(list)) :
           new[i] = IF i <= Len(<<s>>) THEN <<s>>[i] ELSE list[i - Len(<<s>>)]
  BY <1>1, ConcatProperties
<1>3. /\ Len(new) = Len(list) + 1 /\ Len(list) \in Nat
      /\ \A i \in 1..(Len(list) + 1) : new[i] = IF i <= 1 THEN s ELSE list[i - 1]
  BY <1>1, <1>2
<1>4. new[1] = s /\ \A i \in 2..Len(new) : new[i] = list[i - 1]
  BY <1>3
<1>5. ASSUME NEW i \in 1..Len(list) PROVE new[i + 1] = list[i]
  <2>1. i + 1 \in 2..Len(new) /\ (i + 1) - 1 = i
    BY <1>3
  <2> QED BY <1>4, <2>1
<1> QED BY <1>2, <1>3, <1>4, <1>5

\* A message that is over goes in front of a list it is not in.
LEMMA GantryPrepended ==
  ASSUME NEW list, NEW states, GantryList(list, states), NEW s \in Sends,
         s \notin Routing!Range(list), states[s].stage = "over", NEW new, new = <<s>> \o list
  PROVE  /\ GantryList(new, states)
         /\ \A u : u \in Routing!Range(new) <=> u = s \/ u \in Routing!Range(list)
<1>0. list \in Lists /\ Len(list) \in Nat \ {0} /\ s \in Sends \cup {OldMessage}
  BY DEF GantryList, Lists
<1>1. /\ new \in Lists /\ Len(new) = Len(list) + 1 /\ new[1] = s
      /\ \A i \in 1..Len(list) : new[i + 1] = list[i]
      /\ \A i \in 2..Len(new) : new[i] = list[i - 1]
  BY <1>0, Prepended DEF Lists
<1>d. DOMAIN new = 1..Len(new) /\ DOMAIN list = 1..Len(list)
  BY <1>0, <1>1 DEF Lists
<1>2. ASSUME NEW u PROVE u \in Routing!Range(new) <=> u = s \/ u \in Routing!Range(list)
  <2>1. ASSUME u \in Routing!Range(new) PROVE u = s \/ u \in Routing!Range(list)
    <3>1. PICK i \in 1..Len(new) : u = new[i]
      BY <1>d, <2>1 DEF Routing!Range
    <3>2. CASE i = 1
      BY <1>1, <3>1, <3>2
    <3>3. CASE i # 1
      <4>1. i \in 2..Len(new) /\ i - 1 \in 1..Len(list)
        BY <1>0, <1>1, <3>3
      <4> QED BY <1>1, <1>d, <3>1, <4>1 DEF Routing!Range
    <3> QED BY <3>2, <3>3
  <2>2. s \in Routing!Range(new)
    <3>1. 1 \in 1..Len(new)
      BY <1>0, <1>1
    <3> QED BY <1>1, <1>d, <3>1 DEF Routing!Range
  <2>3. ASSUME u \in Routing!Range(list) PROVE u \in Routing!Range(new)
    <3>1. PICK i \in 1..Len(list) : u = list[i]
      BY <1>d, <2>3 DEF Routing!Range
    <3>2. i + 1 \in 1..Len(new) /\ new[i + 1] = u
      BY <1>0, <1>1, <3>1
    <3> QED BY <1>d, <3>2 DEF Routing!Range
  <2> QED BY <2>1, <2>2, <2>3
<1>3. Routing!IsInjective(new)
  <2>1. ASSUME NEW i \in 1..Len(new), NEW j \in 1..Len(new), i # j PROVE new[i] # new[j]
    <3>1. \A n \in 2..Len(new) : n - 1 \in 1..Len(list) /\ new[n] = list[n - 1]
      BY <1>0, <1>1
    <3>2. \A n \in 1..Len(list) : list[n] # s
      BY <1>d DEF Routing!Range
    <3>3. CASE i = 1
      <4>1. j \in 2..Len(new)
        BY <1>0, <1>1, <2>1, <3>3
      <4> QED BY <1>1, <3>1, <3>2, <3>3, <4>1
    <3>4. CASE j = 1
      <4>1. i \in 2..Len(new)
        BY <1>0, <1>1, <2>1, <3>4
      <4> QED BY <1>1, <3>1, <3>2, <3>4, <4>1
    <3>5. CASE i # 1 /\ j # 1
      <4>1. i \in 2..Len(new) /\ j \in 2..Len(new) /\ i - 1 # j - 1
        BY <1>0, <1>1, <2>1, <3>5
      <4>2. list[i - 1] # list[j - 1]
        BY <1>d, <3>1, <4>1 DEF GantryList, Routing!IsInjective
      <4> QED BY <3>1, <4>1, <4>2
    <3> QED BY <3>3, <3>4, <3>5
  <2> QED BY <1>d, <2>1 DEF Routing!IsInjective
<1>4. new[Len(new)] = OldMessage
  <2>1. Len(new) \in 2..Len(new) /\ Len(new) - 1 = Len(list)
    BY <1>0, <1>1
  <2> QED BY <1>1, <2>1 DEF GantryList
<1>5. \A u \in Sends : u \in Routing!Range(new) => states[u].stage = "over"
  BY <1>2 DEF GantryList
<1>6. new # <<>>
  BY <1>0, <1>1
<1> QED BY <1>1, <1>2, <1>3, <1>4, <1>5, <1>6 DEF GantryList

\* What is over stays over, so a list stays one.
LEMMA GantryKept ==
  ASSUME NEW list, NEW states, NEW later, GantryList(list, states),
         \A s \in Sends : states[s].stage = "over" => later[s].stage = "over"
  PROVE  GantryList(list, later)
BY DEF GantryList

\* A message goes on its way with the list of now.
LEMMA GantrySends ==
  ASSUME GantryInv, NEW s \in Sends, Routing!handleBroadcast(s), message \in Texts
  PROVE  GantryInv'
<1>0. /\ send[s].stage = "unused" /\ broadcasts' = broadcasts
      /\ send' = [send EXCEPT ![s] = [stage |-> "sent", text |-> message, saw |-> broadcasts]]
      /\ met' = met \cup {{s, t} : t \in Routing!InFlight}
  BY DEF Routing!handleBroadcast
<1> DEFINE new == [stage |-> "sent", text |-> message, saw |-> broadcasts]
<1>1. new \in SendStates /\ new.stage = "sent" /\ new.saw = broadcasts
  BY DEF SendStates, GantryInv, GantryList
<1>2. /\ send' \in [Sends -> SendStates]
      /\ send'[s].stage = "sent" /\ send'[s].saw = broadcasts
      /\ \A t \in Sends : t # s => send'[t] = send[t]
  <2> HIDE DEF new
  <2>1. send' = [send EXCEPT ![s] = new]
    BY <1>0 DEF new
  <2>2. send \in [Sends -> SendStates]
    BY DEF GantryInv
  <2> QED BY <1>1, <2>1, <2>2
<1> HIDE DEF new
<1>3. \A t \in Sends : (send[t].stage = "over") = (send'[t].stage = "over")
  BY <1>0, <1>2
<1>4. \A t \in Sends : MetSome(t) => MetSome(t)'
  BY <1>0 DEF MetSome
<1>5. GantryList(broadcasts, send')
  BY <1>3, GantryKept DEF GantryInv
<1>6. \A t \in Sends : send'[t].stage = "over" => t \in Routing!Range(broadcasts) \/ MetSome(t)'
  BY <1>3, <1>4 DEF GantryInv
<1>7. ASSUME NEW t \in Sends, send'[t].stage = "sent"
      PROVE  /\ GantryList(send'[t].saw, send')
             /\ \A u \in Sends : send'[u].stage = "over" =>
                  u \in Routing!Range(send'[t].saw) \/ MetSome(u)'
  <2>1. CASE t = s
    BY <1>2, <1>5, <1>6, <2>1
  <2>2. CASE t # s
    <3>1. send'[t] = send[t] /\ GantryList(send[t].saw, send)
      BY <1>2, <1>7, <2>2 DEF GantryInv
    <3>2. GantryList(send[t].saw, send')
      BY <1>3, <3>1, GantryKept
    <3>3. \A u \in Sends : send[u].stage = "over" => u \in Routing!Range(send[t].saw) \/ MetSome(u)
      BY <1>7, <3>1 DEF GantryInv
    <3> QED BY <1>3, <1>4, <3>1, <3>2, <3>3
  <2> QED BY <2>1, <2>2
<1>8. ASSUME NEW t \in Sends, NEW u \in Sends, send'[t].stage = "sent", send'[u].stage = "sent",
             t # u
      PROVE  {t, u} \in met'
  <2>1. \A v \in Sends : v # s /\ send'[v].stage = "sent" => {s, v} \in met'
    BY <1>0, <1>2 DEF Routing!InFlight
  <2>2. CASE t = s
    BY <1>8, <2>1, <2>2
  <2>3. CASE u = s
    <3>1. {t, u} = {s, t}
      BY <2>3
    <3> QED BY <1>8, <2>1, <2>3, <3>1
  <2>4. CASE t # s /\ u # s
    BY <1>0, <1>2, <1>8, <2>4 DEF GantryInv
  <2> QED BY <2>2, <2>3, <2>4
<1> QED BY <1>0, <1>2, <1>5, <1>6, <1>7, <1>8 DEF GantryInv, MetSome

\* A message that ends is put in front of the list its handler saw; what that list had not
\* was on its way at the same time.
LEMMA GantryEnds ==
  ASSUME GantryInv, NEW s \in Sends, Routing!BroadcastEnds(s)
  PROVE  GantryInv' /\ broadcasts' \in Lists
<1>0. /\ send[s].stage = "sent" /\ met' = met
      /\ send' = [send EXCEPT ![s].stage = "over"]
      /\ broadcasts' = <<s>> \o send[s].saw
  BY DEF Routing!BroadcastEnds, Routing!WithMessage
<1>1. send \in [Sends -> SendStates] /\ send[s] \in SendStates
  BY DEF GantryInv
<1>2. /\ send' \in [Sends -> SendStates]
      /\ send'[s].stage = "over" /\ send'[s].saw = send[s].saw
      /\ \A t \in Sends : t # s => send'[t] = send[t]
  <2> DEFINE new == [send[s] EXCEPT !.stage = "over"]
  <2>1. new \in SendStates /\ new.stage = "over" /\ new.saw = send[s].saw
    BY <1>1 DEF SendStates
  <2>2. send' = [send EXCEPT ![s] = new]
    BY <1>0
  <2> HIDE DEF new
  <2> QED BY <1>1, <2>1, <2>2
<1>3. \A t \in Sends : send[t].stage = "over" => send'[t].stage = "over"
  BY <1>2
<1>4. GantryList(send[s].saw, send) /\ s \notin Routing!Range(send[s].saw)
  BY <1>0 DEF GantryInv, GantryList
<1>5. GantryList(send[s].saw, send')
  BY <1>3, <1>4, GantryKept
<1>6. /\ GantryList(broadcasts', send')
      /\ \A u : u \in Routing!Range(broadcasts') <=> u = s \/ u \in Routing!Range(send[s].saw)
  <2> DEFINE list == send[s].saw
             states == send'
             new == broadcasts'
  <2>1. /\ GantryList(list, states) /\ s \notin Routing!Range(list)
        /\ states[s].stage = "over" /\ new = <<s>> \o list
    BY <1>0, <1>2, <1>4, <1>5
  <2> HIDE DEF list, states, new
  <2>2. /\ GantryList(new, states)
        /\ \A u : u \in Routing!Range(new) <=> u = s \/ u \in Routing!Range(list)
    BY <2>1, GantryPrepended
  <2> QED BY <2>2 DEF list, states, new
<1>7. ASSUME NEW u \in Sends, send'[u].stage = "over"
      PROVE  u \in Routing!Range(broadcasts') \/ MetSome(u)
  <2>1. CASE u = s
    BY <1>6, <2>1
  <2>2. CASE u # s
    <3>1. send[u].stage = "over"
      BY <1>2, <1>7, <2>2
    <3> QED BY <1>0, <1>6, <3>1 DEF GantryInv
  <2> QED BY <2>1, <2>2
<1>8. ASSUME NEW t \in Sends, send'[t].stage = "sent"
      PROVE  /\ GantryList(send'[t].saw, send')
             /\ \A u \in Sends : send'[u].stage = "over" =>
                  u \in Routing!Range(send'[t].saw) \/ MetSome(u)
  <2>1. t # s /\ send'[t] = send[t] /\ send[t].stage = "sent"
    BY <1>2, <1>8
  <2>2. GantryList(send[t].saw, send')
    BY <1>3, <2>1, GantryKept DEF GantryInv
  <2>3. ASSUME NEW u \in Sends, send'[u].stage = "over"
        PROVE  u \in Routing!Range(send[t].saw) \/ MetSome(u)
    <3>1. CASE u = s
      <4>1. {s, t} \in met
        BY <1>0, <2>1 DEF GantryInv
      <4> QED BY <2>1, <3>1, <4>1 DEF MetSome
    <3>2. CASE u # s
      <4>1. send[u].stage = "over"
        BY <1>2, <2>3, <3>2
      <4> QED BY <2>1, <4>1 DEF GantryInv
    <3> QED BY <3>1, <3>2
  <2> QED BY <2>1, <2>2, <2>3
<1>9. \A t, u \in Sends : send'[t].stage = "sent" /\ send'[u].stage = "sent" /\ t # u =>
        {t, u} \in met'
  BY <1>0, <1>2 DEF GantryInv
<1>10. \A u \in Sends : MetSome(u)' = MetSome(u)
  BY <1>0 DEF MetSome
<1>11. broadcasts' \in Lists
  BY <1>6 DEF GantryList
<1> QED BY <1>2, <1>6, <1>7, <1>8, <1>9, <1>10, <1>11 DEF GantryInv

\* What changes no message keeps the lists.
LEMMA GantryStays ==
  ASSUME GantryInv, UNCHANGED <<send, broadcasts, met>>
  PROVE  GantryInv'
BY DEF GantryInv, MetSome

\* A list the store's answer may bring.
LEMMA RoutingStores ==
  ASSUME NEW js \in Routing!Injection(1..Cardinality(Junctions), Junctions)
                     \cup {<<j>> : j \in Junctions}
  PROVE  js \in Seq(Junctions)
<1>1. CASE js \in Routing!Injection(1..Cardinality(Junctions), Junctions)
  <2>1. Cardinality(Junctions) \in Nat
    BY PagesAssumption, FS_CardinalityType
  <2>2. js \in [1..Cardinality(Junctions) -> Junctions]
    BY <1>1 DEF Routing!Injection
  <2> QED BY <2>1, <2>2
<1>2. CASE js \in {<<j>> : j \in Junctions}
  <2>1. PICK j \in Junctions : js = <<j>>
    BY <1>2
  <2>2. <<j>> \in Seq(Junctions)
    OBVIOUS
  <2> QED BY <2>1, <2>2
<1> QED BY <1>1, <1>2

\* Each step keeps the route of the last question and the lists.
LEMMA RoutingStep == RoutingInv /\ [Routing!Next]_routingVars => RoutingInv'
<1> SUFFICES ASSUME RoutingInv, [Routing!Next]_routingVars PROVE RoutingInv'
  OBVIOUS
<1>0. Routing!TypeOK /\ RouteInv /\ GantryInv
  BY DEF RoutingInv
<1>1. ASSUME UNCHANGED <<asked, calc, isCalculating, routeResult>> PROVE RouteInv'
  BY <1>0, <1>1 DEF RouteInv, Routing!RouteShown
<1>2. CASE Routing!StoreLoads
  <2>1. UNCHANGED <<asked, calc, isCalculating, routeResult, message, send, broadcasts, met>>
    BY <1>2 DEF Routing!StoreLoads, Routing!route, Routing!gantry
  <2>2. PICK js \in Routing!Injection(1..Cardinality(Junctions), Junctions)
                   \cup {<<j>> : j \in Junctions} :
          /\ routingTopology' = js
          /\ originId' = IF Len(js) >= 2 /\ originId = None THEN js[1] ELSE originId
          /\ destId' = IF Len(js) >= 2 /\ destId = None THEN js[2] ELSE destId
    BY <1>2 DEF Routing!StoreLoads, Routing!Cardinality, Cardinality
  <2>3. js \in Seq(Junctions)
    BY RoutingStores
  <2>4. routingTopology' \in Seq(Junctions) /\ originId' \in Routing!Places
        /\ destId' \in Routing!Places
    BY <1>0, <2>2, <2>3 DEF Routing!TypeOK, Routing!Places
  <2>5. Routing!TypeOK'
    BY <1>0, <2>1, <2>4 DEF Routing!TypeOK, Routing!Places
  <2> QED BY <1>0, <1>1, <2>1, <2>5, GantryStays DEF RoutingInv
<1>3. ASSUME NEW j \in Junctions, Routing!ChooseOrigin(j) \/ Routing!ChooseDest(j)
      PROVE  RoutingInv'
  <2>1. UNCHANGED <<routingTopology, asked, calc, isCalculating, routeResult, message, send,
                    broadcasts, met>>
    BY <1>3 DEF Routing!ChooseOrigin, Routing!ChooseDest, Routing!route, Routing!gantry
  <2>2. originId' \in Routing!Places /\ destId' \in Routing!Places
    BY <1>0, <1>3 DEF Routing!ChooseOrigin, Routing!ChooseDest, Routing!TypeOK, Routing!Places
  <2>3. Routing!TypeOK'
    BY <1>0, <2>1, <2>2 DEF Routing!TypeOK, Routing!Places
  <2> QED BY <1>0, <1>1, <2>1, <2>3, GantryStays DEF RoutingInv
<1>4. CASE Routing!handleCalculate
  <2>1. /\ asked' = <<originId, destId>> /\ calc' = "sent"
        /\ UNCHANGED <<routingTopology, originId, destId, routeResult, message, send,
                       broadcasts, met>>
    BY <1>4 DEF Routing!handleCalculate, Routing!choice, Routing!gantry
  <2>2. isCalculating' /\ isCalculating' \in BOOLEAN
    BY <1>4 DEF Routing!handleCalculate
  <2>3. Routing!TypeOK'
    BY <1>0, <2>1, <2>2 DEF Routing!TypeOK, Routing!Places
  <2>4. RouteInv'
    BY <2>1, <2>2 DEF RouteInv
  <2> QED BY <1>0, <2>1, <2>3, <2>4, GantryStays DEF RoutingInv
<1>5. CASE Routing!RouteArrives
  <2>1. /\ calc' = "idle"
        /\ UNCHANGED <<routingTopology, originId, destId, asked, message, send, broadcasts, met>>
    BY <1>5 DEF Routing!RouteArrives, Routing!choice, Routing!gantry
  <2>2. ~isCalculating' /\ isCalculating' \in BOOLEAN
    BY <1>5 DEF Routing!RouteArrives
  <2>3. PICK kind \in {"answer", "fallback"} : routeResult' = [kind |-> kind, pair |-> asked]
    BY <1>5 DEF Routing!RouteArrives, Routing!Answer
  <2>4. /\ routeResult' \in [kind : {"none", "answer", "fallback"},
                             pair : Routing!Places \X Routing!Places]
        /\ routeResult'.pair = asked
    BY <1>0, <2>3 DEF Routing!TypeOK
  <2>5. Routing!TypeOK'
    BY <1>0, <2>1, <2>2, <2>4 DEF Routing!TypeOK, Routing!Places
  <2>6. RouteInv'
    <3>1. isCalculating' = (calc' = "sent")
      BY <2>1, <2>2
    <3> QED BY <2>1, <2>4, <3>1 DEF RouteInv
  <2> QED BY <1>0, <2>1, <2>5, <2>6, GantryStays DEF RoutingInv
<1>6. ASSUME NEW t \in Texts, Routing!Type(t) PROVE RoutingInv'
  <2>1. /\ message' = t
        /\ UNCHANGED <<routingTopology, originId, destId, asked, calc, isCalculating,
                       routeResult, send, broadcasts, met>>
    BY <1>6 DEF Routing!Type, Routing!choice, Routing!route
  <2>2. Routing!TypeOK'
    BY <1>0, <2>1 DEF Routing!TypeOK, Routing!Places
  <2> QED BY <1>0, <1>1, <2>1, <2>2, GantryStays DEF RoutingInv
<1>7. ASSUME NEW s \in Sends, Routing!handleBroadcast(s) PROVE RoutingInv'
  <2>1. /\ met' = met \cup {{s, t} : t \in Routing!InFlight}
        /\ UNCHANGED <<routingTopology, originId, destId, asked, calc, isCalculating,
                       routeResult, message, broadcasts>>
    BY <1>7 DEF Routing!handleBroadcast, Routing!choice, Routing!route
  <2>2. met' \subseteq SUBSET Sends
    BY <1>0, <2>1 DEF Routing!TypeOK, Routing!InFlight
  <2>3. GantryInv'
    BY <1>0, <1>7, GantrySends DEF Routing!TypeOK
  <2>4. send' \in [Sends -> SendStates]
    BY <2>3 DEF GantryInv
  <2>5. Routing!TypeOK'
    BY <1>0, <2>1, <2>2, <2>4 DEF Routing!TypeOK, Routing!Places, SendStates, Lists
  <2> QED BY <1>1, <2>1, <2>3, <2>5 DEF RoutingInv
<1>8. ASSUME NEW s \in Sends, Routing!BroadcastEnds(s) PROVE RoutingInv'
  <2>1. UNCHANGED <<routingTopology, originId, destId, asked, calc, isCalculating, routeResult,
                    message, met>>
    BY <1>8 DEF Routing!BroadcastEnds, Routing!choice, Routing!route
  <2>2. GantryInv' /\ broadcasts' \in Lists
    BY <1>0, <1>8, GantryEnds
  <2>3. send' \in [Sends -> SendStates]
    BY <2>2 DEF GantryInv
  <2>4. Routing!TypeOK'
    BY <1>0, <2>1, <2>2, <2>3 DEF Routing!TypeOK, Routing!Places, SendStates, Lists
  <2> QED BY <1>1, <2>1, <2>2, <2>4 DEF RoutingInv
<1>9. CASE UNCHANGED routingVars
  <2>1. UNCHANGED <<routingTopology, originId, destId, asked, calc, isCalculating, routeResult,
                    message, send, broadcasts, met>>
    BY <1>9 DEF routingVars
  <2>2. Routing!TypeOK'
    BY <1>0, <2>1 DEF Routing!TypeOK, Routing!Places
  <2> QED BY <1>0, <1>1, <2>1, <2>2, GantryStays DEF RoutingInv
<1> QED BY <1>2, <1>3, <1>4, <1>5, <1>6, <1>7, <1>8, <1>9 DEF Routing!Next

(***************************************************************************)
(* The traffic map.                                                        *)
(***************************************************************************)
MapPins == [queue : Int, speed : Int, status : {"congested", "normal"}]
FeedEntries == [by : {"bridge", "api", "signals"}, step : Int]

\* What a pin shows is what the last report said at its place, or the page's own.
PinsInv ==
  \A i \in 1..Pins :
    /\ where[i] = "twin" => /\ report # <<>>
                            /\ pins[i] = TrafficMap!Reported(TrafficMap!Dealt(i, report))
    /\ where[i] # "twin" =>
         /\ pins[i] = TrafficMap!Pin(pins[i].queue, pins[i].speed)
         /\ pins[i].queue \in MinQueue..MaxQueue /\ pins[i].speed \in MinSpeed..MaxSpeed

\* Until the bridge is restarted, the feed has none of its steps that is still to come.
BridgeInOrder(list, last) ==
  /\ \A i \in DOMAIN list : list[i].by = "bridge" => list[i].step <= last
  /\ \A i, j \in DOMAIN list :
       i < j /\ list[i].by = "bridge" /\ list[j].by = "bridge" => list[i].step > list[j].step
FeedInv ==
  /\ Len(feedEvents) <= FeedLength
  /\ ~restarted => BridgeInOrder(feedEvents, step)

MapInv ==
  /\ TrafficMap!TypeOK /\ PinsInv /\ FeedInv
  /\ loop.twin => isTwinConnected

\* Places that are dealt out in turn.
LEMMA ModuloPlaces ==
  ASSUME NEW n \in Nat \ {0}, NEW i \in Nat \ {0}
  PROVE  /\ TrafficMap!Modulo(i, n) \in 1..n
         /\ i <= n => TrafficMap!Modulo(i, n) = i
<1>1. (i - 1) % n \in 0..(n - 1)
  OBVIOUS
<1>2. i <= n => (i - 1) % n = i - 1
  OBVIOUS
<1> QED BY <1>1, <1>2 DEF TrafficMap!Modulo

\* What the bridge says of a traffic light has a queue, a speed and a flag.
LEMMA EntryFields ==
  ASSUME NEW e \in TrafficMap!Entries
  PROVE  e.queue \in Int /\ e.speed \in Int /\ e.is_congested \in BOOLEAN
<1>1. PICK l \in 1..Lights, r \in Reports : e = TrafficMap!Entry(l, r)
  BY DEF TrafficMap!Entries
<1>2. r \in [queue : Int, speed : Int, is_congested : BOOLEAN]
  BY TrafficMapPageAssumption
<1> QED BY <1>1, <1>2 DEF TrafficMap!Entry

\* A report of all traffic lights has each at its place, and any other is shorter.
LEMMA ReportShape ==
  ASSUME NEW m \in TrafficMap!Whole \cup TrafficMap!Partial
  PROVE  /\ m \in Seq(TrafficMap!Entries)
         /\ Len(m) = Lights => \A l \in 1..Lights : m[l].id = l
<1>0. Lights \in Nat \ {0}
  BY TrafficMapPageAssumption
<1>1. CASE m \in TrafficMap!Whole
  <2>1. PICK f \in [1..Lights -> Reports] : m = [l \in 1..Lights |-> TrafficMap!Entry(l, f[l])]
    BY <1>1 DEF TrafficMap!Whole
  <2>2. ASSUME NEW l \in 1..Lights PROVE m[l] \in TrafficMap!Entries /\ m[l].id = l
    <3>1. m[l] = TrafficMap!Entry(l, f[l]) /\ f[l] \in Reports
      BY <2>1
    <3> QED BY <3>1 DEF TrafficMap!Entry, TrafficMap!Entries
  <2>3. m \in [1..Lights -> TrafficMap!Entries]
    BY <2>1, <2>2
  <2> HIDE DEF TrafficMap!Entries
  <2>4. m \in Seq(TrafficMap!Entries)
    BY <1>0, <2>3
  <2> QED BY <2>2, <2>4
<1>2. CASE m \in TrafficMap!Partial
  <2>1. PICK n \in 0..(Lights - 1) : m \in [1..n -> TrafficMap!Entries]
    BY <1>2 DEF TrafficMap!Partial
  <2>2. n \in Nat /\ n < Lights
    BY <1>0
  <2>3. m \in Seq(TrafficMap!Entries) /\ Len(m) = n
    BY <2>1, <2>2
  <2> QED BY <1>0, <2>2, <2>3
<1> QED BY <1>1, <1>2

\* Each junction of the store shows one report, that of its place.
LEMMA MapFollows ==
  MapInv => TrafficMap!OneReportEach /\ TrafficMap!OwnStatusFollows /\ TrafficMap!FeedInOrder
<1> SUFFICES ASSUME MapInv
             PROVE  /\ TrafficMap!OneReportEach /\ TrafficMap!OwnStatusFollows
                    /\ TrafficMap!FeedInOrder
  OBVIOUS
<1>1. TrafficMap!OwnStatusFollows
  BY DEF MapInv, PinsInv, TrafficMap!OwnStatusFollows
<1>2. TrafficMap!FeedInOrder
  BY DEF MapInv, FeedInv, BridgeInOrder, TrafficMap!FeedInOrder
<1>3. ASSUME report # <<>>, NEW k \in 1..MaxStore,
             NEW place, place = TrafficMap!Modulo(k, Pins), where[place] = "twin",
             NEW own, own = report[TrafficMap!Modulo(place, Len(report))]
      PROVE  /\ TrafficMap!baseJunction(k) = TrafficMap!Reported(own)
             /\ (TrafficMap!getMarkerColor(k) = "red") = own.is_congested
             /\ Len(report) = Lights => own.id = TrafficMap!Modulo(place, Lights)
  <2>0. /\ Pins \in Nat \ {0} /\ Lights \in Nat \ {0} /\ k \in Nat \ {0}
        /\ report \in Seq(TrafficMap!Entries)
        /\ Len(report) = Lights => \A l \in 1..Lights : report[l].id = l
    <3>1. report \in TrafficMap!Whole \cup TrafficMap!Partial
      BY DEF MapInv, TrafficMap!TypeOK
    <3>2. /\ report \in Seq(TrafficMap!Entries)
          /\ Len(report) = Lights => \A l \in 1..Lights : report[l].id = l
      BY <3>1, ReportShape
    <3> QED BY <3>2, TrafficMapPageAssumption, PagesAssumption
  <2>1. Len(report) \in Nat \ {0}
    BY <1>3, <2>0, EmptySeq, LenProperties
  <2>2. place \in 1..Pins /\ place \in Nat \ {0}
    <3>1. TrafficMap!Modulo(k, Pins) \in 1..Pins
      BY <2>0, ModuloPlaces
    <3> QED BY <1>3, <2>0, <3>1
  <2>3. TrafficMap!baseJunction(k) = TrafficMap!Reported(own)
    BY <1>3, <2>2 DEF MapInv, PinsInv, TrafficMap!baseJunction, TrafficMap!Dealt
  <2>4. own \in TrafficMap!Entries
    <3>1. TrafficMap!Modulo(place, Len(report)) \in 1..Len(report)
      BY <2>1, <2>2, ModuloPlaces
    <3> QED BY <1>3, <2>0, <3>1, ElementOfSeq
  <2>5. own.is_congested \in BOOLEAN
    BY <2>4, EntryFields
  <2>6. (TrafficMap!getMarkerColor(k) = "red") = own.is_congested
    <3>1. CASE own.is_congested
      <4>1. TrafficMap!baseJunction(k).status = "congested"
        BY <2>3, <3>1 DEF TrafficMap!Reported, TrafficMap!Status
      <4>2. TrafficMap!getMarkerColor(k) = "red"
        BY <4>1 DEF TrafficMap!getMarkerColor
      <4> QED BY <2>5, <3>1, <4>2
    <3>2. CASE ~own.is_congested
      <4>1. TrafficMap!baseJunction(k).status = "normal"
        BY <2>3, <3>2 DEF TrafficMap!Reported, TrafficMap!Status
      <4>2. TrafficMap!getMarkerColor(k) # "red"
        BY <4>1 DEF TrafficMap!getMarkerColor
      <4> QED BY <2>5, <3>2, <4>2
    <3> QED BY <3>1, <3>2
  <2>7. Len(report) = Lights => own.id = TrafficMap!Modulo(place, Lights)
    <3>1. TrafficMap!Modulo(place, Lights) \in 1..Lights
      BY <2>0, <2>2, ModuloPlaces
    <3> QED BY <1>3, <2>0, <3>1
  <2> QED BY <2>3, <2>6, <2>7
<1>4. TrafficMap!OneReportEach
  BY <1>3 DEF TrafficMap!OneReportEach
<1> QED BY <1>1, <1>2, <1>4

\* What the page makes of a queue and a speed.
LEMMA OwnPin ==
  ASSUME NEW q \in Int, NEW s \in Int
  PROVE  /\ TrafficMap!Pin(q, s) \in MapPins
         /\ TrafficMap!Pin(q, s).queue = q /\ TrafficMap!Pin(q, s).speed = s
BY DEF TrafficMap!Pin, TrafficMap!Status, MapPins

\* What it shows of a report.
LEMMA ReportedPin ==
  ASSUME NEW list \in Seq(TrafficMap!Entries), list # <<>>, NEW i \in 1..Pins
  PROVE  TrafficMap!Reported(TrafficMap!Dealt(i, list)) \in MapPins
<1>1. Len(list) \in Nat \ {0} /\ i \in Nat \ {0}
  <2>1. Pins \in Nat
    BY TrafficMapPageAssumption
  <2>2. Len(list) \in Nat \ {0}
    BY EmptySeq, LenProperties
  <2> QED BY <2>1, <2>2
<1> DEFINE r == TrafficMap!Dealt(i, list)
<1>2. r \in TrafficMap!Entries
  <2>1. TrafficMap!Modulo(i, Len(list)) \in 1..Len(list)
    BY <1>1, ModuloPlaces
  <2> QED BY <2>1, ElementOfSeq DEF TrafficMap!Dealt
<1> HIDE DEF r
<1>3. r.queue \in Int /\ r.speed \in Int
  BY <1>2, EntryFields
<1>4. TrafficMap!Status(r.is_congested) \in {"congested", "normal"}
  BY DEF TrafficMap!Status
<1> QED BY <1>3, <1>4 DEF r, TrafficMap!Reported, MapPins

LEMMA MapInit == TrafficMap!Init => MapInv
<1> SUFFICES ASSUME TrafficMap!Init PROVE MapInv
  OBVIOUS
<1>0. /\ Pins \in Nat \ {0} /\ MaxSteps \in Nat /\ MaxStore \in Nat /\ FeedLength \in Nat
      /\ MinQueue \in Int /\ MaxQueue \in Int /\ MinSpeed \in Int /\ MaxSpeed \in Int
  BY TrafficMapPageAssumption, PagesAssumption
<1>1. PICK q \in MinQueue..MaxQueue, s \in MinSpeed..MaxSpeed :
        pins = [i \in 1..Pins |-> TrafficMap!Pin(q, s)]
  BY DEF TrafficMap!Init
<1>2. q \in Int /\ s \in Int
  BY <1>0
<1>3. /\ pins \in [1..Pins -> MapPins]
      /\ \A i \in 1..Pins : /\ pins[i] = TrafficMap!Pin(pins[i].queue, pins[i].speed)
                            /\ pins[i].queue \in MinQueue..MaxQueue
                            /\ pins[i].speed \in MinSpeed..MaxSpeed
  BY <1>1, <1>2, OwnPin
<1>4. where \in [1..Pins -> {"default", "drift", "twin"}] /\ \A i \in 1..Pins : where[i] # "twin"
  BY DEF TrafficMap!Init
<1>5. loop \in [playing : BOOLEAN, twin : BOOLEAN] /\ ~loop.twin
  BY DEF TrafficMap!Init
<1>6. isPlaying \in BOOLEAN /\ isTwinConnected \in BOOLEAN /\ restarted \in BOOLEAN
  BY DEF TrafficMap!Init
<1>7. /\ report = <<>> /\ step \in 0..MaxSteps
      /\ feedEvents = <<>> /\ Len(feedEvents) = 0 /\ DOMAIN feedEvents = {}
  BY <1>0 DEF TrafficMap!Init
<1>8. feedEvents \in Seq(FeedEntries)
  BY <1>7
<1>9. report \in TrafficMap!Partial
  <2>1. report \in [1..0 -> TrafficMap!Entries] /\ DOMAIN report = {}
    BY <1>7
  <2>2. 0 \in 0..(Lights - 1)
    BY TrafficMapPageAssumption
  <2> QED BY <2>1, <2>2 DEF TrafficMap!Partial
<1>10. TrafficMap!TypeOK
  BY <1>3, <1>4, <1>5, <1>6, <1>7, <1>8, <1>9 DEF TrafficMap!TypeOK, MapPins, FeedEntries
<1>11. PinsInv
  BY <1>3, <1>4 DEF PinsInv
<1>12. FeedInv
  BY <1>0, <1>7 DEF FeedInv, BridgeInOrder
<1> QED BY <1>5, <1>10, <1>11, <1>12 DEF MapInv

\* A new entry of the feed is its first.
LEMMA FeedPut ==
  ASSUME feedEvents \in Seq(FeedEntries), NEW e \in FeedEntries, Len(feedEvents) <= FeedLength,
         NEW new, new = TrafficMap!PutInFeed(e)
  PROVE  /\ new \in Seq(FeedEntries) /\ Len(new) <= FeedLength /\ Len(new) >= 1 /\ new[1] = e
         /\ \A i \in 2..Len(new) : i - 1 \in DOMAIN feedEvents /\ new[i] = feedEvents[i - 1]
<1>0. FeedLength \in Nat \ {0} /\ Len(feedEvents) \in Nat
  BY TrafficMapPageAssumption
<1> DEFINE S == FeedEntries
           list == feedEvents
           full == <<e>> \o list
           last == IF Len(list) < FeedLength THEN Len(list) + 1 ELSE FeedLength
<1>s. list \in Seq(S) /\ e \in S
  OBVIOUS
<1> HIDE DEF S
<1>1. /\ full \in Seq(S) /\ Len(full) = Len(list) + 1 /\ full[1] = e
      /\ \A i \in 2..Len(full) : full[i] = list[i - 1]
  BY <1>s, Prepended
<1>2. last \in 1..Len(full) /\ last <= FeedLength /\ last <= Len(list) + 1
  BY <1>0, <1>1
<1>3. new = SubSeq(full, 1, last)
  BY DEF TrafficMap!PutInFeed
<1> HIDE DEF full, last
<1>4. \A i \in 1..last : full[i] \in S
  BY <1>1, <1>2
<1>l. last \in Nat /\ 1 <= last
  BY <1>2
<1>5. /\ SubSeq(full, 1, last) \in Seq(S)
      /\ Len(SubSeq(full, 1, last)) = IF 1 <= last THEN last - 1 + 1 ELSE 0
      /\ \A i \in 1..(last - 1 + 1) : SubSeq(full, 1, last)[i] = full[1 + i - 1]
  BY <1>l, <1>4, SubSeqProperties
<1> DEFINE cut == SubSeq(full, 1, last)
<1>c. new = cut /\ cut \in Seq(S) /\ Len(cut) = (IF 1 <= last THEN last - 1 + 1 ELSE 0)
      /\ \A i \in 1..(last - 1 + 1) : cut[i] = full[1 + i - 1]
  BY <1>3, <1>5
<1> HIDE DEF cut
<1>6. new \in Seq(S) /\ Len(new) = last /\ \A i \in 1..last : new[i] = full[i]
  <2>1. new \in Seq(S) /\ Len(new) = last
    <3>1. last - 1 + 1 = last
      BY <1>l
    <3>2. Len(cut) = last
      BY <1>l, <1>c, <3>1
    <3> QED BY <1>c, <3>2
  <2>2. ASSUME NEW i \in 1..last PROVE new[i] = full[i]
    <3>1. i \in 1..(last - 1 + 1) /\ 1 + i - 1 = i
      BY <1>l
    <3>2. cut[i] = full[1 + i - 1]
      BY <1>c, <3>1
    <3> QED BY <1>c, <3>1, <3>2
  <2> QED BY <2>1, <2>2
<1>7. new[1] = e
  <2>1. 1 \in 1..last
    BY <1>l
  <2> QED BY <1>1, <1>6, <2>1
<1>8. \A i \in 2..Len(new) : i - 1 \in DOMAIN list /\ new[i] = list[i - 1]
  BY <1>0, <1>1, <1>2, <1>6
<1> QED BY <1>2, <1>6, <1>7, <1>8 DEF S

\* An entry that is a step of the bridge is the newest, or another is put in the feed.
LEMMA FeedTakes ==
  ASSUME MapInv, NEW e \in FeedEntries, feedEvents' = TrafficMap!PutInFeed(e),
         ~restarted' => ~restarted /\ step <= step' /\ step' \in Nat,
         ~restarted' /\ e.by = "bridge" => step < e.step /\ e.step <= step'
  PROVE  feedEvents' \in Seq(FeedEntries) /\ FeedInv'
<1>0. /\ feedEvents \in Seq(FeedEntries) /\ Len(feedEvents) <= FeedLength /\ step \in Nat
      /\ ~restarted => BridgeInOrder(feedEvents, step)
  BY TrafficMapPageAssumption DEF MapInv, FeedInv, TrafficMap!TypeOK, FeedEntries
<1>b. feedEvents \in Seq(FeedEntries) /\ Len(feedEvents) <= FeedLength
  BY <1>0
<1>1. \A q : q = TrafficMap!PutInFeed(e) =>
        /\ q \in Seq(FeedEntries) /\ Len(q) <= FeedLength /\ Len(q) >= 1 /\ q[1] = e
        /\ \A i \in 2..Len(q) : i - 1 \in DOMAIN feedEvents /\ q[i] = feedEvents[i - 1]
  BY <1>b, FeedPut
<1> DEFINE new == feedEvents'
<1>2. /\ new \in Seq(FeedEntries) /\ Len(new) <= FeedLength /\ Len(new) >= 1 /\ new[1] = e
      /\ \A i \in 2..Len(new) : i - 1 \in DOMAIN feedEvents /\ new[i] = feedEvents[i - 1]
  BY <1>1
<1> HIDE DEF new
<1>3. ASSUME ~restarted' PROVE BridgeInOrder(new, step')
  <2>0. /\ step <= step' /\ step' \in Nat /\ BridgeInOrder(feedEvents, step)
        /\ e.by = "bridge" => step < e.step /\ e.step <= step'
    BY <1>0, <1>3
  <2>1. DOMAIN new = 1..Len(new) /\ Len(new) \in Nat
    BY <1>2
  <2>2. ASSUME NEW i \in 2..Len(new), new[i].by = "bridge"
        PROVE  new[i].step <= step /\ new[i].step \in Int
    <3>1. i - 1 \in DOMAIN feedEvents /\ new[i] = feedEvents[i - 1]
      BY <1>2
    <3>2. feedEvents[i - 1] \in FeedEntries
      BY <1>0, <3>1, ElementOfSeq, LenProperties
    <3>3. feedEvents[i - 1].step \in Int
      BY <3>2 DEF FeedEntries
    <3> QED BY <2>0, <2>2, <3>1, <3>3 DEF BridgeInOrder
  <2>3. e.step \in Int
    BY DEF FeedEntries
  <2>4. ASSUME NEW i \in DOMAIN new, new[i].by = "bridge" PROVE new[i].step <= step'
    <3>1. CASE i = 1
      BY <1>2, <2>0, <2>4, <3>1
    <3>2. CASE i # 1
      <4>1. i \in 2..Len(new)
        BY <2>1, <3>2
      <4> QED BY <1>0, <2>0, <2>2, <2>4, <4>1
    <3> QED BY <3>1, <3>2
  <2>5. ASSUME NEW i \in DOMAIN new, NEW j \in DOMAIN new, i < j,
               new[i].by = "bridge", new[j].by = "bridge"
        PROVE  new[i].step > new[j].step
    <3>0. j \in 2..Len(new)
      BY <2>1, <2>5
    <3>1. CASE i = 1
      BY <1>0, <1>2, <2>0, <2>2, <2>3, <2>5, <3>0, <3>1
    <3>2. CASE i # 1
      <4>1. i \in 2..Len(new) /\ i - 1 < j - 1
        BY <2>1, <2>5, <3>2
      <4>2. /\ new[i] = feedEvents[i - 1] /\ new[j] = feedEvents[j - 1]
            /\ i - 1 \in DOMAIN feedEvents /\ j - 1 \in DOMAIN feedEvents
        BY <1>2, <3>0, <4>1
      <4> QED BY <2>0, <2>5, <4>1, <4>2 DEF BridgeInOrder
    <3> QED BY <3>1, <3>2
  <2> QED BY <2>4, <2>5 DEF BridgeInOrder
<1>4. feedEvents' \in Seq(FeedEntries) /\ Len(feedEvents') <= FeedLength
  BY <1>2 DEF new
<1>5. ~restarted' => BridgeInOrder(feedEvents', step')
  BY <1>3 DEF new
<1> QED BY <1>4, <1>5 DEF FeedInv

\* Where no entry is put in, the feed stays in order.
LEMMA FeedStays ==
  ASSUME MapInv, feedEvents' = feedEvents,
         ~restarted' => ~restarted /\ step <= step' /\ step' \in Nat
  PROVE  feedEvents' \in Seq(FeedEntries) /\ FeedInv'
<1>0. /\ feedEvents \in Seq(FeedEntries) /\ Len(feedEvents) <= FeedLength /\ step \in Nat
      /\ ~restarted => BridgeInOrder(feedEvents, step)
  BY TrafficMapPageAssumption DEF MapInv, FeedInv, TrafficMap!TypeOK, FeedEntries
<1>1. ASSUME ~restarted' PROVE BridgeInOrder(feedEvents, step')
  <2>1. ASSUME NEW i \in DOMAIN feedEvents, feedEvents[i].by = "bridge"
        PROVE  feedEvents[i].step <= step'
    <3>1. feedEvents[i] \in FeedEntries
      BY <1>0, ElementOfSeq, LenProperties
    <3>2. feedEvents[i].step \in Int
      BY <3>1 DEF FeedEntries
    <3> QED BY <1>0, <1>1, <2>1, <3>2 DEF BridgeInOrder
  <2> QED BY <1>0, <1>1, <2>1 DEF BridgeInOrder
<1> QED BY <1>0, <1>1 DEF FeedInv

\* A step of a sender is put in the feed now and then.
LEMMA StepTaken ==
  ASSUME MapInv, NEW by \in {"bridge", "api"}, NEW n \in Int, TrafficMap!TakesStep(by, n),
         ~restarted' => ~restarted /\ step <= step' /\ step' \in Nat,
         ~restarted' /\ by = "bridge" => step < n /\ n <= step'
  PROVE  feedEvents' \in Seq(FeedEntries) /\ FeedInv'
<1> DEFINE e == [by |-> by, step |-> n]
<1>1. e \in FeedEntries /\ e.by = by /\ e.step = n
  BY DEF FeedEntries
<1>2. feedEvents' = TrafficMap!PutInFeed(e) \/ feedEvents' = feedEvents
  BY DEF TrafficMap!TakesStep
<1> HIDE DEF e
<1>3. CASE feedEvents' = TrafficMap!PutInFeed(e)
  BY <1>1, <1>3, FeedTakes
<1>4. CASE feedEvents' = feedEvents
  BY <1>4, FeedStays
<1> QED BY <1>2, <1>3, <1>4

\* A message's reports are dealt out.
LEMMA JunctionsTaken ==
  ASSUME MapInv, NEW m \in TrafficMap!Whole \cup TrafficMap!Partial, TrafficMap!TakesJunctions(m)
  PROVE  /\ pins' \in [1..Pins -> MapPins] /\ where' \in [1..Pins -> {"default", "drift", "twin"}]
         /\ report' \in TrafficMap!Whole \cup TrafficMap!Partial
         /\ PinsInv'
<1>0. TrafficMap!TypeOK /\ PinsInv
  BY DEF MapInv
<1>1. m \in Seq(TrafficMap!Entries)
  BY ReportShape
<1>2. CASE m = <<>>
  <2>1. UNCHANGED <<pins, where, report>>
    BY <1>2 DEF TrafficMap!TakesJunctions, TrafficMap!map
  <2>2. PinsInv'
    BY <1>0, <2>1 DEF PinsInv, TrafficMap!Dealt
  <2> QED BY <1>0, <2>1, <2>2 DEF TrafficMap!TypeOK, MapPins
<1>3. CASE m # <<>>
  <2>1. /\ pins' = [i \in 1..Pins |-> TrafficMap!Reported(TrafficMap!Dealt(i, m))]
        /\ where' = [i \in 1..Pins |-> "twin"] /\ report' = m
    BY <1>3 DEF TrafficMap!TakesJunctions
  <2>2. pins' \in [1..Pins -> MapPins]
    BY <1>1, <1>3, <2>1, ReportedPin
  <2>3. PinsInv'
    BY <1>3, <2>1 DEF PinsInv, TrafficMap!Dealt
  <2>4. where' \in [1..Pins -> {"default", "drift", "twin"}]
    BY <2>1
  <2> QED BY <2>1, <2>2, <2>3, <2>4
<1> QED BY <1>2, <1>3

\* The page's own numbers stay in their bounds.
LEMMA Clamped ==
  ASSUME NEW low \in Int, NEW high \in Int, low <= high, NEW x \in Int
  PROVE  TrafficMap!Clamp(x, low, high) \in low..high /\ TrafficMap!Clamp(x, low, high) \in Int
BY DEF TrafficMap!Clamp

\* Each step keeps the pins with what they show, and the feed in order.
LEMMA MapStep == MapInv /\ [TrafficMap!Next]_trafficMapVars => MapInv'
<1> SUFFICES ASSUME MapInv, [TrafficMap!Next]_trafficMapVars PROVE MapInv'
  OBVIOUS
<1>0. /\ TrafficMap!TypeOK /\ PinsInv /\ FeedInv /\ (loop.twin => isTwinConnected)
      /\ Pins \in Nat \ {0} /\ MaxSteps \in Nat
      /\ MinQueue \in Int /\ MaxQueue \in Int /\ MinSpeed \in Int /\ MaxSpeed \in Int
      /\ MinQueue <= MaxQueue /\ MinSpeed <= MaxSpeed
  BY TrafficMapPageAssumption DEF MapInv
<1>p. ASSUME UNCHANGED <<pins, where, report>> PROVE PinsInv'
  BY <1>0, <1>p DEF PinsInv, TrafficMap!Dealt
<1>f. ASSUME UNCHANGED <<step, restarted, feedEvents>> PROVE FeedInv'
  BY <1>0, <1>f DEF FeedInv
<1>2. CASE TrafficMap!TogglePlay
  <2>1. UNCHANGED <<isTwinConnected, loop, pins, where, report, step, restarted, feedEvents>>
    BY <1>2 DEF TrafficMap!TogglePlay, TrafficMap!map, TrafficMap!feed
  <2>2. isPlaying' \in BOOLEAN
    BY <1>2 DEF TrafficMap!TogglePlay
  <2>3. TrafficMap!TypeOK'
    BY <1>0, <2>1, <2>2 DEF TrafficMap!TypeOK
  <2> QED BY <1>0, <1>p, <1>f, <2>1, <2>3 DEF MapInv
<1>3. CASE TrafficMap!EffectRuns
  <2>1. /\ loop' = [playing |-> isPlaying, twin |-> isTwinConnected]
        /\ UNCHANGED <<isPlaying, isTwinConnected, pins, where, report, step, restarted,
                       feedEvents>>
    BY <1>3 DEF TrafficMap!EffectRuns, TrafficMap!map, TrafficMap!feed
  <2>2. isPlaying \in BOOLEAN /\ isTwinConnected \in BOOLEAN
    BY <1>0 DEF TrafficMap!TypeOK
  <2>3. loop' \in [playing : BOOLEAN, twin : BOOLEAN] /\ loop'.twin = isTwinConnected
    BY <2>1, <2>2
  <2>4. TrafficMap!TypeOK'
    BY <1>0, <2>1, <2>3 DEF TrafficMap!TypeOK
  <2> QED BY <1>0, <1>p, <1>f, <2>1, <2>3, <2>4 DEF MapInv
<1>4. CASE TrafficMap!Drift
  <2>1. PICK dq \in [1..Pins -> {-1, 1}], ds \in [1..Pins -> {-1, 1}] :
          pins' = [i \in 1..Pins |->
            TrafficMap!Pin(TrafficMap!Clamp(pins[i].queue + dq[i], MinQueue, MaxQueue),
                           TrafficMap!Clamp(pins[i].speed + ds[i], MinSpeed, MaxSpeed))]
    BY <1>4 DEF TrafficMap!Drift
  <2>2. /\ where' = [i \in 1..Pins |-> "drift"]
        /\ UNCHANGED <<isPlaying, isTwinConnected, loop, report, step, restarted, feedEvents>>
    BY <1>4 DEF TrafficMap!Drift, TrafficMap!feed
  <2>3. ASSUME NEW i \in 1..Pins
        PROVE  /\ pins'[i] \in MapPins
               /\ pins'[i] = TrafficMap!Pin(pins'[i].queue, pins'[i].speed)
               /\ pins'[i].queue \in MinQueue..MaxQueue /\ pins'[i].speed \in MinSpeed..MaxSpeed
    <3> DEFINE q == TrafficMap!Clamp(pins[i].queue + dq[i], MinQueue, MaxQueue)
               s == TrafficMap!Clamp(pins[i].speed + ds[i], MinSpeed, MaxSpeed)
    <3>1. pins[i].queue + dq[i] \in Int /\ pins[i].speed + ds[i] \in Int
      <4>1. pins[i] \in MapPins
        BY <1>0 DEF TrafficMap!TypeOK, MapPins
      <4>2. pins[i].queue \in Int /\ pins[i].speed \in Int
        BY <4>1 DEF MapPins
      <4>3. dq[i] \in Int /\ ds[i] \in Int
        OBVIOUS
      <4> QED BY <4>2, <4>3
    <3>2. q \in MinQueue..MaxQueue /\ s \in MinSpeed..MaxSpeed /\ q \in Int /\ s \in Int
      BY <1>0, <3>1, Clamped
    <3>3. pins'[i] = TrafficMap!Pin(q, s)
      BY <2>1
    <3> HIDE DEF q, s
    <3> QED BY <3>2, <3>3, OwnPin
  <2>4. pins' \in [1..Pins -> MapPins] /\ where' \in [1..Pins -> {"default", "drift", "twin"}]
    BY <2>1, <2>2, <2>3
  <2>5. PinsInv'
    BY <2>2, <2>3 DEF PinsInv
  <2>6. TrafficMap!TypeOK'
    BY <1>0, <2>2, <2>4 DEF TrafficMap!TypeOK, MapPins
  <2> QED BY <1>0, <1>f, <2>2, <2>5, <2>6 DEF MapInv
<1>5. CASE TrafficMap!BridgeRestarts
  <2>1. step' = 0 /\ UNCHANGED <<isPlaying, isTwinConnected, loop, pins, where, report, feedEvents>>
    BY <1>5 DEF TrafficMap!BridgeRestarts, TrafficMap!map
  <2>2. restarted' /\ restarted' \in BOOLEAN
    BY <1>5 DEF TrafficMap!BridgeRestarts
  <2>3. TrafficMap!TypeOK'
    BY <1>0, <2>1, <2>2 DEF TrafficMap!TypeOK
  <2>4. FeedInv'
    BY <1>0, <2>1, <2>2 DEF FeedInv
  <2> QED BY <1>0, <1>p, <2>1, <2>3, <2>4 DEF MapInv
<1>6. CASE TrafficMap!SignalsMessage
  <2> DEFINE e == [by |-> "signals", step |-> 0]
  <2>1. /\ feedEvents' = TrafficMap!PutInFeed(e)
        /\ UNCHANGED <<isPlaying, isTwinConnected, loop, pins, where, report, step, restarted>>
    BY <1>6 DEF TrafficMap!SignalsMessage, TrafficMap!map
  <2>2. e \in FeedEntries /\ e.by # "bridge"
    BY DEF FeedEntries
  <2>3. step \in Nat
    BY <1>0 DEF TrafficMap!TypeOK
  <2> HIDE DEF e
  <2>4. feedEvents' \in Seq(FeedEntries) /\ FeedInv'
    BY <2>1, <2>2, <2>3, FeedTakes
  <2>5. TrafficMap!TypeOK'
    BY <1>0, <2>1, <2>4 DEF TrafficMap!TypeOK, FeedEntries
  <2> QED BY <1>0, <1>p, <2>1, <2>4, <2>5 DEF MapInv
<1>7. ASSUME NEW n \in 1..MaxSteps, NEW m \in TrafficMap!Whole \cup TrafficMap!Partial,
             TrafficMap!BridgeMessage(n, m)
      PROVE  MapInv'
  <2>1. /\ step < n /\ step' = n /\ restarted' = restarted
        /\ isTwinConnected' = TRUE /\ UNCHANGED <<isPlaying, loop>>
    BY <1>0, <1>7 DEF TrafficMap!BridgeMessage, TrafficMap!Connects, TrafficMap!TypeOK
  <2>2. step \in Nat /\ step' \in Nat /\ n \in Int /\ step' \in 0..MaxSteps
    BY <1>0, <2>1 DEF TrafficMap!TypeOK
  <2>3. feedEvents' \in Seq(FeedEntries) /\ FeedInv'
    BY <1>7, <2>1, <2>2, StepTaken DEF TrafficMap!BridgeMessage
  <2>4. /\ pins' \in [1..Pins -> MapPins]
        /\ where' \in [1..Pins -> {"default", "drift", "twin"}]
        /\ report' \in TrafficMap!Whole \cup TrafficMap!Partial
        /\ PinsInv'
    BY <1>7, JunctionsTaken DEF TrafficMap!BridgeMessage
  <2>5. isTwinConnected' /\ isTwinConnected' \in BOOLEAN
    BY <2>1
  <2>6. TrafficMap!TypeOK'
    BY <1>0, <2>1, <2>2, <2>3, <2>4, <2>5 DEF TrafficMap!TypeOK, MapPins, FeedEntries
  <2> QED BY <2>3, <2>4, <2>5, <2>6 DEF MapInv
<1>8. ASSUME NEW n \in TrafficMap!ApiSteps, TrafficMap!ApiMessage(n) PROVE MapInv'
  <2>1. /\ isTwinConnected' = TRUE
        /\ UNCHANGED <<isPlaying, loop, pins, where, report, step, restarted>>
    BY <1>8 DEF TrafficMap!ApiMessage, TrafficMap!Connects, TrafficMap!map
  <2>2. step \in Nat /\ n \in Int
    BY <1>0, TrafficMapPageAssumption DEF TrafficMap!TypeOK, TrafficMap!ApiSteps
  <2>3. feedEvents' \in Seq(FeedEntries) /\ FeedInv'
    BY <1>8, <2>1, <2>2, StepTaken DEF TrafficMap!ApiMessage
  <2>4. isTwinConnected' /\ isTwinConnected' \in BOOLEAN
    BY <2>1
  <2>5. TrafficMap!TypeOK'
    BY <1>0, <2>1, <2>3, <2>4 DEF TrafficMap!TypeOK, FeedEntries
  <2> QED BY <1>p, <2>1, <2>3, <2>4, <2>5 DEF MapInv
<1>9. CASE TrafficMap!TelemetryMessage
  <2>1. /\ isTwinConnected' = TRUE
        /\ UNCHANGED <<isPlaying, loop, pins, where, report, step, restarted, feedEvents>>
    BY <1>9 DEF TrafficMap!TelemetryMessage, TrafficMap!Connects, TrafficMap!map,
       TrafficMap!feed
  <2>2. isTwinConnected' /\ isTwinConnected' \in BOOLEAN
    BY <2>1
  <2>3. TrafficMap!TypeOK'
    BY <1>0, <2>1, <2>2 DEF TrafficMap!TypeOK
  <2> QED BY <1>p, <1>f, <2>1, <2>2, <2>3 DEF MapInv
<1>10. CASE UNCHANGED trafficMapVars
  <2>1. UNCHANGED <<isPlaying, isTwinConnected, loop, pins, where, report, step, restarted,
                    feedEvents>>
    BY <1>10 DEF trafficMapVars
  <2>2. TrafficMap!TypeOK'
    BY <1>0, <2>1 DEF TrafficMap!TypeOK
  <2> QED BY <1>0, <1>p, <1>f, <2>1, <2>2 DEF MapInv
<1> QED BY <1>2, <1>3, <1>4, <1>5, <1>6, <1>7, <1>8, <1>9, <1>10 DEF TrafficMap!Next

\* What the loop knows of the twin it does not forget.
LEMMA TwinStays ==
  ASSUME MapInv, [TrafficMap!Next]_trafficMapVars, loop.twin
  PROVE  /\ loop'.twin
         /\ \A i \in 1..Pins : where[i] = "twin" => where'[i] = "twin"
         /\ pins' # pins => step' > step /\ report' # <<>>
<1>0. isTwinConnected /\ MaxSteps \in Nat /\ step \in 0..MaxSteps
  BY TrafficMapPageAssumption DEF MapInv, TrafficMap!TypeOK
<1>2. CASE TrafficMap!TogglePlay
  BY <1>2 DEF TrafficMap!TogglePlay, TrafficMap!map
<1>3. CASE TrafficMap!EffectRuns
  BY <1>0, <1>3 DEF TrafficMap!EffectRuns, TrafficMap!map
<1>4. CASE TrafficMap!Drift
  BY <1>4 DEF TrafficMap!Drift, TrafficMap!Standalone
<1>5. CASE \/ TrafficMap!BridgeRestarts \/ TrafficMap!SignalsMessage \/ TrafficMap!TelemetryMessage
           \/ \E n \in TrafficMap!ApiSteps : TrafficMap!ApiMessage(n)
  BY <1>5 DEF TrafficMap!BridgeRestarts, TrafficMap!SignalsMessage, TrafficMap!TelemetryMessage,
     TrafficMap!ApiMessage, TrafficMap!Connects, TrafficMap!map
<1>6. ASSUME NEW n \in 1..MaxSteps, NEW m, TrafficMap!BridgeMessage(n, m)
      PROVE  /\ loop'.twin
             /\ \A i \in 1..Pins : where[i] = "twin" => where'[i] = "twin"
             /\ pins' # pins => step' > step /\ report' # <<>>
  <2>1. loop' = loop /\ step' > step /\ TrafficMap!TakesJunctions(m)
    BY <1>0, <1>6 DEF TrafficMap!BridgeMessage, TrafficMap!Connects
  <2>2. CASE m = <<>>
    BY <2>1, <2>2 DEF TrafficMap!TakesJunctions, TrafficMap!map
  <2>3. CASE m # <<>>
    <3>1. where' = [i \in 1..Pins |-> "twin"] /\ report' = m
      BY <2>1, <2>3 DEF TrafficMap!TakesJunctions
    <3> QED BY <2>1, <2>3, <3>1
  <2> QED BY <2>2, <2>3
<1>7. CASE UNCHANGED trafficMapVars
  BY <1>7 DEF trafficMapVars
<1> QED BY <1>2, <1>3, <1>4, <1>5, <1>6, <1>7 DEF TrafficMap!Next

(***************************************************************************)
(* The button of the login page.                                           *)
(***************************************************************************)
\* A careful operator has one submission under way at a time.
LoadingInv ==
  /\ LoadingHasAttempt
  /\ careful => \A a, b \in Attempts : Pending(a) /\ Pending(b) => a = b

LEMMA LoadingInit == SessionInit => LoadingInv
  BY DEF SessionInit, NoAttempt, LoadingInv, LoadingHasAttempt, Pending

\* A submission turns the button on, and what ends one turns it off.
LEMMA LoadingStep == SessionInv /\ LoadingInv /\ [SessionNext]_sessionVars => LoadingInv'
<1> SUFFICES ASSUME SessionInv, LoadingInv, [SessionNext]_sessionVars PROVE LoadingInv'
  OBVIOUS
<1>0. attempt \in [Attempts -> [stage : {"unused", "delay", "sent", "granted", "over"},
                                token : 0..MaxTokens]]
  BY DEF SessionInv, SessionTypeOK
<1>1. careful' = careful
  BY DEF SessionNext, handleSubmit, handleDemoAccess, Submitted, SendLogin, Granted,
     LoginSucceeds, LoginFails, logout, BrowserBack, Reload, Ask, Serve, RequestFails,
     AnswerArrives, Expire,
     sessionVars
<1>2. ASSUME UNCHANGED isLoading, \A a \in Attempts : Pending(a)' <=> Pending(a)
      PROVE  LoadingInv'
  BY <1>1, <1>2 DEF LoadingInv, LoadingHasAttempt
<1>3. ASSUME isLoading' = FALSE, careful => \A a \in Attempts : ~Pending(a)'
      PROVE  LoadingInv'
  BY <1>1, <1>3 DEF LoadingInv, LoadingHasAttempt
<1>4. ASSUME NEW a \in Attempts, Submitted(a) PROVE LoadingInv'
  <2>1. /\ isLoading' = TRUE /\ Pending(a)'
        /\ \A b \in Attempts : b # a => (Pending(b)' <=> Pending(b))
    BY <1>0, <1>4 DEF Submitted, Pending
  <2>2. careful => \A b \in Attempts : ~Pending(b)
    BY <1>4 DEF Submitted, MayAct, Quiet
  <2> QED BY <1>1, <2>1, <2>2 DEF LoadingInv, LoadingHasAttempt
<1>5. ASSUME NEW a \in Attempts, SendLogin(a) \/ Granted(a) PROVE LoadingInv'
  <2>1. UNCHANGED isLoading /\ Pending(a)' /\ Pending(a)
        /\ \A b \in Attempts : b # a => (Pending(b)' <=> Pending(b))
    BY <1>0, <1>5 DEF SendLogin, Granted, Pending
  <2> QED BY <1>2, <2>1
<1>6. ASSUME NEW a \in Attempts, LoginSucceeds(a) \/ LoginFails(a) PROVE LoadingInv'
  <2>1. /\ isLoading' = FALSE /\ ~Pending(a)' /\ Pending(a)
        /\ \A b \in Attempts : b # a => (Pending(b)' <=> Pending(b))
    BY <1>0, <1>6 DEF LoginSucceeds, LoginFails, Navigate, Pending
  <2>2. careful => \A b \in Attempts : ~Pending(b)'
    BY <2>1 DEF LoadingInv
  <2> QED BY <1>3, <2>1, <2>2
<1>7. CASE logout \/ BrowserBack
  <2>1. isLoading' = FALSE /\ attempt' = attempt
    BY <1>7 DEF logout, BrowserBack, Navigate
  <2>2. careful => \A b \in Attempts : ~Pending(b)'
    BY <1>7, <2>1 DEF logout, BrowserBack, MayAct, Quiet, Pending
  <2> QED BY <1>3, <2>1, <2>2
<1>8. CASE Reload
  <2>1. isLoading' = FALSE
    BY <1>8 DEF Reload, Navigate
  <2>2. \A b \in Attempts : ~Pending(b)'
    BY <1>8 DEF Reload, NoAttempt, Pending
  <2> QED BY <1>3, <2>1, <2>2
<1>9. ASSUME UNCHANGED <<isLoading, attempt>> PROVE LoadingInv'
  BY <1>2, <1>9 DEF Pending
<1>10. ASSUME NEW r \in Requests, Ask(r) \/ Serve(r) \/ RequestFails(r) \/ AnswerArrives(r)
       PROVE  LoadingInv'
  BY <1>9, <1>10 DEF Ask, Serve, RequestFails, AnswerArrives
<1>11. ASSUME NEW t \in 1..MaxTokens, Expire(t) PROVE LoadingInv'
  BY <1>9, <1>11 DEF Expire
<1>12. CASE UNCHANGED sessionVars
  BY <1>9, <1>12 DEF sessionVars
<1> QED BY <1>4, <1>5, <1>6, <1>7, <1>8, <1>10, <1>11, <1>12
        DEF SessionNext, handleSubmit, handleDemoAccess

(***************************************************************************)
(* The pages together.                                                     *)
(***************************************************************************)
\* What holds of every part at once.
PartsInv ==
  /\ RoutingInv /\ MapInv /\ DetailInv /\ ForecastInv /\ ShowcaseInv /\ DialogInv /\ StudioInv
  /\ AlertsInv /\ SessionInv /\ LoadingInv /\ TypeOK /\ Trying

LEMMA PartsInit == PagesInit => PartsInv
<1> SUFFICES ASSUME PagesInit PROVE PartsInv
  OBVIOUS
<1>1. /\ Routing!Init /\ TrafficMap!Init /\ Detail!Init /\ Forecasting!Init /\ Showcase!Init
      /\ Dialog!Init /\ Studio!Init /\ AlertsInit /\ SessionInit /\ Init
  BY DEF PagesInit
<1> QED BY <1>1, RoutingInit, MapInit, DetailInit, ForecastInit, ShowcaseInit, DialogInit,
           StudioInit, AlertsInvInit, SessionInvInit, LoadingInit,
           ConnectionTypeInit, TryingInit
        DEF PartsInv

\* A step of the pages is a step of one part, and none of the others.
PartsStep ==
  /\ [Routing!Next]_routingVars /\ [TrafficMap!Next]_trafficMapVars
  /\ [Detail!Next]_detailVars /\ [Forecasting!Next]_forecastingVars
  /\ [Showcase!Next]_showcaseVars /\ [Dialog!Next]_dialogVars /\ [Studio!Next]_studioVars
  /\ [AlertsNext]_alertsVars /\ [SessionNext]_sessionVars /\ [Next]_vars

LEMMA PartsMove == [PagesNext]_pagesVars => PartsStep
<1> SUFFICES ASSUME [PagesNext]_pagesVars PROVE PartsStep
  OBVIOUS
<1>1. CASE Routing!Next /\ ButRouting
  BY <1>1 DEF ButRouting, PartsStep
<1>2. CASE AlertsNext /\ ButAlerts
  BY <1>2 DEF ButAlerts, PartsStep
<1>3. CASE TrafficMap!Next /\ ButTrafficMap
  BY <1>3 DEF ButTrafficMap, PartsStep
<1>4. CASE Directory!Next /\ ButDirectory
  BY <1>4 DEF ButDirectory, PartsStep
<1>5. CASE Detail!Next /\ ButDetail
  BY <1>5 DEF ButDetail, PartsStep
<1>6. CASE Forecasting!Next /\ ButForecasting
  BY <1>6 DEF ButForecasting, PartsStep
<1>7. CASE Showcase!Next /\ ButShowcase
  BY <1>7 DEF ButShowcase, PartsStep
<1>8. CASE SessionNext /\ ButSession
  BY <1>8 DEF ButSession, PartsStep
<1>9. CASE Dialog!Next /\ ButDialog
  BY <1>9 DEF ButDialog, PartsStep
<1>10. CASE Studio!Next /\ ButStudio
  BY <1>10 DEF ButStudio, PartsStep
<1>11. CASE Next /\ ButChannel
  BY <1>11 DEF ButChannel, PartsStep
<1>12. CASE UNCHANGED pagesVars
  BY <1>12 DEF pagesVars, PartsStep
<1> QED BY <1>1, <1>2, <1>3, <1>4, <1>5, <1>6, <1>7, <1>8, <1>9, <1>10, <1>11, <1>12
        DEF PagesNext

LEMMA PartsInvStep == PartsInv /\ [PagesNext]_pagesVars => PartsInv'
<1> SUFFICES ASSUME PartsInv, PartsStep PROVE PartsInv'
  BY PartsMove
<1>1. RoutingInv' /\ MapInv' /\ DetailInv' /\ ForecastInv'
  BY RoutingStep, MapStep, DetailStep, ForecastStep DEF PartsInv, PartsStep
<1>2. ShowcaseInv' /\ DialogInv' /\ StudioInv'
  BY ShowcaseStep, DialogStep, StudioStep DEF PartsInv, PartsStep
<1>3. AlertsInv' /\ SessionInv' /\ LoadingInv' /\ TypeOK' /\ Trying'
  BY AlertsInvStep, SessionInvStep, LoadingStep, ConnectionTypeStep, TryingStep
     DEF PartsInv, PartsStep
<1> QED BY <1>1, <1>2, <1>3 DEF PartsInv

LEMMA PartsCorrect == SafeSpec => []PartsInv
BY PartsInit, PartsInvStep, PTL DEF SafeSpec

\* The map and the page of a junction show what was reported: each junction of the map the
\* one report that is dealt to its place, with its numbers, status and colour together, the
\* feed each step of the bridge once and in order until the bridge is restarted, and the
\* page the plan of the junction opened and no older one; for any number of pins, traffic
\* lights, steps and requests, and whatever the other senders of the socket say.
THEOREM ReportsCorrect == SafeSpec => []ReportsAreTrue
<1>1. PartsInv => ReportsAreTrue
  BY MapFollows, DetailFollows DEF PartsInv, MapInv, DetailInv, ReportsAreTrue
<1> QED BY <1>1, PartsCorrect, PTL

\* Once the loop of the map knows of the twin, no invented number comes back.
THEOREM TwinNumbersCorrect == SafeSpec => TwinNumbersStay
<1> DEFINE Stay == loop.twin => /\ loop'.twin
                                /\ \A i \in 1..Pins : where[i] = "twin" => where'[i] = "twin"
                                /\ pins' # pins => step' > step /\ report' # <<>>
<1>1. PartsInv /\ [PagesNext]_pagesVars => [Stay]_(TrafficMap!vars)
  BY PartsMove, TwinStays DEF PartsInv, PartsStep
<1>2. SafeSpec => [][Stay]_(TrafficMap!vars)
  BY <1>1, PartsCorrect, PTL DEF SafeSpec
<1> QED BY <1>2 DEF TwinNumbersStay, TrafficMap!TwinNumbersStay

\* No late or overlapping answer shows something else than what is selected: the route
\* answers the ends asked for last, the forecast is that of the junction selected, and
\* the panel says optimised only for a map that is.
THEOREM ShownCorrect == SafeSpec => []ShownIsCurrent
<1>1. PartsInv => ShownIsCurrent
  BY RoutingFollows, ForecastFollows, ShowcaseFollows
     DEF PartsInv, RoutingInv, ForecastInv, ShowcaseInv, ShownIsCurrent
<1> QED BY <1>1, PartsCorrect, PTL

\* Whatever the pages say is under way is backed by what will end it: no spinner without
\* a request, no countdown or confirmation without its timer and none with two.
THEOREM WaitingCorrect == SafeSpec => []WaitingIsBacked
<1>1. PartsInv => WaitingIsBacked
  <2>1. PartsInv => AlertsTypeOK /\ LoadingHasPoll
    BY DEF PartsInv, AlertsInv
  <2>2. PartsInv => Forecasting!LoadingHasRequest
    BY DEF PartsInv, ForecastInv
  <2>3. PartsInv => SessionTypeOK /\ LoadingHasAttempt
    BY DEF PartsInv, SessionInv, LoadingInv
  <2>4. PartsInv => Showcase!OneCountdown
    BY DEF PartsInv, ShowcaseInv
  <2>5. PartsInv => Dialog!TypeOK /\ Dialog!OneConfirmation
    BY DEF PartsInv, DialogInv
  <2>6. PartsInv => Studio!TypeOK /\ Studio!ShowsLastClicked
    BY StudioFollows DEF PartsInv, StudioInv
  <2>7. PartsInv => TypeOK /\ AlwaysTrying
    BY DEF PartsInv, Trying
  <2> QED BY <2>1, <2>2, <2>3, <2>4, <2>5, <2>6, <2>7 DEF WaitingIsBacked
<1> QED BY <1>1, PartsCorrect, PTL
=============================================================================
