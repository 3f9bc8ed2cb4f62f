---------------------------- MODULE EmergencyDialog ----------------------------
(***************************************************************************)
(* The dialog behind Emergency Override in the dashboard's header          *)
(* (components/CommandCenter/GlobalEmergencyModal.tsx and Header.tsx).     *)
(* Closed, it draws nothing and keeps its state, and its timer runs on.    *)
(* It asks nothing of the server: what it reports as activated is its own, *)
(* and it is the choice of the moment, which may have changed since the    *)
(* button was pressed.                                                     *)
(*                                                                         *)
(* timers      timers of this dialog that have not fired                   *)
(***************************************************************************)
EXTENDS Naturals

VARIABLES emergencyOpen, selectedAction, isConfirming, isActivated, timers
vars == <<emergencyOpen, selectedAction, isConfirming, isActivated, timers>>

Actions == {"green_corridor", "all_red"}

Init ==
  /\ emergencyOpen = FALSE
  /\ selectedAction = "null" /\ isConfirming = FALSE /\ isActivated = FALSE
  /\ timers = 0

Open ==
  /\ emergencyOpen' = TRUE
  /\ UNCHANGED <<selectedAction, isConfirming, isActivated, timers>>

\* Mutant: closing clears the timer.
TimersCleared == 0
TimersAfterClose == timers

\* The backdrop and the cross, and Cancel while nothing is activated; none of them
\* takes the confirmation back.
onClose ==
  /\ emergencyOpen /\ emergencyOpen' = FALSE
  /\ timers' = TimersAfterClose
  /\ UNCHANGED <<selectedAction, isConfirming, isActivated>>

\* The cards stay in reach while the confirmation is under way: what the timer shows as
\* active may be a choice made after the button was pressed, and never confirmed.
\* Mutant: the button stays enabled.
Cards == emergencyOpen /\ ~isActivated

SelectAction(a) ==
  /\ Cards
  /\ selectedAction' = a
  /\ UNCHANGED <<emergencyOpen, isConfirming, isActivated, timers>>

MayActivateAgain == selectedAction # "null"
MayActivate == selectedAction # "null" /\ ~isConfirming

handleActivate ==
  /\ Cards /\ MayActivate
  /\ isConfirming' = TRUE /\ timers' = timers + 1
  /\ UNCHANGED <<emergencyOpen, selectedAction, isActivated>>

\* 1.5 seconds later, open or closed.
TimerFires ==
  /\ timers > 0 /\ timers' = timers - 1
  /\ isActivated' = TRUE /\ isConfirming' = FALSE
  /\ UNCHANGED <<emergencyOpen, selectedAction>>

handleReset ==
  /\ emergencyOpen /\ isActivated
  /\ selectedAction' = "null" /\ isActivated' = FALSE /\ isConfirming' = FALSE
  /\ emergencyOpen' = FALSE
  /\ UNCHANGED timers

\* The header goes with the application; a timer it leaves behind sets nothing.
LeaveAndReturn ==
  /\ emergencyOpen' = FALSE
  /\ selectedAction' = "null" /\ isConfirming' = FALSE /\ isActivated' = FALSE
  /\ timers' = 0

Next ==
  \/ Open \/ onClose \/ handleActivate \/ TimerFires \/ handleReset \/ LeaveAndReturn
  \/ \E a \in Actions : SelectAction(a)

Fairness == WF_vars(TimerFires)
Spec == Init /\ [][Next]_vars /\ Fairness

(***************************************************************************)
(* Properties.                                                             *)
(***************************************************************************)

\* Every variable has its type.
TypeOK ==
  /\ emergencyOpen \in BOOLEAN /\ isConfirming \in BOOLEAN /\ isActivated \in BOOLEAN
  /\ selectedAction \in Actions \cup {"null"} /\ timers \in Nat

\* One timer runs while a confirmation is under way and none otherwise, across closing,
\* opening again and dismissing: nothing is shown as active twice for one press of the
\* button, or after it was dismissed.  It may be another choice than the one pressed for.
OneConfirmation ==
  /\ timers = IF isConfirming THEN 1 ELSE 0
  /\ isConfirming \/ isActivated => selectedAction # "null"
  /\ ~(isConfirming /\ isActivated)

\* A confirmation comes to its end, also behind a closed dialog.
ConfirmationEnds == isConfirming ~> ~isConfirming
=============================================================================
