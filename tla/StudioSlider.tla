------------------------------ MODULE StudioSlider ------------------------------
(***************************************************************************)
(* The projects of the studio page (pages/StudioHomePage.tsx): one is      *)
(* shown, and changing it fades for 280 ms, during which the buttons do    *)
(* nothing.                                                                *)
(*                                                                         *)
(* timers     the changes under way: a project, or -1 for the next one     *)
(* clicked    what the last click that counted asked for                   *)
(***************************************************************************)
EXTENDS InformationBounds, FiniteSets

VARIABLES activeIdx, fade, timers, clicked
vars == <<activeIdx, fade, timers, clicked>>

Init == activeIdx = 0 /\ fade = FALSE /\ timers = {} /\ clicked = 0

\* Mutant: the last project is followed by none.
FollowingOn(i) == i + 1
Following(i) == (i + 1) % Projects

\* Mutant: a click counts while the page fades.
MayTurnAlways == TRUE
MayTurn == ~fade

goNext ==
  /\ MayTurn /\ fade' = TRUE
  /\ timers' = timers \cup {-1} /\ clicked' = Following(activeIdx)
  /\ UNCHANGED activeIdx

goTo(i) ==
  /\ MayTurn /\ i # activeIdx /\ fade' = TRUE
  /\ timers' = timers \cup {i} /\ clicked' = i
  /\ UNCHANGED activeIdx

TimerFires ==
  /\ \E t \in timers :
       /\ timers' = timers \ {t}
       /\ activeIdx' = IF t = -1 THEN Following(activeIdx) ELSE t
  /\ fade' = FALSE
  /\ UNCHANGED clicked

\* To the application and back: a new page.
LeaveAndReturn == activeIdx' = 0 /\ fade' = FALSE /\ timers' = {} /\ clicked' = 0

Next == goNext \/ (\E i \in 0..(Projects - 1) : goTo(i)) \/ TimerFires \/ LeaveAndReturn
Spec == Init /\ [][Next]_vars

(***************************************************************************)
(* Properties.                                                             *)
(***************************************************************************)

\* Every variable has its type.
TypeOK ==
  /\ activeIdx \in 0..(Projects - 1) /\ clicked \in 0..(Projects - 1)
  /\ fade \in BOOLEAN /\ timers \subseteq -1..(Projects - 1)

\* The page fades exactly while one change is under way, and at rest shows what was
\* clicked last: clicks in between are dropped, not queued.
ShowsLastClicked ==
  /\ Cardinality(timers) = IF fade THEN 1 ELSE 0
  /\ ~fade => activeIdx = clicked
=============================================================================
