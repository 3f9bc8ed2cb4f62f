----------------------------- MODULE CommandPath -----------------------------
(***************************************************************************)
(* What the path from the dashboard to the live bridge promises, whatever  *)
(* the number of publishers, threads and connections in between: commands  *)
(* take effect one at a time, in the order Redis accepted them, none       *)
(* twice; only a broken connection loses commands, and then the latest     *)
(* ones; nothing but an emergency command changes the mode.                *)
(***************************************************************************)
EXTENDS Naturals, Sequences

CONSTANT Commands  \* what may be sent: records with a type

VARIABLES pending,  \* commands accepted and not yet executed
          mode      \* the bridge's emergency mode
vars == <<pending, mode>>

Init == pending = <<>> /\ mode = FALSE

Accept(c) ==
  /\ pending' = Append(pending, c)
  /\ UNCHANGED mode

\* The connection breaks: the commands behind the first n are lost.
Lose(n) ==
  /\ pending' = SubSeq(pending, 1, n)
  /\ UNCHANGED mode

Execute ==
  /\ pending # <<>>
  /\ mode' = CASE Head(pending).type = "EMERGENCY_ACTIVATED" -> TRUE
               [] Head(pending).type = "EMERGENCY_DEACTIVATED" -> FALSE
               [] OTHER -> mode
  /\ pending' = Tail(pending)

Next ==
  \/ \E c \in Commands : Accept(c)
  \/ \E n \in 0 .. Len(pending) : Lose(n)
  \/ Execute

Spec == Init /\ [][Next]_vars
=============================================================================
