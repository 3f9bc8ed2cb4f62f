------------------------------- MODULE MCSignals -------------------------------
(***************************************************************************)
(* The two ends of a signal, side by side: the green-wave controller       *)
(* (GreenWave) and the edge gateway with its frames (Gateway).  They share *)
(* nothing: a behaviour is one of either, chosen in the variable part.     *)
(*                                                                         *)
(* GreenWave: up to three concurrent events over three corridor junctions  *)
(* and one marked cross street, lookahead 2.  The routes cover the         *)
(* corridor in both directions (every pair of events overlaps), a single   *)
(* junction, and a route that visits a junction twice.  Gateway: one       *)
(* action of each kind and one that nobody knows, and a transaction id     *)
(* that crosses its byte boundary before it runs out.                      *)
(***************************************************************************)
EXTENDS GreenWave, Gateway

VARIABLE part

MCJunctions == {"J0", "J1", "J2", "N_0"}
MCMarks == [j \in MCJunctions |-> IF j = "N_0" THEN {"NS"} ELSE {"J"}]
MCEWPairs == {<<"J0", "J1">>, <<"J1", "J0">>, <<"J1", "J2">>, <<"J2", "J1">>}
MCRoutes == {<<"J0", "J1", "J2">>, <<"J2", "J1", "J0">>, <<"N_0", "J1">>,
             <<"J1">>, <<"J0", "J1", "J0">>}

SignalsInit == part \in {"controller", "gateway"} /\ Init /\ GatewayInit

SignalsNext ==
  \/ part = "controller" /\ Next /\ UNCHANGED <<part, cabinet, frames>>
  \/ part = "gateway" /\ GatewayNext /\ UNCHANGED <<part, vars>>

SignalsSpec == SignalsInit /\ [][SignalsNext]_<<part, vars, cabinet, frames>>
=============================================================================
