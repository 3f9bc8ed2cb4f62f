----------------------------- MODULE MCLiveUpdates -----------------------------
(***************************************************************************)
(* LiveUpdates with two workers, two requests and two sockets.             *)
(***************************************************************************)
EXTENDS LiveUpdates, TLC

Symmetry == Permutations(Workers) \cup Permutations(Requests) \cup Permutations(Clients)
=============================================================================
