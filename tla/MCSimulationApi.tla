-------------------------- MODULE MCSimulationApi --------------------------
(***************************************************************************)
(* SimulationApi as it is deployed: each worker alone, with restarts, with *)
(* SUMO installed or not, failing or not, with Redis failing or not; two   *)
(* workers where only SUMO may fail, or nothing does.                      *)
(***************************************************************************)
EXTENDS SimulationApi, TLC

Engines == {"micro", "sumo"}
AllFaults == {"redis", "traci", "restart"}
Alone == [workers : {{w} : w \in Workers}, engines : {Engines, {"micro"}},
          faults : {{"restart"}, {"restart", "traci"}, AllFaults}]
Together == [workers : {Workers}, engines : {Engines}, faults : {{}, {"traci"}}]
MCStepSizes == {-1, 1, 2}
MCDeployments == Alone \cup Together

Symmetry == Permutations(Workers)
=============================================================================
