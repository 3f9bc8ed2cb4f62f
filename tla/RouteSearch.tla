------------------------------ MODULE RouteSearch ------------------------------
(***************************************************************************)
(* find_alternatives of the routing engine (ml/routing/routing_engine.py): *)
(* the A* search is run Wanted times, the roads of each route found made   *)
(* half as long again for the next one, and all weights restored at the    *)
(* end.  The search has no closed set: a junction is looked at again       *)
(* whenever a shorter way to it turns up.  The engine is shared by all     *)
(* requests of a worker.                                                   *)
(*                                                                         *)
(* net, start, end   the roads there are, and what is asked for            *)
(* weight     the weight of each road                                      *)
(* openSet    the heap: pairs of an estimate and a junction                *)
(* gScore     the length of the best way found to each junction            *)
(* cameFrom   the junction before it on that way, 0 for none               *)
(* routes     the routes found: their roads                                *)
(* searching  whether the search goes on                                   *)
(***************************************************************************)
EXTENDS ServiceBounds, Sequences, FiniteSets

VARIABLES net, start, end, weight, openSet, gScore, cameFrom, routes, searching
vars == <<net, start, end, weight, openSet, gScore, cameFrom, routes, searching>>

Junctions == DOMAIN Places
Abs(i) == IF i < 0 THEN -i ELSE i

\* The distance along the great circle, for which any metric will do.
Haversine(u, v) ==
  Scale * (Abs(Places[u][1] - Places[v][1]) + Abs(Places[u][2] - Places[v][2]))

\* More than any way is long.
Infinity == 1000000

\* Mutant: the estimate is twice the distance.
HeuristicTwice(u) == 2 * Haversine(u, end)
Heuristic(u) == Haversine(u, end)

Distances == [r \in net |-> Haversine(r[1], r[2])]

NewSearch(g, c, o) ==
  /\ g = [j \in Junctions |-> IF j = start THEN 0 ELSE Infinity]
  /\ c = [j \in Junctions |-> 0]
  /\ o = {<<0, start>>}

Init ==
  /\ net \in SUBSET Roads /\ start \in Junctions /\ end \in Junctions
  /\ weight = Distances
  /\ NewSearch(gScore, cameFrom, openSet)
  /\ routes = <<>> /\ searching = TRUE

\* The smallest pair of the heap.
Least(S) ==
  CHOOSE a \in S : \A b \in S : a[1] < b[1] \/ (a[1] = b[1] /\ a[2] <= b[2])

\* The roads of the way to j that cameFrom describes.
RoadsTo(j) ==
  LET way[n \in 0..Cardinality(Junctions)] ==
        IF n = 0 THEN {j} ELSE way[n - 1] \cup {cameFrom[i] : i \in way[n - 1] \ {0}}
  IN {<<cameFrom[i], i>> : i \in {k \in way[Cardinality(Junctions)] \ {0} : cameFrom[k] # 0}}

\* Mutant: the first of two equally short ways gives way to the second.
ImprovesOrEquals(new, old) == new <= old
Improves(new, old) == new < old

\* The junction with the least estimate is taken from the heap, and the ways through it
\* to its neighbours are compared with those known.
Expand ==
  LET least == Least(openSet)
      current == least[2]
      through(v) == gScore[current] + weight[<<current, v>>]
      better == {v \in Junctions : <<current, v>> \in net /\ Improves(through(v), gScore[v])}
  IN /\ searching /\ openSet # {} /\ current # end
     /\ cameFrom' = [j \in Junctions |-> IF j \in better THEN current ELSE cameFrom[j]]
     /\ gScore' = [j \in Junctions |-> IF j \in better THEN through(j) ELSE gScore[j]]
     /\ openSet' = (openSet \ {least}) \cup {<<through(v) + Heuristic(v), v>> : v \in better}
     /\ UNCHANGED <<net, start, end, weight, routes, searching>>

\* Mutant: the weights are left as they are.
WeightsAtEndKept(w) == w
WeightsAtEnd(w) == Distances

\* The destination is reached: the route's roads get longer, and the next search begins
\* unless this was the last.
Reach ==
  LET roads == RoadsTo(end)
      longer == [r \in net |-> IF r \in roads THEN (3 * weight[r]) \div 2 ELSE weight[r]]
      last == Len(routes) + 1 = Wanted
  IN /\ searching /\ openSet # {} /\ Least(openSet)[2] = end
     /\ routes' = Append(routes, roads)
     /\ searching' = ~last
     /\ weight' = IF last THEN WeightsAtEnd(longer) ELSE longer
     /\ NewSearch(gScore', cameFrom', openSet')
     /\ UNCHANGED <<net, start, end>>

\* The heap is empty: no route, and no further search.
NoPathFound ==
  /\ searching /\ openSet = {}
  /\ searching' = FALSE /\ weight' = WeightsAtEnd(weight)
  /\ UNCHANGED <<net, start, end, openSet, gScore, cameFrom, routes>>

Next == Expand \/ Reach \/ NoPathFound
Spec == Init /\ [][Next]_vars /\ WF_vars(Next)

(***************************************************************************)
(* Properties.                                                             *)
(***************************************************************************)

\* Every variable has its type.
TypeOK ==
  /\ net \subseteq Roads /\ {start, end} \subseteq Junctions /\ searching \in BOOLEAN
  /\ weight \in [net -> Nat] /\ gScore \in [Junctions -> 0..Infinity]
  /\ cameFrom \in [Junctions -> Junctions \cup {0}]
  /\ openSet \subseteq Nat \X Junctions
  /\ routes \in Seq(SUBSET net) /\ Len(routes) <= Wanted

\* The reference: the length of the shortest way from start to each junction, by at most
\* n roads.
ShortestBy ==
  LET by[n \in 0..Cardinality(Junctions)] ==
        IF n = 0 THEN [j \in Junctions |-> IF j = start THEN 0 ELSE Infinity]
        ELSE [j \in Junctions |->
                LET ways == {by[n - 1][j]} \cup
                            {by[n - 1][r[1]] + Haversine(r[1], r[2]) :
                               r \in {s \in net : s[2] = j /\ by[n - 1][s[1]] < Infinity}}
                IN CHOOSE w \in ways : \A x \in ways : w <= x]
  IN by[Cardinality(Junctions)]

\* The roads make up a way from start to end that passes no junction twice.
IsWay(roads) ==
  LET enters(j) == Cardinality({r \in roads : r[2] = j})
      leaves(j) == Cardinality({r \in roads : r[1] = j})
  IN \A j \in Junctions :
       /\ enters(j) <= 1 /\ leaves(j) <= 1
       /\ leaves(j) - enters(j) =
            IF start = end THEN 0 ELSE IF j = start THEN 1 ELSE IF j = end THEN -1 ELSE 0

\* The length of a route: each road counted once.
LengthOf(roads) ==
  LET step[S \in SUBSET roads] ==
        IF S = {} THEN 0
        ELSE LET r == CHOOSE s \in S : TRUE IN Haversine(r[1], r[2]) + step[S \ {r}]
  IN step[roads]

\* The first route is a shortest one, and there is none exactly when the destination
\* cannot be reached; every other route is a way to it as well, and no way is found only
\* once others were.
RoutesAreRight ==
  /\ routes # <<>> => LengthOf(routes[1]) = ShortestBy[end]
  /\ \A i \in DOMAIN routes : IsWay(routes[i])
  /\ ~searching => Len(routes) = IF ShortestBy[end] < Infinity THEN Wanted ELSE 0

\* Whatever the search found, the next request finds the roads as long as they are.
WeightsRestored == ~searching => weight = Distances

\* Every search ends, also between junctions at the same place.
SearchEnds == <>~searching
=============================================================================
