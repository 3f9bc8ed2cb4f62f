---------------------------- MODULE ForecastingPage ----------------------------
(***************************************************************************)
(* The forecasting page (pages/ForecastingPage.tsx).  A forecast is asked  *)
(* for whenever the junction or the horizon changes and on Refresh; every  *)
(* answer is shown when it comes, under the name of whatever junction is   *)
(* selected then.                                                          *)
(*                                                                         *)
(* inOrder    chosen once: requests are answered in order                  *)
(* topology   the junctions of the dashboard's store, in its order         *)
(* requests   the junctions of the requests under way, oldest first        *)
(* forecast   the junction the forecast shown is about, and whether its    *)
(*            spillback risk is above the banner's threshold               *)
(* faults     requests that failed                                         *)
(***************************************************************************)
EXTENDS InformationBounds, Sequences, Functions

VARIABLES inOrder, topology, selectedJunctionId, horizon, acknowledged, loading,
          requests, forecast, faults
vars == <<inOrder, topology, selectedJunctionId, horizon, acknowledged, loading,
          requests, forecast, faults>>

Horizons == {15, 30, 60}
Stores == UNION {Injection(1..Cardinality(S), S) : S \in SUBSET Junctions}

\* The effect that runs when the store's junctions change: only the id the page
\* starts with gives way to the first junction.
\* Mutant: the first junction is not selected.
SelectionKept(js) == selectedJunctionId
Selection(js) == IF js # <<>> /\ selectedJunctionId = Default THEN js[1] ELSE selectedJunctionId

Fetch(j) == requests' = Append(requests, j) /\ loading' = TRUE

\* Mutant: nothing is asked while another forecast is on its way.
FetchIfIdle(changed, j) == IF changed /\ ~loading THEN Fetch(j) ELSE UNCHANGED <<requests, loading>>
FetchIf(changed, j) == IF changed THEN Fetch(j) ELSE UNCHANGED <<requests, loading>>

\* The effects of the first render: a forecast of the default is asked for in any case,
\* and one of the first junction when the store has it.  The page starts with made-up
\* numbers and a risk below the threshold.
Init ==
  /\ inOrder \in BOOLEAN
  /\ topology \in Stores
  /\ selectedJunctionId = IF topology = <<>> THEN Default ELSE topology[1]
  /\ horizon = 15 /\ acknowledged = FALSE /\ loading = TRUE
  /\ requests = IF topology = <<>> THEN <<Default>> ELSE <<Default, topology[1]>>
  /\ forecast = [of |-> Default, high |-> FALSE]
  /\ faults = 0

\* fetchJunctions is answered, once or again: no junction is ever deleted, and the server
\* lists them in any order.
StoreLoads ==
  /\ topology' \in Stores \ {<<>>} /\ Range(topology) \subseteq Range(topology')
  /\ selectedJunctionId' = Selection(topology')
  /\ FetchIf(selectedJunctionId' # selectedJunctionId, selectedJunctionId')
  /\ UNCHANGED <<inOrder, horizon, acknowledged, forecast, faults>>

Select(j) ==
  /\ j \in Range(topology) /\ Len(requests) < MaxRequests
  /\ selectedJunctionId' = j
  /\ FetchIf(j # selectedJunctionId, j)
  /\ UNCHANGED <<inOrder, topology, horizon, acknowledged, forecast, faults>>

SetHorizon(h) ==
  /\ Len(requests) < MaxRequests
  /\ horizon' = h
  /\ FetchIf(h # horizon, selectedJunctionId)
  /\ UNCHANGED <<inOrder, topology, selectedJunctionId, acknowledged, forecast, faults>>

Refresh ==
  /\ Len(requests) < MaxRequests
  /\ Fetch(selectedJunctionId)
  /\ UNCHANGED <<inOrder, topology, selectedJunctionId, horizon, acknowledged, forecast, faults>>

\* Mutant: the button comes to rest after an error only.
LoadingAfterError(ok) == IF ok THEN loading ELSE FALSE
LoadingAfter(ok) == FALSE

\* The requests under way but the k-th.
Without(k) == SubSeq(requests, 1, k - 1) \o SubSeq(requests, k + 1, Len(requests))

\* The server has a forecast for any id, the default's as well.
Arrives(k) ==
  /\ k \in DOMAIN requests /\ (inOrder => k = 1)
  /\ forecast' \in {[of |-> requests[k], high |-> h] : h \in BOOLEAN}
  /\ requests' = Without(k)
  /\ loading' = LoadingAfter(TRUE)
  /\ UNCHANGED <<inOrder, topology, selectedJunctionId, horizon, acknowledged, faults>>

Fails(k) ==
  /\ k \in DOMAIN requests /\ (inOrder => k = 1)
  /\ faults < MaxFaults /\ faults' = faults + 1
  /\ requests' = Without(k)
  /\ loading' = LoadingAfter(FALSE)
  /\ UNCHANGED <<inOrder, topology, selectedJunctionId, horizon, acknowledged, forecast>>

\* The banner of a high risk has the button; nothing takes the acknowledgement back.
banner == forecast.high /\ ~acknowledged
Acknowledge ==
  /\ banner /\ acknowledged' = TRUE
  /\ UNCHANGED <<inOrder, topology, selectedJunctionId, horizon, loading, requests, forecast, faults>>

Next ==
  \/ StoreLoads \/ Refresh \/ Acknowledge
  \/ \E j \in Junctions : Select(j)
  \/ \E h \in Horizons : SetHorizon(h)
  \/ \E k \in 1..(MaxRequests + 1) : Arrives(k) \/ Fails(k)

Spec == Init /\ [][Next]_vars

(***************************************************************************)
(* Properties.                                                             *)
(***************************************************************************)

\* Every variable has its type.
TypeOK ==
  /\ inOrder \in BOOLEAN /\ topology \in Stores
  /\ selectedJunctionId \in Junctions \cup {Default}
  /\ horizon \in Horizons /\ acknowledged \in BOOLEAN /\ loading \in BOOLEAN
  /\ requests \in Seq(Junctions \cup {Default}) /\ Len(requests) <= MaxRequests + 1
  /\ forecast \in [of : Junctions \cup {Default}, high : BOOLEAN]
  /\ faults \in 0..MaxFaults

\* When all requests are answered, in order and without a fault, the forecast shown is
\* that of the junction selected, whichever came first, the store or the operator.
ForecastOfSelected ==
  inOrder /\ faults = 0 /\ requests = <<>> => forecast.of = selectedJunctionId

\* The button turns only while a request is under way.
LoadingHasRequest == loading => requests # <<>>

\* What is selected is an option of the dropdown, whenever the store's junctions come.
SelectionIsOffered ==
  selectedJunctionId \in (IF topology = <<>> THEN {Default} ELSE Range(topology))
=============================================================================
