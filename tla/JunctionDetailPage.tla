-------------------------- MODULE JunctionDetailPage --------------------------
(***************************************************************************)
(* The page of one junction (pages/JunctionDetailPage.tsx).  Its effect    *)
(* runs when the page is mounted and again when the store's junctions      *)
(* arrive; each run asks for the signal plan, and for the junction unless  *)
(* the store has it.  Nothing is cancelled.                                *)
(*                                                                         *)
(* inOrder    chosen once: plans are answered in the order of the requests *)
(* id         the junction in the address; the directory also links to J0, *)
(*            which the database does not have                             *)
(* store      the store's junctions                                        *)
(* version    changes of the plan the server answers with                  *)
(* detail[n]  run n's request for the junction                             *)
(* plan[n]    run n's request for the plan, the version when it was sent   *)
(*            and the version it is answered with                          *)
(* flash[c]   click c on Flash All-Red; ran[c], the server carried it out  *)
(***************************************************************************)
EXTENDS InformationBounds, FiniteSets

VARIABLES inOrder, id, store, version, detail, plan, junctionData, signalPlan,
          countdown, flash, ran, faults
shown == <<junctionData, signalPlan>>
override == <<flash, ran>>
vars == <<inOrder, id, store, version, detail, plan, shown, countdown, override, faults>>

Runs == {1, 2}
Owner == IF id \in Junctions THEN id ELSE Fallback
NotSent == [stage |-> "unused", asked |-> 0, says |-> 0]
NoPlan == [of |-> J0, run |-> 0, says |-> 0]
MayFail == faults < MaxFaults /\ faults' = faults + 1

\* Run n of the effect, with the junctions js in the store.
AskPlan(n) == [NotSent EXCEPT !.stage = "asked", !.asked = version]
AsksDetail(js) == id \notin js

\* Mutant: the store is not looked at.
DataFromServer(js, data) == data
DataFrom(js, data) == IF id \in js THEN "ours" ELSE data

\* The page is mounted, before or after the store's junctions arrived.
Init ==
  /\ inOrder \in BOOLEAN
  /\ id \in Junctions \cup {J0}
  /\ store \in SUBSET Junctions
  /\ version = 0
  /\ detail = [n \in Runs |-> IF n = 1 /\ AsksDetail(store) THEN "asked" ELSE "unused"]
  /\ plan = [n \in Runs |-> IF n = 1 THEN [NotSent EXCEPT !.stage = "asked"] ELSE NotSent]
  /\ junctionData = DataFrom(store, "none")
  /\ signalPlan = NoPlan
  /\ countdown = Start
  /\ flash = [c \in FlashClicks |-> "unused"] /\ ran = [c \in FlashClicks |-> FALSE]
  /\ faults = 0

\* fetchJunctions of the layout is answered, which runs the effect again.
StoreLoads ==
  /\ store = {} /\ plan[2] = NotSent
  /\ store' \in SUBSET Junctions
  /\ plan' = [plan EXCEPT ![2] = AskPlan(2)]
  /\ detail' = [detail EXCEPT ![2] = IF AsksDetail(store') THEN "asked" ELSE @]
  /\ junctionData' = DataFrom(store', junctionData)
  /\ UNCHANGED <<inOrder, id, version, signalPlan, countdown, override, faults>>

\* getById: the junction's own data, or any error and a placeholder, whatever the page
\* shows by then.
DetailAnswered(n) ==
  /\ detail[n] = "asked" /\ id \in Junctions
  /\ detail' = [detail EXCEPT ![n] = "over"]
  /\ junctionData' = "ours"
  /\ UNCHANGED <<inOrder, id, store, version, plan, signalPlan, countdown, override, faults>>

DetailFails(n) ==
  /\ detail[n] = "asked"
  /\ IF id \in Junctions THEN MayFail ELSE UNCHANGED faults
  /\ detail' = [detail EXCEPT ![n] = "over"]
  /\ junctionData' = "placeholder"
  /\ UNCHANGED <<inOrder, id, store, version, plan, signalPlan, countdown, override>>

\* getByJunction: an unknown id is answered with the first plan there is.
PlanServed(n) ==
  /\ plan[n].stage = "asked"
  /\ plan' = [plan EXCEPT ![n].stage = "served", ![n].says = version]
  /\ UNCHANGED <<inOrder, id, store, version, detail, shown, countdown, override, faults>>

\* Mutant: the first plan stays.
FirstPlan(n) == IF signalPlan # NoPlan THEN signalPlan
                ELSE [of |-> Owner, run |-> n, says |-> plan[n].says]
Shown(n) == [of |-> Owner, run |-> n, says |-> plan[n].says]

PlanArrives(n) ==
  /\ plan[n].stage = "served"
  /\ inOrder => \A m \in Runs : m < n => plan[m].stage = "over"
  /\ plan' = [plan EXCEPT ![n].stage = "over"]
  /\ signalPlan' = Shown(n)
  /\ UNCHANGED <<inOrder, id, store, version, detail, junctionData, countdown, override, faults>>

PlanFails(n) ==
  /\ plan[n].stage \in {"asked", "served"} /\ MayFail
  /\ plan' = [plan EXCEPT ![n].stage = "over"]
  /\ UNCHANGED <<inOrder, id, store, version, detail, shown, countdown, override>>

PlanChanges ==
  /\ version < MaxChanges /\ version' = version + 1
  /\ UNCHANGED <<inOrder, id, store, detail, plan, shown, countdown, override, faults>>

\* Mutant: zero is counted down as well.
CountedBelow(c) == IF c >= 0 THEN c - 1 ELSE Hold
Counted(c) == IF c > 0 THEN c - 1 ELSE Hold

Tick ==
  /\ countdown' = Counted(countdown)
  /\ UNCHANGED <<inOrder, id, store, version, detail, plan, shown, override, faults>>

(***************************************************************************)
(* handleQuickAction("flash"); "sync" shows a message and does nothing.    *)
(***************************************************************************)
Flash(c) ==
  /\ flash[c] = "unused" /\ flash' = [flash EXCEPT ![c] = "sent"]
  /\ UNCHANGED <<inOrder, id, store, version, detail, plan, shown, countdown, ran, faults>>

FlashServed(c) ==
  /\ flash[c] = "sent" /\ ~ran[c]
  /\ ran' = [ran EXCEPT ![c] = TRUE]
  /\ UNCHANGED <<inOrder, id, store, version, detail, plan, shown, countdown, flash, faults>>

FlashAnswered(c) ==
  /\ flash[c] = "sent" /\ ran[c]
  /\ flash' = [flash EXCEPT ![c] = "engaged on controller"]
  /\ UNCHANGED <<inOrder, id, store, version, detail, plan, shown, countdown, ran, faults>>

FlashFails(c) ==
  /\ flash[c] = "sent" /\ MayFail
  /\ flash' = [flash EXCEPT ![c] = "engaged locally"]
  /\ UNCHANGED <<inOrder, id, store, version, detail, plan, shown, countdown, ran>>

Next ==
  \/ StoreLoads \/ PlanChanges \/ Tick
  \/ \E n \in Runs : DetailAnswered(n) \/ DetailFails(n) \/ PlanServed(n) \/ PlanArrives(n)
                     \/ PlanFails(n)
  \/ \E c \in FlashClicks : Flash(c) \/ FlashServed(c) \/ FlashAnswered(c) \/ FlashFails(c)

Spec == Init /\ [][Next]_vars

(***************************************************************************)
(* Properties.                                                             *)
(***************************************************************************)

\* Every variable has its type.
TypeOK ==
  /\ inOrder \in BOOLEAN /\ id \in Junctions \cup {J0} /\ store \subseteq Junctions
  /\ version \in 0..MaxChanges /\ countdown \in 0..Hold /\ faults \in 0..MaxFaults
  /\ detail \in [Runs -> {"unused", "asked", "over"}]
  /\ plan \in [Runs -> [stage : {"unused", "asked", "served", "over"},
                        asked : 0..MaxChanges, says : 0..MaxChanges]]
  /\ junctionData \in {"none", "ours", "placeholder"}
  /\ signalPlan \in [of : Junctions \cup {J0}, run : 0..2, says : 0..MaxChanges]
  /\ flash \in [FlashClicks -> {"unused", "sent", "engaged on controller", "engaged locally"}]
  /\ ran \in [FlashClicks -> BOOLEAN]

\* The page never shows the placeholder for a junction that exists unless a request
\* failed, and shows the junction's name as soon as the store has it.
NameIsTrue ==
  id \in Junctions /\ faults = 0 =>
    /\ junctionData # "placeholder"
    /\ id \in store => junctionData = "ours"

\* The plan shown for a junction of the database is its own, and no older than the
\* request it answers; when answers come in order and none fails, no older than the
\* last request.
PlanIsRecent ==
  signalPlan # NoPlan =>
    /\ id \in Junctions => signalPlan.of = id
    /\ signalPlan.says >= plan[signalPlan.run].asked
    /\ inOrder /\ faults = 0 =>
         \A n \in Runs : plan[n].stage = "over" => signalPlan.says >= plan[n].asked
=============================================================================
