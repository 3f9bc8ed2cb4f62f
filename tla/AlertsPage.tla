------------------------------ MODULE AlertsPage ------------------------------
(***************************************************************************)
(* The alerts page of the dashboard (pages/AlertsPage.tsx).  It asks for   *)
(* all alerts when it is mounted, every ten seconds and on Refresh, and    *)
(* shows whatever answer came last; acknowledging an alert changes what is *)
(* shown once the server has confirmed it.  Polls and acknowledgements     *)
(* overlap.                                                                *)
(*                                                                         *)
(* raised, acked      the server's alerts, and the acknowledged ones       *)
(* poll[p]            request p for all alerts, what its answer says, and  *)
(*                    what the page had confirmed when it was sent         *)
(* ack[a]             the page's acknowledgement of alert a                *)
(* alerts, marked     what is listed, and listed as acknowledged           *)
(* filter, showAcknowledged   which of the listed alerts are shown         *)
(* known              acknowledgements the page must not have forgotten:   *)
(*                    confirmed before the poll it shows was sent, or      *)
(*                    after it arrived                                     *)
(***************************************************************************)
EXTENDS InformationBounds, FiniteSets

VARIABLES raised, acked, poll, ack, alerts, marked, loading, filter, showAcknowledged,
          known, faults
alertServer == <<raised, acked>>
choice == <<filter, showAcknowledged>>
alertsVars == <<alertServer, poll, ack, alerts, marked, loading, choice, known, faults>>

Idle == [at |-> "idle", raised |-> {}, acked |-> {}, knew |-> {}]
First == CHOOSE p \in Polls : TRUE
MayFail == faults < MaxFaults /\ faults' = faults + 1

\* The page is mounted with its first request on the way.
AlertsInit ==
  /\ raised \in SUBSET Alerts /\ acked \in SUBSET raised
  /\ poll = [p \in Polls |-> IF p = First THEN [Idle EXCEPT !.at = "asked"] ELSE Idle]
  /\ ack = [a \in Alerts |-> "none"]
  /\ alerts = {} /\ marked = {} /\ loading = TRUE /\ known = {} /\ faults = 0
  /\ filter = "ALL" /\ showAcknowledged = TRUE

(***************************************************************************)
(* fetchAlerts, by the interval and by the Refresh button.                 *)
(***************************************************************************)
fetchAlerts(p) ==
  /\ poll[p].at = "idle"
  /\ poll' = [poll EXCEPT ![p] = [Idle EXCEPT !.at = "asked", !.knew = known]]
  /\ loading' = TRUE
  /\ UNCHANGED <<alertServer, ack, alerts, marked, choice, known, faults>>

PollServed(p) ==
  /\ poll[p].at = "asked"
  /\ poll' = [poll EXCEPT ![p] = [@ EXCEPT !.at = "served", !.raised = raised, !.acked = acked]]
  /\ UNCHANGED <<alertServer, ack, alerts, marked, loading, choice, known, faults>>

\* Mutants: the answer's flag is not read; an error leaves the button turning.
MarkedBefore(p) == marked \cap poll[p].raised
MarkedIn(p) == poll[p].acked
LoadingAfterFailureKept == loading
LoadingAfterFailure == FALSE

PollArrives(p) ==
  /\ poll[p].at = "served"
  /\ alerts' = poll[p].raised /\ marked' = MarkedIn(p)
  /\ known' = poll[p].knew
  /\ poll' = [poll EXCEPT ![p] = Idle]
  /\ loading' = FALSE
  /\ UNCHANGED <<alertServer, ack, choice, faults>>

PollFails(p) ==
  /\ poll[p].at # "idle" /\ MayFail
  /\ poll' = [poll EXCEPT ![p] = Idle]
  /\ loading' = LoadingAfterFailure
  /\ UNCHANGED <<alertServer, ack, alerts, marked, choice, known>>

(***************************************************************************)
(* handleAcknowledge.                                                      *)
(***************************************************************************)

\* What the list shows: one severity or all, with or without the acknowledged ones.
filteredAlerts == {a \in alerts : /\ filter = "ALL" \/ (filter = "CRITICAL" <=> a \in Critical)
                                  /\ showAcknowledged \/ a \notin marked}

SetFilter(f) ==
  /\ filter' = f
  /\ UNCHANGED <<alertServer, poll, ack, alerts, marked, loading, showAcknowledged, known, faults>>

ToggleAcknowledged ==
  /\ showAcknowledged' = ~showAcknowledged
  /\ UNCHANGED <<alertServer, poll, ack, alerts, marked, loading, filter, known, faults>>

\* Only an alert that is not shown as acknowledged has the button; while the request
\* is under way the button is still there, and a second click asks the same again.
Acknowledgeable == filteredAlerts \ marked

handleAcknowledge(a) ==
  /\ a \in Acknowledgeable /\ ack[a] = "none"
  /\ ack' = [ack EXCEPT ![a] = "asked"]
  /\ UNCHANGED <<alertServer, poll, alerts, marked, loading, choice, known, faults>>

AckServed(a) ==
  /\ ack[a] = "asked"
  /\ acked' = acked \cup {a}
  /\ ack' = [ack EXCEPT ![a] = "served"]
  /\ UNCHANGED <<raised, poll, alerts, marked, loading, choice, known, faults>>

\* Mutants: a confirmed alert is not marked; one is marked in spite of the error.
ConfirmedNothing(a) == marked
Confirmed(a) == marked \cup ({a} \cap alerts)
AfterFailureMarked(a) == marked \cup ({a} \cap alerts)
AfterFailure(a) == marked

AckArrives(a) ==
  /\ ack[a] = "served"
  /\ marked' = Confirmed(a)
  /\ known' = known \cup {a}
  /\ ack' = [ack EXCEPT ![a] = "none"]
  /\ UNCHANGED <<alertServer, poll, alerts, loading, choice, faults>>

AckFails(a) ==
  /\ ack[a] # "none" /\ MayFail
  /\ ack' = [ack EXCEPT ![a] = "none"]
  /\ marked' = AfterFailure(a)
  /\ UNCHANGED <<alertServer, poll, alerts, loading, choice, known>>

(***************************************************************************)
(* The server, for others.                                                 *)
(***************************************************************************)
Raise(a) ==
  /\ a \notin raised /\ raised' = raised \cup {a}
  /\ UNCHANGED <<acked, poll, ack, alerts, marked, loading, choice, known, faults>>

OtherAcknowledges(a) ==
  /\ a \in raised \ acked /\ acked' = acked \cup {a}
  /\ UNCHANGED <<raised, poll, ack, alerts, marked, loading, choice, known, faults>>

AlertsNext ==
  \/ \E p \in Polls : fetchAlerts(p) \/ PollServed(p) \/ PollArrives(p) \/ PollFails(p)
  \/ \E a \in Alerts : \/ handleAcknowledge(a) \/ AckServed(a) \/ AckArrives(a) \/ AckFails(a)
                       \/ Raise(a) \/ OtherAcknowledges(a)
  \/ \E f \in {"ALL", "CRITICAL", "WARNING"} : SetFilter(f)
  \/ ToggleAcknowledged

\* The interval keeps asking, and requests are answered.
AlertsFairness == \A p \in Polls : /\ WF_alertsVars(fetchAlerts(p))
                                /\ WF_alertsVars(PollServed(p))
                                /\ WF_alertsVars(PollArrives(p))
AlertsSpec == AlertsInit /\ [][AlertsNext]_alertsVars /\ AlertsFairness

(***************************************************************************)
(* Properties.                                                             *)
(***************************************************************************)

\* Every variable has its type.
AlertsTypeOK ==
  /\ raised \subseteq Alerts /\ acked \subseteq Alerts
  /\ poll \in [Polls -> [at : {"idle", "asked", "served"}, raised : SUBSET Alerts,
                         acked : SUBSET Alerts, knew : SUBSET Alerts]]
  /\ ack \in [Alerts -> {"none", "asked", "served"}]
  /\ alerts \subseteq Alerts /\ marked \subseteq Alerts /\ known \subseteq Alerts
  /\ filter \in {"ALL", "CRITICAL", "WARNING"} /\ showAcknowledged \in BOOLEAN
  /\ loading \in BOOLEAN /\ faults \in 0..MaxFaults

\* What is shown as acknowledged is: no order of answers marks an alert early.
MarkedIsAcknowledged == marked \subseteq acked \cap alerts

\* An acknowledgement that was confirmed before the poll that is shown was sent, or
\* after it arrived, is shown: only a poll that overlapped it can hide it again.
OwnAcknowledgementsStay == known \cap alerts \subseteq marked

\* What the list says of acknowledgements is true, and as complete as the answers are.
AcknowledgementsAreTrue == MarkedIsAcknowledged /\ OwnAcknowledgementsStay

\* The spinner turns only while a request is under way.
LoadingHasPoll == loading => \E p \in Polls : poll[p].at # "idle"

\* Whatever the overlaps, an acknowledged alert ends up shown as acknowledged.
AcknowledgedIsShown == \A a \in Alerts : a \in acked ~> a \in marked
=============================================================================
