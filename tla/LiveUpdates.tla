------------------------------ MODULE LiveUpdates ------------------------------
(***************************************************************************)
(* How a change reaches the dashboards: the handlers that announce one     *)
(* (backend/app/api/signals.py, alerts.py, simulation.py), the Redis       *)
(* channels, redis_pubsub_bridge of main.py and the rooms of               *)
(* websocket/manager.py in every worker.                                   *)
(*                                                                         *)
(* row       the request that wrote the mode of the signal plan last       *)
(* req[r]    request r, and the room it is publishing to                   *)
(* log[m]    what was published for room m, in Redis's order: requests     *)
(* link[w]   whether worker w's bridge is subscribed                       *)
(* feed[w]   what Redis sent it and it has not read                        *)
(* out[t]    the local_broadcast in progress in task t: a worker's bridge, *)
(*           or a request                                                  *)
(* sock[c]   WebSocket c: its handler's worker and room, and how many      *)
(*           messages had been published for it when it joined             *)
(* rooms     the sockets in active_connections of their worker             *)
(* seen[c]   what was sent to c                                            *)
(* faults    the faults so far; overlapped: two requests ran at once       *)
(***************************************************************************)
EXTENDS Naturals, Sequences, SequencesExt, FiniteSets

CONSTANTS
  Workers,    \* uvicorn worker processes
  Requests,   \* requests that change something, each once
  Kinds,      \* what they may be
  Clients,    \* WebSockets, each connected once
  Watched,    \* the rooms they may join
  MaxSteps,   \* bound: steps broadcast at the same time
  MaxFaults,  \* bound: faults and sockets that go
  None

\* Signal events and alerts go to one room, a step's state to two, one after the
\* other.
Rooms == {"signals", "alerts", "simulation", "traffic"}
FirstRoom == [mode |-> "signals", override |-> "signals", acknowledge |-> "alerts",
              step |-> "simulation"]

ASSUME LiveUpdatesAssumption ==
  /\ Kinds \subseteq DOMAIN FirstRoom /\ Watched \subseteq Rooms
  /\ IsFiniteSet(Clients) /\ MaxSteps \in Nat /\ MaxFaults \in Nat
  /\ None \notin Requests \cup Clients \cup Workers
  /\ Requests \cap Workers = {}

VARIABLES row, req, log, link, feed, out, sock, rooms, seen, faults, overlapped
redis == <<log, link, feed>>
sockets == <<sock, rooms, seen>>
vars == <<row, req, redis, out, sockets, faults, overlapped>>

Over == {"answered", "failed"}
Running(r) == req[r].pc \notin {"new"} \cup Over
Nothing == [msg |-> None, room |-> "signals", todo |-> {}, dead |-> {}]
Busy(t) == out[t].msg # None

Gone == {c \in Clients : sock[c].pc \in {"closed", "over"}}
WithinBound == faults + Cardinality(Gone) < MaxFaults
Fault == WithinBound /\ faults' = faults + 1

Init ==
  /\ row = None
  /\ req = [r \in Requests |-> [pc |-> "new", kind |-> "mode", worker |-> None, room |-> "signals"]]
  /\ log = [m \in Rooms |-> <<>>]
  /\ link = [w \in Workers |-> TRUE] /\ feed = [w \in Workers |-> <<>>]
  /\ out = [t \in Workers \cup Requests |-> Nothing]
  /\ sock = [c \in Clients |-> [pc |-> "new", worker |-> None, room |-> "signals", since |-> 0]]
  /\ rooms = {} /\ seen = [c \in Clients |-> <<>>]
  /\ faults = 0 /\ overlapped = FALSE

-----------------------------------------------------------------------------
(* ConnectionManager.local_broadcast *)

\* Mutant: the room is not looked at.
MembersOfAll(w, m) == {c \in rooms : sock[c].worker = w}
Members(w, m) == {c \in rooms : sock[c].worker = w /\ sock[c].room = m}

\* The loop goes over a copy of the room; an empty one is over at once.
Delivery(w, msg, m) ==
  IF Members(w, m) = {} THEN Nothing
  ELSE [msg |-> msg, room |-> m, todo |-> Members(w, m), dead |-> {}]

\* ConnectionManager.disconnect.
\* Mutant: it only counts.
WithoutNone(gone) == rooms
Without(gone) == rooms \ gone

\* After the local delivery a step's broadcast turns to its second room.
AfterDelivery(r) ==
  IF req[r].room = "simulation"
  THEN [req EXCEPT ![r].pc = "publish", ![r].room = "traffic"]
  ELSE [req EXCEPT ![r].pc = "answered"]

\* Mutant: a send that raises ends the loop.
LeftAfterStops(d, c) == IF sock[c].pc = "open" THEN d.todo \ {c} ELSE {}
LeftAfter(d, c) == d.todo \ {c}

\* One send_json; on a socket that is closed it raises.  After the last one the
\* sockets that raised leave the room.
send(t, c) ==
  LET dead == IF sock[c].pc = "open" THEN out[t].dead ELSE out[t].dead \cup {c}
      left == LeftAfter(out[t], c)
  IN  /\ c \in out[t].todo
      /\ seen' = IF sock[c].pc = "open" THEN [seen EXCEPT ![c] = Append(@, out[t].msg)] ELSE seen
      /\ IF left # {}
         THEN /\ out' = [out EXCEPT ![t].todo = left, ![t].dead = dead]
              /\ UNCHANGED <<req, rooms>>
         ELSE /\ out' = [out EXCEPT ![t] = Nothing]
              /\ rooms' = Without(dead)
              /\ req' = IF t \in Requests THEN AfterDelivery(t) ELSE req
      /\ UNCHANGED <<row, redis, sock, faults, overlapped>>

-----------------------------------------------------------------------------
(* PATCH /mode, POST /override, PATCH /acknowledge, POST /step *)

\* A mode change and an acknowledgement commit their row and then publish; an
\* override, and a mode change of a junction without a plan, only publish; a step is
\* broadcast when its response is sent.
\* Mutant: the event is published before the commit.
FirstStepPublishes(k) == "publish"
FirstStep(k) == IF k \in {"mode", "acknowledge"} THEN "commit" ELSE "publish"

begin(r, k, w) ==
  /\ req[r].pc = "new"
  /\ k = "step" => Cardinality({x \in Requests : Running(x) /\ req[x].kind = k}) < MaxSteps
  /\ req' = [req EXCEPT ![r] = [pc |-> FirstStep(k), kind |-> k, worker |-> w, room |-> FirstRoom[k]]]
  /\ overlapped' = (overlapped \/ \E x \in Requests : Running(x))
  /\ UNCHANGED <<row, redis, out, sockets, faults>>

commit(r) ==
  /\ req[r].pc = "commit"
  /\ row' = IF req[r].kind = "mode" THEN r ELSE row
  /\ req' = [req EXCEPT ![r].pc = "publish"]
  /\ UNCHANGED <<redis, out, sockets, faults, overlapped>>

\* The client gets a 500.
commit_fails(r) ==
  /\ Fault
  /\ req[r].pc = "commit"
  /\ req' = [req EXCEPT ![r].pc = "failed"]
  /\ UNCHANGED <<row, redis, out, sockets, overlapped>>

\* ConnectionManager.broadcast goes on to the local sockets; the other handlers
\* leave those to the bridge.
\* Mutant: all handlers deliver locally too.
AfterPublishDelivers(r) == "deliver"
AfterPublish(r) == IF req[r].kind = "step" THEN "deliver" ELSE "answered"

\* Redis hands the message to every subscriber there is.
publish(r) ==
  /\ req[r].pc = "publish"
  /\ LET m == req[r].room
     IN  /\ log' = [log EXCEPT ![m] = Append(@, r)]
         /\ feed' = [w \in Workers |->
                       IF link[w] THEN Append(feed[w], [msg |-> r, room |-> m]) ELSE feed[w]]
  /\ req' = [req EXCEPT ![r].pc = AfterPublish(r)]
  /\ UNCHANGED <<row, link, out, sockets, faults, overlapped>>

\* The exception is swallowed or logged.
publish_fails(r) ==
  /\ Fault
  /\ req[r].pc = "publish"
  /\ req' = [req EXCEPT ![r].pc = AfterPublish(r)]
  /\ UNCHANGED <<row, redis, out, sockets, overlapped>>

deliver(r) ==
  /\ req[r].pc = "deliver" /\ ~Busy(r)
  /\ LET d == Delivery(req[r].worker, r, req[r].room)
     IN  /\ out' = [out EXCEPT ![r] = d]
         /\ req' = IF d = Nothing THEN AfterDelivery(r) ELSE req
  /\ UNCHANGED <<row, redis, sockets, faults, overlapped>>

-----------------------------------------------------------------------------
(* redis_pubsub_bridge *)

\* Mutant: what came last is read first.
NextOfLast(q) == [msg |-> Last(q), rest |-> Front(q)]
NextOf(q) == [msg |-> Head(q), rest |-> Tail(q)]

bridge_takes(w) ==
  /\ link[w] /\ feed[w] # <<>> /\ ~Busy(w)
  /\ LET n == NextOf(feed[w])
     IN  /\ out' = [out EXCEPT ![w] = Delivery(w, n.msg.msg, n.msg.room)]
         /\ feed' = [feed EXCEPT ![w] = n.rest]
  /\ UNCHANGED <<row, req, log, link, sockets, faults, overlapped>>

\* listen() raises; the next subscription is two seconds away and starts empty.
bridge_fails(w) ==
  /\ Fault
  /\ link[w] /\ ~Busy(w)
  /\ link' = [link EXCEPT ![w] = FALSE] /\ feed' = [feed EXCEPT ![w] = <<>>]
  /\ UNCHANGED <<row, req, log, out, sockets, overlapped>>

bridge_subscribes(w) ==
  /\ ~link[w]
  /\ link' = [link EXCEPT ![w] = TRUE]
  /\ UNCHANGED <<row, req, log, feed, out, sockets, faults, overlapped>>

-----------------------------------------------------------------------------
(* handle_websocket *)

\* The socket is put into its room after accept().
connect(c, w, m) ==
  /\ sock[c].pc = "new"
  /\ sock' = [sock EXCEPT ![c] = [pc |-> "open", worker |-> w, room |-> m, since |-> Len(log[m])]]
  /\ rooms' = rooms \cup {c}
  /\ UNCHANGED <<row, req, redis, out, seen, faults, overlapped>>

\* The browser's end is gone; the handler has not noticed.
closes(c) ==
  /\ WithinBound
  /\ sock[c].pc = "open"
  /\ sock' = [sock EXCEPT ![c].pc = "closed"]
  /\ UNCHANGED <<row, req, redis, out, rooms, seen, faults, overlapped>>

\* WebSocketDisconnect; a broadcast may have removed the socket before.
disconnect(c) ==
  /\ sock[c].pc = "closed"
  /\ sock' = [sock EXCEPT ![c].pc = "over"]
  /\ rooms' = Without({c})
  /\ UNCHANGED <<row, req, redis, out, seen, faults, overlapped>>

\* A worker process dies and is started again.
worker_restart(w) ==
  LET lost == {c \in Clients : sock[c].worker = w}
      killed == {r \in Requests : req[r].worker = w /\ req[r].pc \notin Over}
  IN  /\ Fault
      /\ req' = [r \in Requests |-> IF r \in killed THEN [req[r] EXCEPT !.pc = "failed"] ELSE req[r]]
      /\ out' = [t \in DOMAIN out |-> IF t \in killed \cup {w} THEN Nothing ELSE out[t]]
      /\ sock' = [c \in Clients |-> IF c \in lost THEN [sock[c] EXCEPT !.pc = "over"] ELSE sock[c]]
      /\ rooms' = rooms \ lost
      /\ link' = [link EXCEPT ![w] = FALSE] /\ feed' = [feed EXCEPT ![w] = <<>>]
      /\ UNCHANGED <<row, log, seen, overlapped>>

-----------------------------------------------------------------------------
Next ==
  \/ \E r \in Requests :
       \/ \E k \in Kinds, w \in Workers : begin(r, k, w)
       \/ commit(r) \/ commit_fails(r) \/ publish(r) \/ publish_fails(r)
       \/ deliver(r)
  \/ \E t \in Workers \cup Requests, c \in Clients : send(t, c)
  \/ \E w \in Workers :
       bridge_takes(w) \/ bridge_fails(w) \/ bridge_subscribes(w) \/ worker_restart(w)
  \/ \E c \in Clients :
       \/ \E w \in Workers, m \in Watched : connect(c, w, m)
       \/ closes(c) \/ disconnect(c)

Spec == Init /\ [][Next]_vars

-----------------------------------------------------------------------------
(* Properties *)

\* Type invariant; a socket that is over is in no room, however it went, and a
\* broadcast in progress has something left to send.
TypeOK ==
  /\ row \in Requests \cup {None}
  /\ req \in [Requests -> [pc : {"new", "commit", "publish", "deliver"} \cup Over,
                           kind : DOMAIN FirstRoom, worker : Workers \cup {None}, room : Rooms]]
  /\ log \in [Rooms -> Seq(Requests)]
  /\ link \in [Workers -> BOOLEAN] /\ feed \in [Workers -> Seq([msg : Requests, room : Rooms])]
  /\ out \in [Workers \cup Requests -> [msg : Requests \cup {None}, room : Rooms,
                                        todo : SUBSET Clients, dead : SUBSET Clients]]
  /\ \A t \in DOMAIN out : IF Busy(t) THEN out[t].todo # {} ELSE out[t] = Nothing
  /\ sock \in [Clients -> [pc : {"new", "open", "closed", "over"},
                           worker : Workers \cup {None}, room : Rooms, since : Nat]]
  /\ rooms \subseteq {c \in Clients : sock[c].pc \in {"open", "closed"}}
  /\ seen \in [Clients -> Seq(Requests)]
  /\ faults \in 0 .. MaxFaults /\ overlapped \in BOOLEAN

\* Whatever fails, the dashboards of all workers see signal events and alerts in the
\* one order in which Redis took them, and none twice ("Multi-worker real-time
\* WebSocket broadcast via Redis pub/sub").
OneOrder ==
  \A c \in Clients : sock[c].room \in {"signals", "alerts"} =>
    LET At(i) == SelectInSeq(log[sock[c].room], LAMBDA r : r = seen[c][i])
    IN  /\ \A i \in DOMAIN seen[c] : At(i) > 0
        /\ \A i, k \in DOMAIN seen[c] : i < k => At(i) < At(k)

Times(s, x) == Cardinality({i \in 1 .. Len(s) : s[i] = x})

\* The state of a step comes once to the dashboards of other workers, and at most
\* twice to those of the worker that served it.
AtMostTwice ==
  \A c \in Clients, r \in Requests :
    Times(seen[c], r) <= IF sock[c].worker = req[r].worker THEN 2 ELSE 1

AtRest ==
  /\ \A r \in Requests : ~Running(r)
  /\ \A t \in DOMAIN out : ~Busy(t)
  /\ \A w \in Workers : feed[w] = <<>>

\* Without faults, at rest, every dashboard shows last what was published last since
\* it joined, on whichever worker it is; of steps, only if requests come one at a
\* time.
LastIsShown ==
  faults = 0 /\ AtRest => \A c \in rooms :
    LET published == log[sock[c].room]
    IN  sock[c].pc = "open" /\ Len(published) > sock[c].since
          /\ (~overlapped \/ sock[c].room \in {"signals", "alerts"})
        => seen[c] # <<>> /\ Last(seen[c]) = Last(published)

\* The mode announced last, if there is one.
IsMode(r) == req[r].kind = "mode"
LastMode(i) == LET s == log["signals"]
               IN  IsMode(s[i]) /\ \A k \in 1 .. Len(s) : k > i => ~IsMode(s[k])

\* Operators who change the mode one after the other leave the mode announced last
\* in the database.
ModeIsRow ==
  faults = 0 /\ AtRest /\ ~overlapped =>
    \A i \in 1 .. Len(log["signals"]) : LastMode(i) => log["signals"][i] = row

\* Without faults, at rest, a dashboard that stays has been sent all that was
\* published since it joined, whoever else in its room has gone meanwhile.
NothingIsMissed ==
  faults = 0 /\ AtRest => \A c \in rooms :
    sock[c].pc = "open" =>
      LET published == log[sock[c].room]
      IN  \A i \in sock[c].since + 1 .. Len(published) : Contains(seen[c], published[i])

\* Without faults, once no request is under way, the dashboards that stayed have been sent
\* everything and end with the last, and the database has the mode announced last.
CompleteAtRest == LastIsShown /\ ModeIsRow /\ NothingIsMissed
=============================================================================
