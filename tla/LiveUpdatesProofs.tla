-------------------------- MODULE LiveUpdatesProofs --------------------------
(***************************************************************************)
(* What holds of live updates for any number of workers, requests and      *)
(* dashboards, and any faults.                                             *)
(***************************************************************************)
EXTENDS LiveUpdates, FiniteSetTheorems, TLAPS

Request == [pc : {"new", "commit", "publish", "deliver"} \cup Over,
            kind : DOMAIN FirstRoom, worker : Workers \cup {None}, room : Rooms]
Message == [msg : Requests, room : Rooms]
Broadcast == [msg : Requests \cup {None}, room : Rooms, todo : SUBSET Clients,
              dead : SUBSET Clients]
Socket == [pc : {"new", "open", "closed", "over"}, worker : Workers \cup {None},
           room : Rooms, since : Nat]

\* A broadcast in progress has something left to send.
WellFormed(d) == IF d.msg # None THEN d.todo # {} ELSE d = Nothing

LEMMA KindsAndRooms ==
  /\ DOMAIN FirstRoom = {"mode", "override", "acknowledge", "step"}
  /\ FirstRoom["mode"] = "signals" /\ FirstRoom["override"] = "signals"
  /\ FirstRoom["acknowledge"] = "alerts" /\ FirstRoom["step"] = "simulation"
  /\ \A k \in DOMAIN FirstRoom : FirstRoom[k] \in Rooms
BY DEF FirstRoom, Rooms

LEMMA NothingType == Nothing \in Broadcast /\ WellFormed(Nothing)
BY DEF Nothing, Broadcast, WellFormed, Rooms

\* A local broadcast starts with the members of its room.
LEMMA DeliveryType ==
  ASSUME TypeOK, NEW w, NEW r \in Requests, NEW m \in Rooms
  PROVE  /\ Delivery(w, r, m) \in Broadcast /\ WellFormed(Delivery(w, r, m))
         /\ Delivery(w, r, m) # Nothing =>
              /\ Delivery(w, r, m).msg = r /\ Delivery(w, r, m).room = m
              /\ Delivery(w, r, m).todo = Members(w, m)
<1>1. CASE Members(w, m) = {}
  BY <1>1, NothingType DEF Delivery
<1>2. CASE Members(w, m) # {}
  <2>1. Delivery(w, r, m) = [msg |-> r, room |-> m, todo |-> Members(w, m), dead |-> {}]
    BY <1>2 DEF Delivery
  <2>2. Members(w, m) \subseteq Clients
    BY DEF Members, TypeOK
  <2>3. r # None
    BY LiveUpdatesAssumption
  <2> QED BY <1>2, <2>1, <2>2, <2>3 DEF Broadcast, WellFormed
<1> QED BY <1>1, <1>2

LEMMA FaultType ==
  ASSUME TypeOK, Fault
  PROVE  faults' \in 0 .. MaxFaults
<1>1. IsFiniteSet(Gone)
  BY LiveUpdatesAssumption, FS_Subset DEF Gone
<1>2. Cardinality(Gone) \in Nat
  BY <1>1, FS_CardinalityType
<1> QED BY <1>2, LiveUpdatesAssumption DEF Fault, WithinBound, TypeOK

\* The parts of TypeOK.
ReqOK == req \in [Requests -> Request]
RedisOK == /\ log \in [Rooms -> Seq(Requests)] /\ link \in [Workers -> BOOLEAN]
           /\ feed \in [Workers -> Seq(Message)]
OutOK == /\ out \in [Workers \cup Requests -> Broadcast]
         /\ \A t \in Workers \cup Requests : WellFormed(out[t])
SocketsOK == /\ sock \in [Clients -> Socket]
             /\ rooms \subseteq {c \in Clients : sock[c].pc \in {"open", "closed"}}
             /\ seen \in [Clients -> Seq(Requests)]
RestOK == row \in Requests \cup {None} /\ faults \in 0 .. MaxFaults /\ overlapped \in BOOLEAN

LEMMA TypeParts == TypeOK <=> ReqOK /\ RedisOK /\ OutOK /\ SocketsOK /\ RestOK
<1>1. OutOK <=> /\ out \in [Workers \cup Requests -> Broadcast]
                /\ \A t \in DOMAIN out : IF Busy(t) THEN out[t].todo # {} ELSE out[t] = Nothing
  BY DEF OutOK, WellFormed, Busy
<1> QED BY <1>1 DEF TypeOK, ReqOK, RedisOK, SocketsOK, RestOK, Request, Message, Broadcast, Socket

LEMMA AfterDeliveryType ==
  ASSUME TypeOK, NEW r \in Requests
  PROVE  AfterDelivery(r) \in [Requests -> Request]
<1>1. req \in [Requests -> Request]
  BY TypeParts DEF ReqOK
<1>2. ASSUME NEW p \in {"publish", "answered"}, NEW m \in Rooms
      PROVE  [req EXCEPT ![r].pc = p, ![r].room = m] \in [Requests -> Request]
  BY <1>1, <1>2 DEF Request, Over
<1>3. [req EXCEPT ![r].pc = "answered"] \in [Requests -> Request]
  BY <1>1 DEF Request, Over
<1>4. "traffic" \in Rooms
  BY DEF Rooms
<1> QED BY <1>2, <1>3, <1>4 DEF AfterDelivery

LEMMA TypeInit == Init => TypeOK
<1> SUFFICES ASSUME Init PROVE TypeOK
  OBVIOUS
<1>1. ReqOK
  BY KindsAndRooms DEF Init, ReqOK, Request, Rooms
<1>2. RedisOK
  <2>1. <<>> \in Seq(Requests) /\ <<>> \in Seq(Message)
    OBVIOUS
  <2>2. log \in [Rooms -> Seq(Requests)] /\ feed \in [Workers -> Seq(Message)]
    BY <2>1 DEF Init
  <2>3. link \in [Workers -> BOOLEAN]
    BY DEF Init
  <2> QED BY <2>2, <2>3 DEF RedisOK
<1>3. OutOK
  BY NothingType DEF Init, OutOK
<1>4. SocketsOK
  BY DEF Init, SocketsOK, Socket, Rooms
<1>5. RestOK
  <2>1. row = None /\ faults = 0 /\ overlapped = FALSE
    BY DEF Init
  <2>2. overlapped \in BOOLEAN
    BY <2>1
  <2> QED BY <2>1, <2>2, LiveUpdatesAssumption DEF RestOK
<1> QED BY <1>1, <1>2, <1>3, <1>4, <1>5, TypeParts

LEMMA TypeStep == TypeOK /\ [Next]_vars => TypeOK'
<1> SUFFICES ASSUME TypeOK, [Next]_vars PROVE TypeOK'
  OBVIOUS
<1>0. ReqOK /\ RedisOK /\ OutOK /\ SocketsOK /\ RestOK
  BY TypeParts
<1>P. ReqOK' /\ RedisOK' /\ OutOK' /\ SocketsOK' /\ RestOK' => TypeOK'
  BY TypeParts, PTL
<1>1. ASSUME NEW r \in Requests, NEW k \in Kinds, NEW w \in Workers, begin(r, k, w)
      PROVE  TypeOK'
  <2>1. ReqOK'
    <3>1. /\ FirstStep(k) \in {"commit", "publish"} /\ FirstRoom[k] \in Rooms
          /\ k \in DOMAIN FirstRoom
      BY KindsAndRooms, LiveUpdatesAssumption DEF FirstStep
    <3>2. [pc |-> FirstStep(k), kind |-> k, worker |-> w, room |-> FirstRoom[k]] \in Request
      BY <3>1 DEF Request
    <3> QED BY <1>0, <1>1, <3>2 DEF begin, ReqOK
  <2>2. RedisOK' /\ OutOK' /\ SocketsOK'
    BY <1>0, <1>1 DEF begin, RedisOK, OutOK, SocketsOK, redis, sockets
  <2>3. overlapped' \in BOOLEAN
    BY <1>0, <1>1 DEF begin, RestOK
  <2> QED BY <1>0, <1>1, <1>P, <2>1, <2>2, <2>3 DEF begin, RestOK
<1>2. ASSUME NEW r \in Requests, commit(r) PROVE TypeOK'
  <2>1. ReqOK'
    BY <1>0, <1>2 DEF commit, ReqOK, Request
  <2>2. RedisOK' /\ OutOK' /\ SocketsOK'
    BY <1>0, <1>2 DEF commit, RedisOK, OutOK, SocketsOK, redis, sockets
  <2> QED BY <1>0, <1>2, <1>P, <2>1, <2>2 DEF commit, RestOK
<1>3. ASSUME NEW r \in Requests, commit_fails(r) PROVE TypeOK'
  <2>1. ReqOK'
    BY <1>0, <1>3 DEF commit_fails, ReqOK, Request, Over
  <2>2. RedisOK' /\ OutOK' /\ SocketsOK'
    BY <1>0, <1>3 DEF commit_fails, RedisOK, OutOK, SocketsOK, redis, sockets
  <2>3. RestOK'
    BY <1>0, <1>3, FaultType DEF commit_fails, RestOK
  <2> QED BY <1>P, <2>1, <2>2, <2>3
<1>4. ASSUME NEW r \in Requests, publish(r) PROVE TypeOK'
  <2>1. ReqOK'
    BY <1>0, <1>4 DEF publish, AfterPublish, ReqOK, Request, Over
  <2>2. RedisOK'
    <3>0. req[r].room \in Rooms
      BY <1>0 DEF ReqOK, Request
    <3>1. log' = [log EXCEPT ![req[r].room] = Append(@, r)]
      BY <1>4 DEF publish
    <3>2. log' \in [Rooms -> Seq(Requests)]
      BY <1>0, <3>0, <3>1 DEF RedisOK
    <3>3. [msg |-> r, room |-> req[r].room] \in Message
      BY <3>0 DEF Message
    <3>4. feed' = [w \in Workers |->
                     IF link[w] THEN Append(feed[w], [msg |-> r, room |-> req[r].room])
                     ELSE feed[w]]
      BY <1>4 DEF publish
    <3>5. feed' \in [Workers -> Seq(Message)]
      BY <1>0, <3>3, <3>4 DEF RedisOK
    <3> QED BY <1>0, <1>4, <3>2, <3>5 DEF publish, RedisOK
  <2>3. OutOK' /\ SocketsOK' /\ RestOK'
    BY <1>0, <1>4 DEF publish, OutOK, SocketsOK, RestOK, sockets
  <2> QED BY <1>P, <2>1, <2>2, <2>3
<1>5. ASSUME NEW r \in Requests, publish_fails(r) PROVE TypeOK'
  <2>1. ReqOK'
    BY <1>0, <1>5 DEF publish_fails, AfterPublish, ReqOK, Request, Over
  <2>2. RedisOK' /\ OutOK' /\ SocketsOK'
    BY <1>0, <1>5 DEF publish_fails, RedisOK, OutOK, SocketsOK, redis, sockets
  <2>3. RestOK'
    BY <1>0, <1>5, FaultType DEF publish_fails, RestOK
  <2> QED BY <1>P, <2>1, <2>2, <2>3
<1>6. ASSUME NEW r \in Requests, deliver(r) PROVE TypeOK'
  <2>0. req[r].room \in Rooms
    BY <1>0 DEF ReqOK, Request
  <2> DEFINE d == Delivery(req[r].worker, r, req[r].room)
  <2>1. d \in Broadcast /\ WellFormed(d)
    BY <2>0, DeliveryType
  <2>2. out' = [out EXCEPT ![r] = d]
    BY <1>6 DEF deliver
  <2>3. req' = req \/ req' = AfterDelivery(r)
    BY <1>6 DEF deliver
  <2> HIDE DEF d
  <2>4. OutOK'
    BY <1>0, <2>1, <2>2 DEF OutOK
  <2>5. ReqOK'
    BY <1>0, <2>3, AfterDeliveryType DEF ReqOK
  <2>6. RedisOK' /\ SocketsOK' /\ RestOK'
    BY <1>0, <1>6 DEF deliver, RedisOK, SocketsOK, RestOK, redis, sockets
  <2> QED BY <1>P, <2>4, <2>5, <2>6
<1>7. ASSUME NEW t \in Workers \cup Requests, NEW c \in Clients, send(t, c) PROVE TypeOK'
  <2> DEFINE dead == IF sock[c].pc = "open" THEN out[t].dead ELSE out[t].dead \cup {c}
             left == LeftAfter(out[t], c)
  <2>1. out[t] \in Broadcast /\ WellFormed(out[t]) /\ c \in out[t].todo
    BY <1>0, <1>7 DEF send, OutOK
  <2>2. out[t].msg \in Requests
    BY <2>1 DEF Broadcast, WellFormed, Nothing
  <2>3. dead \subseteq Clients /\ left \subseteq Clients
    BY <2>1 DEF Broadcast, LeftAfter
  <2>4. SocketsOK'
    <3>1. seen' \in [Clients -> Seq(Requests)]
      BY <1>0, <1>7, <2>2 DEF send, SocketsOK
    <3>2. rooms' \subseteq rooms /\ sock' = sock
      BY <1>7 DEF send, Without
    <3> QED BY <1>0, <3>1, <3>2 DEF SocketsOK
  <2>5. OutOK'
    <3>1. CASE left = {}
      <4>1. out' = [out EXCEPT ![t] = Nothing]
        BY <1>7, <3>1 DEF send
      <4> QED BY <1>0, <4>1, NothingType DEF OutOK
    <3>2. CASE left # {}
      <4>1. out' = [out EXCEPT ![t].todo = left, ![t].dead = dead]
        BY <1>7, <3>2 DEF send
      <4> HIDE DEF left, dead
      <4>2. out'[t] = [msg |-> out[t].msg, room |-> out[t].room, todo |-> left, dead |-> dead]
        BY <1>0, <2>1, <4>1 DEF OutOK, Broadcast
      <4>3. out'[t] \in Broadcast /\ WellFormed(out'[t])
        BY <2>1, <2>2, <2>3, <3>2, <4>2, LiveUpdatesAssumption DEF Broadcast, WellFormed
      <4>4. \A u \in Workers \cup Requests : u # t => out'[u] = out[u]
        BY <1>0, <4>1 DEF OutOK
      <4>5. out' \in [Workers \cup Requests -> Broadcast]
        BY <1>0, <4>1, <4>3, <4>4 DEF OutOK
      <4> QED BY <1>0, <4>3, <4>4, <4>5 DEF OutOK
    <3> QED BY <3>1, <3>2
  <2>6. ReqOK'
    <3>1. CASE t \in Requests
      <4>1. req' = req \/ req' = AfterDelivery(t)
        BY <1>7, <3>1 DEF send
      <4> QED BY <1>0, <3>1, <4>1, AfterDeliveryType DEF ReqOK
    <3>2. CASE t \notin Requests
      <4>1. req' = req
        BY <1>7, <3>2 DEF send
      <4> QED BY <1>0, <4>1 DEF ReqOK
    <3> QED BY <3>1, <3>2
  <2>7. RedisOK' /\ RestOK'
    BY <1>0, <1>7 DEF send, RedisOK, RestOK, redis
  <2> QED BY <1>P, <2>4, <2>5, <2>6, <2>7
<1>8. ASSUME NEW w \in Workers, bridge_takes(w) PROVE TypeOK'
  <2>1. /\ Head(feed[w]) \in Message /\ Tail(feed[w]) \in Seq(Message)
    BY <1>0, <1>8 DEF bridge_takes, RedisOK
  <2> DEFINE d == Delivery(w, Head(feed[w]).msg, Head(feed[w]).room)
  <2>2. d \in Broadcast /\ WellFormed(d)
    <3>1. Head(feed[w]).msg \in Requests /\ Head(feed[w]).room \in Rooms
      BY <2>1 DEF Message
    <3> QED BY <3>1, DeliveryType
  <2>3. out' = [out EXCEPT ![w] = d] /\ feed' = [feed EXCEPT ![w] = Tail(feed[w])]
    BY <1>8 DEF bridge_takes, NextOf
  <2> HIDE DEF d
  <2>4. OutOK'
    BY <1>0, <2>2, <2>3 DEF OutOK
  <2>5. RedisOK'
    BY <1>0, <1>8, <2>1, <2>3 DEF bridge_takes, RedisOK
  <2>6. ReqOK' /\ SocketsOK' /\ RestOK'
    BY <1>0, <1>8 DEF bridge_takes, ReqOK, SocketsOK, RestOK, sockets
  <2> QED BY <1>P, <2>4, <2>5, <2>6
<1>9. ASSUME NEW w \in Workers, bridge_fails(w) PROVE TypeOK'
  <2>1. RedisOK'
    <3>1. <<>> \in Seq(Message)
      OBVIOUS
    <3> QED BY <1>0, <1>9, <3>1 DEF bridge_fails, RedisOK
  <2>2. ReqOK' /\ OutOK' /\ SocketsOK'
    BY <1>0, <1>9 DEF bridge_fails, ReqOK, OutOK, SocketsOK, sockets
  <2>3. RestOK'
    BY <1>0, <1>9, FaultType DEF bridge_fails, RestOK
  <2> QED BY <1>P, <2>1, <2>2, <2>3
<1>10. ASSUME NEW w \in Workers, bridge_subscribes(w) PROVE TypeOK'
  BY <1>0, <1>10, <1>P DEF bridge_subscribes, ReqOK, RedisOK, OutOK, SocketsOK, RestOK, sockets
<1>11. ASSUME NEW w \in Workers, worker_restart(w) PROVE TypeOK'
  <2>1. ReqOK'
    BY <1>0, <1>11 DEF worker_restart, ReqOK, Request, Over
  <2>2. RedisOK'
    <3>1. <<>> \in Seq(Message)
      OBVIOUS
    <3> QED BY <1>0, <1>11, <3>1 DEF worker_restart, RedisOK
  <2>3. OutOK'
    BY <1>0, <1>11, NothingType DEF worker_restart, OutOK
  <2>4. SocketsOK'
    <3> DEFINE lost == {c \in Clients : sock[c].worker = w}
    <3>1. sock' = [c \in Clients |-> IF c \in lost THEN [sock[c] EXCEPT !.pc = "over"] ELSE sock[c]]
      BY <1>11 DEF worker_restart
    <3>2. rooms' = rooms \ lost /\ seen' = seen
      BY <1>11 DEF worker_restart
    <3>3. sock' \in [Clients -> Socket]
      BY <1>0, <3>1 DEF SocketsOK, Socket
    <3>4. \A c \in rooms' : sock'[c] = sock[c]
      BY <1>0, <3>1, <3>2 DEF SocketsOK
    <3> QED BY <1>0, <3>2, <3>3, <3>4 DEF SocketsOK
  <2>5. RestOK'
    BY <1>0, <1>11, FaultType DEF worker_restart, RestOK
  <2> QED BY <1>P, <2>1, <2>2, <2>3, <2>4, <2>5
<1>12. ASSUME NEW c \in Clients, NEW w \in Workers, NEW m \in Watched, connect(c, w, m)
       PROVE  TypeOK'
  <2>1. m \in Rooms /\ Len(log[m]) \in Nat
    BY <1>0, LiveUpdatesAssumption DEF RedisOK
  <2>2. SocketsOK'
    <3> DEFINE s == [pc |-> "open", worker |-> w, room |-> m, since |-> Len(log[m])]
    <3>1. s \in Socket /\ s.pc = "open"
      BY <2>1 DEF Socket
    <3>2. sock' = [sock EXCEPT ![c] = s] /\ rooms' = rooms \cup {c} /\ seen' = seen
      BY <1>12 DEF connect
    <3> HIDE DEF s
    <3> QED BY <1>0, <3>1, <3>2 DEF SocketsOK
  <2>3. ReqOK' /\ RedisOK' /\ OutOK' /\ RestOK'
    BY <1>0, <1>12 DEF connect, ReqOK, RedisOK, OutOK, RestOK, redis
  <2> QED BY <1>P, <2>2, <2>3
<1>13. ASSUME NEW c \in Clients, closes(c) \/ disconnect(c) PROVE TypeOK'
  <2>1. SocketsOK'
    <3>1. CASE closes(c)
      <4>1. sock' = [sock EXCEPT ![c].pc = "closed"] /\ rooms' = rooms /\ seen' = seen
        BY <3>1 DEF closes
      <4> QED BY <1>0, <4>1 DEF SocketsOK, Socket
    <3>2. CASE disconnect(c)
      <4>1. /\ sock' = [sock EXCEPT ![c].pc = "over"]
            /\ rooms' = rooms \ {c} /\ seen' = seen
        BY <3>2 DEF disconnect, Without
      <4> QED BY <1>0, <4>1 DEF SocketsOK, Socket
    <3> QED BY <1>13, <3>1, <3>2
  <2>2. ReqOK' /\ RedisOK' /\ OutOK' /\ RestOK'
    BY <1>0, <1>13 DEF closes, disconnect, ReqOK, RedisOK, OutOK, RestOK, redis
  <2> QED BY <1>P, <2>1, <2>2
<1>14. CASE UNCHANGED vars
  BY <1>0, <1>14, <1>P DEF vars, redis, sockets, ReqOK, RedisOK, OutOK, SocketsOK, RestOK
<1> QED BY <1>1, <1>2, <1>3, <1>4, <1>5, <1>6, <1>7, <1>8, <1>9, <1>10, <1>11, <1>12, <1>13,
           <1>14 DEF Next

\* The types hold in every state.
THEOREM TypeCorrect == Spec => []TypeOK
BY TypeInit, TypeStep, PTL DEF Spec
-----------------------------------------------------------------------------
(* One order. *)

\* The rooms whose messages reach the sockets through the bridges alone.
Bridged == {"signals", "alerts"}

In(s, x) == \E i \in 1 .. Len(s) : s[i] = x
Before(s, x, y) == \E i, k \in 1 .. Len(s) : i < k /\ s[i] = x /\ s[k] = y

\* Handlers broadcast locally only the steps, and these go to other rooms.
OwnBroadcasts ==
  \A r \in Requests :
    /\ req[r].pc = "deliver" => req[r].kind = "step"
    /\ req[r].kind = "step" => req[r].room \notin Bridged
    /\ Busy(r) => req[r].pc = "deliver" /\ out[r].room \notin Bridged

\* A request publishes to such a room once, as its last step.
PublishedOnce ==
  \A m \in Bridged :
    /\ \A i \in 1 .. Len(log[m]) : req[log[m][i]].pc = "answered"
    /\ \A i, k \in 1 .. Len(log[m]) : log[m][i] = log[m][k] => i = k

\* A broadcast sends to sockets of its room that are connected, and a bridge to those
\* of its worker.
RightSockets ==
  /\ \A c \in Clients : sock[c].pc = "new" => seen[c] = <<>>
  /\ \A t \in Workers \cup Requests : \A c \in out[t].todo :
       /\ sock[c].room = out[t].room /\ sock[c].pc # "new"
       /\ t \in Workers => sock[c].worker = t

Shape == OwnBroadcasts /\ PublishedOnce /\ RightSockets

\* What Redis sent a worker is in its order.
FeedInOrder ==
  \A w \in Workers : \A i \in 1 .. Len(feed[w]) : feed[w][i].room \in Bridged =>
    LET s == log[feed[w][i].room]
    IN  /\ In(s, feed[w][i].msg)
        /\ \A k \in 1 .. Len(feed[w]) :
             i < k /\ feed[w][k].room = feed[w][i].room => Before(s, feed[w][i].msg, feed[w][k].msg)

\* What a bridge is broadcasting comes before what it has not read.
OutBeforeFeed ==
  \A w \in Workers : Busy(w) /\ out[w].room \in Bridged =>
    LET s == log[out[w].room]
    IN  /\ In(s, out[w].msg)
        /\ \A k \in 1 .. Len(feed[w]) :
             feed[w][k].room = out[w].room => Before(s, out[w].msg, feed[w][k].msg)

\* What a socket was sent is in order too,
SeenInOrder ==
  \A c \in Clients : sock[c].room \in Bridged =>
    LET s == log[sock[c].room]
    IN  \A i \in 1 .. Len(seen[c]) :
          /\ In(s, seen[c][i])
          /\ \A k \in 1 .. Len(seen[c]) : i < k => Before(s, seen[c][i], seen[c][k])

\* and comes before what its worker has not read or not sent it.
SeenBeforeOut ==
  \A c \in Clients, w \in Workers : sock[c].room \in Bridged /\ c \in out[w].todo =>
    \A i \in 1 .. Len(seen[c]) : Before(log[sock[c].room], seen[c][i], out[w].msg)
SeenBeforeFeed ==
  \A c \in Clients, w \in Workers : sock[c].room \in Bridged /\ sock[c].worker = w =>
    \A i \in 1 .. Len(seen[c]), k \in 1 .. Len(feed[w]) :
      feed[w][k].room = sock[c].room => Before(log[sock[c].room], seen[c][i], feed[w][k].msg)

Ordered == FeedInOrder /\ OutBeforeFeed /\ SeenInOrder /\ SeenBeforeOut /\ SeenBeforeFeed

LEMMA BridgedRooms == /\ Bridged \subseteq Rooms
                      /\ "simulation" \notin Bridged /\ "traffic" \notin Bridged
                      /\ FirstRoom["step"] \notin Bridged
BY KindsAndRooms DEF Bridged, Rooms

\* A request that has delivered goes on, or is over.
LEMMA AfterDeliveryEffect ==
  ASSUME TypeOK, NEW r \in Requests, req' = AfterDelivery(r)
  PROVE  /\ req'[r].pc \in {"publish", "answered"} /\ req'[r].kind = req[r].kind
         /\ req'[r].room \in {req[r].room, "traffic"}
         /\ \A x \in Requests : x # r => req'[x] = req[x]
<1>1. req \in [Requests -> Request]
  BY TypeParts DEF ReqOK
<1>2. CASE req[r].room = "simulation"
  <2>1. req' = [req EXCEPT ![r].pc = "publish", ![r].room = "traffic"]
    BY <1>2 DEF AfterDelivery
  <2>2. req'[r].pc = "publish" /\ req'[r].kind = req[r].kind /\ req'[r].room = "traffic"
    BY <1>1, <2>1 DEF Request
  <2> QED BY <1>1, <2>1, <2>2
<1>3. CASE req[r].room # "simulation"
  <2>1. req' = [req EXCEPT ![r].pc = "answered"]
    BY <1>3 DEF AfterDelivery
  <2> QED BY <1>1, <2>1 DEF Request
<1> QED BY <1>2, <1>3

\* What a send does to the broadcast it belongs to.
LEMMA SendEffect ==
  ASSUME TypeOK, NEW t \in Workers \cup Requests, NEW c \in Clients, send(t, c)
  PROVE  /\ c \in out[t].todo /\ Busy(t)
         /\ \A u \in Workers \cup Requests : u # t => out'[u] = out[u]
         /\ \/ out'[t] = Nothing /\ (t \in Requests => req' = AfterDelivery(t))
            \/ /\ out'[t].msg = out[t].msg /\ out'[t].room = out[t].room
               /\ out'[t].todo = out[t].todo \ {c} /\ req' = req
         /\ t \notin Requests => req' = req
<1>1. /\ out \in [Workers \cup Requests -> Broadcast]
      /\ WellFormed(out[t])
  BY TypeParts DEF OutOK
<1>2. c \in out[t].todo /\ Busy(t)
  BY <1>1 DEF send, WellFormed, Nothing, Busy
<1> DEFINE dead == IF sock[c].pc = "open" THEN out[t].dead ELSE out[t].dead \cup {c}
           left == out[t].todo \ {c}
<1>3. CASE left = {}
  BY <1>1, <1>2, <1>3 DEF send, LeftAfter
<1>4. CASE left # {}
  <2>1. out' = [out EXCEPT ![t].todo = left, ![t].dead = dead] /\ req' = req
    BY <1>4 DEF send, LeftAfter
  <2> HIDE DEF left, dead
  <2>2. /\ out'[t].msg = out[t].msg /\ out'[t].room = out[t].room
        /\ out'[t].todo = left
    BY <1>1, <2>1 DEF Broadcast
  <2>3. \A u \in Workers \cup Requests : u # t => out'[u] = out[u]
    BY <1>1, <2>1
  <2> QED BY <1>2, <2>1, <2>2, <2>3 DEF left
<1> QED BY <1>3, <1>4

LEMMA OwnBroadcastsStep ==
  ASSUME TypeOK, OwnBroadcasts, [Next]_vars
  PROVE  OwnBroadcasts'
<1>0. /\ req \in [Requests -> Request] /\ out \in [Workers \cup Requests -> Broadcast]
      /\ \A t \in Workers \cup Requests : WellFormed(out[t])
      /\ None \notin Requests /\ Requests \cap Workers = {} /\ ~(Nothing.msg # None)
  BY TypeParts, LiveUpdatesAssumption DEF ReqOK, OutOK, Nothing
<1> DEFINE Own(x) == /\ req'[x].pc = "deliver" => req'[x].kind = "step"
                     /\ req'[x].kind = "step" => req'[x].room \notin Bridged
                     /\ out'[x].msg # None => req'[x].pc = "deliver" /\ out'[x].room \notin Bridged
<1>1. SUFFICES ASSUME NEW x \in Requests PROVE Own(x)
  BY DEF OwnBroadcasts, Busy
<1>2. /\ req[x].pc = "deliver" => req[x].kind = "step"
      /\ req[x].kind = "step" => req[x].room \notin Bridged
      /\ out[x].msg # None => req[x].pc = "deliver" /\ out[x].room \notin Bridged
  BY DEF OwnBroadcasts, Busy
<1>3. ASSUME req'[x] = req[x], out'[x] = out[x] PROVE Own(x)
  BY <1>2, <1>3
<1>4. ASSUME NEW r \in Requests, NEW k \in Kinds, NEW w \in Workers, begin(r, k, w) PROVE Own(x)
  <2>1. /\ req' = [req EXCEPT ![r] = [pc |-> FirstStep(k), kind |-> k, worker |-> w,
                                      room |-> FirstRoom[k]]]
        /\ req[r].pc = "new" /\ out' = out
    BY <1>4 DEF begin
  <2>2. FirstStep(k) # "deliver"
    BY DEF FirstStep
  <2> QED BY <1>0, <1>2, <1>3, <2>1, <2>2, BridgedRooms
<1>5. ASSUME NEW r \in Requests, NEW p,
             commit(r) \/ commit_fails(r) \/ publish(r) \/ publish_fails(r),
             req' = [req EXCEPT ![r].pc = p], p = "deliver" => req[r].kind = "step"
      PROVE Own(x)
  <2>1. out' = out /\ req[r].pc \in {"commit", "publish"}
    BY <1>5 DEF commit, commit_fails, publish, publish_fails
  <2> QED BY <1>0, <1>2, <1>3, <1>5, <2>1 DEF Request
<1>6. ASSUME NEW r \in Requests, deliver(r) PROVE Own(x)
  <2> DEFINE d == Delivery(req[r].worker, r, req[r].room)
  <2>1. /\ out' = [out EXCEPT ![r] = d]
        /\ req[r].pc = "deliver"
        /\ req' = IF d = Nothing THEN AfterDelivery(r) ELSE req
    BY <1>6 DEF deliver
  <2>2. req[r].room \in Rooms
    BY <1>0 DEF Request
  <2>3. d # Nothing => d.room = req[r].room
    BY <2>2, DeliveryType
  <2> HIDE DEF d
  <2>4. CASE x = r
    <3>1. CASE d = Nothing
      BY <1>0, <1>2, <2>1, <2>4, <3>1, AfterDeliveryEffect, BridgedRooms
    <3>2. CASE d # Nothing
      BY <1>0, <1>2, <2>1, <2>3, <2>4, <3>2
    <3> QED BY <3>1, <3>2
  <2>5. CASE x # r
    <3>1. req'[x] = req[x]
      BY <2>1, <2>5, AfterDeliveryEffect
    <3> QED BY <1>0, <1>3, <2>1, <2>5, <3>1
  <2> QED BY <2>4, <2>5
<1>7. ASSUME NEW t \in Workers \cup Requests, NEW c \in Clients, send(t, c) PROVE Own(x)
  <2>1. CASE x = t
    <3>1. CASE out'[t] = Nothing /\ req' = AfterDelivery(t)
      BY <1>0, <1>2, <2>1, <3>1, AfterDeliveryEffect, BridgedRooms
    <3>2. CASE out'[t].msg = out[t].msg /\ out'[t].room = out[t].room /\ req' = req
      BY <1>2, <2>1, <3>2
    <3> QED BY <1>7, <2>1, <3>1, <3>2, SendEffect
  <2>2. CASE x # t
    <3>1. out'[x] = out[x]
      BY <1>7, <2>2, SendEffect
    <3>2. req'[x] = req[x]
      <4>1. req' = req \/ (t \in Requests /\ req' = AfterDelivery(t))
        BY <1>7, SendEffect
      <4> QED BY <2>2, <4>1, AfterDeliveryEffect
    <3> QED BY <1>3, <3>1, <3>2
  <2> QED BY <2>1, <2>2
<1>8. ASSUME NEW w \in Workers, bridge_takes(w) PROVE Own(x)
  BY <1>0, <1>3, <1>8 DEF bridge_takes
<1>9. ASSUME NEW w \in Workers, worker_restart(w) PROVE Own(x)
  <2> DEFINE killed == {r \in Requests : req[r].worker = w /\ req[r].pc \notin Over}
  <2>1. /\ req' = [r \in Requests |-> IF r \in killed THEN [req[r] EXCEPT !.pc = "failed"]
                                                      ELSE req[r]]
        /\ out' = [t \in DOMAIN out |-> IF t \in killed \cup {w} THEN Nothing ELSE out[t]]
    BY <1>9 DEF worker_restart
  <2>2. CASE x \in killed
    BY <1>0, <1>2, <2>1, <2>2 DEF Request
  <2>3. CASE x \notin killed
    <3>1. x # w
      BY <1>0
    <3> QED BY <1>0, <1>3, <2>1, <2>3, <3>1
  <2> QED BY <2>2, <2>3
<1>10. ASSUME req' = req, out' = out PROVE Own(x)
  BY <1>3, <1>10
<1>11. ASSUME NEW r \in Requests, commit(r) \/ commit_fails(r) \/ publish(r) \/ publish_fails(r)
       PROVE  Own(x)
  <2>1. CASE commit(r) \/ commit_fails(r)
    BY <1>5, <2>1 DEF commit, commit_fails
  <2>2. CASE publish(r) \/ publish_fails(r)
    <3>1. AfterPublish(r) = "deliver" => req[r].kind = "step"
      BY DEF AfterPublish
    <3> QED BY <1>5, <2>2, <3>1 DEF publish, publish_fails
  <2> QED BY <1>11, <2>1, <2>2
<1>12. ASSUME NEW w \in Workers, bridge_fails(w) \/ bridge_subscribes(w) PROVE Own(x)
  BY <1>10, <1>12 DEF bridge_fails, bridge_subscribes
<1>13. ASSUME NEW c \in Clients,
              (\E w \in Workers, m \in Watched : connect(c, w, m)) \/ closes(c) \/ disconnect(c)
       PROVE  Own(x)
  BY <1>10, <1>13 DEF connect, closes, disconnect
<1>14. CASE UNCHANGED vars
  BY <1>10, <1>14 DEF vars
<1> QED BY <1>4, <1>6, <1>7, <1>8, <1>9, <1>11, <1>12, <1>13, <1>14 DEF Next

\* A request that is answered stays so: nobody takes its part again.
LEMMA AnsweredStay ==
  ASSUME TypeOK, OwnBroadcasts, [Next]_vars, NEW x \in Requests, req[x].pc = "answered"
  PROVE  req'[x].pc = "answered"
<1>0. req \in [Requests -> Request]
  BY TypeParts DEF ReqOK
<1>1. ASSUME NEW r \in Requests, NEW k \in Kinds, NEW w \in Workers, begin(r, k, w)
      PROVE  req'[x] = req[x]
  BY <1>0, <1>1 DEF begin
<1>2. ASSUME NEW r \in Requests, commit(r) \/ commit_fails(r) \/ publish(r) \/ publish_fails(r)
      PROVE  req'[x] = req[x]
  BY <1>0, <1>2 DEF commit, commit_fails, publish, publish_fails
<1>3. ASSUME NEW r \in Requests, deliver(r) PROVE req'[x] = req[x]
  BY <1>0, <1>3, AfterDeliveryEffect DEF deliver
<1>4. ASSUME NEW t \in Workers \cup Requests, NEW c \in Clients, send(t, c)
      PROVE  req'[x] = req[x]
  <2>1. x # t
    BY <1>4, SendEffect DEF OwnBroadcasts
  <2>2. req' = req \/ (t \in Requests /\ req' = AfterDelivery(t))
    BY <1>4, SendEffect
  <2> QED BY <2>1, <2>2, AfterDeliveryEffect
<1>5. ASSUME NEW w \in Workers, worker_restart(w) PROVE req'[x] = req[x]
  BY <1>0, <1>5 DEF worker_restart, Over
<1>6. ASSUME NEW w \in Workers, bridge_takes(w) \/ bridge_fails(w) \/ bridge_subscribes(w)
      PROVE  req'[x] = req[x]
  BY <1>6 DEF bridge_takes, bridge_fails, bridge_subscribes
<1>7. ASSUME NEW c \in Clients,
             (\E w \in Workers, m \in Watched : connect(c, w, m)) \/ closes(c) \/ disconnect(c)
      PROVE  req'[x] = req[x]
  BY <1>7 DEF connect, closes, disconnect
<1>8. CASE UNCHANGED vars
  BY <1>8 DEF vars
<1> QED BY <1>1, <1>2, <1>3, <1>4, <1>5, <1>6, <1>7, <1>8 DEF Next

\* Only publish writes a log.
LEMMA LogsStay ==
  ASSUME [Next]_vars, \A r \in Requests : ~publish(r)
  PROVE  log' = log
BY DEF Next, vars, redis, begin, commit, commit_fails, publish_fails, deliver, send, bridge_takes,
   bridge_fails, bridge_subscribes, worker_restart, connect, closes, disconnect

\* What publish does to a room whose messages the bridges bring.
LEMMA PublishEffect ==
  ASSUME TypeOK, OwnBroadcasts, NEW r \in Requests, publish(r)
  PROVE  /\ req[r].room \in Rooms /\ req[r].pc = "publish"
         /\ log' = [log EXCEPT ![req[r].room] = Append(log[req[r].room], r)]
         /\ req[r].room \in Bridged => req'[r].pc = "answered"
<1>1. req \in [Requests -> Request]
  BY TypeParts DEF ReqOK
<1>2. req' = [req EXCEPT ![r].pc = AfterPublish(r)] /\ req[r].pc = "publish"
  BY DEF publish
<1>3. log' = [log EXCEPT ![req[r].room] = Append(log[req[r].room], r)]
  BY DEF publish
<1>4. req[r].room \in Bridged => AfterPublish(r) = "answered"
  BY DEF OwnBroadcasts, AfterPublish
<1> QED BY <1>1, <1>2, <1>3, <1>4 DEF Request

LEMMA PublishedOnceStep ==
  ASSUME TypeOK, OwnBroadcasts, PublishedOnce, [Next]_vars
  PROVE  PublishedOnce'
<1>0. log \in [Rooms -> Seq(Requests)] /\ Bridged \subseteq Rooms
  BY TypeParts, BridgedRooms DEF RedisOK
<1>1. SUFFICES ASSUME NEW m \in Bridged
               PROVE  /\ \A i \in 1 .. Len(log'[m]) : req'[log'[m][i]].pc = "answered"
                      /\ \A i, k \in 1 .. Len(log'[m]) : log'[m][i] = log'[m][k] => i = k
  BY DEF PublishedOnce
<1>2. /\ \A i \in 1 .. Len(log[m]) : log[m][i] \in Requests /\ req[log[m][i]].pc = "answered"
      /\ \A i, k \in 1 .. Len(log[m]) : log[m][i] = log[m][k] => i = k
  BY <1>0 DEF PublishedOnce
<1>3. \A i \in 1 .. Len(log[m]) : req'[log[m][i]].pc = "answered"
  BY <1>2, AnsweredStay
<1>4. CASE log'[m] = log[m]
  BY <1>2, <1>3, <1>4
<1>5. ASSUME NEW r \in Requests, publish(r), req[r].room = m
      PROVE  /\ \A i \in 1 .. Len(log'[m]) : req'[log'[m][i]].pc = "answered"
             /\ \A i, k \in 1 .. Len(log'[m]) : log'[m][i] = log'[m][k] => i = k
  <2>1. log'[m] = Append(log[m], r) /\ req[r].pc = "publish" /\ req'[r].pc = "answered"
    BY <1>0, <1>5, PublishEffect
  <2>2. \A i \in 1 .. Len(log[m]) : log[m][i] # r
    BY <1>2, <2>1
  <2> DEFINE s == log[m]
  <2>3. s \in Seq(Requests)
    BY <1>0
  <2>4. /\ Len(Append(s, r)) = Len(s) + 1 /\ Append(s, r)[Len(s) + 1] = r /\ Len(s) \in Nat
        /\ \A i \in 1 .. Len(s) : Append(s, r)[i] = s[i]
    BY <2>3
  <2> QED BY <1>2, <1>3, <2>1, <2>2, <2>4
<1>6. ASSUME NEW r \in Requests, publish(r), req[r].room # m PROVE log'[m] = log[m]
  BY <1>0, <1>6, PublishEffect
<1> QED BY <1>4, <1>5, <1>6, LogsStay

\* Which sockets a broadcast may still send to.
Reaches(t, c) == /\ sock[c].room = out[t].room /\ sock[c].pc # "new"
                 /\ t \in Workers => sock[c].worker = t

LEMMA RightSocketsStep ==
  ASSUME TypeOK, RightSockets, [Next]_vars
  PROVE  RightSockets'
<1>0. /\ sock \in [Clients -> Socket] /\ rooms \subseteq Clients
      /\ \A c \in rooms : sock[c].pc # "new"
      /\ out \in [Workers \cup Requests -> Broadcast] /\ req \in [Requests -> Request]
      /\ feed \in [Workers -> Seq(Message)] /\ Nothing.todo = {}
      /\ Requests \cap Workers = {} /\ seen \in [Clients -> Seq(Requests)]
  BY TypeParts, LiveUpdatesAssumption DEF SocketsOK, OutOK, ReqOK, RedisOK, Nothing
<1>1. /\ \A c \in Clients : sock[c].pc = "new" => seen[c] = <<>>
      /\ \A t \in Workers \cup Requests : \A c \in out[t].todo : c \in Clients /\ Reaches(t, c)
  BY <1>0 DEF RightSockets, Reaches, Broadcast
<1>2. ASSUME \A c \in Clients : sock'[c].pc = "new" => sock[c].pc = "new" /\ seen'[c] = seen[c],
             \A c \in Clients : sock[c].pc # "new" =>
               /\ sock'[c].pc # "new" /\ sock'[c].room = sock[c].room
               /\ sock'[c].worker = sock[c].worker,
             \A t \in Workers \cup Requests :
               \/ out'[t] = Nothing
               \/ out'[t].room = out[t].room /\ out'[t].todo \subseteq out[t].todo
               \/ \A c \in out'[t].todo : c \in Clients /\ Reaches(t, c)'
      PROVE  RightSockets'
  <2>1. ASSUME NEW t \in Workers \cup Requests, NEW c \in out'[t].todo PROVE Reaches(t, c)'
    <3>1. CASE out'[t].room = out[t].room /\ out'[t].todo \subseteq out[t].todo
      BY <1>1, <1>2, <2>1, <3>1 DEF Reaches
    <3>2. CASE out'[t] = Nothing
      BY <1>0, <2>1, <3>2
    <3> QED BY <1>2, <2>1, <3>1, <3>2
  <2>2. ASSUME NEW c \in Clients, sock'[c].pc = "new" PROVE seen'[c] = <<>>
    BY <1>1, <1>2, <2>2
  <2> QED BY <2>1, <2>2 DEF RightSockets, Reaches
<1>3. ASSUME NEW w, NEW r \in Requests, NEW m \in Rooms, NEW t \in Workers \cup Requests,
             t \in Workers => t = w, sock' = sock, out'[t] = Delivery(w, r, m)
      PROVE  \/ out'[t] = Nothing
             \/ \A c \in out'[t].todo : c \in Clients /\ Reaches(t, c)'
  BY <1>0, <1>3, DeliveryType DEF Members, Reaches
<1>4. ASSUME NEW r \in Requests, deliver(r) PROVE RightSockets'
  <2>1. /\ out' = [out EXCEPT ![r] = Delivery(req[r].worker, r, req[r].room)]
        /\ req[r].room \in Rooms /\ sock' = sock /\ seen' = seen
    BY <1>0, <1>4 DEF deliver, sockets, Request
  <2> QED BY <1>0, <1>2, <1>3, <2>1
<1>5. ASSUME NEW t \in Workers \cup Requests, NEW c \in Clients, send(t, c) PROVE RightSockets'
  <2>1. sock' = sock /\ \A x \in Clients : x # c => seen'[x] = seen[x]
    BY <1>0, <1>5 DEF send
  <2>2. sock[c].pc # "new"
    BY <1>1, <1>5, SendEffect DEF Reaches
  <2>3. \A u \in Workers \cup Requests :
          \/ out'[u] = Nothing
          \/ out'[u].room = out[u].room /\ out'[u].todo \subseteq out[u].todo
    BY <1>5, SendEffect
  <2> QED BY <1>2, <2>1, <2>2, <2>3
<1>6. ASSUME NEW w \in Workers, bridge_takes(w) PROVE RightSockets'
  <2> DEFINE n == Head(feed[w])
  <2>1. /\ out' = [out EXCEPT ![w] = Delivery(w, n.msg, n.room)]
        /\ sock' = sock /\ seen' = seen
    BY <1>6 DEF bridge_takes, NextOf, sockets
  <2>2. n \in Message
    BY <1>0, <1>6 DEF bridge_takes
  <2>3. n.msg \in Requests /\ n.room \in Rooms
    BY <2>2 DEF Message
  <2> HIDE DEF n
  <2> QED BY <1>0, <1>2, <1>3, <2>1, <2>3
<1>7. ASSUME NEW w \in Workers, worker_restart(w) PROVE RightSockets'
  <2>1. \A t \in Workers \cup Requests : out'[t] = Nothing \/ out'[t] = out[t]
    BY <1>0, <1>7 DEF worker_restart
  <2>2. \A c \in Clients : /\ sock'[c].room = sock[c].room /\ sock'[c].worker = sock[c].worker
                           /\ sock'[c].pc \in {sock[c].pc, "over"} /\ seen' = seen
    BY <1>0, <1>7 DEF worker_restart, Socket
  <2> QED BY <1>2, <2>1, <2>2
<1>8. ASSUME NEW c \in Clients, NEW w \in Workers, NEW m \in Watched, connect(c, w, m)
      PROVE  RightSockets'
  <2>1. /\ sock[c].pc = "new" /\ sock'[c].pc = "open" /\ out' = out /\ seen' = seen
        /\ \A x \in Clients : x # c => sock'[x] = sock[x]
    BY <1>0, <1>8 DEF connect
  <2> QED BY <1>2, <2>1
<1>9. ASSUME NEW c \in Clients, closes(c) \/ disconnect(c) PROVE RightSockets'
  <2>1. PICK p \in {"closed", "over"} : sock' = [sock EXCEPT ![c].pc = p]
    BY <1>9 DEF closes, disconnect
  <2>2. \A x \in Clients : /\ sock'[x].room = sock[x].room /\ sock'[x].worker = sock[x].worker
                           /\ sock'[x].pc \in {sock[x].pc, "closed", "over"}
    BY <1>0, <2>1 DEF Socket
  <2>3. out' = out /\ seen' = seen /\ sock[c].pc # "new"
    BY <1>9 DEF closes, disconnect
  <2>4. sock'[c].pc # "new" /\ \A x \in Clients : x # c => sock'[x] = sock[x]
    BY <1>0, <2>1 DEF Socket
  <2> QED BY <1>2, <2>2, <2>3, <2>4
<1>10. ASSUME sock' = sock, seen' = seen, out' = out PROVE RightSockets'
  BY <1>2, <1>10
<1> QED BY <1>4, <1>5, <1>6, <1>7, <1>8, <1>9, <1>10
        DEF Next, vars, sockets, begin, commit, commit_fails, publish, publish_fails, bridge_fails,
            bridge_subscribes

LEMMA ShapeInit == Init => Shape
<1> SUFFICES ASSUME Init PROVE Shape
  OBVIOUS
<1>1. OwnBroadcasts
  BY DEF Init, OwnBroadcasts, Busy, Nothing
<1>2. PublishedOnce
  BY BridgedRooms DEF Init, PublishedOnce
<1>3. RightSockets
  BY DEF Init, RightSockets, Nothing
<1> QED BY <1>1, <1>2, <1>3 DEF Shape

LEMMA ShapeStep == TypeOK /\ Shape /\ [Next]_vars => Shape'
BY OwnBroadcastsStep, PublishedOnceStep, RightSocketsStep DEF Shape

\* A log that grows keeps its order, and what is new comes last.
LEMMA GrownLog ==
  ASSUME NEW s \in Seq(Requests), NEW r
  PROVE  /\ In(Append(s, r), r)
         /\ \A x : In(s, x) => In(Append(s, r), x) /\ Before(Append(s, r), x, r)
         /\ \A x, y : Before(s, x, y) => Before(Append(s, r), x, y)
<1> DEFINE a == Append(s, r)
<1>1. /\ Len(a) = Len(s) + 1 /\ a[Len(s) + 1] = r /\ Len(s) \in Nat
      /\ \A i \in 1 .. Len(s) : a[i] = s[i]
  OBVIOUS
<1> HIDE DEF a
<1>2. In(a, r)
  BY <1>1 DEF In
<1>3. ASSUME NEW x, In(s, x) PROVE In(a, x) /\ Before(a, x, r)
  <2>1. PICK i \in 1 .. Len(s) : s[i] = x
    BY <1>3 DEF In
  <2>2. i \in 1 .. Len(a) /\ Len(s) + 1 \in 1 .. Len(a) /\ i < Len(s) + 1 /\ a[i] = x
    BY <1>1, <2>1
  <2> QED BY <1>1, <2>2 DEF In, Before
<1>4. ASSUME NEW x, NEW y, Before(s, x, y) PROVE Before(a, x, y)
  <2>1. PICK i, k \in 1 .. Len(s) : i < k /\ s[i] = x /\ s[k] = y
    BY <1>4 DEF Before
  <2>2. i \in 1 .. Len(a) /\ k \in 1 .. Len(a) /\ a[i] = x /\ a[k] = y
    BY <1>1, <2>1
  <2> QED BY <2>1, <2>2 DEF Before
<1> QED BY <1>2, <1>3, <1>4 DEF a

\* No step takes anything out of a log.
LogsKept ==
  \A m \in Bridged : \A x, y : /\ In(log[m], x) => In(log'[m], x)
                               /\ Before(log[m], x, y) => Before(log'[m], x, y)

LEMMA LogsAreKept ==
  ASSUME TypeOK, OwnBroadcasts, [Next]_vars
  PROVE  LogsKept
<1>0. log \in [Rooms -> Seq(Requests)] /\ Bridged \subseteq Rooms
  BY TypeParts, BridgedRooms DEF RedisOK
<1>1. ASSUME NEW r \in Requests, publish(r) PROVE LogsKept
  <2>1. ASSUME NEW m \in Bridged
        PROVE  log'[m] = log[m] \/ log'[m] = Append(log[m], r)
    BY <1>0, <1>1, PublishEffect
  <2>2. ASSUME NEW m \in Bridged
        PROVE  \A x, y : /\ In(log[m], x) => In(log'[m], x)
                         /\ Before(log[m], x, y) => Before(log'[m], x, y)
    <3>1. log[m] \in Seq(Requests)
      BY <1>0
    <3> QED BY <2>1, <3>1, GrownLog
  <2> QED BY <2>2 DEF LogsKept
<1>2. CASE log' = log
  BY <1>2 DEF LogsKept
<1> QED BY <1>1, <1>2, LogsStay

\* Steps that at most take something away.
LEMMA NothingNew ==
  ASSUME TypeOK, Ordered, LogsKept, Shape,
         \A w \in Workers : feed'[w] = feed[w] \/ feed'[w] = <<>>,
         \A w \in Workers : \/ out'[w] = Nothing
                            \/ /\ out'[w].msg = out[w].msg /\ out'[w].room = out[w].room
                               /\ out'[w].todo \subseteq out[w].todo,
         \A c \in Clients : sock'[c].room \in Bridged =>
           \/ seen'[c] = <<>>
           \/ /\ seen'[c] = seen[c] /\ sock'[c].room = sock[c].room
              /\ sock'[c].worker = sock[c].worker
  PROVE  Ordered'
<1>0. Len(<<>>) = 0 /\ 1 .. 0 = {} /\ Nothing.msg = None /\ Nothing.todo = {}
  BY DEF Nothing
<1>1. FeedInOrder'
  <2> SUFFICES ASSUME NEW w \in Workers, NEW i \in 1 .. Len(feed'[w]),
                      feed'[w][i].room \in Bridged
               PROVE  LET s == log'[feed'[w][i].room]
                      IN  /\ In(s, feed'[w][i].msg)
                          /\ \A k \in 1 .. Len(feed'[w]) :
                               i < k /\ feed'[w][k].room = feed'[w][i].room
                                 => Before(s, feed'[w][i].msg, feed'[w][k].msg)
    BY DEF FeedInOrder
  <2>1. feed'[w] = feed[w]
    BY <1>0
  <2> QED BY <2>1 DEF Ordered, FeedInOrder, LogsKept
<1>2. OutBeforeFeed'
  <2> SUFFICES ASSUME NEW w \in Workers, out'[w].msg # None, out'[w].room \in Bridged
               PROVE  LET s == log'[out'[w].room]
                      IN  /\ In(s, out'[w].msg)
                          /\ \A k \in 1 .. Len(feed'[w]) :
                               feed'[w][k].room = out'[w].room
                                 => Before(s, out'[w].msg, feed'[w][k].msg)
    BY DEF OutBeforeFeed, Busy
  <2>1. out'[w].msg = out[w].msg /\ out'[w].room = out[w].room
    BY <1>0
  <2>2. \A k \in 1 .. Len(feed'[w]) : feed'[w] = feed[w]
    BY <1>0
  <2> QED BY <2>1, <2>2 DEF Ordered, OutBeforeFeed, Busy, LogsKept
<1>3. ASSUME NEW c \in Clients, sock'[c].room \in Bridged, NEW i \in 1 .. Len(seen'[c])
      PROVE  /\ seen'[c] = seen[c] /\ sock'[c].room = sock[c].room
             /\ sock'[c].worker = sock[c].worker
  BY <1>0, <1>3
<1>4. SeenInOrder'
  <2> SUFFICES ASSUME NEW c \in Clients, sock'[c].room \in Bridged, NEW i \in 1 .. Len(seen'[c])
               PROVE  LET s == log'[sock'[c].room]
                      IN  /\ In(s, seen'[c][i])
                          /\ \A k \in 1 .. Len(seen'[c]) :
                               i < k => Before(s, seen'[c][i], seen'[c][k])
    BY DEF SeenInOrder
  <2> QED BY <1>3 DEF Ordered, SeenInOrder, LogsKept
<1>5. SeenBeforeOut'
  <2> SUFFICES ASSUME NEW c \in Clients, NEW w \in Workers, sock'[c].room \in Bridged,
                      c \in out'[w].todo, NEW i \in 1 .. Len(seen'[c])
               PROVE  Before(log'[sock'[c].room], seen'[c][i], out'[w].msg)
    BY DEF SeenBeforeOut
  <2>1. out'[w].msg = out[w].msg /\ c \in out[w].todo
    BY <1>0
  <2> QED BY <1>3, <2>1 DEF Ordered, SeenBeforeOut, LogsKept
<1>6. SeenBeforeFeed'
  <2> SUFFICES ASSUME NEW c \in Clients, NEW w \in Workers, sock'[c].room \in Bridged,
                      sock'[c].worker = w, NEW i \in 1 .. Len(seen'[c]),
                      NEW k \in 1 .. Len(feed'[w]), feed'[w][k].room = sock'[c].room
               PROVE  Before(log'[sock'[c].room], seen'[c][i], feed'[w][k].msg)
    BY DEF SeenBeforeFeed
  <2>1. feed'[w] = feed[w]
    BY <1>0
  <2>2. /\ seen'[c] = seen[c] /\ sock[c].room = sock'[c].room /\ sock[c].worker = w
        /\ i \in 1 .. Len(seen[c]) /\ k \in 1 .. Len(feed[w])
        /\ feed[w][k].room = sock[c].room
    BY <1>3, <2>1
  <2>3. Before(log[sock[c].room], seen[c][i], feed[w][k].msg)
    BY <2>2 DEF Ordered, SeenBeforeFeed
  <2> QED BY <2>1, <2>2, <2>3 DEF LogsKept
<1> QED BY <1>1, <1>2, <1>4, <1>5, <1>6 DEF Ordered

LEMMA PublishOrdered ==
  ASSUME TypeOK, Shape, Ordered, LogsKept, NEW r \in Requests, publish(r)
  PROVE  Ordered'
<1> DEFINE m == req[r].room
           n == [msg |-> r, room |-> m]
<1>0. /\ log \in [Rooms -> Seq(Requests)] /\ feed \in [Workers -> Seq(Message)]
      /\ Bridged \subseteq Rooms /\ m \in Rooms /\ n.msg = r /\ n.room = m
      /\ log' = [log EXCEPT ![m] = Append(log[m], r)]
      /\ UNCHANGED <<out, sock, seen>>
  BY TypeParts, BridgedRooms, PublishEffect DEF RedisOK, Shape, publish, sockets
<1>1. \A x : m \in Bridged => /\ In(log'[m], r)
                              /\ In(log[m], x) => Before(log'[m], x, r)
  <2>1. log'[m] = Append(log[m], r) /\ log[m] \in Seq(Requests)
    BY <1>0
  <2> QED BY <2>1, GrownLog
<1>2. ASSUME NEW w \in Workers, NEW k \in 1 .. Len(feed'[w])
      PROVE  \/ k \in 1 .. Len(feed[w]) /\ feed'[w][k] = feed[w][k]
             \/ k = Len(feed[w]) + 1 /\ feed'[w][k] = n /\ Len(feed[w]) \in Nat
  <2>1. feed'[w] = IF link[w] THEN Append(feed[w], n) ELSE feed[w]
    BY DEF publish
  <2>2. feed[w] \in Seq(Message) /\ n \in Message
    BY <1>0 DEF Message
  <2> HIDE DEF n
  <2>3. CASE link[w]
    <3>1. feed'[w] = Append(feed[w], n)
      BY <2>1, <2>3
    <3>2. /\ Len(feed'[w]) = Len(feed[w]) + 1 /\ feed'[w][Len(feed[w]) + 1] = n
          /\ Len(feed[w]) \in Nat
          /\ \A i \in 1 .. Len(feed[w]) : feed'[w][i] = feed[w][i]
      BY <2>2, <3>1
    <3> QED BY <1>2, <3>2
  <2>4. CASE ~link[w]
    BY <1>2, <2>1, <2>4
  <2> QED BY <2>3, <2>4
<1> HIDE DEF n
<1>3. FeedInOrder'
  <2> SUFFICES ASSUME NEW w \in Workers, NEW i \in 1 .. Len(feed'[w]),
                      feed'[w][i].room \in Bridged
               PROVE  /\ In(log'[feed'[w][i].room], feed'[w][i].msg)
                      /\ \A k \in 1 .. Len(feed'[w]) :
                           i < k /\ feed'[w][k].room = feed'[w][i].room
                             => Before(log'[feed'[w][i].room], feed'[w][i].msg, feed'[w][k].msg)
    BY DEF FeedInOrder
  <2>1. CASE i \in 1 .. Len(feed[w]) /\ feed'[w][i] = feed[w][i]
    <3>1. /\ In(log[feed[w][i].room], feed[w][i].msg)
          /\ \A k \in 1 .. Len(feed[w]) :
               i < k /\ feed[w][k].room = feed[w][i].room
                 => Before(log[feed[w][i].room], feed[w][i].msg, feed[w][k].msg)
      BY <2>1 DEF Ordered, FeedInOrder
    <3>2. In(log'[feed'[w][i].room], feed'[w][i].msg)
      BY <2>1, <3>1 DEF LogsKept
    <3>3. ASSUME NEW k \in 1 .. Len(feed'[w]), i < k, feed'[w][k].room = feed'[w][i].room
          PROVE  Before(log'[feed'[w][i].room], feed'[w][i].msg, feed'[w][k].msg)
      <4>1. CASE k \in 1 .. Len(feed[w]) /\ feed'[w][k] = feed[w][k]
        BY <2>1, <3>1, <3>3, <4>1 DEF LogsKept
      <4>2. CASE feed'[w][k] = n
        BY <1>0, <1>1, <2>1, <3>1, <3>3, <4>2
      <4> QED BY <1>2, <4>1, <4>2
    <3> QED BY <3>2, <3>3
  <2>2. CASE i = Len(feed[w]) + 1 /\ feed'[w][i] = n /\ Len(feed[w]) \in Nat
    <3>1. In(log'[feed'[w][i].room], feed'[w][i].msg)
      BY <1>0, <1>1, <2>2
    <3>2. \A k \in 1 .. Len(feed'[w]) : ~(i < k)
      BY <1>2, <2>2
    <3> QED BY <3>1, <3>2
  <2> QED BY <1>2, <2>1, <2>2
<1>4. OutBeforeFeed'
  <2> SUFFICES ASSUME NEW w \in Workers, out[w].msg # None, out[w].room \in Bridged
               PROVE  /\ In(log'[out[w].room], out[w].msg)
                      /\ \A k \in 1 .. Len(feed'[w]) :
                           feed'[w][k].room = out[w].room
                             => Before(log'[out[w].room], out[w].msg, feed'[w][k].msg)
    BY <1>0 DEF OutBeforeFeed, Busy
  <2>1. /\ In(log[out[w].room], out[w].msg)
        /\ \A k \in 1 .. Len(feed[w]) :
             feed[w][k].room = out[w].room => Before(log[out[w].room], out[w].msg, feed[w][k].msg)
    BY DEF Ordered, OutBeforeFeed, Busy
  <2>2. ASSUME NEW k \in 1 .. Len(feed'[w]), feed'[w][k].room = out[w].room
        PROVE  Before(log'[out[w].room], out[w].msg, feed'[w][k].msg)
    <3>1. CASE k \in 1 .. Len(feed[w]) /\ feed'[w][k] = feed[w][k]
      BY <2>1, <2>2, <3>1 DEF LogsKept
    <3>2. CASE feed'[w][k] = n
      BY <1>0, <1>1, <2>1, <2>2, <3>2
    <3> QED BY <1>2, <3>1, <3>2
  <2> QED BY <2>1, <2>2 DEF LogsKept
<1>5. SeenInOrder'
  <2> SUFFICES ASSUME NEW c \in Clients, sock[c].room \in Bridged, NEW i \in 1 .. Len(seen[c])
               PROVE  /\ In(log'[sock[c].room], seen[c][i])
                      /\ \A k \in 1 .. Len(seen[c]) :
                           i < k => Before(log'[sock[c].room], seen[c][i], seen[c][k])
    BY <1>0 DEF SeenInOrder
  <2> QED BY DEF Ordered, SeenInOrder, LogsKept
<1>6. SeenBeforeOut'
  <2> SUFFICES ASSUME NEW c \in Clients, NEW w \in Workers, sock[c].room \in Bridged,
                      c \in out[w].todo, NEW i \in 1 .. Len(seen[c])
               PROVE  Before(log'[sock[c].room], seen[c][i], out[w].msg)
    BY <1>0 DEF SeenBeforeOut
  <2> QED BY DEF Ordered, SeenBeforeOut, LogsKept
<1>7. SeenBeforeFeed'
  <2> SUFFICES ASSUME NEW c \in Clients, NEW w \in Workers, sock[c].room \in Bridged,
                      sock[c].worker = w, NEW i \in 1 .. Len(seen[c]),
                      NEW k \in 1 .. Len(feed'[w]), feed'[w][k].room = sock[c].room
               PROVE  Before(log'[sock[c].room], seen[c][i], feed'[w][k].msg)
    BY <1>0 DEF SeenBeforeFeed
  <2>1. CASE k \in 1 .. Len(feed[w]) /\ feed'[w][k] = feed[w][k]
    <3>1. Before(log[sock[c].room], seen[c][i], feed[w][k].msg)
      BY <2>1 DEF Ordered, SeenBeforeFeed
    <3> QED BY <2>1, <3>1 DEF LogsKept
  <2>2. CASE feed'[w][k] = n
    <3>1. In(log[sock[c].room], seen[c][i])
      BY DEF Ordered, SeenInOrder
    <3> QED BY <1>0, <1>1, <2>2, <3>1
  <2> QED BY <1>2, <2>1, <2>2
<1> QED BY <1>3, <1>4, <1>5, <1>6, <1>7 DEF Ordered

LEMMA TakeOrdered ==
  ASSUME TypeOK, Shape, Ordered, NEW v \in Workers, bridge_takes(v)
  PROVE  Ordered'
<1> DEFINE n == Head(feed[v])
           d == Delivery(v, n.msg, n.room)
<1>0. /\ feed \in [Workers -> Seq(Message)] /\ out \in [Workers \cup Requests -> Broadcast]
      /\ feed[v] # <<>> /\ out' = [out EXCEPT ![v] = d]
      /\ feed' = [feed EXCEPT ![v] = Tail(feed[v])]
      /\ UNCHANGED <<log, sock, seen>>
  BY TypeParts DEF RedisOK, OutOK, bridge_takes, NextOf, sockets
<1>1. /\ Len(feed[v]) \in Nat \ {0} /\ n = feed[v][1] /\ n \in Message
      /\ Len(feed'[v]) = Len(feed[v]) - 1
      /\ \A k \in 1 .. Len(feed'[v]) : feed'[v][k] = feed[v][k + 1]
  <2>1. feed'[v] = Tail(feed[v]) /\ feed[v] \in Seq(Message)
    BY <1>0
  <2> QED BY <1>0, <2>1
<1>2. /\ n.msg \in Requests /\ n.room \in Rooms
      /\ d = Nothing \/ (d.msg = n.msg /\ d.room = n.room /\ d.todo = Members(v, n.room))
  <2>1. n.msg \in Requests /\ n.room \in Rooms
    BY <1>1 DEF Message
  <2> QED BY <2>1, DeliveryType
<1> HIDE DEF n, d
<1>3. out'[v] = d /\ \A w \in Workers : w # v => out'[w] = out[w] /\ feed'[w] = feed[w]
  BY <1>0
<1>4. \A k \in 1 .. Len(feed'[v]) : k + 1 \in 1 .. Len(feed[v]) /\ 1 < k + 1
  BY <1>1
<1>5. 1 \in 1 .. Len(feed[v]) /\ Nothing.msg = None /\ Nothing.todo = {}
  BY <1>1 DEF Nothing
<1>6. FeedInOrder'
  <2> SUFFICES ASSUME NEW w \in Workers, NEW i \in 1 .. Len(feed'[w]),
                      feed'[w][i].room \in Bridged
               PROVE  /\ In(log[feed'[w][i].room], feed'[w][i].msg)
                      /\ \A k \in 1 .. Len(feed'[w]) :
                           i < k /\ feed'[w][k].room = feed'[w][i].room
                             => Before(log[feed'[w][i].room], feed'[w][i].msg, feed'[w][k].msg)
    BY <1>0 DEF FeedInOrder
  <2>1. CASE w # v
    BY <1>3, <2>1 DEF Ordered, FeedInOrder
  <2>2. CASE w = v
    <3>1. /\ feed'[w][i] = feed[v][i + 1] /\ i + 1 \in 1 .. Len(feed[v])
      BY <1>1, <1>4, <2>2
    <3>2. /\ In(log[feed[v][i + 1].room], feed[v][i + 1].msg)
          /\ \A k \in 1 .. Len(feed[v]) :
               i + 1 < k /\ feed[v][k].room = feed[v][i + 1].room
                 => Before(log[feed[v][i + 1].room], feed[v][i + 1].msg, feed[v][k].msg)
      BY <2>2, <3>1 DEF Ordered, FeedInOrder
    <3>3. \A k \in 1 .. Len(feed'[w]) :
            /\ feed'[w][k] = feed[v][k + 1] /\ k + 1 \in 1 .. Len(feed[v])
            /\ i < k => i + 1 < k + 1
      BY <1>1, <1>4, <2>2
    <3> QED BY <3>1, <3>2, <3>3
  <2> QED BY <2>1, <2>2
<1>7. OutBeforeFeed'
  <2> SUFFICES ASSUME NEW w \in Workers, out'[w].msg # None, out'[w].room \in Bridged
               PROVE  /\ In(log[out'[w].room], out'[w].msg)
                      /\ \A k \in 1 .. Len(feed'[w]) :
                           feed'[w][k].room = out'[w].room
                             => Before(log[out'[w].room], out'[w].msg, feed'[w][k].msg)
    BY <1>0 DEF OutBeforeFeed, Busy
  <2>1. CASE w # v
    BY <1>3, <2>1 DEF Ordered, OutBeforeFeed, Busy
  <2>2. CASE w = v
    <3>1. out'[w].msg = feed[v][1].msg /\ out'[w].room = feed[v][1].room
      BY <1>1, <1>2, <1>3, <1>5, <2>2
    <3>2. /\ In(log[feed[v][1].room], feed[v][1].msg)
          /\ \A k \in 1 .. Len(feed[v]) :
               1 < k /\ feed[v][k].room = feed[v][1].room
                 => Before(log[feed[v][1].room], feed[v][1].msg, feed[v][k].msg)
      BY <1>5, <2>2, <3>1 DEF Ordered, FeedInOrder
    <3> QED BY <1>1, <1>4, <2>2, <3>1, <3>2
  <2> QED BY <2>1, <2>2
<1>8. SeenInOrder'
  BY <1>0 DEF Ordered, SeenInOrder
<1>9. SeenBeforeOut'
  <2> SUFFICES ASSUME NEW c \in Clients, NEW w \in Workers, sock[c].room \in Bridged,
                      c \in out'[w].todo, NEW i \in 1 .. Len(seen[c])
               PROVE  Before(log[sock[c].room], seen[c][i], out'[w].msg)
    BY <1>0 DEF SeenBeforeOut
  <2>1. CASE w # v
    BY <1>3, <2>1 DEF Ordered, SeenBeforeOut
  <2>2. CASE w = v
    <3>1. out'[w].msg = feed[v][1].msg /\ c \in Members(v, feed[v][1].room)
      BY <1>1, <1>2, <1>3, <1>5, <2>2
    <3>2. sock[c].worker = v /\ sock[c].room = feed[v][1].room
      BY <3>1 DEF Members
    <3> QED BY <1>5, <3>1, <3>2 DEF Ordered, SeenBeforeFeed
  <2> QED BY <2>1, <2>2
<1>10. SeenBeforeFeed'
  <2> SUFFICES ASSUME NEW c \in Clients, NEW w \in Workers, sock'[c].room \in Bridged,
                      sock'[c].worker = w, NEW i \in 1 .. Len(seen'[c]),
                      NEW k \in 1 .. Len(feed'[w]), feed'[w][k].room = sock'[c].room
               PROVE  Before(log'[sock'[c].room], seen'[c][i], feed'[w][k].msg)
    BY DEF SeenBeforeFeed
  <2>0. /\ sock[c].room \in Bridged /\ sock[c].worker = w /\ i \in 1 .. Len(seen[c])
        /\ feed'[w][k].room = sock[c].room
        /\ log' = log /\ sock' = sock /\ seen' = seen
    BY <1>0
  <2>1. CASE w # v
    <3>1. k \in 1 .. Len(feed[w]) /\ feed'[w][k] = feed[w][k]
      BY <1>3, <2>1
    <3> QED BY <2>0, <3>1 DEF Ordered, SeenBeforeFeed
  <2>2. CASE w = v
    <3>1. k + 1 \in 1 .. Len(feed[w]) /\ feed'[w][k] = feed[w][k + 1]
      BY <1>1, <1>4, <2>2
    <3> QED BY <2>0, <3>1 DEF Ordered, SeenBeforeFeed
  <2> QED BY <2>1, <2>2
<1> QED BY <1>6, <1>7, <1>8, <1>9, <1>10 DEF Ordered

LEMMA SendOrdered ==
  ASSUME TypeOK, Shape, Ordered, LogsKept,
         NEW t \in Workers \cup Requests, NEW c \in Clients, send(t, c)
  PROVE  Ordered'
<1>0. /\ out \in [Workers \cup Requests -> Broadcast] /\ seen \in [Clients -> Seq(Requests)]
      /\ UNCHANGED <<log, feed, sock>> /\ Nothing.msg = None /\ Nothing.todo = {}
  BY TypeParts DEF OutOK, SocketsOK, send, redis, Nothing
<1>1. /\ c \in out[t].todo /\ Busy(t)
      /\ \A u \in Workers \cup Requests : u # t => out'[u] = out[u]
      /\ \/ out'[t] = Nothing
         \/ /\ out'[t].msg = out[t].msg /\ out'[t].room = out[t].room
            /\ out'[t].todo = out[t].todo \ {c}
  BY SendEffect
<1>2. /\ sock[c].room = out[t].room
      /\ \A u \in Workers : c \in out[u].todo => sock[c].worker = u
  BY <1>1 DEF Shape, RightSockets
<1>3. \A u \in Workers : \/ out'[u] = Nothing
                         \/ /\ out'[u].msg = out[u].msg /\ out'[u].room = out[u].room
                            /\ out'[u].todo \subseteq out[u].todo
  BY <1>1
<1>4. \A x \in Clients : x # c => seen'[x] = seen[x]
  BY <1>0 DEF send
<1>5. CASE seen' = seen \/ sock[c].room \notin Bridged
  BY <1>0, <1>3, <1>4, <1>5, NothingNew
<1>6. CASE sock[c].pc = "open" /\ sock[c].room \in Bridged
  <2>0. t \in Workers
    BY <1>1, <1>2, <1>6 DEF Shape, OwnBroadcasts
  <2> DEFINE s == log[sock[c].room]
             x == out[t].msg
  <2>1. seen'[c] = Append(seen[c], x)
    BY <1>0, <1>6 DEF send
  <2>2. x \in Requests
    BY <1>0, <1>1, <2>0 DEF Busy, Broadcast
  <2>3. /\ Len(seen'[c]) = Len(seen[c]) + 1 /\ seen'[c][Len(seen[c]) + 1] = x
        /\ Len(seen[c]) \in Nat
        /\ \A i \in 1 .. Len(seen[c]) : seen'[c][i] = seen[c][i]
    <3>1. seen[c] \in Seq(Requests)
      BY <1>0
    <3> HIDE DEF x
    <3> QED BY <2>1, <2>2, <3>1
  <2>4. /\ In(s, x)
        /\ \A k \in 1 .. Len(feed[t]) : feed[t][k].room = sock[c].room
             => Before(s, x, feed[t][k].msg)
    BY <1>1, <1>2, <1>6, <2>0 DEF Ordered, OutBeforeFeed
  <2>5. \A i \in 1 .. Len(seen[c]) : In(s, seen[c][i]) /\ Before(s, seen[c][i], x)
    BY <1>1, <1>6, <2>0 DEF Ordered, SeenInOrder, SeenBeforeOut
  <2> HIDE DEF s, x
  <2>6. FeedInOrder'
    BY <1>0 DEF Ordered, FeedInOrder
  <2>7. OutBeforeFeed'
    <3> SUFFICES ASSUME NEW w \in Workers, out'[w].msg # None, out'[w].room \in Bridged
                 PROVE  /\ In(log[out'[w].room], out'[w].msg)
                        /\ \A k \in 1 .. Len(feed[w]) :
                             feed[w][k].room = out'[w].room
                               => Before(log[out'[w].room], out'[w].msg, feed[w][k].msg)
      BY <1>0 DEF OutBeforeFeed, Busy
    <3>1. out'[w].msg = out[w].msg /\ out'[w].room = out[w].room
      BY <1>0, <1>3
    <3> QED BY <3>1 DEF Ordered, OutBeforeFeed, Busy
  <2>8. SeenInOrder'
    <3> SUFFICES ASSUME NEW y \in Clients, sock[y].room \in Bridged, NEW i \in 1 .. Len(seen'[y])
                 PROVE  /\ In(log[sock[y].room], seen'[y][i])
                        /\ \A k \in 1 .. Len(seen'[y]) :
                             i < k => Before(log[sock[y].room], seen'[y][i], seen'[y][k])
      BY <1>0 DEF SeenInOrder
    <3>1. CASE y # c
      BY <1>4, <3>1 DEF Ordered, SeenInOrder
    <3>2. CASE y = c
      <4>1. /\ i \in 1 .. Len(seen[c]) \/ i = Len(seen[c]) + 1
            /\ \A k \in 1 .. Len(seen'[c]) : k \in 1 .. Len(seen[c]) \/ k = Len(seen[c]) + 1
        BY <2>3, <3>2
      <4>2. In(s, seen'[c][i])
        BY <2>3, <2>4, <2>5, <4>1
      <4>3. ASSUME NEW k \in 1 .. Len(seen'[c]), i < k
            PROVE  Before(s, seen'[c][i], seen'[c][k])
        <5>1. i \in 1 .. Len(seen[c])
          BY <2>3, <3>2, <4>3
        <5>2. CASE k \in 1 .. Len(seen[c])
          <6>1. Before(s, seen[c][i], seen[c][k])
            BY <1>6, <4>3, <5>1, <5>2 DEF Ordered, SeenInOrder, s
          <6> QED BY <2>3, <5>1, <5>2, <6>1
        <5>3. CASE k = Len(seen[c]) + 1
          BY <2>3, <2>5, <5>1, <5>3
        <5> QED BY <4>1, <4>3, <5>2, <5>3
      <4> QED BY <3>2, <4>2, <4>3 DEF s
    <3> QED BY <3>1, <3>2
  <2>9. SeenBeforeOut'
    <3> SUFFICES ASSUME NEW y \in Clients, NEW w \in Workers, sock[y].room \in Bridged,
                        y \in out'[w].todo, NEW i \in 1 .. Len(seen'[y])
                 PROVE  Before(log[sock[y].room], seen'[y][i], out'[w].msg)
      BY <1>0 DEF SeenBeforeOut
    <3>1. out'[w].msg = out[w].msg /\ y \in out[w].todo
      BY <1>0, <1>3
    <3>2. y # c
      <4>1. ASSUME y = c PROVE FALSE
        <5>1. w = t
          BY <1>1, <1>2, <2>0, <3>1, <4>1
        <5> QED BY <1>0, <1>1, <4>1, <5>1
      <4> QED BY <4>1
    <3> QED BY <1>4, <3>1, <3>2 DEF Ordered, SeenBeforeOut
  <2>10. SeenBeforeFeed'
    <3> SUFFICES ASSUME NEW y \in Clients, NEW w \in Workers, sock[y].room \in Bridged,
                        sock[y].worker = w, NEW i \in 1 .. Len(seen'[y]),
                        NEW k \in 1 .. Len(feed[w]), feed[w][k].room = sock[y].room
                 PROVE  Before(log[sock[y].room], seen'[y][i], feed[w][k].msg)
      BY <1>0 DEF SeenBeforeFeed
    <3>1. CASE y # c
      BY <1>4, <3>1 DEF Ordered, SeenBeforeFeed
    <3>2. CASE y = c
      <4>1. w = t
        BY <1>1, <1>2, <2>0, <3>2
      <4>2. CASE i \in 1 .. Len(seen[c])
        BY <2>3, <3>2, <4>2 DEF Ordered, SeenBeforeFeed
      <4>3. CASE i = Len(seen[c]) + 1
        BY <2>3, <2>4, <3>2, <4>1, <4>3 DEF s
      <4> QED BY <2>3, <3>2, <4>2, <4>3
    <3> QED BY <3>1, <3>2
  <2> QED BY <2>6, <2>7, <2>8, <2>9, <2>10 DEF Ordered
<1>7. sock[c].pc # "open" => seen' = seen
  BY DEF send
<1> QED BY <1>5, <1>6, <1>7

LEMMA OrderedInit == Init => Ordered
<1> SUFFICES ASSUME Init PROVE Ordered
  OBVIOUS
<1>1. /\ \A w \in Workers : feed[w] = <<>> /\ out[w] = Nothing
      /\ \A c \in Clients : seen[c] = <<>>
      /\ \A t \in Workers \cup Requests : out[t].todo = {}
      /\ Nothing.msg = None /\ 1 .. Len(<<>>) = {}
  BY DEF Init, Nothing
<1>2. FeedInOrder /\ SeenInOrder /\ SeenBeforeFeed
  BY <1>1 DEF FeedInOrder, SeenInOrder, SeenBeforeFeed
<1>3. OutBeforeFeed /\ SeenBeforeOut
  BY <1>1 DEF OutBeforeFeed, SeenBeforeOut, Busy
<1> QED BY <1>2, <1>3 DEF Ordered

LEMMA OrderedStep ==
  ASSUME TypeOK, Shape, Ordered, [Next]_vars
  PROVE  Ordered'
<1>0. /\ LogsKept
      /\ sock \in [Clients -> Socket] /\ feed \in [Workers -> Seq(Message)]
      /\ out \in [Workers \cup Requests -> Broadcast] /\ Requests \cap Workers = {}
      /\ \A c \in Clients : sock[c].pc = "new" => seen[c] = <<>>
  BY TypeParts, LogsAreKept, LiveUpdatesAssumption
     DEF SocketsOK, RedisOK, OutOK, Shape, RightSockets
<1>1. ASSUME \A w \in Workers : feed'[w] = feed[w] \/ feed'[w] = <<>>,
             \A w \in Workers : out'[w] = out[w] \/ out'[w] = Nothing,
             \A c \in Clients : \/ seen'[c] = <<>>
                                \/ /\ seen'[c] = seen[c] /\ sock'[c].room = sock[c].room
                                   /\ sock'[c].worker = sock[c].worker
      PROVE  Ordered'
  <2>1. \A w \in Workers : \/ out'[w] = Nothing
                           \/ /\ out'[w].msg = out[w].msg /\ out'[w].room = out[w].room
                              /\ out'[w].todo \subseteq out[w].todo
    BY <1>1
  <2> QED BY <1>0, <1>1, <2>1, NothingNew
<1>2. ASSUME NEW r \in Requests,
             \/ \E k \in Kinds, w \in Workers : begin(r, k, w)
             \/ commit(r) \/ commit_fails(r) \/ publish_fails(r)
      PROVE  Ordered'
  BY <1>1, <1>2 DEF begin, commit, commit_fails, publish_fails, redis, sockets
<1>3. ASSUME NEW r \in Requests, deliver(r) PROVE Ordered'
  <2>1. \A w \in Workers : out'[w] = out[w]
    BY <1>0, <1>3 DEF deliver
  <2> QED BY <1>1, <1>3, <2>1 DEF deliver, redis, sockets
<1>4. ASSUME NEW w \in Workers, bridge_fails(w) \/ bridge_subscribes(w) PROVE Ordered'
  <2>1. \A v \in Workers : feed'[v] = feed[v] \/ feed'[v] = <<>>
    BY <1>0, <1>4 DEF bridge_fails, bridge_subscribes
  <2> QED BY <1>1, <1>4, <2>1 DEF bridge_fails, bridge_subscribes, sockets
<1>5. ASSUME NEW w \in Workers, worker_restart(w) PROVE Ordered'
  <2>1. \A v \in Workers : feed'[v] = feed[v] \/ feed'[v] = <<>>
    BY <1>0, <1>5 DEF worker_restart
  <2>2. \A v \in Workers : out'[v] = out[v] \/ out'[v] = Nothing
    BY <1>0, <1>5 DEF worker_restart
  <2>3. \A c \in Clients : /\ seen'[c] = seen[c] /\ sock'[c].room = sock[c].room
                           /\ sock'[c].worker = sock[c].worker
    BY <1>0, <1>5 DEF worker_restart, Socket
  <2> QED BY <1>1, <2>1, <2>2, <2>3
<1>6. ASSUME NEW c \in Clients,
             (\E w \in Workers, m \in Watched : connect(c, w, m)) \/ closes(c) \/ disconnect(c)
      PROVE  Ordered'
  <2>1. /\ UNCHANGED <<feed, out, seen>>
        /\ \A x \in Clients : x # c => sock'[x] = sock[x]
    BY <1>0, <1>6 DEF connect, closes, disconnect, redis
  <2>2. CASE \E w \in Workers, m \in Watched : connect(c, w, m)
    <3>1. seen[c] = <<>>
      BY <1>0, <2>2 DEF connect
    <3> QED BY <1>1, <2>1, <3>1
  <2>3. CASE closes(c) \/ disconnect(c)
    <3>1. sock'[c].room = sock[c].room /\ sock'[c].worker = sock[c].worker
      BY <1>0, <2>3 DEF closes, disconnect, Socket
    <3> QED BY <1>1, <2>1, <3>1
  <2> QED BY <1>6, <2>2, <2>3
<1>7. CASE UNCHANGED vars
  BY <1>1, <1>7 DEF vars, redis, sockets
<1>8. ASSUME NEW r \in Requests, publish(r) PROVE Ordered'
  BY <1>0, <1>8, PublishOrdered
<1>9. ASSUME NEW w \in Workers, bridge_takes(w) PROVE Ordered'
  BY <1>9, TakeOrdered
<1>10. ASSUME NEW t \in Workers \cup Requests, NEW c \in Clients, send(t, c) PROVE Ordered'
  BY <1>0, <1>10, SendOrdered
<1> QED BY <1>2, <1>3, <1>4, <1>5, <1>6, <1>7, <1>8, <1>9, <1>10 DEF Next

\* Where a request is in a log.
IndexIn(s, x) ==
  LET I == {i \in 1 .. Len(s) : s[i] = x} IN IF I # {} THEN Min(I) ELSE 0

LEMMA Position ==
  ASSUME NEW s, Len(s) \in Nat, \A i, k \in 1 .. Len(s) : s[i] = s[k] => i = k,
         NEW p \in 1 .. Len(s), NEW x, s[p] = x
  PROVE  IndexIn(s, x) = p
<1> DEFINE I == {i \in 1 .. Len(s) : s[i] = x}
<1>1. I = {p}
  OBVIOUS
<1>2. Min(I) = p
  BY <1>1 DEF Min
<1> QED BY <1>1, <1>2 DEF IndexIn

\* Signal events and alerts reach every dashboard in the order in which Redis took
\* them, and none twice, whatever fails.
THEOREM OrderCorrect == Spec => []OneOrder
<1>1. Init => TypeOK /\ Shape /\ Ordered
  BY TypeInit, ShapeInit, OrderedInit
<1>2. TypeOK /\ Shape /\ Ordered /\ [Next]_vars => (TypeOK /\ Shape /\ Ordered)'
  BY TypeStep, ShapeStep, OrderedStep
<1>3. TypeOK /\ Shape /\ Ordered => OneOrder
  <2> SUFFICES ASSUME TypeOK, Shape, Ordered,
                      NEW c \in Clients, sock[c].room \in {"signals", "alerts"}
               PROVE  LET At(i) == IndexIn(log[sock[c].room], seen[c][i])
                      IN  /\ \A i \in DOMAIN seen[c] : At(i) > 0
                          /\ \A i, k \in DOMAIN seen[c] : i < k => At(i) < At(k)
    BY DEF OneOrder, SelectInSeq, IndexIn
  <2> DEFINE s == log[sock[c].room]
  <2>1. /\ sock[c].room \in Bridged
        /\ log \in [Rooms -> Seq(Requests)] /\ seen \in [Clients -> Seq(Requests)]
    BY TypeParts DEF Bridged, RedisOK, SocketsOK
  <2>2. /\ Len(s) \in Nat /\ DOMAIN seen[c] = 1 .. Len(seen[c])
        /\ \A i, k \in 1 .. Len(s) : s[i] = s[k] => i = k
    BY <2>1, BridgedRooms DEF Shape, PublishedOnce
  <2>3. \A i \in 1 .. Len(seen[c]) :
          /\ In(s, seen[c][i])
          /\ \A k \in 1 .. Len(seen[c]) : i < k => Before(s, seen[c][i], seen[c][k])
    BY <2>1 DEF Ordered, SeenInOrder
  <2> HIDE DEF s
  <2>4. ASSUME NEW i \in 1 .. Len(seen[c]), NEW p \in 1 .. Len(s), s[p] = seen[c][i]
        PROVE  IndexIn(s, seen[c][i]) = p
    BY <2>2, <2>4, Position
  <2>5. ASSUME NEW i \in 1 .. Len(seen[c]) PROVE IndexIn(s, seen[c][i]) > 0
    <3>1. PICK p \in 1 .. Len(s) : s[p] = seen[c][i]
      BY <2>3 DEF In
    <3> QED BY <2>2, <2>4, <3>1
  <2>6. ASSUME NEW i \in 1 .. Len(seen[c]), NEW k \in 1 .. Len(seen[c]), i < k
        PROVE  IndexIn(s, seen[c][i]) < IndexIn(s, seen[c][k])
    <3>1. PICK p, q \in 1 .. Len(s) : p < q /\ s[p] = seen[c][i] /\ s[q] = seen[c][k]
      BY <2>3, <2>6 DEF Before
    <3> QED BY <2>4, <3>1
  <2> QED BY <2>2, <2>5, <2>6 DEF s
<1> QED BY <1>1, <1>2, <1>3, PTL DEF Spec

-----------------------------------------------------------------------------
(* At most twice. *)

\* How often something is in a sequence that grows.
LEMMA TimesOfAppend ==
  ASSUME NEW s \in Seq(Requests), NEW x, NEW y \in Requests
  PROVE  /\ Times(s, x) \in Nat
         /\ Times(Append(s, y), x) = IF y = x THEN Times(s, x) + 1 ELSE Times(s, x)
<1> DEFINE a == Append(s, y)
           I == {i \in 1 .. Len(s) : s[i] = x}
           A == {i \in 1 .. Len(a) : a[i] = x}
<1>1. /\ Len(s) \in Nat /\ Len(a) = Len(s) + 1 /\ a[Len(s) + 1] = y
      /\ \A i \in 1 .. Len(s) : a[i] = s[i]
  OBVIOUS
<1>2. IsFiniteSet(1 .. Len(s))
  BY <1>1, FS_Interval
<1>3. IsFiniteSet(I)
  BY <1>2, FS_Subset
<1>4. Cardinality(I) \in Nat
  BY <1>3, FS_CardinalityType
<1> HIDE DEF a
<1>5. A = IF y = x THEN I \cup {Len(s) + 1} ELSE I
  BY <1>1
<1>6. Len(s) + 1 \notin I
  BY <1>1
<1>7. Cardinality(I \cup {Len(s) + 1}) = Cardinality(I) + 1
  BY <1>3, <1>6, FS_AddElement
<1>8. Times(s, x) = Cardinality(I) /\ Times(a, x) = Cardinality(A)
  BY DEF Times
<1> HIDE DEF I, A
<1> QED BY <1>4, <1>5, <1>7, <1>8 DEF a

\* A socket has the worker that accepted it.
Connected ==
  \A c \in Clients : IF sock[c].pc = "new" THEN sock[c].worker = None
                                            ELSE sock[c].worker \in Workers

\* Worker and room stay; a socket connects once, and nothing else opens it.
Stays(c) == /\ sock'[c].worker = sock[c].worker /\ sock'[c].room = sock[c].room
            /\ sock'[c].since = sock[c].since
            /\ (sock'[c].pc = "new") = (sock[c].pc = "new")
            /\ sock'[c].pc = "open" => sock[c].pc = "open"
            /\ c \in rooms' => c \in rooms

LEMMA SocketsStay ==
  ASSUME TypeOK, Connected, [Next]_vars, NEW c \in Clients
  PROVE  Stays(c) \/ \E w \in Workers, m \in Watched : connect(c, w, m)
<1>0. sock \in [Clients -> Socket]
  BY TypeParts DEF SocketsOK
<1>1. CASE UNCHANGED sockets
  BY <1>1 DEF sockets, Stays
<1>2. ASSUME NEW x \in Clients, NEW w \in Workers, NEW m \in Watched, connect(x, w, m)
      PROVE  Stays(c) \/ connect(c, w, m)
  BY <1>0, <1>2 DEF connect, Stays
<1>3. ASSUME NEW x \in Clients, closes(x) \/ disconnect(x) PROVE Stays(c)
  <2>1. sock[x].pc \in {"open", "closed"} /\ rooms' \subseteq rooms
    BY <1>3 DEF closes, disconnect, Without
  <2>2. PICK p \in {"closed", "over"} : sock' = [sock EXCEPT ![x].pc = p]
    BY <1>3 DEF closes, disconnect
  <2> QED BY <1>0, <2>1, <2>2 DEF Socket, Stays
<1>4. ASSUME NEW w \in Workers, worker_restart(w) PROVE Stays(c)
  <2>1. /\ sock'[c] = IF sock[c].worker = w THEN [sock[c] EXCEPT !.pc = "over"] ELSE sock[c]
        /\ rooms' \subseteq rooms
    BY <1>0, <1>4 DEF worker_restart
  <2>2. sock[c] \in Socket /\ (sock[c].worker = w => sock[c].pc # "new")
    BY <1>0, LiveUpdatesAssumption DEF Connected
  <2> QED BY <2>1, <2>2 DEF Socket, Stays
<1>5. ASSUME NEW t \in Workers \cup Requests, NEW x \in Clients, send(t, x) PROVE Stays(c)
  <2>1. sock' = sock /\ rooms' \subseteq rooms
    BY <1>5 DEF send, Without
  <2> QED BY <2>1 DEF Stays
<1> QED BY <1>1, <1>2, <1>3, <1>4, <1>5
        DEF Next, vars, begin, commit, commit_fails, publish, publish_fails, deliver,
            bridge_takes, bridge_fails, bridge_subscribes, sockets

LEMMA ConnectedStep == TypeOK /\ Connected /\ [Next]_vars => Connected'
<1> SUFFICES ASSUME TypeOK, Connected, [Next]_vars, NEW c \in Clients
             PROVE  IF sock'[c].pc = "new" THEN sock'[c].worker = None
                                           ELSE sock'[c].worker \in Workers
  BY DEF Connected
<1>1. CASE Stays(c)
  BY <1>1 DEF Connected, Stays
<1>2. ASSUME NEW w \in Workers, NEW m \in Watched, connect(c, w, m)
      PROVE  sock'[c].pc = "open" /\ sock'[c].worker = w
  <2>1. sock \in [Clients -> Socket]
    BY TypeParts DEF SocketsOK
  <2> QED BY <1>2, <2>1 DEF connect
<1> QED BY <1>1, <1>2, SocketsStay

\* The exact end of a delivery.
LEMMA SecondRoom ==
  ASSUME TypeOK, NEW r \in Requests, req' = AfterDelivery(r)
  PROVE  /\ \/ /\ req[r].room = "simulation" /\ req'[r].pc = "publish"
               /\ req'[r].room = "traffic"
            \/ req'[r].pc = "answered" /\ req'[r].room = req[r].room
         /\ req'[r].kind = req[r].kind /\ req'[r].worker = req[r].worker
         /\ \A x \in Requests : x # r => req'[x] = req[x]
<1>1. req \in [Requests -> Request]
  BY TypeParts DEF ReqOK
<1>2. CASE req[r].room = "simulation"
  <2>1. req' = [req EXCEPT ![r].pc = "publish", ![r].room = "traffic"]
    BY <1>2 DEF AfterDelivery
  <2>2. /\ req'[r].pc = "publish" /\ req'[r].kind = req[r].kind /\ req'[r].room = "traffic"
        /\ req'[r].worker = req[r].worker
    BY <1>1, <2>1 DEF Request
  <2> QED BY <1>1, <1>2, <2>1, <2>2
<1>3. CASE req[r].room # "simulation"
  <2>1. req' = [req EXCEPT ![r].pc = "answered"]
    BY <1>3 DEF AfterDelivery
  <2> QED BY <1>1, <2>1 DEF Request
<1> QED BY <1>2, <1>3

\* A request broadcasts what it published, to sockets of its own worker.
LocalBroadcasts ==
  \A t \in Requests : Busy(t) =>
    /\ out[t].msg = t /\ out[t].room = req[t].room
    /\ \A c \in out[t].todo : sock[c].worker = req[t].worker

LEMMA LocalBroadcastsStep ==
  ASSUME TypeOK, Shape, Connected, LocalBroadcasts, [Next]_vars
  PROVE  LocalBroadcasts'
<1>0. /\ req \in [Requests -> Request] /\ out \in [Workers \cup Requests -> Broadcast]
      /\ Requests \cap Workers = {} /\ Nothing.msg = None
      /\ sock \in [Clients -> Socket]
  BY TypeParts, LiveUpdatesAssumption DEF ReqOK, OutOK, SocketsOK, Nothing
<1> DEFINE Local(t) == out'[t].msg # None =>
             /\ out'[t].msg = t /\ out'[t].room = req'[t].room
             /\ \A c \in out'[t].todo : sock'[c].worker = req'[t].worker
<1> SUFFICES ASSUME NEW t \in Requests PROVE Local(t)
  BY DEF LocalBroadcasts, Busy
<1>1. ASSUME \/ out'[t] = Nothing
             \/ /\ out'[t].msg = out[t].msg /\ out'[t].room = out[t].room
                /\ out'[t].todo \subseteq out[t].todo
                /\ out[t].msg # None =>
                     req'[t].room = req[t].room /\ req'[t].worker = req[t].worker
      PROVE  Local(t)
  <2>1. CASE out'[t] = Nothing
    BY <1>0, <2>1
  <2>2. ASSUME out[t].msg # None, NEW c \in out[t].todo
        PROVE  sock[c].worker = req[t].worker /\ sock'[c].worker = sock[c].worker
    <3>1. c \in Clients /\ sock[c].pc # "new" /\ sock[c].worker = req[t].worker
      BY <1>0, <2>2 DEF LocalBroadcasts, Busy, Shape, RightSockets, Broadcast
    <3>2. Stays(c)
      BY <3>1, SocketsStay DEF connect
    <3> QED BY <3>1, <3>2 DEF Stays
  <2> QED BY <1>1, <2>1, <2>2 DEF LocalBroadcasts, Busy
<1>2. ASSUME NEW r \in Requests, req[r].pc # "deliver", out' = out,
             \A x \in Requests : x # r => req'[x] = req[x]
      PROVE  Local(t)
  <2>1. out[t].msg # None => t # r
    BY <1>2 DEF Shape, OwnBroadcasts, Busy
  <2> QED BY <1>1, <1>2, <2>1
<1>3. ASSUME NEW r \in Requests,
             \/ \E k \in Kinds, w \in Workers : begin(r, k, w)
             \/ commit(r) \/ commit_fails(r) \/ publish(r) \/ publish_fails(r)
      PROVE  Local(t)
  <2>1. /\ req[r].pc # "deliver" /\ out' = out
        /\ \A x \in Requests : x # r => req'[x] = req[x]
    BY <1>0, <1>3 DEF begin, commit, commit_fails, publish, publish_fails
  <2> QED BY <1>2, <2>1
<1>4. ASSUME NEW r \in Requests, deliver(r) PROVE Local(t)
  <2> DEFINE d == Delivery(req[r].worker, r, req[r].room)
  <2>1. /\ out' = [out EXCEPT ![r] = d] /\ sock' = sock
        /\ req' = IF d = Nothing THEN AfterDelivery(r) ELSE req
    BY <1>4 DEF deliver, sockets
  <2>2. d # Nothing => /\ d.msg = r /\ d.room = req[r].room
                       /\ d.todo = Members(req[r].worker, req[r].room)
    BY <1>0, DeliveryType DEF Request
  <2> HIDE DEF d
  <2>3. CASE t # r
    <3>1. req'[t] = req[t] /\ out'[t] = out[t]
      BY <1>0, <2>1, <2>3, SecondRoom
    <3> QED BY <1>1, <3>1
  <2>4. CASE t = r /\ d # Nothing
    <3>1. out'[t] = d /\ req' = req
      BY <1>0, <2>1, <2>4
    <3>2. \A c \in d.todo : sock'[c].worker = req'[t].worker
      BY <2>1, <2>2, <2>4, <3>1 DEF Members
    <3> QED BY <2>2, <2>4, <3>1, <3>2
  <2>5. CASE t = r /\ d = Nothing
    BY <1>0, <1>1, <2>1, <2>5
  <2> QED BY <2>3, <2>4, <2>5
<1>5. ASSUME NEW u \in Workers \cup Requests, NEW c \in Clients, send(u, c) PROVE Local(t)
  <2>1. CASE u = t
    BY <1>1, <1>5, <2>1, SendEffect
  <2>2. CASE u # t
    <3>1. out'[t] = out[t]
      BY <1>5, <2>2, SendEffect
    <3>2. req'[t] = req[t]
      <4>1. req' = req \/ (u \in Requests /\ req' = AfterDelivery(u))
        BY <1>5, SendEffect
      <4> QED BY <2>2, <4>1, SecondRoom
    <3> QED BY <1>1, <3>1, <3>2
  <2> QED BY <2>1, <2>2
<1>6. ASSUME NEW w \in Workers, worker_restart(w) PROVE Local(t)
  <2>1. \/ out'[t] = Nothing
        \/ out'[t] = out[t] /\ req'[t] = req[t]
    <3> DEFINE killed == {r \in Requests : req[r].worker = w /\ req[r].pc \notin Over}
    <3>1. /\ req'[t] = IF t \in killed THEN [req[t] EXCEPT !.pc = "failed"] ELSE req[t]
          /\ out'[t] = IF t \in killed \cup {w} THEN Nothing ELSE out[t]
      BY <1>0, <1>6 DEF worker_restart
    <3> HIDE DEF killed
    <3> QED BY <3>1
  <2> QED BY <1>1, <2>1
<1>7. ASSUME NEW w \in Workers, bridge_takes(w) PROVE Local(t)
  <2>1. out'[t] = out[t] /\ req' = req
    BY <1>0, <1>7 DEF bridge_takes
  <2> QED BY <1>1, <2>1
<1>8. ASSUME out' = out, req' = req PROVE Local(t)
  BY <1>1, <1>8
<1> QED BY <1>3, <1>4, <1>5, <1>6, <1>7, <1>8
        DEF Next, vars, bridge_fails, bridge_subscribes, connect, closes, disconnect

\* Request r has still to publish to room m.
Ahead(r, m) ==
  \/ req[r].pc \in {"new", "commit"}
  \/ req[r].pc = "publish" /\ req[r].room = m
  \/ req[r].pc \in {"publish", "deliver"} /\ req[r].room = "simulation" /\ m = "traffic"

\* No request gets behind what it has done, and publishing is done once.
LEMMA NeverAheadAgain ==
  ASSUME TypeOK, Shape, [Next]_vars, NEW r \in Requests, NEW m \in Rooms, Ahead(r, m)'
  PROVE  Ahead(r, m) /\ ~(publish(r) /\ req[r].room = m)
<1>0. req \in [Requests -> Request] /\ Requests \cap Workers = {}
  BY TypeParts, LiveUpdatesAssumption DEF ReqOK
<1>2. ASSUME req[r].pc = "deliver",
             \/ /\ req[r].room = "simulation" /\ req'[r].pc = "publish"
                /\ req'[r].room = "traffic"
             \/ req'[r].pc = "answered"
      PROVE  Ahead(r, m)
  BY <1>2 DEF Ahead
<1>3. ASSUME NEW q \in Requests, NEW k \in Kinds, NEW w \in Workers, begin(q, k, w)
      PROVE  Ahead(r, m)
  BY <1>0, <1>3 DEF begin, Ahead
<1>4. ASSUME NEW q \in Requests, commit(q) \/ commit_fails(q) \/ publish_fails(q)
      PROVE  Ahead(r, m)
  BY <1>0, <1>4 DEF commit, commit_fails, publish_fails, AfterPublish, Ahead, Request
<1>5. ASSUME NEW q \in Requests, publish(q)
      PROVE  Ahead(r, m) /\ (q = r => req[r].room # m)
  <2>1. CASE q # r
    BY <1>0, <1>5, <2>1 DEF publish, Ahead
  <2>2. CASE q = r
    <3>1. /\ req[r].pc = "publish" /\ req'[r].room = req[r].room
          /\ req'[r].pc \in {"deliver", "answered"}
      BY <1>0, <1>5, <2>2 DEF publish, AfterPublish, Request
    <3> QED BY <3>1 DEF Ahead
  <2> QED BY <2>1, <2>2
<1>6. ASSUME NEW q \in Requests, deliver(q) PROVE Ahead(r, m)
  <2>1. req[q].pc = "deliver" /\ (req' = req \/ req' = AfterDelivery(q))
    BY <1>6 DEF deliver
  <2>2. CASE req' = req
    BY <2>2 DEF Ahead
  <2>3. CASE req' = AfterDelivery(q) /\ q = r
    BY <1>2, <2>1, <2>3, SecondRoom
  <2>4. CASE req' = AfterDelivery(q) /\ q # r
    BY <2>4, SecondRoom DEF Ahead
  <2> QED BY <2>1, <2>2, <2>3, <2>4
<1>7. ASSUME NEW t \in Workers \cup Requests, NEW c \in Clients, send(t, c) PROVE Ahead(r, m)
  <2>1. /\ t \in Requests => req[t].pc = "deliver"
        /\ req' = req \/ (t \in Requests /\ req' = AfterDelivery(t))
    BY <1>7, SendEffect DEF Shape, OwnBroadcasts
  <2>2. CASE req' = req
    BY <2>2 DEF Ahead
  <2>3. CASE req' = AfterDelivery(t) /\ t = r
    BY <1>2, <2>1, <2>3, SecondRoom
  <2>4. CASE t \in Requests /\ req' = AfterDelivery(t) /\ t # r
    BY <2>4, SecondRoom DEF Ahead
  <2> QED BY <2>1, <2>2, <2>3, <2>4
<1>8. ASSUME NEW w \in Workers, worker_restart(w) PROVE Ahead(r, m)
  <2>1. req'[r] = req[r] \/ req'[r].pc = "failed"
    BY <1>0, <1>8 DEF worker_restart, Request
  <2> QED BY <2>1 DEF Ahead
<1>9. ASSUME req' = req PROVE Ahead(r, m)
  BY <1>9 DEF Ahead
<1>10. Ahead(r, m)
  BY <1>3, <1>4, <1>5, <1>6, <1>7, <1>8, <1>9
     DEF Next, vars, bridge_takes, bridge_fails, bridge_subscribes, connect, closes, disconnect
<1> QED BY <1>5, <1>10

\* A room's log has a request once, whatever the room; on its way to a worker is at most
\* one copy, of something that is in the log.
NotYetIn == \A r \in Requests, m \in Rooms : Ahead(r, m) => ~In(log[m], r)
FeedOnce ==
  \A w \in Workers : \A i \in 1 .. Len(feed[w]) :
    /\ In(log[feed[w][i].room], feed[w][i].msg)
    /\ \A k \in 1 .. Len(feed[w]) : feed[w][i] = feed[w][k] => i = k
OutOnce ==
  \A w \in Workers : Busy(w) =>
    /\ In(log[out[w].room], out[w].msg)
    /\ \A k \in 1 .. Len(feed[w]) : feed[w][k] # [msg |-> out[w].msg, room |-> out[w].room]
OnceOnTheWay == NotYetIn /\ FeedOnce /\ OutOnce

\* Of a log, publish appends the request; the other steps leave it.
LEMMA LogGrows ==
  ASSUME TypeOK, Shape, [Next]_vars
  PROVE  \A m \in Rooms : \A x :
           /\ In(log[m], x) => In(log'[m], x)
           /\ In(log'[m], x) => \/ In(log[m], x)
                                \/ x \in Requests /\ publish(x) /\ req[x].room = m
<1>0. log \in [Rooms -> Seq(Requests)]
  BY TypeParts DEF RedisOK
<1>1. CASE log' = log
  BY <1>1
<1>2. ASSUME NEW r \in Requests, publish(r), NEW m \in Rooms, NEW x
      PROVE  /\ In(log[m], x) => In(log'[m], x)
             /\ In(log'[m], x) => In(log[m], x) \/ (x = r /\ req[r].room = m)
  <2>1. log'[m] = IF m = req[r].room THEN Append(log[m], r) ELSE log[m]
    <3>1. log' = [log EXCEPT ![req[r].room] = Append(log[req[r].room], r)]
      BY <1>2, PublishEffect DEF Shape
    <3> QED BY <1>0, <3>1
  <2> DEFINE s == log[m]
             a == Append(s, r)
  <2>2. s \in Seq(Requests)
    BY <1>0
  <2>3. /\ Len(a) = Len(s) + 1 /\ a[Len(s) + 1] = r /\ Len(s) \in Nat
        /\ \A i \in 1 .. Len(s) : a[i] = s[i]
    BY <2>2
  <2> HIDE DEF a, s
  <2>4. In(a, x) => In(s, x) \/ x = r
    BY <2>3 DEF In
  <2>5. In(s, x) => In(a, x)
    BY <2>2, GrownLog DEF a
  <2> QED BY <2>1, <2>4, <2>5 DEF a, s
<1> QED BY <1>1, <1>2, LogsStay

LEMMA NotYetInStep == TypeOK /\ Shape /\ NotYetIn /\ [Next]_vars => NotYetIn'
BY NeverAheadAgain, LogGrows DEF NotYetIn

\* What a bridge has before it takes the next message.
LEMMA TakeEffect ==
  ASSUME TypeOK, NEW w \in Workers, bridge_takes(w)
  PROVE  /\ Len(feed[w]) \in Nat \ {0} /\ Len(feed'[w]) = Len(feed[w]) - 1
         /\ \A k \in 1 .. Len(feed'[w]) :
              k + 1 \in 1 .. Len(feed[w]) /\ feed'[w][k] = feed[w][k + 1]
         /\ feed[w][1] \in Message /\ 1 \in 1 .. Len(feed[w])
         /\ \A v \in Workers : v # w => feed'[v] = feed[v]
         /\ \A t \in Workers \cup Requests : t # w => out'[t] = out[t]
         /\ out'[w] = Delivery(w, feed[w][1].msg, feed[w][1].room)
         /\ \/ out'[w] = Nothing
            \/ /\ out'[w].msg = feed[w][1].msg /\ out'[w].room = feed[w][1].room
               /\ out'[w].todo = Members(w, feed[w][1].room)
<1>0. /\ feed \in [Workers -> Seq(Message)] /\ out \in [Workers \cup Requests -> Broadcast]
      /\ feed[w] # <<>> /\ feed' = [feed EXCEPT ![w] = Tail(feed[w])]
      /\ out' = [out EXCEPT ![w] = Delivery(w, Head(feed[w]).msg, Head(feed[w]).room)]
  BY TypeParts DEF RedisOK, OutOK, bridge_takes, NextOf
<1> DEFINE s == feed[w]
<1>1. s \in Seq(Message) /\ s # <<>> /\ feed'[w] = Tail(s)
  BY <1>0
<1> HIDE DEF s
<1>2. /\ Len(s) \in Nat \ {0} /\ Head(s) = s[1] /\ s[1] \in Message /\ 1 \in 1 .. Len(s)
      /\ Len(feed'[w]) = Len(s) - 1
      /\ \A k \in 1 .. Len(feed'[w]) : k + 1 \in 1 .. Len(s) /\ feed'[w][k] = s[k + 1]
  BY <1>1
<1>3. out'[w] = Delivery(w, s[1].msg, s[1].room)
  BY <1>0, <1>2 DEF s
<1>4. s[1].msg \in Requests /\ s[1].room \in Rooms
  BY <1>2 DEF Message
<1>5. \/ out'[w] = Nothing
      \/ /\ out'[w].msg = s[1].msg /\ out'[w].room = s[1].room
         /\ out'[w].todo = Members(w, s[1].room)
  BY <1>3, <1>4, DeliveryType
<1> QED BY <1>0, <1>2, <1>3, <1>5 DEF s

\* What Redis sends a worker when r publishes.
LEMMA FeedGrows ==
  ASSUME TypeOK, Shape, NEW r \in Requests, publish(r), NEW w \in Workers,
         NEW k \in 1 .. Len(feed'[w])
  PROVE  \/ k \in 1 .. Len(feed[w]) /\ feed'[w][k] = feed[w][k]
         \/ /\ k = Len(feed[w]) + 1 /\ feed'[w][k] = [msg |-> r, room |-> req[r].room]
            /\ Len(feed[w]) \in Nat
<1> DEFINE n == [msg |-> r, room |-> req[r].room]
<1>1. feed'[w] = IF link[w] THEN Append(feed[w], n) ELSE feed[w]
  BY DEF publish
<1>2. feed[w] \in Seq(Message) /\ n \in Message
  BY TypeParts, PublishEffect DEF Shape, RedisOK, Message
<1> HIDE DEF n
<1>3. CASE link[w]
  <2>1. feed'[w] = Append(feed[w], n)
    BY <1>1, <1>3
  <2>2. /\ Len(feed'[w]) = Len(feed[w]) + 1 /\ feed'[w][Len(feed[w]) + 1] = n
        /\ Len(feed[w]) \in Nat
        /\ \A i \in 1 .. Len(feed[w]) : feed'[w][i] = feed[w][i]
    BY <1>2, <2>1
  <2> QED BY <2>2 DEF n
<1>4. CASE ~link[w]
  BY <1>1, <1>4
<1> QED BY <1>3, <1>4

LEMMA FeedOnceStep ==
  ASSUME TypeOK, Shape, OnceOnTheWay, [Next]_vars
  PROVE  FeedOnce'
<1>0. feed \in [Workers -> Seq(Message)]
  BY TypeParts DEF RedisOK
<1> DEFINE F(w) == \A i \in 1 .. Len(feed'[w]) :
             /\ In(log'[feed'[w][i].room], feed'[w][i].msg)
             /\ \A k \in 1 .. Len(feed'[w]) : feed'[w][i] = feed'[w][k] => i = k
<1> SUFFICES ASSUME NEW w \in Workers PROVE F(w)
  BY DEF FeedOnce
<1>1. \A i \in 1 .. Len(feed[w]) :
        /\ feed[w][i] \in Message /\ In(log'[feed[w][i].room], feed[w][i].msg)
        /\ \A k \in 1 .. Len(feed[w]) : feed[w][i] = feed[w][k] => i = k
  <2>1. \A i \in 1 .. Len(feed[w]) : feed[w][i] \in Message
    BY <1>0
  <2> QED BY <2>1, LogGrows DEF OnceOnTheWay, FeedOnce, Message
<1>2. CASE feed'[w] = feed[w]
  BY <1>1, <1>2
<1>3. CASE feed'[w] = <<>>
  BY <1>3
<1>4. ASSUME NEW v \in Workers, bridge_takes(v) PROVE F(w)
  <2>1. CASE v = w
    <3>1. /\ Len(feed[w]) \in Nat /\ Len(feed'[w]) = Len(feed[w]) - 1
          /\ \A k \in 1 .. Len(feed'[w]) :
               k + 1 \in 1 .. Len(feed[w]) /\ feed'[w][k] = feed[w][k + 1]
      BY <1>4, <2>1, TakeEffect
    <3>2. ASSUME NEW i \in 1 .. Len(feed'[w]), NEW k \in 1 .. Len(feed'[w]),
                 feed'[w][i] = feed'[w][k]
          PROVE  i = k
      <4>1. i + 1 = k + 1
        BY <1>1, <3>1, <3>2
      <4> QED BY <3>1, <4>1
    <3> QED BY <1>1, <3>1, <3>2
  <2>2. CASE v # w
    BY <1>2, <1>4, <2>2, TakeEffect
  <2> QED BY <2>1, <2>2
<1>5. ASSUME NEW r \in Requests, publish(r) PROVE F(w)
  <2> DEFINE n == [msg |-> r, room |-> req[r].room]
  <2>1. req[r].room \in Rooms /\ Ahead(r, req[r].room)
    BY <1>5, PublishEffect DEF Shape, Ahead
  <2>2. ~In(log[n.room], n.msg) /\ In(log'[n.room], n.msg)
    <3>1. log \in [Rooms -> Seq(Requests)]
      BY TypeParts DEF RedisOK
    <3>2. log'[req[r].room] = Append(log[req[r].room], r)
      <4>1. log' = [log EXCEPT ![req[r].room] = Append(log[req[r].room], r)]
        BY <1>5, PublishEffect DEF Shape
      <4> QED BY <2>1, <3>1, <4>1
    <3>3. In(log'[req[r].room], r)
      BY <2>1, <3>1, <3>2, GrownLog
    <3> QED BY <2>1, <3>3 DEF OnceOnTheWay, NotYetIn
  <2>3. \A i \in 1 .. Len(feed[w]) : feed[w][i] # n
    BY <2>2 DEF OnceOnTheWay, FeedOnce
  <2>4. \A k \in 1 .. Len(feed'[w]) :
          \/ k \in 1 .. Len(feed[w]) /\ feed'[w][k] = feed[w][k]
          \/ k = Len(feed[w]) + 1 /\ feed'[w][k] = n
    BY <1>5, FeedGrows
  <2> HIDE DEF n
  <2> QED BY <1>1, <2>2, <2>3, <2>4
<1> QED BY <1>0, <1>2, <1>3, <1>4, <1>5
        DEF Next, vars, redis, begin, commit, commit_fails, publish_fails, deliver, send,
            bridge_fails, bridge_subscribes, worker_restart, connect, closes, disconnect

LEMMA OutOnceStep ==
  ASSUME TypeOK, Shape, OnceOnTheWay, [Next]_vars
  PROVE  OutOnce'
<1>0. /\ feed \in [Workers -> Seq(Message)] /\ out \in [Workers \cup Requests -> Broadcast]
      /\ Nothing.msg = None /\ Requests \cap Workers = {}
  BY TypeParts, LiveUpdatesAssumption DEF RedisOK, OutOK, Nothing
<1> DEFINE O(w) == out'[w].msg # None =>
             /\ In(log'[out'[w].room], out'[w].msg)
             /\ \A k \in 1 .. Len(feed'[w]) :
                  feed'[w][k] # [msg |-> out'[w].msg, room |-> out'[w].room]
<1> SUFFICES ASSUME NEW w \in Workers PROVE O(w)
  BY DEF OutOnce, Busy
<1>1. out[w].msg # None =>
        /\ In(log'[out[w].room], out[w].msg)
        /\ \A k \in 1 .. Len(feed[w]) :
             feed[w][k] # [msg |-> out[w].msg, room |-> out[w].room]
  <2>1. out[w].room \in Rooms
    BY <1>0 DEF Broadcast
  <2> QED BY <2>1, LogGrows DEF OnceOnTheWay, OutOnce, Busy
<1>2. ASSUME \/ out'[w] = Nothing
             \/ out'[w].msg = out[w].msg /\ out'[w].room = out[w].room,
             feed'[w] = feed[w] \/ feed'[w] = <<>>
      PROVE  O(w)
  <2>1. CASE out'[w] = Nothing
    BY <1>0, <2>1
  <2>2. CASE out'[w].msg = out[w].msg /\ out'[w].room = out[w].room
    <3>1. \A k \in 1 .. Len(feed'[w]) : k \in 1 .. Len(feed[w]) /\ feed'[w] = feed[w]
      BY <1>2
    <3> QED BY <1>1, <2>2, <3>1
  <2> QED BY <1>2, <2>1, <2>2
<1>3. ASSUME NEW v \in Workers, bridge_takes(v) PROVE O(w)
  <2>1. CASE v = w
    <3>1. CASE out'[w] = Nothing
      BY <1>0, <3>1
    <3>2. CASE out'[w].msg = feed[w][1].msg /\ out'[w].room = feed[w][1].room
      <4>1. /\ feed[w][1] \in Message /\ 1 \in 1 .. Len(feed[w]) /\ Len(feed[w]) \in Nat
            /\ \A k \in 1 .. Len(feed'[w]) : k + 1 \in 1 .. Len(feed[w]) /\ k + 1 # 1
                                             /\ feed'[w][k] = feed[w][k + 1]
        BY <1>3, <2>1, TakeEffect
      <4>2. /\ feed[w][1].room \in Rooms
            /\ feed[w][1] = [msg |-> feed[w][1].msg, room |-> feed[w][1].room]
        BY <4>1 DEF Message
      <4>3. In(log'[feed[w][1].room], feed[w][1].msg)
        <5>1. In(log[feed[w][1].room], feed[w][1].msg)
          BY <4>1 DEF OnceOnTheWay, FeedOnce
        <5> QED BY <4>2, <5>1, LogGrows
      <4>4. \A k \in 1 .. Len(feed'[w]) : feed'[w][k] # feed[w][1]
        BY <4>1 DEF OnceOnTheWay, FeedOnce
      <4> QED BY <3>2, <4>2, <4>3, <4>4
    <3> QED BY <1>3, <2>1, <3>1, <3>2, TakeEffect
  <2>2. CASE v # w
    BY <1>2, <1>3, <2>2, TakeEffect
  <2> QED BY <2>1, <2>2
<1>4. ASSUME NEW r \in Requests, publish(r) PROVE O(w)
  <2>1. req[r].room \in Rooms /\ ~In(log[req[r].room], r) /\ out' = out
    BY <1>4, PublishEffect DEF Shape, Ahead, OnceOnTheWay, NotYetIn, publish
  <2>2. \A k \in 1 .. Len(feed'[w]) :
          \/ k \in 1 .. Len(feed[w]) /\ feed'[w][k] = feed[w][k]
          \/ feed'[w][k] = [msg |-> r, room |-> req[r].room]
    BY <1>4, FeedGrows
  <2>3. out[w].msg # None => In(log[out[w].room], out[w].msg)
    BY DEF OnceOnTheWay, OutOnce, Busy
  <2>4. out[w].msg # None => [msg |-> out[w].msg, room |-> out[w].room]
                              # [msg |-> r, room |-> req[r].room]
    BY <2>1, <2>3
  <2> QED BY <1>1, <2>1, <2>2, <2>4
<1>5. ASSUME NEW t \in Workers \cup Requests, NEW c \in Clients, send(t, c) PROVE O(w)
  <2>1. /\ feed' = feed
        /\ \/ out'[w] = Nothing
           \/ out'[w].msg = out[w].msg /\ out'[w].room = out[w].room
    BY <1>5, SendEffect DEF send, redis
  <2> QED BY <1>2, <2>1
<1>6. ASSUME NEW r \in Requests, deliver(r) PROVE O(w)
  <2>1. feed' = feed /\ out'[w] = out[w]
    BY <1>0, <1>6 DEF deliver, redis
  <2> QED BY <1>2, <2>1
<1>7. ASSUME NEW v \in Workers, bridge_fails(v) \/ worker_restart(v) PROVE O(w)
  <2>1. /\ feed'[w] = feed[w] \/ feed'[w] = <<>>
        /\ out'[w] = out[w] \/ out'[w] = Nothing
    BY <1>0, <1>7 DEF bridge_fails, worker_restart
  <2> QED BY <1>2, <2>1
<1>8. ASSUME out' = out, feed' = feed PROVE O(w)
  BY <1>2, <1>8
<1> QED BY <1>3, <1>4, <1>5, <1>6, <1>7, <1>8
        DEF Next, vars, redis, begin, commit, commit_fails, publish_fails, bridge_subscribes,
            connect, closes, disconnect

\* Request r may still come to socket c through the bridge of its worker,
OnItsWay(r, c) ==
  LET w == sock[c].worker
  IN  \/ ~In(log[sock[c].room], r)
      \/ \E k \in 1 .. Len(feed[w]) : feed[w][k] = [msg |-> r, room |-> sock[c].room]
      \/ c \in out[w].todo /\ out[w].msg = r

\* or from the request itself, which the same worker serves.
ComesLocally(r, c) ==
  /\ sock[c].worker = req[r].worker
  /\ \/ c \in out[r].todo
     \/ Ahead(r, sock[c].room)
     \/ req[r].pc = "deliver" /\ req[r].room = sock[c].room /\ ~Busy(r)

\* What has come and what may still come are within what a socket may be sent.
One(b) == IF b THEN 1 ELSE 0
Allowed(r, c) == 1 + One(sock[c].worker = req[r].worker)
Within(r, c) ==
  Times(seen[c], r) + One(OnItsWay(r, c)) + One(ComesLocally(r, c)) <= Allowed(r, c)
Credit == \A c \in Clients, r \in Requests : sock[c].pc # "new" => Within(r, c)

\* A step that brings nothing to the socket takes nothing from what is allowed.
LEMMA NothingComes ==
  ASSUME TypeOK, NEW r \in Requests, NEW c \in Clients, Within(r, c),
         Times(seen'[c], r) = Times(seen[c], r),
         OnItsWay(r, c)' => OnItsWay(r, c), ComesLocally(r, c)' => ComesLocally(r, c),
         sock'[c].worker = sock[c].worker, req'[r].worker = req[r].worker
  PROVE  Within(r, c)'
<1>1. Times(seen[c], r) \in Nat /\ Times(seen'[c], r) = Times(seen[c], r)
  BY TimesOfAppend, TypeParts DEF SocketsOK
<1>2. /\ One(OnItsWay(r, c)') <= One(OnItsWay(r, c))
      /\ One(ComesLocally(r, c)') <= One(ComesLocally(r, c))
  BY DEF One
<1>3. /\ One(OnItsWay(r, c)) \in Nat /\ One(ComesLocally(r, c)) \in Nat
      /\ One(OnItsWay(r, c)') \in Nat /\ One(ComesLocally(r, c)') \in Nat
      /\ Allowed(r, c) \in Nat /\ Allowed(r, c)' = Allowed(r, c)
  BY DEF One, Allowed
<1>4. Times(seen[c], r) + One(OnItsWay(r, c)) + One(ComesLocally(r, c)) <= Allowed(r, c)
  BY DEF Within
<1>5. Within(r, c)' = (Times(seen'[c], r) + One(OnItsWay(r, c)') + One(ComesLocally(r, c)')
                         <= Allowed(r, c)')
  BY DEF Within
<1> DEFINE T == Times(seen[c], r)
           B == One(OnItsWay(r, c))
           L == One(ComesLocally(r, c))
           Bn == One(OnItsWay(r, c)')
           Ln == One(ComesLocally(r, c)')
           A == Allowed(r, c)
<1> HIDE DEF T, B, L, Bn, Ln, A
<1>6. T \in Nat /\ B \in Nat /\ L \in Nat /\ Bn \in Nat /\ Ln \in Nat /\ A \in Nat
  BY <1>1, <1>3 DEF T, B, L, Bn, Ln, A
<1>7. T + B + L <= A /\ Bn <= B /\ Ln <= L
  BY <1>2, <1>4 DEF T, B, L, Bn, Ln, A
<1>8. T + Bn + Ln <= A
  BY <1>6, <1>7
<1> QED BY <1>1, <1>3, <1>5, <1>8 DEF T, B, L, Bn, Ln, A

\* A message that comes has been on its way, and is so no longer.
LEMMA OneComes ==
  ASSUME TypeOK, NEW r \in Requests, NEW c \in Clients, Within(r, c),
         seen'[c] = Append(seen[c], r),
         \/ /\ OnItsWay(r, c) /\ ~OnItsWay(r, c)'
            /\ ComesLocally(r, c)' => ComesLocally(r, c)
         \/ /\ ComesLocally(r, c) /\ ~ComesLocally(r, c)'
            /\ OnItsWay(r, c)' => OnItsWay(r, c),
         sock'[c].worker = sock[c].worker, req'[r].worker = req[r].worker
  PROVE  Within(r, c)'
<1>1. Times(seen[c], r) \in Nat /\ Times(seen'[c], r) = Times(seen[c], r) + 1
  <2>1. seen[c] \in Seq(Requests)
    BY TypeParts DEF SocketsOK
  <2> QED BY <2>1, TimesOfAppend
<1>2. One(OnItsWay(r, c)') + One(ComesLocally(r, c)') + 1
        <= One(OnItsWay(r, c)) + One(ComesLocally(r, c))
  BY DEF One
<1>3. /\ One(OnItsWay(r, c)) \in Nat /\ One(ComesLocally(r, c)) \in Nat
      /\ One(OnItsWay(r, c)') \in Nat /\ One(ComesLocally(r, c)') \in Nat
      /\ Allowed(r, c) \in Nat /\ Allowed(r, c)' = Allowed(r, c)
  BY DEF One, Allowed
<1>4. Times(seen[c], r) + One(OnItsWay(r, c)) + One(ComesLocally(r, c)) <= Allowed(r, c)
  BY DEF Within
<1>5. Within(r, c)' = (Times(seen'[c], r) + One(OnItsWay(r, c)') + One(ComesLocally(r, c)')
                         <= Allowed(r, c)')
  BY DEF Within
<1> DEFINE T == Times(seen[c], r)
           B == One(OnItsWay(r, c))
           L == One(ComesLocally(r, c))
           Bn == One(OnItsWay(r, c)')
           Ln == One(ComesLocally(r, c)')
           A == Allowed(r, c)
<1> HIDE DEF T, B, L, Bn, Ln, A
<1>6. T \in Nat /\ B \in Nat /\ L \in Nat /\ Bn \in Nat /\ Ln \in Nat /\ A \in Nat
  BY <1>1, <1>3 DEF T, B, L, Bn, Ln, A
<1>7. T + B + L <= A /\ Bn + Ln + 1 <= B + L
  BY <1>2, <1>4 DEF T, B, L, Bn, Ln, A
<1>8. (T + 1) + Bn + Ln <= A
  BY <1>6, <1>7
<1> QED BY <1>1, <1>3, <1>5, <1>8 DEF T, B, L, Bn, Ln, A

\* A socket that has been sent nothing is within what is allowed.
LEMMA NothingYet ==
  ASSUME NEW r, NEW c, Times(seen'[c], r) = 0
  PROVE  Within(r, c)'
BY DEF Within, Allowed, One, ComesLocally

\* Before a request begins nobody has been sent it.
LEMMA NothingBefore ==
  ASSUME TypeOK, OnceOnTheWay, NEW r \in Requests, NEW c \in Clients, Within(r, c),
         req[r].pc = "new"
  PROVE  Times(seen[c], r) = 0
<1>1. Times(seen[c], r) \in Nat
  BY TimesOfAppend, TypeParts DEF SocketsOK
<1>2. Ahead(r, sock[c].room) /\ sock[c].room \in Rooms
  BY TypeParts DEF Ahead, SocketsOK, Socket
<1>3. OnItsWay(r, c)
  BY <1>2 DEF OnItsWay, OnceOnTheWay, NotYetIn
<1>4. sock[c].worker = req[r].worker => ComesLocally(r, c)
  BY <1>2 DEF ComesLocally
<1>5. Times(seen[c], r) + 1 + One(ComesLocally(r, c)) <= 1 + One(sock[c].worker = req[r].worker)
  BY <1>3 DEF Within, Allowed, One
<1>6. CASE sock[c].worker = req[r].worker
  BY <1>1, <1>4, <1>5, <1>6 DEF One
<1>7. CASE sock[c].worker # req[r].worker
  <2>1. One(ComesLocally(r, c)) = 0 /\ One(sock[c].worker = req[r].worker) = 0
    BY <1>7 DEF ComesLocally, One
  <2> QED BY <1>1, <1>5, <2>1
<1> QED BY <1>6, <1>7

LEMMA CreditStep ==
  ASSUME TypeOK, Shape, Connected, LocalBroadcasts, OnceOnTheWay, Credit, [Next]_vars
  PROVE  Credit'
<1>0. /\ req \in [Requests -> Request] /\ out \in [Workers \cup Requests -> Broadcast]
      /\ Requests \cap Workers = {} /\ Nothing.msg = None /\ Nothing.todo = {}
      /\ sock \in [Clients -> Socket] /\ seen \in [Clients -> Seq(Requests)]
  BY TypeParts, LiveUpdatesAssumption DEF ReqOK, OutOK, SocketsOK, Nothing
<1> SUFFICES ASSUME NEW c \in Clients, NEW r \in Requests, sock'[c].pc # "new"
             PROVE  Within(r, c)'
  BY DEF Credit
<1>1. ASSUME NEW w \in Workers, NEW m \in Watched, connect(c, w, m) PROVE Within(r, c)'
  <2>1. seen'[c] = <<>>
    BY <1>1 DEF connect, Shape, RightSockets
  <2>2. Times(seen'[c], r) = 0
    BY <2>1, FS_EmptySet DEF Times
  <2> QED BY <2>2, NothingYet
<1>2. SUFFICES ASSUME Stays(c) PROVE Within(r, c)'
  BY <1>1, SocketsStay
<1> DEFINE w == sock[c].worker
           m == sock[c].room
<1>3. /\ w \in Workers /\ m \in Rooms /\ Within(r, c) /\ sock[c].pc # "new"
      /\ sock'[c].worker = w /\ sock'[c].room = m
  BY <1>0, <1>2 DEF Stays, Connected, Credit, Socket
<1> DEFINE B == \/ ~In(log[m], r)
                \/ \E k \in 1 .. Len(feed[w]) : feed[w][k] = [msg |-> r, room |-> m]
                \/ c \in out[w].todo /\ out[w].msg = r
           Bn == \/ ~In(log'[m], r)
                 \/ \E k \in 1 .. Len(feed'[w]) : feed'[w][k] = [msg |-> r, room |-> m]
                 \/ c \in out'[w].todo /\ out'[w].msg = r
           L == /\ w = req[r].worker
                /\ \/ c \in out[r].todo \/ Ahead(r, m)
                   \/ req[r].pc = "deliver" /\ req[r].room = m /\ out[r].msg = None
           Ln == /\ w = req'[r].worker
                 /\ \/ c \in out'[r].todo \/ Ahead(r, m)'
                    \/ req'[r].pc = "deliver" /\ req'[r].room = m /\ out'[r].msg = None
<1>4. OnItsWay(r, c) = B /\ OnItsWay(r, c)' = Bn
  BY <1>3 DEF OnItsWay
<1>5. ComesLocally(r, c) = L /\ ComesLocally(r, c)' = Ln
  BY <1>3 DEF ComesLocally, Busy
<1>6. /\ Ahead(r, m)' => Ahead(r, m)
      /\ ~In(log'[m], r) => ~In(log[m], r)
  BY <1>3, NeverAheadAgain, LogGrows
<1> HIDE DEF w, m
<1>7. ASSUME Times(seen'[c], r) = Times(seen[c], r), req'[r].worker = req[r].worker,
             Bn => B, Ln => L
      PROVE  Within(r, c)'
  BY <1>3, <1>4, <1>5, <1>7, NothingComes DEF w
<1>8. ASSUME seen'[c] = seen[c], req'[r].worker = req[r].worker, out' = out, Bn => B,
             req'[r].pc = "deliver" /\ req'[r].room = m => Ahead(r, m) \/ req'[r] = req[r]
      PROVE  Within(r, c)'
  <2>1. Ln => L
    BY <1>6, <1>8
  <2> QED BY <1>7, <1>8, <2>1
<1>9. ASSUME NEW q \in Requests, NEW k \in Kinds, NEW v \in Workers, begin(q, k, v)
      PROVE  Within(r, c)'
  <2>1. UNCHANGED <<seen, out, log, feed>> /\ (q # r => req'[r] = req[r])
    BY <1>0, <1>9 DEF begin, redis, sockets
  <2>2. CASE q = r
    <3>1. Times(seen[c], r) = 0
      BY <1>3, <1>9, <2>2, NothingBefore DEF begin
    <3> QED BY <2>1, <3>1, NothingYet
  <2>3. CASE q # r
    BY <1>8, <2>1, <2>3
  <2> QED BY <2>2, <2>3
<1>10. ASSUME NEW q \in Requests, commit(q) \/ commit_fails(q) \/ publish_fails(q)
       PROVE  Within(r, c)'
  <2>1. UNCHANGED <<seen, out, log, feed>> /\ (q # r => req'[r] = req[r])
    BY <1>0, <1>10 DEF commit, commit_fails, publish_fails, redis, sockets
  <2>2. req'[r].worker = req[r].worker
    <3>1. PICK p : req' = [req EXCEPT ![q].pc = p]
      BY <1>10 DEF commit, commit_fails, publish_fails
    <3> QED BY <1>0, <3>1 DEF Request
  <2>3. req'[r].pc = "deliver" /\ req'[r].room = m => Ahead(r, m) \/ req'[r] = req[r]
    <3>1. CASE q # r
      BY <2>1, <3>1
    <3>2. CASE q = r
      BY <1>0, <1>10, <3>2 DEF commit, commit_fails, publish_fails, Request, Ahead
    <3> QED BY <3>1, <3>2
  <2> QED BY <1>8, <2>1, <2>2, <2>3
<1>11. ASSUME NEW q \in Requests, publish(q) PROVE Within(r, c)'
  <2>1. UNCHANGED <<seen, out>> /\ (q # r => req'[r] = req[r])
    BY <1>0, <1>11 DEF publish, sockets
  <2>2. req'[r].worker = req[r].worker
    BY <1>0, <1>11 DEF publish, Request
  <2>3. req'[r].pc = "deliver" /\ req'[r].room = m => Ahead(r, m) \/ req'[r] = req[r]
    <3>1. CASE q # r
      BY <2>1, <3>1
    <3>2. CASE q = r
      BY <1>0, <1>11, <3>2 DEF publish, Request, Ahead
    <3> QED BY <3>1, <3>2
  <2>4. Bn => B
    <3>1. ASSUME NEW k \in 1 .. Len(feed'[w]), feed'[w][k] = [msg |-> r, room |-> m]
          PROVE  B
      <4>1. \/ k \in 1 .. Len(feed[w]) /\ feed'[w][k] = feed[w][k]
            \/ feed'[w][k] = [msg |-> q, room |-> req[q].room]
        BY <1>3, <1>11, FeedGrows
      <4>2. CASE k \in 1 .. Len(feed[w]) /\ feed'[w][k] = feed[w][k]
        BY <3>1, <4>2
      <4>3. CASE feed'[w][k] = [msg |-> q, room |-> req[q].room]
        <5>1. q = r /\ req[q].room = m
          BY <3>1, <4>3
        <5>2. Ahead(r, m)
          BY <1>11, <5>1 DEF publish, Ahead
        <5> QED BY <1>3, <5>2 DEF OnceOnTheWay, NotYetIn
      <4> QED BY <4>1, <4>2, <4>3
    <3> QED BY <1>6, <2>1, <3>1
  <2> QED BY <1>8, <2>1, <2>2, <2>4, <2>3
<1>12. ASSUME NEW q \in Requests, deliver(q) PROVE Within(r, c)'
  <2> DEFINE d == Delivery(req[q].worker, q, req[q].room)
  <2>1. /\ out' = [out EXCEPT ![q] = d] /\ UNCHANGED <<log, feed, seen>>
        /\ req[q].pc = "deliver" /\ out[q].msg = None
        /\ req' = IF d = Nothing THEN AfterDelivery(q) ELSE req
    BY <1>12 DEF deliver, sockets, redis, Busy
  <2>2. d # Nothing => /\ d.msg = q /\ d.room = req[q].room
                       /\ d.todo = Members(req[q].worker, req[q].room)
    BY <1>0, DeliveryType DEF Request
  <2> HIDE DEF d
  <2>3. out'[w] = out[w] /\ req'[r].worker = req[r].worker
    BY <1>0, <1>3, <2>1, SecondRoom
  <2>4. Bn => B
    BY <2>1, <2>3
  <2>5. Ln => L
    <3>1. CASE q # r
      <4>1. req'[r] = req[r] /\ out'[r] = out[r]
        BY <1>0, <2>1, <3>1, SecondRoom
      <4> QED BY <1>6, <4>1
    <3>2. CASE q = r /\ d = Nothing
      <4>1. req'[r].pc # "deliver" /\ out'[r].todo = {}
        BY <1>0, <2>1, <3>2, SecondRoom
      <4> QED BY <1>6, <2>3, <4>1
    <3>3. CASE q = r /\ d # Nothing
      <4>1. req' = req /\ out'[r] = d
        BY <1>0, <2>1, <3>3
      <4>2. d.msg # None /\ (c \in d.todo => req[r].room = m)
        BY <1>0, <2>2, <3>3, LiveUpdatesAssumption DEF Members, m
      <4> QED BY <1>6, <2>1, <3>3, <4>1, <4>2
    <3> QED BY <3>1, <3>2, <3>3
  <2> QED BY <1>7, <2>1, <2>3, <2>4, <2>5
<1>13. ASSUME NEW t \in Workers \cup Requests, NEW x \in Clients, send(t, x)
       PROVE  Within(r, c)'
  <2>1. UNCHANGED <<log, feed>>
    BY <1>13 DEF send, redis
  <2>2. /\ x \in out[t].todo /\ out[t].msg # None
        /\ \A u \in Workers \cup Requests : u # t => out'[u] = out[u]
        /\ \/ out'[t] = Nothing /\ (t \in Requests => req' = AfterDelivery(t))
           \/ /\ out'[t].msg = out[t].msg /\ out'[t].room = out[t].room
              /\ out'[t].todo = out[t].todo \ {x} /\ req' = req
        /\ t \notin Requests => req' = req
    BY <1>13, SendEffect DEF Busy
  <2>3. Bn => B
    BY <1>0, <1>3, <2>1, <2>2
  <2>4. req'[r].worker = req[r].worker
    BY <2>2, SecondRoom
  <2>5. Ln => L
    <3>1. CASE t # r
      <4>1. req'[r] = req[r] /\ out'[r] = out[r]
        BY <2>2, <3>1, SecondRoom
      <4> QED BY <1>6, <4>1
    <3>2. CASE t = r /\ out'[t] = Nothing
      <4>1. req'[r].pc # "deliver" /\ out'[r].todo = {}
        BY <1>0, <2>2, <3>2, SecondRoom
      <4> QED BY <1>6, <2>4, <4>1
    <3>3. CASE t = r /\ out'[t] # Nothing
      <4>1. out'[r].msg # None /\ out'[r].todo \subseteq out[r].todo /\ req' = req
        BY <2>2, <3>3
      <4> QED BY <1>6, <4>1
    <3> QED BY <3>1, <3>2, <3>3
  <2>6. CASE seen'[c] = seen[c]
    BY <1>7, <2>3, <2>4, <2>5, <2>6
  <2>7. CASE x = c /\ seen'[c] = Append(seen[c], out[t].msg)
    <3>1. out[t].msg \in Requests /\ seen[c] \in Seq(Requests)
      BY <1>0, <2>2 DEF Broadcast
    <3>2. CASE out[t].msg # r
      <4>1. Times(seen'[c], r) = Times(seen[c], r)
        BY <2>7, <3>1, <3>2, TimesOfAppend
      <4> QED BY <1>7, <2>3, <2>4, <2>5, <4>1
    <3>3. CASE out[t].msg = r /\ t \in Workers
      <4>1. w = t /\ out[t].room = m
        BY <2>2, <2>7, <3>3 DEF Shape, RightSockets, w, m
      <4>2. B
        BY <2>2, <2>7, <3>3, <4>1
      <4>3. /\ In(log[m], r)
            /\ \A k \in 1 .. Len(feed[w]) : feed[w][k] # [msg |-> r, room |-> m]
        BY <2>2, <3>3, <4>1 DEF OnceOnTheWay, OutOnce, Busy
      <4>4. c \notin out'[w].todo
        BY <1>0, <2>2, <2>7, <4>1
      <4>5. ~Bn
        BY <2>1, <4>3, <4>4
      <4> QED BY <1>3, <1>4, <1>5, <2>4, <2>5, <2>7, <3>3, <4>2, <4>5, OneComes DEF w
    <3>4. CASE out[t].msg = r /\ t \in Requests
      <4>1. /\ t = r /\ out[t].room = req[t].room /\ w = req[r].worker /\ m = req[r].room
            /\ req[r].pc = "deliver"
        BY <2>2, <2>7, <3>4
           DEF LocalBroadcasts, Busy, Shape, RightSockets, OwnBroadcasts, w, m
      <4>2. L
        BY <2>2, <2>7, <4>1
      <4>3. c \notin out'[r].todo
        BY <1>0, <2>2, <2>7, <4>1
      <4>4. ~Ln
        <5>1. CASE out'[r] = Nothing
          <6>1. req'[r].pc # "deliver"
                /\ (req'[r].pc = "publish" => m = "simulation" /\ req'[r].room = "traffic")
                /\ req'[r].pc \in {"publish", "answered"}
            BY <1>0, <2>2, <4>1, <5>1, SecondRoom
          <6> QED BY <1>3, <4>3, <6>1 DEF Ahead, m
        <5>2. CASE out'[r] # Nothing
          BY <1>3, <2>2, <4>1, <4>3, <5>2 DEF Ahead, m
        <5> QED BY <5>1, <5>2
      <4> QED BY <1>3, <1>4, <1>5, <2>3, <2>4, <2>7, <3>4, <4>2, <4>4, OneComes DEF w
    <3> QED BY <3>2, <3>3, <3>4
  <2>8. \/ seen'[c] = seen[c]
        \/ x = c /\ seen'[c] = Append(seen[c], out[t].msg)
    BY <1>0, <1>13 DEF send
  <2> QED BY <2>6, <2>7, <2>8
<1>14. ASSUME NEW v \in Workers, bridge_takes(v) PROVE Within(r, c)'
  <2>1. UNCHANGED <<log, req, seen>> /\ out'[r] = out[r]
    BY <1>0, <1>14 DEF bridge_takes, sockets
  <2>2. Bn => B
    <3>1. CASE v # w
      BY <1>3, <1>14, <2>1, <3>1, TakeEffect
    <3>2. CASE v = w
      <4>1. /\ 1 \in 1 .. Len(feed[w]) /\ feed[w][1] \in Message
            /\ \A k \in 1 .. Len(feed'[w]) :
                 k + 1 \in 1 .. Len(feed[w]) /\ feed'[w][k] = feed[w][k + 1]
            /\ \/ out'[w] = Nothing
               \/ /\ out'[w].msg = feed[w][1].msg
                  /\ out'[w].todo = Members(w, feed[w][1].room)
        BY <1>14, <3>2, TakeEffect
      <4>2. c \in out'[w].todo /\ out'[w].msg = r => feed[w][1] = [msg |-> r, room |-> m]
        BY <1>0, <4>1 DEF Members, Message, m
      <4> QED BY <2>1, <4>1, <4>2
    <3> QED BY <3>1, <3>2
  <2>3. Ln => L
    BY <1>6, <2>1
  <2> QED BY <1>7, <2>1, <2>2, <2>3
<1>15. ASSUME NEW v \in Workers, bridge_fails(v) \/ worker_restart(v) PROVE Within(r, c)'
  <2>1. /\ UNCHANGED <<log, seen>>
        /\ feed'[w] = feed[w] \/ feed'[w] = <<>>
        /\ out'[w] = out[w] \/ out'[w] = Nothing
    <3>1. CASE bridge_fails(v)
      BY <1>0, <1>3, <3>1 DEF bridge_fails, sockets
    <3>2. CASE worker_restart(v)
      BY <1>0, <1>3, <3>2 DEF worker_restart
    <3> QED BY <1>15, <3>1, <3>2
  <2>2. /\ \/ req'[r] = req[r] /\ out'[r] = out[r]
           \/ req'[r].pc = "failed" /\ out'[r] = Nothing
        /\ req'[r].worker = req[r].worker
    <3>1. CASE bridge_fails(v)
      BY <3>1 DEF bridge_fails
    <3>2. CASE worker_restart(v)
      <4> DEFINE killed == {q \in Requests : req[q].worker = v /\ req[q].pc \notin Over}
      <4>1. /\ req'[r] = IF r \in killed THEN [req[r] EXCEPT !.pc = "failed"] ELSE req[r]
            /\ out'[r] = IF r \in killed \cup {v} THEN Nothing ELSE out[r]
        BY <1>0, <3>2 DEF worker_restart
      <4>2. r # v /\ req[r] \in Request
        BY <1>0
      <4> HIDE DEF killed
      <4> QED BY <4>1, <4>2 DEF Request
    <3> QED BY <1>15, <3>1, <3>2
  <2>3. Bn => B
    BY <1>0, <2>1
  <2>4. Ln => L
    BY <1>0, <1>6, <2>2
  <2> QED BY <1>7, <2>1, <2>2, <2>3, <2>4
<1>16. ASSUME UNCHANGED <<req, out, log, feed, seen>> PROVE Within(r, c)'
  BY <1>7, <1>16, <1>6
<1> QED BY <1>9, <1>10, <1>11, <1>12, <1>13, <1>14, <1>15, <1>16
        DEF Next, vars, redis, sockets, bridge_subscribes, connect, closes, disconnect

LEMMA CreditInit == Init => Connected /\ LocalBroadcasts /\ OnceOnTheWay /\ Credit
<1> SUFFICES ASSUME Init PROVE Connected /\ LocalBroadcasts /\ OnceOnTheWay /\ Credit
  OBVIOUS
<1>1. Connected /\ Credit
  BY DEF Init, Connected, Credit
<1>2. LocalBroadcasts
  BY DEF Init, LocalBroadcasts, Busy, Nothing
<1>3. OnceOnTheWay
  BY DEF Init, OnceOnTheWay, NotYetIn, FeedOnce, OutOnce, In, Busy, Nothing
<1> QED BY <1>1, <1>2, <1>3

\* AtMostTwice is an invariant: the state of a step comes to a dashboard once, and once
\* more if its worker served the step, whatever fails and whoever overlaps.
THEOREM TwiceCorrect == Spec => []AtMostTwice
<1> DEFINE Inv == /\ TypeOK /\ Shape /\ Connected /\ LocalBroadcasts /\ OnceOnTheWay
                  /\ Credit
<1>1. Init => Inv
  BY TypeInit, ShapeInit, CreditInit
<1>2. Inv /\ [Next]_vars => Inv'
  <2> SUFFICES ASSUME Inv, [Next]_vars PROVE Inv'
    OBVIOUS
  <2>1. OnceOnTheWay'
    BY NotYetInStep, FeedOnceStep, OutOnceStep DEF OnceOnTheWay
  <2> QED BY <2>1, TypeStep, ShapeStep, ConnectedStep, LocalBroadcastsStep, CreditStep
<1>3. Inv => AtMostTwice
  <2> SUFFICES ASSUME Inv, NEW c \in Clients, NEW r \in Requests
               PROVE  Times(seen[c], r) <= IF sock[c].worker = req[r].worker THEN 2 ELSE 1
    BY DEF AtMostTwice
  <2>1. Times(seen[c], r) \in Nat
    BY TimesOfAppend, TypeParts DEF SocketsOK
  <2>2. CASE sock[c].pc = "new"
    <3>1. Times(<<>>, r) = 0
      BY FS_EmptySet DEF Times
    <3> QED BY <2>2, <3>1 DEF Shape, RightSockets
  <2>3. CASE sock[c].pc # "new"
    <3>1. Within(r, c)
      BY <2>3 DEF Credit
    <3> HIDE DEF Inv
    <3> QED BY <2>1, <3>1 DEF Within, Allowed, One
  <2> QED BY <2>2, <2>3
<1> QED BY <1>1, <1>2, <1>3, PTL DEF Spec
-----------------------------------------------------------------------------
(* Complete at rest. *)

\* What can happen without a fault.
CalmStep ==
  \/ \E r \in Requests :
       (\E k \in Kinds, w \in Workers : begin(r, k, w)) \/ commit(r) \/ publish(r) \/ deliver(r)
  \/ \E t \in Workers \cup Requests, c \in Clients : send(t, c)
  \/ \E w \in Workers : bridge_takes(w)
  \/ /\ UNCHANGED <<row, req, log, feed, out, seen, overlapped>>
     /\ \A w \in Workers : link[w] => link'[w]

LEMMA CalmSteps ==
  ASSUME TypeOK, [Next]_vars, faults' = 0
  PROVE  faults = 0 /\ CalmStep
<1>1. faults \in Nat
  BY TypeParts, LiveUpdatesAssumption DEF RestOK
<1>2. ~Fault
  BY <1>1 DEF Fault
<1>3. ASSUME NEW w \in Workers, bridge_subscribes(w) PROVE CalmStep
  <2>1. link \in [Workers -> BOOLEAN]
    BY TypeParts DEF RedisOK
  <2> QED BY <1>3, <2>1 DEF bridge_subscribes, sockets, CalmStep
<1>4. CASE UNCHANGED vars
  BY <1>4 DEF vars, redis, sockets, CalmStep
<1>5. ASSUME NEW c \in Clients,
             (\E w \in Workers, m \in Watched : connect(c, w, m)) \/ closes(c) \/ disconnect(c)
      PROVE  CalmStep
  BY <1>5 DEF connect, closes, disconnect, redis, CalmStep
<1>6. CalmStep
  BY <1>2, <1>3, <1>4, <1>5
     DEF Next, CalmStep, commit_fails, publish_fails, bridge_fails, worker_restart
<1>7. faults' = faults
  BY <1>2 DEF Next, vars, begin, commit, commit_fails, publish, publish_fails, deliver, send,
              bridge_takes, bridge_fails, bridge_subscribes, worker_restart, connect, closes,
              disconnect
<1> QED BY <1>6, <1>7

\* A broadcast is over when nobody is left in its room.
LEMMA SendLast ==
  ASSUME TypeOK, NEW t \in Workers \cup Requests, NEW c \in Clients, send(t, c),
         NEW x \in out[t].todo, x # c
  PROVE  x \in out'[t].todo /\ out'[t].msg = out[t].msg
<1>1. out \in [Workers \cup Requests -> Broadcast]
  BY TypeParts DEF OutOK
<1> DEFINE dead == IF sock[c].pc = "open" THEN out[t].dead ELSE out[t].dead \cup {c}
           left == out[t].todo \ {c}
<1>2. left # {}
  OBVIOUS
<1>3. out' = [out EXCEPT ![t].todo = left, ![t].dead = dead]
  BY <1>2 DEF send, LeftAfter
<1> HIDE DEF dead
<1>4. out'[t].todo = left /\ out'[t].msg = out[t].msg
  BY <1>1, <1>3 DEF Broadcast
<1> QED BY <1>4

\* Without a fault, a bridge is subscribed, and what was published since an open socket
\* joined its room has come to it, or is at its worker.
Subscribed == faults = 0 => \A w \in Workers : link[w]
Comes(c, x) ==
  LET w == sock[c].worker
  IN  \/ In(seen[c], x)
      \/ c \in out[w].todo /\ out[w].msg = x
      \/ \E k \in 1 .. Len(feed[w]) : feed[w][k] = [msg |-> x, room |-> sock[c].room]
Coming ==
  faults = 0 => \A c \in rooms : sock[c].pc = "open" =>
    \A i \in sock[c].since + 1 .. Len(log[sock[c].room]) : Comes(c, log[sock[c].room][i])

LEMMA SubscribedStep == TypeOK /\ Subscribed /\ [Next]_vars => Subscribed'
<1> SUFFICES ASSUME TypeOK, Subscribed, [Next]_vars, faults' = 0, NEW w \in Workers
             PROVE  link'[w]
  BY DEF Subscribed
<1>1. link[w]
  BY CalmSteps DEF Subscribed
<1> QED BY <1>1, CalmSteps DEF CalmStep, begin, commit, publish, deliver, send, bridge_takes, redis

\* An open socket that stays in its room has been there before, as it is.
StaysOpen(c) == /\ c \in rooms /\ c \in Clients /\ sock[c].pc = "open"
                /\ sock[c].worker \in Workers /\ sock[c].room \in Rooms /\ sock[c].since \in Nat
                /\ sock'[c].worker = sock[c].worker /\ sock'[c].room = sock[c].room
                /\ sock'[c].since = sock[c].since

LEMMA OpenOnes ==
  ASSUME TypeOK, Connected, [Next]_vars, NEW c \in rooms', sock'[c].pc = "open"
  PROVE  \/ StaysOpen(c)
         \/ sock'[c].since = Len(log'[sock'[c].room])
<1>1. sock \in [Clients -> Socket] /\ rooms \subseteq Clients /\ rooms' \subseteq Clients
  BY TypeParts, TypeStep DEF SocketsOK, TypeOK
<1>2. CASE Stays(c)
  BY <1>1, <1>2 DEF Stays, StaysOpen, Connected, Socket
<1>3. ASSUME NEW w \in Workers, NEW m \in Watched, connect(c, w, m)
      PROVE  sock'[c].since = Len(log'[sock'[c].room])
  <2>1. sock'[c] = [pc |-> "open", worker |-> w, room |-> m, since |-> Len(log[m])] /\ log' = log
    BY <1>1, <1>3 DEF connect, redis
  <2> QED BY <2>1
<1> QED BY <1>1, <1>2, <1>3, SocketsStay

\* What comes to an open socket goes on coming, or has come.
LEMMA GoesOnComing ==
  ASSUME TypeOK, Shape, [Next]_vars, faults' = 0, NEW c, StaysOpen(c), NEW x, Comes(c, x)
  PROVE  Comes(c, x)'
<1> DEFINE w == sock[c].worker
           m == sock[c].room
<1>0. /\ c \in rooms /\ c \in Clients /\ sock[c].pc = "open" /\ w \in Workers
      /\ sock'[c].worker = w /\ sock'[c].room = m
  BY DEF StaysOpen
<1>a. \/ In(seen[c], x)
      \/ c \in out[w].todo /\ out[w].msg = x
      \/ \E k \in 1 .. Len(feed[w]) : feed[w][k] = [msg |-> x, room |-> m]
  BY DEF Comes
<1>b. ASSUME \/ In(seen'[c], x)
             \/ c \in out'[w].todo /\ out'[w].msg = x
             \/ \E k \in 1 .. Len(feed'[w]) : feed'[w][k] = [msg |-> x, room |-> m]
      PROVE  Comes(c, x)'
  BY <1>0, <1>b DEF Comes
<1> HIDE DEF w, m
<1>2. /\ out \in [Workers \cup Requests -> Broadcast] /\ seen \in [Clients -> Seq(Requests)]
      /\ Requests \cap Workers = {} /\ WellFormed(out[w]) /\ Nothing.todo = {}
  BY <1>0, TypeParts, LiveUpdatesAssumption DEF OutOK, SocketsOK, Nothing
<1>3. ASSUME UNCHANGED <<seen, feed>>, out'[w] = out[w] PROVE Comes(c, x)'
  BY <1>a, <1>b, <1>3
<1>4. ASSUME NEW r \in Requests, (\E k \in Kinds, v \in Workers : begin(r, k, v)) \/ commit(r)
      PROVE  Comes(c, x)'
  BY <1>3, <1>4 DEF begin, commit, redis, sockets
<1>5. ASSUME NEW r \in Requests, deliver(r) PROVE Comes(c, x)'
  <2>1. out'[w] = out[w]
    BY <1>0, <1>2, <1>5 DEF deliver
  <2> QED BY <1>3, <1>5, <2>1 DEF deliver, redis, sockets
<1>6. ASSUME NEW r \in Requests, publish(r) PROVE Comes(c, x)'
  <2>1. /\ UNCHANGED <<out, seen>>
        /\ feed'[w] = IF link[w] THEN Append(feed[w], [msg |-> r, room |-> req[r].room])
                                 ELSE feed[w]
    BY <1>0, <1>6 DEF publish, sockets
  <2>2. feed[w] \in Seq(Message) /\ [msg |-> r, room |-> req[r].room] \in Message
    BY <1>0, <1>6, TypeParts, PublishEffect DEF RedisOK, Message, Shape
  <2>3. \A k \in 1 .. Len(feed[w]) : k \in 1 .. Len(feed'[w]) /\ feed'[w][k] = feed[w][k]
    BY <2>1, <2>2
  <2> QED BY <1>a, <1>b, <2>1, <2>3
<1>7. ASSUME NEW t \in Workers \cup Requests, NEW y \in Clients, send(t, y)
      PROVE  Comes(c, x)'
  <2>1. feed' = feed /\ \A u \in Workers \cup Requests : u # t => out'[u] = out[u]
    BY <1>7, SendEffect DEF send, redis
  <2>2. In(seen[c], x) => In(seen'[c], x)
    <3>1. seen'[c] = seen[c] \/ seen'[c] = Append(seen[c], out[t].msg)
      BY <1>0, <1>2, <1>7 DEF send
    <3>2. seen[c] \in Seq(Requests)
      BY <1>0, <1>2
    <3> QED BY <3>1, <3>2, GrownLog
  <2>3. CASE t = w /\ y = c /\ c \in out[w].todo /\ out[w].msg = x
    <3>1. seen'[c] = Append(seen[c], x)
      BY <1>0, <1>2, <1>7, <2>3 DEF send
    <3>2. seen[c] \in Seq(Requests)
      BY <1>0, <1>2
    <3> QED BY <1>a, <1>b, <3>1, <3>2, GrownLog
  <2>4. CASE t = w /\ y # c
    <3>1. c \in out[w].todo => c \in out'[w].todo /\ out'[w].msg = out[w].msg
      BY <1>7, <2>4, SendLast
    <3> QED BY <1>a, <1>b, <2>1, <2>2, <3>1
  <2>5. CASE t # w
    BY <1>0, <1>a, <1>b, <2>1, <2>2, <2>5
  <2> QED BY <1>a, <1>b, <2>1, <2>2, <2>3, <2>4, <2>5
<1>8. ASSUME NEW v \in Workers, bridge_takes(v) PROVE Comes(c, x)'
  <2>0. seen' = seen
    BY <1>8 DEF bridge_takes, sockets
  <2>1. CASE v # w
    BY <1>0, <1>a, <1>b, <1>8, <2>0, <2>1, TakeEffect
  <2>2. CASE v = w
    <3>1. /\ Len(feed[w]) \in Nat /\ Len(feed'[w]) = Len(feed[w]) - 1
          /\ \A k \in 1 .. Len(feed'[w]) : feed'[w][k] = feed[w][k + 1]
          /\ feed[w][1] \in Message
          /\ out'[w] = Delivery(w, feed[w][1].msg, feed[w][1].room)
      BY <1>8, <2>2, TakeEffect
    <3>2. c \notin out[w].todo
      BY <1>2, <1>8, <2>2 DEF bridge_takes, Busy, WellFormed
    <3>3. CASE feed[w][1] = [msg |-> x, room |-> m]
      <4>1. x \in Requests /\ m \in Rooms
        BY <3>1, <3>3 DEF Message
      <4>2. c \in Members(w, m)
        BY <1>0 DEF Members, w, m
      <4>3. out'[w] = [msg |-> x, room |-> m, todo |-> Members(w, m), dead |-> {}]
        BY <3>1, <3>3, <4>2 DEF Delivery
      <4> QED BY <1>a, <1>b, <4>2, <4>3
    <3>4. ASSUME NEW k \in 1 .. Len(feed[w]), k # 1, feed[w][k] = [msg |-> x, room |-> m]
          PROVE  Comes(c, x)'
      <4>1. k - 1 \in 1 .. Len(feed'[w]) /\ (k - 1) + 1 = k
        BY <3>1, <3>4
      <4>2. feed'[w][k - 1] = feed[w][k]
        BY <3>1, <4>1
      <4> QED BY <1>a, <1>b, <3>4, <4>1, <4>2
    <3> QED BY <1>a, <1>b, <2>0, <3>2, <3>3, <3>4
  <2> QED BY <2>1, <2>2
<1>9. CASE UNCHANGED <<feed, out, seen>>
  BY <1>3, <1>9
<1> QED BY <1>4, <1>5, <1>6, <1>7, <1>8, <1>9, CalmSteps DEF CalmStep

\* What publish does to the log of its room, and to the feeds of subscribed bridges.
LEMMA PublishedLast ==
  ASSUME TypeOK, Shape, NEW r \in Requests, publish(r)
  PROVE  LET m == req[r].room
         IN  /\ m \in Rooms /\ Len(log[m]) \in Nat /\ Len(log'[m]) = Len(log[m]) + 1
             /\ log'[m][Len(log[m]) + 1] = r
             /\ \A i \in 1 .. Len(log[m]) : log'[m][i] = log[m][i]
             /\ \A n \in Rooms : n # m => log'[n] = log[n]
             /\ \A w \in Workers : link[w] =>
                  /\ Len(feed[w]) \in Nat /\ Len(feed'[w]) = Len(feed[w]) + 1
                  /\ feed'[w][Len(feed[w]) + 1] = [msg |-> r, room |-> m]
                  /\ \A k \in 1 .. Len(feed[w]) : feed'[w][k] = feed[w][k]
<1> DEFINE m == req[r].room
<1>1. /\ log \in [Rooms -> Seq(Requests)] /\ m \in Rooms
      /\ log' = [log EXCEPT ![m] = Append(log[m], r)]
  BY TypeParts, PublishEffect DEF RedisOK, Shape
<1> HIDE DEF m
<1>2. log[m] \in Seq(Requests) /\ log'[m] = Append(log[m], r)
  BY <1>1
<1>3. /\ Len(log[m]) \in Nat /\ Len(log'[m]) = Len(log[m]) + 1
      /\ log'[m][Len(log[m]) + 1] = r
      /\ \A i \in 1 .. Len(log[m]) : log'[m][i] = log[m][i]
  BY <1>2
<1>4. \A n \in Rooms : n # m => log'[n] = log[n]
  BY <1>1
<1>5. ASSUME NEW w \in Workers, link[w]
      PROVE  /\ Len(feed[w]) \in Nat /\ Len(feed'[w]) = Len(feed[w]) + 1
             /\ feed'[w][Len(feed[w]) + 1] = [msg |-> r, room |-> m]
             /\ \A k \in 1 .. Len(feed[w]) : feed'[w][k] = feed[w][k]
  <2>1. feed'[w] = Append(feed[w], [msg |-> r, room |-> m])
    BY <1>5 DEF publish, m
  <2>2. feed[w] \in Seq(Message) /\ [msg |-> r, room |-> m] \in Message
    BY <1>1, TypeParts DEF RedisOK, Message
  <2> QED BY <2>1, <2>2
<1> QED BY <1>1, <1>3, <1>4, <1>5 DEF m

LEMMA LengthOfLog ==
  ASSUME TypeOK, [Next]_vars, NEW c \in rooms'
  PROVE  Len(log'[sock'[c].room]) \in Nat
<1>1. TypeOK'
  BY TypeStep
<1>2. RedisOK' /\ SocketsOK'
  BY <1>1, TypeParts, PTL
<1>3. log' \in [Rooms -> Seq(Requests)] /\ sock' \in [Clients -> Socket] /\ c \in Clients
  BY <1>2 DEF RedisOK, SocketsOK
<1>4. log'[sock'[c].room] \in Seq(Requests)
  BY <1>3 DEF Socket
<1> QED BY <1>4

LEMMA ComingStep ==
  ASSUME TypeOK, Shape, Connected, Subscribed, Coming, [Next]_vars
  PROVE  Coming'
<1> SUFFICES ASSUME faults' = 0, NEW c \in rooms', sock'[c].pc = "open",
                    NEW i \in sock'[c].since + 1 .. Len(log'[sock'[c].room]),
                    NEW x, x = log'[sock'[c].room][i]
             PROVE  Comes(c, x)'
  BY DEF Coming, Comes
<1>1. CASE ~StaysOpen(c)
  <2>1. sock'[c].since = Len(log'[sock'[c].room])
    BY <1>1, OpenOnes
  <2> QED BY <2>1, LengthOfLog
<1>2. CASE StaysOpen(c)
  <2> DEFINE m == sock[c].room
             w == sock[c].worker
  <2>1. /\ c \in rooms /\ sock[c].pc = "open" /\ sock'[c].room = m /\ w \in Workers
        /\ sock'[c].since = sock[c].since /\ m \in Rooms /\ sock'[c].worker = w
        /\ sock[c].since \in Nat
    BY <1>2 DEF StaysOpen
  <2>2. faults = 0
    BY CalmSteps
  <2>3. ASSUME NEW k \in sock[c].since + 1 .. Len(log[m]), log[m][k] = x
        PROVE  Comes(c, x)
    BY <2>1, <2>2, <2>3 DEF Coming
  <2>4. log[m] \in Seq(Requests)
    BY <2>1, TypeParts DEF RedisOK
  <2> HIDE DEF m, w
  <2>5. /\ Len(log[m]) \in Nat /\ i \in sock[c].since + 1 .. Len(log'[m])
        /\ x = log'[m][i]
    BY <2>1, <2>4
  <2>6. CASE i \in 1 .. Len(log[m]) /\ log'[m][i] = log[m][i]
    <3>1. i \in sock[c].since + 1 .. Len(log[m])
      BY <2>1, <2>5, <2>6
    <3>2. Comes(c, x)
      BY <2>3, <2>5, <2>6, <3>1
    <3> QED BY <1>2, <3>2, GoesOnComing
  <2>7. ASSUME NEW r \in Requests, publish(r), req[r].room = m, i = Len(log[m]) + 1
        PROVE  Comes(c, x)'
    <3>0. log'[m][Len(log[m]) + 1] = r
      BY <2>7, PublishedLast
    <3>1. x = r /\ link[w]
      BY <2>1, <2>2, <2>5, <2>7, <3>0 DEF Subscribed
    <3>2. /\ Len(feed[w]) \in Nat /\ Len(feed'[w]) = Len(feed[w]) + 1
          /\ feed'[w][Len(feed[w]) + 1] = [msg |-> r, room |-> m]
      BY <2>1, <2>7, <3>1, PublishedLast
    <3>3. \E k \in 1 .. Len(feed'[w]) : feed'[w][k] = [msg |-> x, room |-> m]
      BY <3>1, <3>2
    <3> QED BY <2>1, <3>3 DEF Comes
  <2>8. ASSUME NEW r \in Requests, publish(r)
        PROVE  \/ i \in 1 .. Len(log[m]) /\ log'[m][i] = log[m][i]
               \/ req[r].room = m /\ i = Len(log[m]) + 1
    <3>1. CASE req[r].room # m
      <4>1. log'[m] = log[m]
        BY <2>1, <2>8, <3>1, PublishedLast
      <4> QED BY <2>1, <2>5, <4>1
    <3>2. CASE req[r].room = m
      <4>1. /\ Len(log'[m]) = Len(log[m]) + 1
            /\ \A k \in 1 .. Len(log[m]) : log'[m][k] = log[m][k]
        BY <2>8, <3>2, PublishedLast
      <4>2. i \in 1 .. Len(log[m]) \/ i = Len(log[m]) + 1
        BY <2>1, <2>5, <4>1
      <4> QED BY <3>2, <4>1, <4>2
    <3> QED BY <3>1, <3>2
  <2>9. CASE log' = log
    BY <2>1, <2>5, <2>6, <2>9
  <2> QED BY <2>6, <2>7, <2>8, <2>9, LogsStay
<1> QED BY <1>1, <1>2

\* Without a fault and without overlap, one request runs at a time, and what it delivers
\* is what its room's log ends with.
InTurn == faults = 0 /\ ~overlapped
OneRunning == InTurn => \A r, q \in Requests : Running(r) /\ Running(q) => r = q
DeliversLast ==
  InTurn => \A r \in Requests : req[r].pc = "deliver" =>
    LET s == log[req[r].room] IN Len(s) > 0 /\ s[Len(s)] = r

LEMMA RunningStates ==
  ASSUME TypeOK, NEW r \in Requests
  PROVE  Running(r) <=> req[r].pc \in {"commit", "publish", "deliver"}
<1>1. req[r] \in Request
  BY TypeParts DEF ReqOK
<1> QED BY <1>1 DEF Running, Request, Over

\* Without overlap a request begins when no other runs.
LEMMA BeginsAlone ==
  ASSUME TypeOK, [Next]_vars, InTurn'
  PROVE  /\ InTurn
         /\ \A r \in Requests, k \in Kinds, w \in Workers :
              begin(r, k, w) => \A x \in Requests : ~Running(x)
<1>1. faults = 0 /\ CalmStep /\ ~overlapped'
  BY CalmSteps DEF InTurn
<1>2. overlapped \in BOOLEAN
  BY TypeParts DEF RestOK
<1>3. overlapped => overlapped'
  BY <1>1, <1>2 DEF CalmStep, begin, commit, publish, deliver, send, bridge_takes
<1>4. ASSUME NEW r \in Requests, NEW k \in Kinds, NEW w \in Workers, begin(r, k, w)
      PROVE  ~\E x \in Requests : Running(x)
  BY <1>1, <1>4 DEF begin
<1> QED BY <1>1, <1>3, <1>4 DEF InTurn

\* What a step without faults does to the requests.
LEMMA RequestSteps ==
  ASSUME TypeOK, Shape, [Next]_vars, faults' = 0
  PROVE  \/ req' = req /\ row' = row /\ log' = log
         \/ \E r \in Requests, k \in Kinds, w \in Workers : begin(r, k, w)
         \/ \E r \in Requests : commit(r) \/ publish(r)
         \/ /\ log' = log /\ row' = row
            /\ \E r \in Requests : req[r].pc = "deliver" /\ req' = AfterDelivery(r)
<1>1. ASSUME NEW r \in Requests, deliver(r)
      PROVE  /\ req' = req \/ (req[r].pc = "deliver" /\ req' = AfterDelivery(r))
             /\ log' = log /\ row' = row
  BY <1>1 DEF deliver, redis
<1>2. ASSUME NEW t \in Workers \cup Requests, NEW c \in Clients, send(t, c)
      PROVE  /\ \/ req' = req
                \/ t \in Requests /\ req[t].pc = "deliver" /\ req' = AfterDelivery(t)
             /\ log' = log /\ row' = row
  BY <1>2, SendEffect DEF Shape, OwnBroadcasts, send, redis
<1>3. ASSUME NEW w \in Workers, bridge_takes(w) PROVE req' = req /\ row' = row /\ log' = log
  BY <1>3 DEF bridge_takes
<1> QED BY <1>1, <1>2, <1>3, CalmSteps DEF CalmStep

LEMMA OneRunningStep ==
  ASSUME TypeOK, Shape, OneRunning, [Next]_vars
  PROVE  OneRunning'
<1>0. req \in [Requests -> Request] /\ TypeOK'
  BY TypeParts, TypeStep DEF ReqOK
<1> SUFFICES ASSUME InTurn', NEW r \in Requests, NEW q \in Requests, Running(r)', Running(q)'
             PROVE  r = q
  BY DEF OneRunning
<1>1. InTurn /\ faults' = 0
  BY BeginsAlone DEF InTurn
<1>2. ASSUME \A x \in {r, q} : Running(x)' => Running(x) PROVE r = q
  BY <1>1, <1>2 DEF OneRunning
<1>3. CASE req' = req
  BY <1>2, <1>3 DEF Running
<1>4. ASSUME NEW x \in Requests, NEW k \in Kinds, NEW w \in Workers, begin(x, k, w)
      PROVE  r = q
  <2>1. \A y \in Requests : ~Running(y)
    BY <1>4, BeginsAlone
  <2>2. \A y \in Requests : y # x => req'[y] = req[y]
    BY <1>0, <1>4 DEF begin
  <2>3. \A y \in Requests : y # x => ~Running(y)'
    BY <2>1, <2>2 DEF Running
  <2> QED BY <2>3
<1>5. ASSUME NEW x \in Requests, commit(x) \/ publish(x) PROVE r = q
  <2>1. /\ \A y \in Requests : y # x => req'[y] = req[y]
        /\ req[x].pc \in {"commit", "publish"}
    BY <1>0, <1>5 DEF commit, publish
  <2>2. \A y \in Requests : Running(y)' => Running(y)
    BY <2>1, RunningStates DEF Running
  <2> QED BY <1>2, <2>2
<1>6. ASSUME NEW x \in Requests, req[x].pc = "deliver", req' = AfterDelivery(x) PROVE r = q
  <2>1. \A y \in Requests : y # x => req'[y] = req[y]
    BY <1>6, SecondRoom
  <2>2. \A y \in Requests : Running(y)' => Running(y)
    BY <1>6, <2>1, RunningStates DEF Running
  <2> QED BY <1>2, <2>2
<1> QED BY <1>1, <1>3, <1>4, <1>5, <1>6, RequestSteps

LEMMA DeliversLastStep ==
  ASSUME TypeOK, Shape, OneRunning, DeliversLast, [Next]_vars
  PROVE  DeliversLast'
<1>0. req \in [Requests -> Request] /\ log \in [Rooms -> Seq(Requests)]
  BY TypeParts DEF ReqOK, RedisOK
<1> SUFFICES ASSUME InTurn', NEW r \in Requests, req'[r].pc = "deliver"
             PROVE  LET s == log'[req'[r].room] IN Len(s) > 0 /\ s[Len(s)] = r
  BY DEF DeliversLast
<1>1. InTurn /\ faults' = 0
  BY BeginsAlone DEF InTurn
<1>2. CASE req'[r] = req[r] /\ log' = log
  BY <1>1, <1>2 DEF DeliversLast
<1>3. ASSUME NEW x \in Requests, NEW k \in Kinds, NEW w \in Workers, begin(x, k, w)
      PROVE  req'[r] = req[r] /\ log' = log
  <2>1. FirstStep(k) # "deliver"
    BY DEF FirstStep
  <2>2. req' = [req EXCEPT ![x] = [pc |-> FirstStep(k), kind |-> k, worker |-> w,
                                   room |-> FirstRoom[k]]] /\ log' = log
    BY <1>3 DEF begin, redis
  <2> QED BY <1>0, <2>1, <2>2
<1>4. ASSUME NEW x \in Requests, commit(x) PROVE req'[r] = req[r] /\ log' = log
  BY <1>0, <1>4 DEF commit, redis, Request
<1>5. ASSUME NEW x \in Requests, publish(x)
      PROVE  LET s == log'[req'[r].room] IN Len(s) > 0 /\ s[Len(s)] = r
  <2>1. CASE x = r
    <3>1. req'[r].room = req[r].room
      BY <1>0, <1>5, <2>1 DEF publish, Request
    <3>2. LET s == log'[req[r].room] IN Len(s) = Len(log[req[r].room]) + 1
            /\ s[Len(log[req[r].room]) + 1] = r /\ Len(log[req[r].room]) \in Nat
      BY <1>5, <2>1, PublishedLast
    <3> QED BY <3>1, <3>2
  <2>2. CASE x # r
    <3>1. req[x].pc = "publish" /\ req'[r] = req[r]
      BY <1>0, <1>5, <2>2 DEF publish
    <3>2. Running(x) /\ Running(r)
      BY <3>1, RunningStates
    <3> QED BY <1>1, <2>2, <3>2 DEF OneRunning
  <2> QED BY <2>1, <2>2
<1>6. ASSUME NEW x \in Requests, req' = AfterDelivery(x) PROVE req'[r] = req[r]
  BY <1>6, SecondRoom
<1> QED BY <1>1, <1>2, <1>3, <1>4, <1>5, <1>6, RequestSteps

\* What comes last to a socket is what its room's log ends with: the last unread of its
\* bridge, or what the bridge is sending it, or else what it was sent last; and so is all
\* that requests are sending it.
UnreadLast(c, x) ==
  LET w == sock[c].worker
      m == sock[c].room
  IN  \A k \in 1 .. Len(feed[w]) :
        feed[w][k].room = m /\ (\A j \in 1 .. Len(feed[w]) : j > k => feed[w][j].room # m)
          => feed[w][k].msg = x
SentLast(c, x) ==
  LET w == sock[c].worker
  IN  (\A k \in 1 .. Len(feed[w]) : feed[w][k].room # sock[c].room) =>
        IF c \in out[w].todo THEN out[w].msg = x
        ELSE Len(seen[c]) > 0 /\ seen[c][Len(seen[c])] = x
SentByRequests(c, x) == \A t \in Requests : c \in out[t].todo => out[t].msg = x
Settles(c, x) == UnreadLast(c, x) /\ SentLast(c, x) /\ SentByRequests(c, x)

\* Rooms whose log a socket can be expected to end with.
InOneOrder(m) == m \in Bridged \/ ~overlapped
LastComes ==
  faults = 0 => \A c \in rooms :
    LET s == log[sock[c].room]
    IN  sock[c].pc = "open" /\ InOneOrder(sock[c].room) /\ Len(s) > sock[c].since
          => Settles(c, s[Len(s)])

\* Steps that leave the log of the room.
LEMMA SettlesStep ==
  ASSUME TypeOK, Shape, DeliversLast, [Next]_vars, faults' = 0,
         NEW c, StaysOpen(c), NEW x, Settles(c, x), InOneOrder(sock[c].room)',
         log'[sock[c].room] = log[sock[c].room],
         x = log[sock[c].room][Len(log[sock[c].room])]
  PROVE  Settles(c, x)'
<1> DEFINE w == sock[c].worker
           m == sock[c].room
<1>0. /\ c \in rooms /\ c \in Clients /\ sock[c].pc = "open" /\ w \in Workers /\ m \in Rooms
      /\ sock'[c].worker = w /\ sock'[c].room = m
  BY DEF StaysOpen
<1> DEFINE Unread == \A k \in 1 .. Len(feed[w]) :
             feed[w][k].room = m /\ (\A j \in 1 .. Len(feed[w]) : j > k => feed[w][j].room # m)
               => feed[w][k].msg = x
           Unread2 == \A k \in 1 .. Len(feed'[w]) :
             feed'[w][k].room = m /\ (\A j \in 1 .. Len(feed'[w]) : j > k => feed'[w][j].room # m)
               => feed'[w][k].msg = x
           None1 == \A k \in 1 .. Len(feed[w]) : feed[w][k].room # m
           None2 == \A k \in 1 .. Len(feed'[w]) : feed'[w][k].room # m
           Sent == IF c \in out[w].todo THEN out[w].msg = x
                   ELSE Len(seen[c]) > 0 /\ seen[c][Len(seen[c])] = x
           Sent2 == IF c \in out'[w].todo THEN out'[w].msg = x
                    ELSE Len(seen'[c]) > 0 /\ seen'[c][Len(seen'[c])] = x
           Own == \A t \in Requests : c \in out[t].todo => out[t].msg = x
           Own2 == \A t \in Requests : c \in out'[t].todo => out'[t].msg = x
<1>1. Unread /\ (None1 => Sent) /\ Own
  BY DEF Settles, UnreadLast, SentLast, SentByRequests
<1>2. SUFFICES Unread2 /\ (None2 => Sent2) /\ Own2
  BY <1>0 DEF Settles, UnreadLast, SentLast, SentByRequests
<1> HIDE DEF w, m
<1>3. /\ out \in [Workers \cup Requests -> Broadcast] /\ seen \in [Clients -> Seq(Requests)]
      /\ Requests \cap Workers = {} /\ WellFormed(out[w]) /\ Nothing.todo = {}
      /\ feed \in [Workers -> Seq(Message)] /\ req \in [Requests -> Request]
  BY <1>0, TypeParts, LiveUpdatesAssumption DEF OutOK, SocketsOK, RedisOK, ReqOK, Nothing
<1>4. faults = 0 /\ CalmStep /\ (m \in Bridged \/ ~overlapped')
  BY <1>0, CalmSteps DEF InOneOrder, m
<1>5. CASE UNCHANGED <<seen, feed, out>>
  BY <1>1, <1>5
<1>6. ASSUME NEW r \in Requests, (\E k \in Kinds, v \in Workers : begin(r, k, v)) \/ commit(r)
      PROVE  UNCHANGED <<seen, feed, out>>
  BY <1>6 DEF begin, commit, redis, sockets
<1>7. ASSUME NEW r \in Requests, deliver(r)
      PROVE  Unread2 /\ (None2 => Sent2) /\ Own2
  <2>1. /\ UNCHANGED <<seen, feed, log, overlapped>> /\ out'[w] = out[w]
        /\ out' = [out EXCEPT ![r] = Delivery(req[r].worker, r, req[r].room)]
        /\ req[r].pc = "deliver"
    BY <1>0, <1>3, <1>7 DEF deliver, redis, sockets
  <2>2. req[r].room \notin Bridged /\ req[r].room \in Rooms
    BY <1>3, <2>1 DEF Shape, OwnBroadcasts, Request
  <2>3. ASSUME c \in out'[r].todo PROVE out'[r].msg = x
    <3>1. /\ out'[r].msg = r /\ c \in Members(req[r].worker, req[r].room)
      BY <1>3, <2>1, <2>2, <2>3, DeliveryType
    <3>2. req[r].room = m
      BY <3>1 DEF Members, m
    <3>3. InTurn
      BY <1>4, <2>1, <2>2, <3>2 DEF InTurn
    <3>4. r = log[m][Len(log[m])]
      BY <2>1, <3>2, <3>3 DEF DeliversLast
    <3> QED BY <3>1, <3>4 DEF m
  <2>4. \A t \in Requests : t # r => out'[t] = out[t]
    BY <1>3, <2>1
  <2> QED BY <1>1, <2>1, <2>3, <2>4
<1>8. ASSUME NEW r \in Requests, publish(r)
      PROVE  Unread2 /\ (None2 => Sent2) /\ Own2
  <2>1. UNCHANGED <<out, seen>>
    BY <1>8 DEF publish, sockets
  <2>2. req[r].room # m
    <3>1. log[m] \in Seq(Requests)
      BY <1>0, TypeParts DEF RedisOK
    <3>2. ASSUME req[r].room = m PROVE Len(log'[m]) = Len(log[m]) + 1 /\ Len(log[m]) \in Nat
      BY <1>8, <3>2, PublishedLast
    <3> QED BY <3>2 DEF m
  <2>3. \A k \in 1 .. Len(feed'[w]) :
          \/ k \in 1 .. Len(feed[w]) /\ feed'[w][k] = feed[w][k]
          \/ feed'[w][k].room # m
    <3> SUFFICES ASSUME NEW k \in 1 .. Len(feed'[w])
                 PROVE  \/ k \in 1 .. Len(feed[w]) /\ feed'[w][k] = feed[w][k]
                        \/ feed'[w][k].room # m
      OBVIOUS
    <3>1. \/ k \in 1 .. Len(feed[w]) /\ feed'[w][k] = feed[w][k]
          \/ feed'[w][k] = [msg |-> r, room |-> req[r].room]
      BY <1>0, <1>8, FeedGrows
    <3>2. [msg |-> r, room |-> req[r].room].room = req[r].room
      OBVIOUS
    <3> QED BY <2>2, <3>1, <3>2
  <2>4. \A k \in 1 .. Len(feed[w]) : k \in 1 .. Len(feed'[w]) /\ feed'[w][k] = feed[w][k]
    <3>1. feed'[w] = IF link[w] THEN Append(feed[w], [msg |-> r, room |-> req[r].room])
                                ELSE feed[w]
      BY <1>0, <1>8 DEF publish
    <3>2. feed[w] \in Seq(Message) /\ [msg |-> r, room |-> req[r].room] \in Message
      BY <1>0, <1>3, <1>8, PublishEffect DEF Message, Shape
    <3> QED BY <3>1, <3>2
  <2>5. Unread2
    <3> SUFFICES ASSUME NEW k \in 1 .. Len(feed'[w]), feed'[w][k].room = m,
                        \A j \in 1 .. Len(feed'[w]) : j > k => feed'[w][j].room # m
                 PROVE  feed'[w][k].msg = x
      OBVIOUS
    <3>1. k \in 1 .. Len(feed[w]) /\ feed'[w][k] = feed[w][k]
      BY <2>3
    <3>2. \A j \in 1 .. Len(feed[w]) : j > k => feed[w][j].room # m
      BY <2>4
    <3> QED BY <1>1, <3>1, <3>2
  <2>6. None2 => None1
    BY <2>4
  <2> QED BY <1>1, <2>1, <2>5, <2>6
<1>9. ASSUME NEW t \in Workers \cup Requests, NEW y \in Clients, send(t, y)
      PROVE  Unread2 /\ (None2 => Sent2) /\ Own2
  <2>1. /\ feed' = feed
        /\ \A u \in Workers \cup Requests : u # t => out'[u] = out[u]
        /\ y \in out[t].todo
        /\ \/ out'[t] = Nothing
           \/ out'[t].msg = out[t].msg /\ out'[t].todo = out[t].todo \ {y}
    BY <1>9, SendEffect DEF send, redis
  <2>2. Own2
    BY <1>1, <1>3, <2>1
  <2>3. CASE y # c
    <3>1. seen'[c] = seen[c]
      BY <1>0, <1>3, <1>9, <2>3 DEF send
    <3>2. t = w => (c \in out[w].todo => c \in out'[w].todo /\ out'[w].msg = out[w].msg)
      BY <1>9, <2>3, SendLast
    <3>3. c \in out'[w].todo => c \in out[w].todo
      BY <1>0, <1>3, <2>1
    <3>4. t # w => out'[w] = out[w]
      BY <1>0, <2>1
    <3> QED BY <1>1, <2>1, <2>2, <3>1, <3>2, <3>3, <3>4
  <2>4. CASE y = c
    <3>1. /\ t \in Workers => t = w
          /\ out[t].msg \in Requests
      <4>1. t \in Workers => t = w
        BY <2>1, <2>4 DEF Shape, RightSockets, w
      <4>2. out[t] \in Broadcast /\ out[t].msg # None
        BY <1>3, <1>9, SendEffect DEF Busy
      <4> QED BY <4>1, <4>2 DEF Broadcast
    <3>2. seen'[c] = Append(seen[c], out[t].msg) /\ seen[c] \in Seq(Requests)
      BY <1>0, <1>3, <1>9, <2>4 DEF send
    <3>3. Len(seen'[c]) > 0 /\ seen'[c][Len(seen'[c])] = out[t].msg
      BY <3>1, <3>2
    <3>4. None2 => out[t].msg = x
      BY <1>1, <2>1, <2>4, <3>1
    <3>5. c \in out'[w].todo => t # w /\ out'[w] = out[w]
      BY <1>0, <1>3, <2>1, <2>4
    <3> QED BY <1>1, <2>1, <2>2, <3>3, <3>4, <3>5
  <2> QED BY <2>3, <2>4
<1>10. ASSUME NEW v \in Workers, bridge_takes(v)
       PROVE  Unread2 /\ (None2 => Sent2) /\ Own2
  <2>0. seen' = seen /\ \A t \in Requests : out'[t] = out[t]
    BY <1>3, <1>10, TakeEffect DEF bridge_takes, sockets
  <2>1. CASE v # w
    <3>1. feed'[w] = feed[w] /\ out'[w] = out[w]
      BY <1>0, <1>10, <2>1, TakeEffect
    <3> QED BY <1>1, <2>0, <3>1
  <2>2. CASE v = w
    <3>1. /\ Len(feed[w]) \in Nat \ {0} /\ Len(feed'[w]) = Len(feed[w]) - 1
          /\ \A k \in 1 .. Len(feed'[w]) :
               k + 1 \in 1 .. Len(feed[w]) /\ feed'[w][k] = feed[w][k + 1]
          /\ feed[w][1] \in Message /\ 1 \in 1 .. Len(feed[w])
          /\ out'[w] = Delivery(w, feed[w][1].msg, feed[w][1].room)
      BY <1>10, <2>2, TakeEffect
    <3>2. c \notin out[w].todo
      BY <1>3, <1>10, <2>2 DEF bridge_takes, Busy, WellFormed
    <3>3. \A j \in 1 .. Len(feed[w]) : j # 1 =>
            j - 1 \in 1 .. Len(feed'[w]) /\ feed'[w][j - 1] = feed[w][j]
      <4> SUFFICES ASSUME NEW j \in 1 .. Len(feed[w]), j # 1
                   PROVE  j - 1 \in 1 .. Len(feed'[w]) /\ feed'[w][j - 1] = feed[w][j]
        OBVIOUS
      <4>1. j - 1 \in 1 .. Len(feed'[w]) /\ (j - 1) + 1 = j
        BY <3>1
      <4> QED BY <3>1, <4>1
    <3>4. Unread2
      <4> SUFFICES ASSUME NEW k \in 1 .. Len(feed'[w]), feed'[w][k].room = m,
                          \A j \in 1 .. Len(feed'[w]) : j > k => feed'[w][j].room # m
                   PROVE  feed'[w][k].msg = x
        OBVIOUS
      <4>1. ASSUME NEW j \in 1 .. Len(feed[w]), j > k + 1 PROVE feed[w][j].room # m
        <5>1. j # 1 /\ j - 1 > k
          BY <3>1, <4>1
        <5> QED BY <3>3, <5>1
      <4> QED BY <1>1, <3>1, <4>1
    <3>5. ASSUME None2 PROVE Sent2
      <4>1. CASE feed[w][1].room = m
        <5>1. ASSUME NEW j \in 1 .. Len(feed[w]), j > 1 PROVE feed[w][j].room # m
          <6>1. j # 1
            BY <3>1, <5>1
          <6> QED BY <3>3, <3>5, <6>1
        <5>2. feed[w][1].msg = x
          BY <1>1, <3>1, <4>1, <5>1
        <5>3. c \in Members(w, m)
          BY <1>0 DEF Members, w, m
        <5>4. out'[w] = [msg |-> x, room |-> m, todo |-> Members(w, m), dead |-> {}]
          BY <3>1, <4>1, <5>2, <5>3 DEF Delivery
        <5> QED BY <5>3, <5>4
      <4>2. CASE feed[w][1].room # m
        <5>1. None1
          BY <3>3, <3>5, <4>2
        <5>2. c \notin out'[w].todo
          <6>1. c \notin Members(w, feed[w][1].room)
            BY <4>2 DEF Members, m
          <6>2. \/ out'[w] = Nothing
                \/ out'[w].todo = Members(w, feed[w][1].room)
            BY <1>10, <2>2, TakeEffect
          <6> QED BY <1>3, <6>1, <6>2
        <5> QED BY <1>1, <2>0, <3>2, <5>1, <5>2
      <4> QED BY <4>1, <4>2
    <3> QED BY <1>1, <2>0, <3>4, <3>5
  <2> QED BY <2>1, <2>2
<1> QED BY <1>4, <1>5, <1>6, <1>7, <1>8, <1>9, <1>10 DEF CalmStep

\* What is published to a socket's room becomes what comes last to it.
LEMMA SettlesPublish ==
  ASSUME TypeOK, Shape, OneRunning, Subscribed, faults = 0, NEW q \in Requests, publish(q),
         NEW c, StaysOpen(c), sock[c].room = req[q].room, InOneOrder(sock[c].room)
  PROVE  Settles(c, q)'
<1> DEFINE w == sock[c].worker
           m == sock[c].room
<1>0. /\ c \in Clients /\ w \in Workers /\ m \in Rooms /\ req[q].room = m
      /\ sock'[c].worker = w /\ sock'[c].room = m /\ link[w]
      /\ m \in Bridged \/ ~overlapped
  BY DEF StaysOpen, Subscribed, InOneOrder
<1> HIDE DEF w, m
<1>1. /\ Len(feed[w]) \in Nat /\ Len(feed'[w]) = Len(feed[w]) + 1
      /\ feed'[w][Len(feed[w]) + 1] = [msg |-> q, room |-> m]
  BY <1>0, PublishedLast
<1>2. /\ Len(feed'[w]) \in 1 .. Len(feed'[w])
      /\ feed'[w][Len(feed'[w])].room = m /\ feed'[w][Len(feed'[w])].msg = q
  BY <1>1
<1>3. ASSUME NEW k \in 1 .. Len(feed'[w]),
             \A j \in 1 .. Len(feed'[w]) : j > k => feed'[w][j].room # m
      PROVE  feed'[w][k].msg = q
  <2>1. ~(Len(feed'[w]) > k)
    BY <1>2, <1>3
  <2>2. k = Len(feed'[w])
    BY <1>1, <2>1
  <2> QED BY <1>2, <2>2
<1>4. ASSUME NEW t \in Requests, c \in out'[t].todo PROVE FALSE
  <2>1. c \in out[t].todo
    BY <1>4 DEF publish
  <2>2. Busy(t)
    <3>1. WellFormed(out[t]) /\ Nothing.todo = {}
      BY TypeParts DEF OutOK, Nothing
    <3> QED BY <2>1, <3>1 DEF WellFormed, Busy
  <2>3. /\ req[t].pc = "deliver" /\ out[t].room \notin Bridged
        /\ m = out[t].room
    BY <2>1, <2>2 DEF Shape, OwnBroadcasts, RightSockets, m
  <2>4. InTurn /\ req[q].pc = "publish"
    BY <1>0, <2>3 DEF InTurn, publish
  <2>5. Running(t) /\ Running(q)
    BY <2>3, <2>4, RunningStates
  <2>6. t = q
    BY <2>4, <2>5 DEF OneRunning
  <2> QED BY <2>3, <2>4, <2>6
<1> QED BY <1>0, <1>2, <1>3, <1>4 DEF Settles, UnreadLast, SentLast, SentByRequests

LEMMA LastComesStep ==
  ASSUME TypeOK, Shape, Connected, Subscribed, OneRunning, DeliversLast, LastComes,
         [Next]_vars
  PROVE  LastComes'
<1> SUFFICES ASSUME faults' = 0, NEW c \in rooms', sock'[c].pc = "open",
                    InOneOrder(sock[c].room)', Len(log'[sock'[c].room]) > sock'[c].since,
                    NEW x, x = log'[sock'[c].room][Len(log'[sock'[c].room])]
             PROVE  Settles(c, x)'
  BY DEF LastComes, InOneOrder, Settles, UnreadLast, SentLast, SentByRequests
<1>1. CASE ~StaysOpen(c)
  <2>1. sock'[c].since = Len(log'[sock'[c].room])
    BY <1>1, OpenOnes
  <2> QED BY <2>1, LengthOfLog
<1>2. CASE StaysOpen(c)
  <2> DEFINE m == sock[c].room
  <2>1. /\ c \in rooms /\ sock[c].pc = "open" /\ sock'[c].room = m /\ m \in Rooms
        /\ sock'[c].since = sock[c].since
    BY <1>2 DEF StaysOpen
  <2>2. faults = 0
    BY CalmSteps
  <2>3. InOneOrder(m)
    BY <2>1, <2>2, BeginsAlone DEF InOneOrder, InTurn
  <2>4. CASE log'[m] = log[m]
    <3>1. Len(log[m]) > sock[c].since /\ x = log[m][Len(log[m])]
      BY <2>1, <2>4
    <3>2. Settles(c, x)
      BY <2>1, <2>2, <2>3, <3>1 DEF LastComes
    <3> QED BY <1>2, <2>4, <3>1, <3>2, SettlesStep
  <2>5. ASSUME NEW q \in Requests, publish(q) PROVE Settles(c, x)'
    <3>1. CASE req[q].room # m
      BY <2>1, <2>4, <2>5, <3>1, PublishedLast
    <3>2. CASE req[q].room = m
      <4> HIDE DEF m
      <4>1. x = q
        <5>1. /\ Len(log'[m]) = Len(log[m]) + 1
              /\ log'[m][Len(log[m]) + 1] = q
          BY <2>5, <3>2, PublishedLast
        <5>2. x = log'[m][Len(log'[m])]
          BY <2>1
        <5> QED BY <5>1, <5>2
      <4>2. Settles(c, q)'
        BY <1>2, <2>2, <2>3, <2>5, <3>2, SettlesPublish DEF m
      <4> QED BY <4>1, <4>2 DEF Settles, UnreadLast, SentLast, SentByRequests
    <3> QED BY <3>1, <3>2
  <2>6. CASE log' = log
    BY <2>4, <2>6
  <2> QED BY <2>5, <2>6, LogsStay
<1> QED BY <1>1, <1>2

\* The modes. A request that changes one publishes to the signals, and has stored it; when
\* none is about to publish, the one announced last is the one stored.
ModesToSignals ==
  faults = 0 =>
    \A r \in Requests : IsMode(r) => req[r].room = "signals" /\ req[r].pc # "deliver"
Announces(r) == req[r].pc = "publish" /\ IsMode(r)
ModeStored ==
  InTurn =>
    /\ \A r \in Requests : Announces(r) => row = r
    /\ (\A r \in Requests : ~Announces(r)) =>
         \A i \in 1 .. Len(log["signals"]) : LastMode(i) => log["signals"][i] = row

LEMMA ModesToSignalsStep ==
  ASSUME TypeOK, Shape, ModesToSignals, [Next]_vars
  PROVE  ModesToSignals'
<1> SUFFICES ASSUME faults' = 0, NEW r \in Requests, req'[r].kind = "mode"
             PROVE  req'[r].room = "signals" /\ req'[r].pc # "deliver"
  BY DEF ModesToSignals, IsMode
<1>0. req \in [Requests -> Request] /\ faults = 0
  BY TypeParts, CalmSteps DEF ReqOK
<1>1. CASE req'[r] = req[r]
  BY <1>0, <1>1 DEF ModesToSignals, IsMode
<1>2. ASSUME NEW x \in Requests, NEW k \in Kinds, NEW w \in Workers, begin(x, k, w)
      PROVE  \/ req'[r] = req[r]
             \/ req'[r].room = "signals" /\ req'[r].pc # "deliver"
  <2>1. req' = [req EXCEPT ![x] = [pc |-> FirstStep(k), kind |-> k, worker |-> w,
                                   room |-> FirstRoom[k]]]
    BY <1>2 DEF begin
  <2>2. FirstStep(k) # "deliver"
    BY DEF FirstStep
  <2> QED BY <1>0, <2>1, <2>2, KindsAndRooms
<1>3. ASSUME NEW x \in Requests, NEW p, req' = [req EXCEPT ![x].pc = p],
             p = "deliver" => req[x].kind = "step"
      PROVE  req'[r].room = "signals" /\ req'[r].pc # "deliver"
  <2>1. CASE x = r
    <3>1. req'[r].kind = req[r].kind /\ req'[r].room = req[r].room /\ req'[r].pc = p
      BY <1>0, <1>3, <2>1 DEF Request
    <3> QED BY <1>0, <1>3, <2>1, <3>1 DEF ModesToSignals, IsMode
  <2>2. CASE x # r
    BY <1>0, <1>1, <1>3, <2>2
  <2> QED BY <2>1, <2>2
<1>4. ASSUME NEW x \in Requests, commit(x)
      PROVE  req'[r].room = "signals" /\ req'[r].pc # "deliver"
  <2>1. req' = [req EXCEPT ![x].pc = "publish"]
    BY <1>4 DEF commit
  <2> QED BY <1>3, <2>1
<1>5. ASSUME NEW x \in Requests, publish(x)
      PROVE  req'[r].room = "signals" /\ req'[r].pc # "deliver"
  <2>1. req' = [req EXCEPT ![x].pc = AfterPublish(x)]
    BY <1>5 DEF publish
  <2>2. AfterPublish(x) = "deliver" => req[x].kind = "step"
    BY DEF AfterPublish
  <2> QED BY <1>3, <2>1, <2>2
<1>6. ASSUME NEW x \in Requests, req[x].pc = "deliver", req' = AfterDelivery(x)
      PROVE  req'[r] = req[r]
  <2>1. req[x].kind = "step" /\ req'[x].kind = req[x].kind
    BY <1>6, SecondRoom DEF Shape, OwnBroadcasts
  <2> QED BY <1>6, <2>1, SecondRoom
<1> QED BY <1>1, <1>2, <1>4, <1>5, <1>6, RequestSteps

\* What is announced keeps its kind.
LEMMA KindsStay ==
  ASSUME TypeOK, Shape, [Next]_vars, faults' = 0, NEW i \in 1 .. Len(log["signals"])
  PROVE  req'[log["signals"][i]].kind = req[log["signals"][i]].kind
<1> DEFINE q == log["signals"][i]
<1>0. req \in [Requests -> Request] /\ q \in Requests /\ req[q].pc = "answered"
  <2>1. log["signals"] \in Seq(Requests)
    BY TypeParts DEF RedisOK, Rooms
  <2>2. "signals" \in Bridged
    BY DEF Bridged
  <2> QED BY <2>1, <2>2, TypeParts DEF ReqOK, Shape, PublishedOnce
<1> HIDE DEF q
<1>1. ASSUME NEW x \in Requests, NEW k \in Kinds, NEW w \in Workers, begin(x, k, w)
      PROVE  req'[q] = req[q]
  BY <1>0, <1>1 DEF begin
<1>2. ASSUME NEW x \in Requests, commit(x) \/ publish(x)
      PROVE  req'[q] = req[q]
  BY <1>0, <1>2 DEF commit, publish
<1>3. ASSUME NEW x \in Requests, req[x].pc = "deliver", req' = AfterDelivery(x)
      PROVE  req'[q] = req[q]
  BY <1>0, <1>3, SecondRoom
<1>4. req'[q] = req[q]
  BY <1>1, <1>2, <1>3, RequestSteps
<1> QED BY <1>4 DEF q

LEMMA ModeStoredStep ==
  ASSUME TypeOK, Shape, OneRunning, ModesToSignals, ModeStored, [Next]_vars
  PROVE  ModeStored'
<1> DEFINE s == log["signals"]
           s2 == log'["signals"]
           Ann(r) == req[r].pc = "publish" /\ req[r].kind = "mode"
           Ann2(r) == req'[r].pc = "publish" /\ req'[r].kind = "mode"
           Is(q) == req[q].kind = "mode"
           Is2(q) == req'[q].kind = "mode"
           Latest(i) == Is(s[i]) /\ \A k \in 1 .. Len(s) : k > i => ~Is(s[k])
           Latest2(i) == Is2(s2[i]) /\ \A k \in 1 .. Len(s2) : k > i => ~Is2(s2[k])
<1>0. /\ req \in [Requests -> Request] /\ log \in [Rooms -> Seq(Requests)]
      /\ s \in Seq(Requests) /\ "signals" \in Rooms
  BY TypeParts DEF ReqOK, RedisOK, Rooms
<1> SUFFICES ASSUME InTurn'
             PROVE  /\ \A r \in Requests : Ann2(r) => row' = r
                    /\ (\A r \in Requests : ~Ann2(r)) =>
                         \A i \in 1 .. Len(s2) : Latest2(i) => s2[i] = row'
  BY DEF ModeStored, Announces, IsMode, LastMode
<1>1. InTurn /\ faults' = 0
  BY BeginsAlone DEF InTurn
<1>2. /\ \A r \in Requests : Ann(r) => row = r
      /\ (\A r \in Requests : ~Ann(r)) => \A i \in 1 .. Len(s) : Latest(i) => s[i] = row
  BY <1>1 DEF ModeStored, Announces, IsMode, LastMode
<1>3. \A i \in 1 .. Len(s) : Is2(s[i]) <=> Is(s[i])
  BY <1>1, KindsStay
<1>4. \A r \in Requests : req[r].pc = "publish" => Running(r)
  BY RunningStates
<1> DEFINE Goal == /\ \A r \in Requests : Ann2(r) => row' = r
                   /\ (\A r \in Requests : ~Ann2(r)) =>
                        \A i \in 1 .. Len(s2) : Latest2(i) => s2[i] = row'
<1> HIDE DEF s, s2, Is, Is2, Ann, Ann2
<1>5. ASSUME s2 = s, row' = row, \A r \in Requests : Ann2(r) <=> Ann(r) PROVE Goal
  BY <1>2, <1>3, <1>5
<1>6. CASE req' = req /\ row' = row /\ log' = log
  BY <1>5, <1>6 DEF s, s2, Ann, Ann2
<1>7. ASSUME NEW x \in Requests, NEW k \in Kinds, NEW w \in Workers, begin(x, k, w)
      PROVE  Goal
  <2>1. /\ req' = [req EXCEPT ![x] = [pc |-> FirstStep(k), kind |-> k, worker |-> w,
                                      room |-> FirstRoom[k]]]
        /\ row' = row /\ log' = log /\ req[x].pc = "new"
    BY <1>7 DEF begin, redis
  <2>2. k = "mode" => FirstStep(k) = "commit"
    BY DEF FirstStep
  <2>3. ~Ann(x) /\ ~Ann2(x)
    BY <1>0, <2>1, <2>2 DEF Ann, Ann2
  <2>4. \A r \in Requests : r # x => req'[r] = req[r]
    BY <1>0, <2>1
  <2>5. \A r \in Requests : Ann2(r) <=> Ann(r)
    BY <2>3, <2>4 DEF Ann, Ann2
  <2> QED BY <1>5, <2>1, <2>5 DEF s, s2
<1>8. ASSUME NEW x \in Requests, commit(x) PROVE Goal
  <2>1. /\ req' = [req EXCEPT ![x].pc = "publish"] /\ log' = log /\ req[x].pc = "commit"
        /\ row' = IF req[x].kind = "mode" THEN x ELSE row
    BY <1>8 DEF commit, redis
  <2>2. \A r \in Requests : r # x => req'[r] = req[r] /\ ~Ann(r)
    <3>1. Running(x)
      BY <2>1, RunningStates
    <3>2. \A r \in Requests : r # x => req[r].pc # "publish"
      BY <1>1, <1>4, <3>1 DEF OneRunning
    <3> QED BY <1>0, <2>1, <3>2 DEF Ann
  <2>3. req'[x].pc = "publish" /\ req'[x].kind = req[x].kind
    BY <1>0, <2>1 DEF Request
  <2>4. CASE req[x].kind = "mode"
    <3>1. Ann2(x) /\ row' = x
      BY <2>1, <2>3, <2>4 DEF Ann2
    <3>2. \A r \in Requests : r # x => ~Ann2(r)
      BY <2>2 DEF Ann, Ann2
    <3> QED BY <3>1, <3>2
  <2>5. CASE req[x].kind # "mode"
    <3>1. ~Ann(x) /\ ~Ann2(x)
      BY <2>3, <2>5 DEF Ann, Ann2
    <3>2. \A r \in Requests : Ann2(r) <=> Ann(r)
      BY <2>2, <3>1 DEF Ann, Ann2
    <3> QED BY <1>5, <2>1, <2>5, <3>2 DEF s, s2
  <2> QED BY <2>4, <2>5
<1>9. ASSUME NEW x \in Requests, publish(x) PROVE Goal
  <2>1. /\ req' = [req EXCEPT ![x].pc = AfterPublish(x)] /\ row' = row
        /\ req[x].pc = "publish"
    BY <1>9 DEF publish
  <2>2. req'[x].pc # "publish" /\ req'[x].kind = req[x].kind
    BY <1>0, <2>1 DEF Request, AfterPublish
  <2>3. \A r \in Requests : r # x => req'[r] = req[r] /\ ~Ann(r)
    <3>1. \A r \in Requests : r # x => req[r].pc # "publish"
      BY <1>1, <1>4, <2>1 DEF OneRunning
    <3> QED BY <1>0, <2>1, <3>1 DEF Ann
  <2>4. \A r \in Requests : ~Ann2(r)
    BY <2>2, <2>3 DEF Ann, Ann2
  <2>5. Ann(x) <=> Is(x)
    BY <2>1 DEF Ann, Is
  <2>6. CASE req[x].room # "signals"
    <3>0. \A n \in Rooms : n # req[x].room => log'[n] = log[n]
      BY <1>9, PublishedLast
    <3>1. s2 = s
      BY <2>6, <3>0 DEF s, s2, Rooms
    <3>2. ~Ann(x)
      BY <1>1, <2>6 DEF Ann, InTurn, ModesToSignals, IsMode
    <3> QED BY <1>5, <2>1, <2>3, <2>4, <3>1, <3>2
  <2>7. CASE req[x].room = "signals"
    <3>1. /\ Len(s) \in Nat /\ Len(s2) = Len(s) + 1 /\ s2[Len(s) + 1] = x
          /\ \A i \in 1 .. Len(s) : s2[i] = s[i]
      <4>1. LET m == req[x].room
            IN  /\ Len(log[m]) \in Nat /\ Len(log'[m]) = Len(log[m]) + 1
                /\ log'[m][Len(log[m]) + 1] = x
                /\ \A i \in 1 .. Len(log[m]) : log'[m][i] = log[m][i]
        BY <1>9, PublishedLast
      <4> QED BY <2>7, <4>1 DEF s, s2
    <3>2. Is2(x) <=> Is(x)
      BY <2>2 DEF Is, Is2
    <3> SUFFICES ASSUME NEW i \in 1 .. Len(s2), Latest2(i) PROVE s2[i] = row'
      BY <2>4
    <3>3. CASE i = Len(s) + 1
      <4>1. Ann(x)
        BY <2>5, <3>1, <3>2, <3>3
      <4> QED BY <1>2, <2>1, <3>1, <3>3, <4>1
    <3>4. CASE i # Len(s) + 1
      <4>1. i \in 1 .. Len(s) /\ Len(s) + 1 \in 1 .. Len(s2) /\ Len(s) + 1 > i
        BY <3>1, <3>4
      <4>2. ~Is2(s2[Len(s) + 1])
        BY <4>1
      <4>3. \A r \in Requests : ~Ann(r)
        BY <2>3, <2>5, <3>1, <3>2, <4>2
      <4>4. \A k \in 1 .. Len(s) : k \in 1 .. Len(s2) /\ s2[k] = s[k]
        BY <3>1
      <4>5. Latest(i)
        BY <1>3, <4>1, <4>4
      <4> QED BY <1>2, <2>1, <4>1, <4>3, <4>4, <4>5
    <3> QED BY <3>3, <3>4
  <2> QED BY <2>6, <2>7
<1>10. ASSUME NEW x \in Requests, req[x].pc = "deliver", req' = AfterDelivery(x),
              log' = log, row' = row
       PROVE  Goal
  <2>1. req[x].kind = "step" /\ req'[x].kind = req[x].kind
    BY <1>10, SecondRoom DEF Shape, OwnBroadcasts
  <2>2. ~Ann(x) /\ ~Ann2(x)
    BY <2>1 DEF Ann, Ann2
  <2>3. \A r \in Requests : Ann2(r) <=> Ann(r)
    BY <1>10, <2>2, SecondRoom DEF Ann, Ann2
  <2> QED BY <1>5, <1>10, <2>3 DEF s, s2
<1>11. Goal
  BY <1>1, <1>6, <1>7, <1>8, <1>9, <1>10, RequestSteps
<1> QED BY <1>11

\* What holds without a fault, and is enough to be complete at rest.
Calm == /\ Subscribed /\ Coming /\ OneRunning /\ DeliversLast /\ LastComes /\ ModesToSignals
        /\ ModeStored

LEMMA CalmInit == Init => Calm
<1> SUFFICES ASSUME Init PROVE Calm
  OBVIOUS
<1>1. /\ \A r \in Requests : req[r] = [pc |-> "new", kind |-> "mode", worker |-> None,
                                       room |-> "signals"]
      /\ \A w \in Workers : link[w]
      /\ rooms = {} /\ log["signals"] = <<>>
  BY DEF Init, Rooms
<1>2. \A r \in Requests : ~Running(r)
  BY <1>1 DEF Running
<1>3. Subscribed /\ Coming /\ LastComes
  BY <1>1 DEF Subscribed, Coming, LastComes
<1>4. OneRunning /\ DeliversLast /\ ModesToSignals
  BY <1>1, <1>2 DEF OneRunning, DeliversLast, ModesToSignals
<1>5. ModeStored
  BY <1>1 DEF ModeStored, Announces
<1> QED BY <1>3, <1>4, <1>5 DEF Calm

LEMMA CalmKept ==
  ASSUME TypeOK, Shape, Connected, Calm, [Next]_vars
  PROVE  Calm'
BY SubscribedStep, ComingStep, OneRunningStep, DeliversLastStep, LastComesStep,
   ModesToSignalsStep, ModeStoredStep DEF Calm

\* At rest nothing is on its way to a socket.
LEMMA RestsWith ==
  ASSUME TypeOK, Connected, AtRest, NEW c \in rooms, sock[c].pc = "open"
  PROVE  LET w == sock[c].worker
         IN  /\ w \in Workers /\ feed[w] = <<>> /\ out[w].todo = {}
             /\ c \in Clients /\ sock[c].room \in Rooms /\ sock[c].since \in Nat
<1>1. sock \in [Clients -> Socket] /\ c \in Clients
  BY TypeParts DEF SocketsOK
<1>2. sock[c].worker \in Workers
  BY <1>1 DEF Connected
<1>3. WellFormed(out[sock[c].worker]) /\ ~Busy(sock[c].worker)
  <2>1. OutOK
    BY TypeParts
  <2>2. sock[c].worker \in DOMAIN out
    BY <1>2, <2>1 DEF OutOK
  <2> QED BY <1>2, <2>1, <2>2 DEF OutOK, AtRest
<1>4. out[sock[c].worker].todo = {}
  BY <1>3 DEF WellFormed, Busy, Nothing
<1> QED BY <1>1, <1>2, <1>4 DEF AtRest, Socket

\* CompleteAtRest is an invariant: without faults, once no request is under way, the
\* dashboards that stayed were sent everything published since they joined and end with
\* the last, and the database has the mode announced last.
THEOREM CompleteCorrect == Spec => []CompleteAtRest
<1> DEFINE Inv == TypeOK /\ Shape /\ Connected /\ Calm
<1>1. Init => Inv
  BY TypeInit, ShapeInit, CreditInit, CalmInit
<1>2. Inv /\ [Next]_vars => Inv'
  BY TypeStep, ShapeStep, ConnectedStep, CalmKept
<1>3. Inv => NothingIsMissed
  <2> SUFFICES ASSUME Inv, faults = 0, AtRest, NEW c \in rooms, sock[c].pc = "open",
                      NEW i \in sock[c].since + 1 .. Len(log[sock[c].room])
               PROVE  Contains(seen[c], log[sock[c].room][i])
    BY DEF NothingIsMissed
  <2>1. Comes(c, log[sock[c].room][i])
    BY DEF Calm, Coming
  <2>2. In(seen[c], log[sock[c].room][i])
    BY <2>1, RestsWith DEF Comes
  <2>3. seen[c] \in Seq(Requests)
    BY RestsWith, TypeParts DEF SocketsOK
  <2> QED BY <2>2, <2>3 DEF In, Contains
<1>4. Inv => LastIsShown
  <2> SUFFICES ASSUME Inv, faults = 0, AtRest, NEW c \in rooms, sock[c].pc = "open",
                      Len(log[sock[c].room]) > sock[c].since,
                      ~overlapped \/ sock[c].room \in {"signals", "alerts"}
               PROVE  seen[c] # <<>> /\ Last(seen[c]) = Last(log[sock[c].room])
    BY DEF LastIsShown
  <2> DEFINE s == log[sock[c].room]
             x == s[Len(s)]
  <2>1. SentLast(c, x)
    BY DEF Calm, LastComes, InOneOrder, Bridged, Settles
  <2> HIDE DEF x
  <2>2. Len(seen[c]) > 0 /\ seen[c][Len(seen[c])] = x
    BY <2>1, RestsWith DEF SentLast
  <2> QED BY <2>2 DEF Last, x
<1>5. Inv => ModeIsRow
  <2> SUFFICES ASSUME Inv, faults = 0, AtRest, ~overlapped
               PROVE  \A i \in 1 .. Len(log["signals"]) :
                        LastMode(i) => log["signals"][i] = row
    BY DEF ModeIsRow
  <2>1. \A r \in Requests : ~Announces(r)
    BY RunningStates DEF AtRest, Announces
  <2> QED BY <2>1 DEF Calm, ModeStored, InTurn
<1>6. Inv => CompleteAtRest
  BY <1>3, <1>4, <1>5 DEF CompleteAtRest
<1> QED BY <1>1, <1>2, <1>6, PTL DEF Spec
=============================================================================
