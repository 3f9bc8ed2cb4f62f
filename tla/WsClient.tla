------------------------------- MODULE WsClient -------------------------------
(***************************************************************************)
(* One channel of the dashboard's WebSocketService,                        *)
(* frontend/dashboard/src/services/websocket.ts.  The maps are keyed by    *)
(* channel and no method touches two, so one channel stands for each.      *)
(*                                                                         *)
(* Page effects and browser callbacks run to completion one at a time: each*)
(* is an action.  The browser's side (external): close() only starts to    *)
(* close a socket, its close event is a later callback.                    *)
(*                                                                         *)
(* sock[s]    the browser's socket s: "free" before it is created and      *)
(*            after its close event, which is its last                     *)
(* current    the entry of `sockets`, or NoSocket                          *)
(* callbacks  the set in `callbacks`                                       *)
(* timer      whether the timeout named in reconnectTimeouts is pending    *)
(* strays     pending timeouts that reconnectTimeouts no longer names      *)
(* attempts   the entry of reconnectAttempts, 0 when there is none         *)
(* beat       the socket pinged by the interval, or NoSocket               *)
(* kept       whether some page stays once one came, so that nothing       *)
(*            disconnects; chosen once                                     *)
(* allowed    whether the browser lets the page construct the socket (not  *)
(*            a ws: address in an https: page); chosen once                *)
(***************************************************************************)
EXTENDS Naturals

CONSTANTS
  Sockets,      \* socket objects; a bound on those that exist together
  NoSocket,
  Pages,        \* mounted components that subscribe
  MaxAttempts,  \* this.maxAttempts
  MaxStrays     \* bound on strays

ASSUME WsClientAssumption ==
  /\ NoSocket \notin Sockets
  /\ MaxAttempts \in Nat /\ MaxStrays \in Nat

VARIABLES sock, current, callbacks, timer, strays, attempts, beat, kept, allowed
chosen == <<kept, allowed>>
vars == <<sock, current, callbacks, timer, strays, attempts, beat, chosen>>

Live == {s \in Sockets : sock[s] \in {"connecting", "open"}}

Init ==
  /\ sock = [s \in Sockets |-> "free"] /\ current = NoSocket
  /\ callbacks = {}
  /\ timer = FALSE /\ strays = 0 /\ attempts = 0
  /\ beat = NoSocket
  /\ kept \in BOOLEAN /\ allowed \in BOOLEAN

-----------------------------------------------------------------------------
(* Methods *)

\* Nothing happens while the channel has an entry in `sockets`.
\* Mutant: the entry is not looked at.
MayConnectAlways == TRUE
MayConnect == current = NoSocket

\* Where the constructor throws, the exception is only logged: no entry, no retry.
connect ==
  IF MayConnect /\ allowed
  THEN \E s \in Sockets :
         /\ sock[s] = "free"
         /\ sock' = [sock EXCEPT ![s] = "connecting"]
         /\ current' = s
  ELSE UNCHANGED <<sock, current>>

disconnect ==
  /\ sock' = [s \in Sockets |-> IF s = current THEN "closing" ELSE sock[s]]
  /\ current' = NoSocket
  /\ timer' = FALSE /\ attempts' = 0 /\ beat' = NoSocket
  /\ UNCHANGED strays

subscribe(p) ==
  /\ p \notin callbacks
  /\ callbacks' = callbacks \cup {p}
  /\ connect
  /\ UNCHANGED <<timer, strays, attempts, beat, chosen>>

\* The last one out disconnects.
unsubscribe(p) ==
  /\ p \in callbacks
  /\ kept => callbacks # {p}
  /\ callbacks' = callbacks \ {p}
  /\ IF callbacks = {p} THEN disconnect
     ELSE UNCHANGED <<sock, current, timer, strays, attempts, beat>>
  /\ UNCHANGED chosen

-----------------------------------------------------------------------------
(* Browser callbacks *)

onopen(s) ==
  /\ sock[s] = "connecting"
  /\ sock' = [sock EXCEPT ![s] = "open"]
  /\ attempts' = 0
  /\ beat' = s
  /\ UNCHANGED <<current, callbacks, timer, strays, chosen>>

\* Mutants: one attempt more than the cap; only a failed retry is retried.
MayRetryOneMore == attempts <= MaxAttempts
MayRetryUnlessFresh == attempts \in 1 .. MaxAttempts - 1
MayRetry == attempts < MaxAttempts

\* The socket failed, was closed by the server, or close() is done.  The handler
\* knows the channel, not whether s is still the channel's socket.
onclose(s) ==
  /\ sock[s] # "free"
  /\ sock' = [sock EXCEPT ![s] = "free"]
  /\ current' = NoSocket /\ beat' = NoSocket
  /\ IF MayRetry
     THEN /\ attempts' = attempts + 1
          /\ timer' = TRUE
          /\ strays' = IF timer THEN strays + 1 ELSE strays
          /\ strays' <= MaxStrays
     ELSE UNCHANGED <<timer, strays, attempts>>
  /\ UNCHANGED <<callbacks, chosen>>

timeout ==
  /\ \/ timer /\ timer' = FALSE /\ UNCHANGED strays
     \/ strays > 0 /\ strays' = strays - 1 /\ UNCHANGED timer
  /\ connect
  /\ UNCHANGED <<callbacks, attempts, beat, chosen>>

Browser == timeout \/ \E s \in Sockets : onopen(s) \/ onclose(s)

Next == Browser \/ \E p \in Pages : subscribe(p) \/ unsubscribe(p)

Spec == Init /\ [][Next]_vars

\* Timeouts expire, a socket that is connecting opens or fails, and one that is
\* closing closes.  A socket that is open may stay open.
SocketAnswers(s) == sock[s] # "open" /\ (onopen(s) \/ onclose(s))
Fairness == WF_vars(timeout) /\ \A s \in Sockets : WF_vars(SocketAnswers(s))
FairSpec == Spec /\ Fairness

-----------------------------------------------------------------------------
(* Properties *)

\* Type invariant; a heartbeat never outlives its socket.
TypeOK ==
  /\ sock \in [Sockets -> {"free", "connecting", "open", "closing"}]
  /\ current \in Sockets \cup {NoSocket}
  /\ callbacks \subseteq Pages
  /\ timer \in BOOLEAN /\ strays \in 0 .. MaxStrays
  /\ attempts \in 0 .. MaxAttempts
  /\ beat \in Sockets \cup {NoSocket}
  /\ beat # NoSocket => sock[beat] # "free"
  /\ kept \in BOOLEAN /\ allowed \in BOOLEAN

\* Where sockets can be constructed, a channel with subscribers never goes quiet for
\* good before the cap is reached: it has a socket or a retry to come, however pages
\* come and go.
AlwaysTrying ==
  allowed /\ callbacks # {} =>
    \/ \E s \in Sockets : sock[s] # "free"
    \/ timer \/ strays > 0
    \/ attempts = MaxAttempts

\* While some page stays, the channel has one connection at most, the one that
\* is registered (a message of the server reaches each callback once), and once
\* open it is the one that is pinged, also when a page that comes during a
\* backoff connects before the timeout does.
OneConnection ==
  kept => \A s \in Live : current = s /\ (sock[s] = "open" => beat = s)

\* Where sockets can be constructed, a channel with subscribers gets an open connection,
\* or uses up its attempts.
Reconnects ==
  allowed /\ callbacks # {} ~> \/ \E s \in Sockets : sock[s] = "open"
                    \/ attempts = MaxAttempts
                    \/ callbacks = {}
=============================================================================
