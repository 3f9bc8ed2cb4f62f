------------------------------ MODULE MqttConsumer ------------------------------
(***************************************************************************)
(* The telemetry consumer of one worker (services/mqtt_consumer.py, and    *)
(* the lifespan of main.py that starts and stops it): the MQTT library's   *)
(* thread hands each reading to the event loop, where a coroutine stores   *)
(* and then announces it, next to the ticker.  stop() runs on the event    *)
(* loop and waits for the thread.                                          *)
(*                                                                         *)
(* phase      where the consumer is: running, stopping, stopped            *)
(* thread     the library's thread: waiting, in the callback, or off       *)
(* stage      where each reading is; they arrive in the order of numbers   *)
(* begun      the number of coroutines that have begun, their clock        *)
(* stamp      the time each reading was given                              *)
(* ticker     where the ticker is                                          *)
(***************************************************************************)
EXTENDS ServiceBounds, FiniteSets

VARIABLES phase, thread, stage, begun, stamp, ticker
vars == <<phase, thread, stage, begun, stamp, ticker>>

Arrivals == 1..Readings
Stages == {"sent", "handled", "ready", "committing", "publishing", "announced", "stored", "lost"}
InStage(s) == {r \in Arrivals : stage[r] = s}
First(S) == CHOOSE r \in S : \A q \in S : r <= q

\* start(), in the lifespan.
Init ==
  /\ phase = "running" /\ thread = "waiting" /\ ticker = "asleep"
  /\ stage = [r \in Arrivals |-> "sent"]
  /\ begun = 0 /\ stamp = [r \in Arrivals |-> 0]

To(r, s) == stage' = [stage EXCEPT ![r] = s]

\* The callback is called with the next reading the broker has.
MessageArrives ==
  /\ thread = "waiting" /\ InStage("sent") # {}
  /\ thread' = "callback" /\ To(First(InStage("sent")), "handled")
  /\ UNCHANGED <<phase, begun, stamp, ticker>>

\* Mutant: the callback waits for the coroutine's result.
AfterHandoffWaits == "callback"
AfterHandoff == "waiting"

\* The callback: what it cannot parse is lost, the rest is handed to the event loop, in
\* the order of its calls.
on_message ==
  \E r \in InStage("handled") :
    /\ To(r, "ready") \/ To(r, "lost")
    /\ thread' = AfterHandoff
    /\ UNCHANGED <<phase, begun, stamp, ticker>>

\* stop() holds the event loop until the thread is off.
LoopTurns == phase # "stopping"

\* Mutant: a reading is given its time when it is stored.
StampedAt == "publishing"
StampedWhen == "committing"

\* The reading r gets to s, and its time if s is where it gets one.
Stamp(r, s) ==
  IF s = StampedWhen
  THEN begun' = begun + 1 /\ stamp' = [stamp EXCEPT ![r] = begun + 1]
  ELSE UNCHANGED <<begun, stamp>>

\* The coroutine begins: a reading that names neither junction nor sensor, or whose
\* numbers are none, is lost.
ProcessBegins ==
  /\ LoopTurns /\ InStage("ready") # {}
  /\ LET r == First(InStage("ready")) IN
       \/ To(r, "committing") /\ Stamp(r, "committing")
       \/ To(r, "lost") /\ UNCHANGED <<begun, stamp>>
  /\ UNCHANGED <<phase, thread, ticker>>

CommitDone(r) ==
  /\ LoopTurns /\ stage[r] = "committing"
  /\ \/ To(r, "publishing") /\ Stamp(r, "publishing")
     \/ To(r, "lost") /\ UNCHANGED <<begun, stamp>>
  /\ UNCHANGED <<phase, thread, ticker>>

PublishDone(r) ==
  /\ LoopTurns /\ stage[r] = "publishing"
  /\ To(r, "announced") \/ To(r, "stored")
  /\ UNCHANGED <<phase, thread, begun, stamp, ticker>>

\* Mutant: a tick that fails is the last one.
AfterFailedTickEnds == "ended"
AfterFailedTick == "asleep"

\* The ticker: asleep, then reading the junctions, then publishing; an error is logged
\* and the ticker sleeps again.
TickerStep ==
  /\ LoopTurns
  /\ \/ ticker = "asleep" /\ ticker' = "reading"
     \/ ticker = "reading" /\ ticker' \in {"publishing", "asleep", AfterFailedTick}
     \/ ticker = "publishing" /\ ticker' \in {"publishing", "asleep", AfterFailedTick}
  /\ UNCHANGED <<phase, thread, stage, begun, stamp>>

\* stop(), at the end of the lifespan: the ticker is cancelled where it waits.
Stop ==
  /\ phase = "running" /\ phase' = "stopping"
  /\ ticker' = "ended"
  /\ UNCHANGED <<thread, stage, begun, stamp>>

\* Mutant: the thread is left alone.
ThreadAfterStopLeft == thread
ThreadAfterStop == "off"

\* loop_stop() returns once the thread is out of its callback.
StopReturns ==
  /\ phase = "stopping" /\ thread = "waiting"
  /\ phase' = "stopped" /\ thread' = ThreadAfterStop
  /\ UNCHANGED <<stage, begun, stamp, ticker>>

Next ==
  \/ MessageArrives \/ on_message \/ ProcessBegins
  \/ \E r \in Arrivals : CommitDone(r) \/ PublishDone(r)
  \/ TickerStep \/ Stop \/ StopReturns
Fairness == WF_vars(on_message) /\ WF_vars(StopReturns) /\ WF_vars(TickerStep)
Spec == Init /\ [][Next]_vars /\ Fairness

(***************************************************************************)
(* Properties.                                                             *)
(***************************************************************************)

\* Every variable has its type.
TypeOK ==
  /\ phase \in {"running", "stopping", "stopped"}
  /\ thread \in {"waiting", "callback", "off"}
  /\ stage \in [Arrivals -> Stages]
  /\ begun \in 0..Readings /\ stamp \in [Arrivals -> 0..Readings]
  /\ ticker \in {"asleep", "reading", "publishing", "ended"}

\* Whatever order the commits end in, the rows' times follow the order of arrival: of two
\* readings that have a time the later one's is the later.
StampsFollowArrival ==
  \A q, r \in Arrivals : q < r /\ stamp[q] # 0 /\ stamp[r] # 0 => stamp[q] < stamp[r]

\* Once stop() has returned the thread hands nothing over any more.
NothingAfterStop == [][phase = "stopped" => UNCHANGED <<thread, InStage("sent")>>]_vars

\* stop() returns: the thread it waits for never waits for the event loop.
StopEnds == phase = "stopping" ~> phase = "stopped"

\* As long as the consumer runs the ticker reads the junctions again and again, however
\* many ticks fail.
TickerGoesOn == []<>(ticker = "reading" \/ phase # "running")
=============================================================================
