---------------------------- MODULE SimulationApi ----------------------------
(***************************************************************************)
(* The simulation endpoints, backend/app/api/simulation.py, in every API   *)
(* worker, with the state they share in Redis and the two engines:         *)
(* MicroSimRunner and simulation/sumo_env.py.                              *)
(*                                                                         *)
(* inst[w]  worker w's sim_instance                                        *)
(* req[w]   the request that holds w's sim_lock: it has Redis's answer     *)
(*          ("start", "step") or waits for Redis to write ("write")        *)
(* store    the key "simulation:state", reduced to what its readers use    *)
(*                                                                         *)
(* deploy   how the system is deployed, chosen once: its worker processes, *)
(*          the engines a start may end up with, and the faults that may   *)
(*          happen: "redis", a Redis call fails and the code goes on       *)
(*          without it; "traci", a call to SUMO raises, and the request    *)
(*          ends with a 500 where it was; "restart", a worker is restarted *)
(*                                                                         *)
(* shown, halted are what the clients were told: the last step number      *)
(* answered, and that a stop was answered with nothing else in progress.   *)
(***************************************************************************)
EXTENDS Integers

CONSTANTS
  Workers,    \* uvicorn worker processes, one sim_lock each
  Deployments,
  Scenarios,  \* demand profiles
  Default,    \* "morning_peak"
  StepSizes,  \* the numbers of steps a request asks for: any integer is accepted
  MaxStep     \* bound on the step counters, either way

ASSUME SimulationAssumption ==
  /\ Deployments \subseteq [workers : SUBSET Workers, engines : SUBSET {"micro", "sumo"},
                            faults : SUBSET {"redis", "traci", "restart"}]
  /\ Default \in Scenarios
  /\ MaxStep \in Nat
  /\ StepSizes \subseteq -MaxStep .. MaxStep

VARIABLES inst, req, store, shown, halted, deploy
vars == <<inst, req, store, shown, halted, deploy>>

Steps == -MaxStep .. MaxStep
States == [running : BOOLEAN, step : Steps, scenario : Scenarios]
State(r, n, sc) == [running |-> r, step |-> n, scenario |-> sc]

\* No key, {"running": False}, a failed read: readers take the same defaults.
Empty == State(FALSE, 0, Default)

NoInstance == [kind |-> "none", state |-> Empty]
Request(pc, op, n, st) == [pc |-> pc, op |-> op, steps |-> n, state |-> st]
Idle == Request("idle", "none", 0, Empty)
IdleAt(w) == req[w].pc = "idle"
RunsLocally(w) == inst[w].state.running

Init ==
  /\ inst = [w \in Workers |-> NoInstance]
  /\ req = [w \in Workers |-> Idle]
  /\ store = Empty
  /\ shown = 0 /\ halted = FALSE
  /\ deploy \in Deployments

RedisFails == "redis" \in deploy.faults
TraciFails == "traci" \in deploy.faults

\* What get_redis_sim_state may return.
Reads == {store} \cup (IF RedisFails THEN {Empty} ELSE {})

\* The request goes on to set_redis_sim_state(st).
Writing(w, op, n, st) == [req EXCEPT ![w] = Request("write", op, n, st)]

-----------------------------------------------------------------------------
(* POST /start *)

\* The request takes the lock and reads Redis.
start_begin(w, sc) ==
  /\ IdleAt(w)
  /\ \E seen \in Reads :
       req' = [req EXCEPT ![w] = Request("start", "start", 0, [seen EXCEPT !.scenario = sc])]
  /\ halted' = FALSE
  /\ UNCHANGED <<inst, store, shown>>

StartRefused(w) == RunsLocally(w) \/ req[w].state.running

start_refuse(w) ==
  /\ req[w].pc = "start" /\ StartRefused(w)
  /\ req' = [req EXCEPT ![w] = Idle]
  /\ UNCHANGED <<inst, store, shown, halted>>

\* SUMO when it is installed and starts, the MicroSimRunner otherwise.
start_run(w, k) ==
  LET st == State(TRUE, 0, req[w].state.scenario)
  IN  /\ req[w].pc = "start" /\ ~StartRefused(w)
      /\ inst' = [inst EXCEPT ![w] = [kind |-> k, state |-> st]]
      /\ req' = Writing(w, "start", 0, st)
      /\ UNCHANGED <<store, shown, halted>>

-----------------------------------------------------------------------------
(* POST /step *)

step_begin(w, n) ==
  /\ IdleAt(w)
  /\ inst[w].state.step + n \in Steps /\ store.step + n \in Steps
  /\ \E seen \in Reads : req' = [req EXCEPT ![w] = Request("step", "step", n, seen)]
  /\ UNCHANGED <<inst, store, shown, halted>>

step_refuse(w) ==
  /\ req[w].pc = "step" /\ ~RunsLocally(w) /\ ~req[w].state.running
  /\ req' = [req EXCEPT ![w] = Idle]
  /\ UNCHANGED <<inst, store, shown, halted>>

\* A worker without a running instance builds a MicroSimRunner from what Redis
\* said, whatever the engine was.
\* Mutant: the step count is not taken over.
HydratedFromZero(w) ==
  IF RunsLocally(w) THEN inst[w]
  ELSE [kind |-> "micro", state |-> State(TRUE, 0, req[w].state.scenario)]
Hydrated(w) ==
  IF RunsLocally(w) THEN inst[w] ELSE [kind |-> "micro", state |-> req[w].state]

\* The payload of a step, as a later reader takes it: the MicroSimRunner's has
\* no scenario, SUMO's neither scenario nor "running" nor "step".
\* Mutant: the counter before the step.
StepPayloadBefore(i) ==
  IF i.kind = "micro" THEN State(TRUE, i.state.step - 1, Default) ELSE Empty
StepPayload(i) ==
  IF i.kind = "micro" THEN State(TRUE, i.state.step, Default) ELSE Empty

\* What n steps add to the counter of an engine: the loop over SUMO's steps does nothing
\* for a number below 1; without the TraCI module, n itself is added, as in the
\* MicroSimRunner.
Forward(n) == IF n > 0 THEN n ELSE 0
Counted(kind, n) == IF kind = "sumo" THEN {n, Forward(n)} ELSE {n}

step_run(w) ==
  /\ req[w].pc = "step" /\ (RunsLocally(w) \/ req[w].state.running)
  /\ \E c \in Counted(Hydrated(w).kind, req[w].steps) :
       LET i == [Hydrated(w) EXCEPT !.state.step = @ + c]
       IN  /\ inst' = [inst EXCEPT ![w] = i]
           /\ req' = Writing(w, "step", req[w].steps, StepPayload(i))
  /\ UNCHANGED <<store, shown, halted>>

\* A call to SUMO raises, in any turn of the loop before or after the turn is counted, or
\* in the report behind the loop: a 500, and what was counted stays.
step_raises(w) ==
  /\ TraciFails
  /\ req[w].pc = "step" /\ RunsLocally(w) /\ inst[w].kind = "sumo"
  /\ \E c \in 0 .. Forward(req[w].steps) : inst' = [inst EXCEPT ![w].state.step = @ + c]
  /\ req' = [req EXCEPT ![w] = Idle]
  /\ UNCHANGED <<store, shown, halted>>

-----------------------------------------------------------------------------
(* POST /stop and /reset: no read, and the local instance first *)

\* Mutant: Redis keeps the state of the run, as a paused one.
StopPayloadKeeps(w) == store
StopPayload(w) == Empty

stop(w) ==
  /\ IdleAt(w)
  /\ inst' = [inst EXCEPT ![w].state.running = FALSE]
  /\ req' = Writing(w, "stop", 0, StopPayload(w))
  /\ UNCHANGED <<store, shown, halted>>

\* traci.close raises, before is_running is cleared: the run goes on, in Redis too.
stop_raises(w) ==
  /\ TraciFails
  /\ IdleAt(w) /\ RunsLocally(w) /\ inst[w].kind = "sumo"
  /\ UNCHANGED <<inst, req, store, shown, halted>>

\* MicroSimRunner.reset stops; SumoEnvironment.reset stops and starts again,
\* also one that was stopped.
AfterReset(i) ==
  [i EXCEPT !.state.running = (i.kind = "sumo"), !.state.step = 0]

reset(w) ==
  /\ IdleAt(w)
  /\ inst' = [inst EXCEPT ![w] = AfterReset(inst[w])]
  /\ req' = Writing(w, "reset", 0, Empty)
  /\ halted' = FALSE
  /\ UNCHANGED <<store, shown>>

\* SumoEnvironment.reset raises: in traci.close, and the run goes on; in traci.start, when
\* the old one is over; or behind it, and the new one runs.  The counter is not set back
\* before all is well, and Redis keeps what it had.
reset_raises(w) ==
  /\ TraciFails
  /\ IdleAt(w) /\ inst[w].kind = "sumo"
  /\ \E r \in BOOLEAN : inst' = [inst EXCEPT ![w].state.running = r]
  /\ halted' = FALSE
  /\ UNCHANGED <<req, store, shown>>

-----------------------------------------------------------------------------
NoOtherRequest(w) == \A v \in Workers \ {w} : IdleAt(v)

\* Redis writes (or deletes), or fails to, and the request is answered.
write(w) ==
  /\ req[w].pc = "write"
  /\ store' \in {req[w].state} \cup (IF RedisFails THEN {store} ELSE {})
  /\ shown' = IF req[w].op = "stop" THEN shown ELSE inst[w].state.step
  /\ halted' = (halted \/ (req[w].op = "stop" /\ NoOtherRequest(w)))
  /\ req' = [req EXCEPT ![w] = Idle]
  /\ UNCHANGED inst

worker_restart(w) ==
  /\ "restart" \in deploy.faults
  /\ inst' = [inst EXCEPT ![w] = NoInstance]
  /\ req' = [req EXCEPT ![w] = Idle]
  /\ UNCHANGED <<store, shown, halted>>

Serve(w) ==
  \/ \E sc \in Scenarios : start_begin(w, sc)
  \/ start_refuse(w)
  \/ \E k \in deploy.engines : start_run(w, k)
  \/ \E n \in StepSizes : step_begin(w, n)
  \/ step_refuse(w) \/ step_run(w) \/ step_raises(w)
  \/ stop(w) \/ stop_raises(w) \/ reset(w) \/ reset_raises(w)
  \/ write(w)

Next ==
  /\ \E w \in deploy.workers : Serve(w) \/ worker_restart(w)
  /\ UNCHANGED deploy

Spec == Init /\ [][Next]_vars

-----------------------------------------------------------------------------
(* Properties *)

\* Type invariant; a worker that never had an instance runs nothing.
TypeOK ==
  /\ inst \in [Workers -> [kind : {"none", "micro", "sumo"}, state : States]]
  /\ req \in [Workers -> [pc : {"idle", "start", "step", "write"},
                          op : {"none", "start", "step", "stop", "reset"},
                          steps : Steps,
                          state : States]]
  /\ store \in States
  /\ shown \in Steps /\ halted \in BOOLEAN
  /\ \A w \in Workers : inst[w].kind = "none" => inst[w].state = Empty
  /\ deploy \in Deployments

\* What GET /state answers on worker w: the local instance before Redis.
get_state(w) == IF RunsLocally(w) THEN inst[w].state ELSE store

\* After an answered stop, until the next start or reset, every worker answers
\* that nothing is running: "API workers maintain zero in-memory session state".
StopStops == halted => \A w \in deploy.workers : ~get_state(w).running

\* One worker serves all requests, and Redis does not fail.
OneWorker == \A v, w \in deploy.workers : v = w
Reliable == OneWorker /\ ~RedisFails

\* That is so for a single worker with either engine, whatever the order of
\* requests, whatever SUMO does and however often the worker is restarted.
StopStopsAlone == Reliable => StopStops

\* Every answered step of a single worker advances the number the clients see by the
\* steps they asked for, also when the worker was restarted and takes the run over from
\* Redis ("Hydrate local instance from Redis state").  SUMO is ahead of that after
\* requests that failed half way, which have counted and never said so, and does not go
\* back when a client asks for less than no step; the MicroSimRunner is exact.
StepsAdvance ==
  [][\A w \in Workers : Reliable /\ write(w) /\ req[w].op = "step" =>
       LET n == req[w].steps
       IN  /\ shown' >= shown + n
           /\ inst[w].kind = "micro" \/ (~TraciFails /\ n >= 0) => shown' = shown + n]_vars

\* With the MicroSimRunner, what a single worker runs is in Redis with its step:
\* a restart loses nothing ("Local simulation instance cache").
RunningIsPublished ==
  Reliable /\ deploy.engines = {"micro"} =>
    \A w \in Workers : IdleAt(w) /\ RunsLocally(w) =>
      store.running /\ store.step = inst[w].state.step

\* Worker, Redis and clients agree on what a worker alone runs or stopped; the variables
\* have their types.
AloneAgrees == TypeOK /\ StopStopsAlone /\ RunningIsPublished

\* The run Redis reports is one that some worker has, or is about to write that it has
\* not.
Backed == store.running => \E w \in Workers : RunsLocally(w) \/ req[w].pc = "write"

\* While Redis answers and no worker dies, one thing alone leaves a run in Redis that no
\* worker has, however two workers' requests interleave and whatever call to SUMO raises:
\* a reset that ended SUMO and could not start it again.  It skips the delete.
RunningIsBacked ==
  [][deploy.faults \subseteq {"traci"} /\ Backed /\ ~Backed' =>
       \E w \in deploy.workers : reset_raises(w)]_vars
=============================================================================
