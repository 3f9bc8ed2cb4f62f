--------------------------- MODULE SimulationProofs ---------------------------
(***************************************************************************)
(* SimulationApi for any deployments and any bound on the steps: its       *)
(* types; that a run Redis reports is lost to all workers by one kind of   *)
(* failure only; and, for a worker alone that may be restarted and whose   *)
(* SUMO may fail, that worker, Redis and the clients agree.                *)
(***************************************************************************)
EXTENDS SimulationApi, TLAPS

Instances == [kind : {"none", "micro", "sumo"}, state : States]
Requests == [pc : {"idle", "start", "step", "write"},
             op : {"none", "start", "step", "stop", "reset"},
             steps : Steps,
             state : States]

\* Integers that lie between the bounds.
LEMMA StepsBounds ==
  /\ Steps \subseteq Int /\ 0 \in Steps /\ StepSizes \subseteq Steps
  /\ \A a \in Steps, b \in Int, c \in Int :
       b <= c /\ a <= a + b /\ a + c \in Steps => a + b \in Steps
BY SimulationAssumption DEF Steps

\* What makes TypeOK inductive: a request that is about to step has room to.
Room(w, r) == inst[w].state.step + r.steps \in Steps /\ r.state.step + r.steps \in Steps
StepInv ==
  /\ TypeOK
  /\ \A w \in Workers : req[w].pc = "step" => Room(w, req[w])

\* Whatever an engine adds for n steps keeps the counter within the bounds.
LEMMA CountedBounds ==
  ASSUME NEW a \in Steps, NEW n \in Steps, a + n \in Steps
  PROVE  /\ \A k : \A c \in Counted(k, n) : c \in Int /\ a + c \in Steps /\ c >= n
         /\ \A c \in Counted("micro", n) : c = n
         /\ n >= 0 => \A k : \A c \in Counted(k, n) : c = n
         /\ \A c \in 0 .. Forward(n) : c \in Int /\ a + c \in Steps /\ a + c >= a
BY SimulationAssumption DEF Steps, Counted, Forward

\* What a deployment is made of.
LEMMA DeployFields ==
  ASSUME TypeOK
  PROVE  deploy.workers \subseteq Workers /\ deploy.engines \subseteq {"micro", "sumo"}
BY SimulationAssumption DEF TypeOK

LEMMA EmptyType == Empty \in States /\ NoInstance \in Instances /\ Idle \in Requests
<1>1. Empty \in States
  BY SimulationAssumption, StepsBounds DEF Empty, State, States
<1> QED BY <1>1, StepsBounds DEF NoInstance, Idle, Request, Instances, Requests

\* Building a state record.
LEMMA StateType ==
  ASSUME NEW r \in BOOLEAN, NEW n \in Steps, NEW sc \in Scenarios
  PROVE  /\ State(r, n, sc) \in States
         /\ State(r, n, sc).running = r
         /\ State(r, n, sc).step = n
BY DEF State, States

\* The fields of a state.
LEMMA StateFields ==
  ASSUME NEW st \in States
  PROVE  st.running \in BOOLEAN /\ st.step \in Steps /\ st.scenario \in Scenarios
BY DEF States

\* A state with the fields of Empty is Empty.
LEMMA EmptyByFields ==
  ASSUME NEW st \in States, st.running = FALSE, st.step = 0, st.scenario = Default
  PROVE  st = Empty
BY DEF Empty, State, States

\* The fields of an instance and of a request.
LEMMA RecordFields ==
  ASSUME TypeOK, NEW w \in Workers
  PROVE  /\ inst[w] \in Instances /\ inst[w].state \in States
         /\ inst[w].kind \in {"none", "micro", "sumo"}
         /\ req[w] \in Requests /\ req[w].state \in States
         /\ req[w].op \in {"none", "start", "step", "stop", "reset"}
         /\ req[w].steps \in Steps
BY DEF TypeOK, Instances, Requests

\* What a read returns is typed, and leaves the room the key leaves.
LEMMA ReadsType ==
  ASSUME TypeOK, NEW seen \in Reads
  PROVE  seen \in States /\ \A n \in Steps : store.step + n \in Steps => seen.step + n \in Steps
<1>1. seen = store \/ seen = Empty
  BY DEF Reads
<1>2. store \in States /\ store.step \in Steps
  BY StateFields DEF TypeOK
<1>3. Empty.step = 0
  BY DEF Empty, State
<1> QED BY <1>1, <1>2, <1>3, EmptyType, StepsBounds

\* Changing one worker's request, or one worker's instance and request, keeps
\* the types when the new records have them.
LEMMA RequestStep ==
  ASSUME StepInv, NEW w \in Workers, NEW r \in Requests,
         req' = [req EXCEPT ![w] = r],
         r.pc = "step" => Room(w, r),
         UNCHANGED <<inst, deploy>>, store' \in States, shown' \in Steps, halted' \in BOOLEAN
  PROVE  StepInv'
<1>1. /\ req' \in [Workers -> Requests]
      /\ \A v \in Workers : req'[v] = IF v = w THEN r ELSE req[v]
  BY DEF StepInv, TypeOK, Requests
<1>2. TypeOK'
  BY <1>1 DEF StepInv, TypeOK, Requests
<1> QED BY <1>1, <1>2 DEF StepInv, Room

LEMMA InstanceStep ==
  ASSUME StepInv, NEW w \in Workers, NEW r \in Requests, NEW i \in Instances,
         req' = [req EXCEPT ![w] = r], r.pc # "step",
         inst' = [inst EXCEPT ![w] = i], i.kind = "none" => i.state = Empty,
         UNCHANGED <<store, shown, deploy>>, halted' \in BOOLEAN
  PROVE  StepInv'
<1>1. /\ req' \in [Workers -> Requests]
      /\ \A v \in Workers : req'[v] = IF v = w THEN r ELSE req[v]
  BY DEF StepInv, TypeOK, Requests
<1>2. /\ inst' \in [Workers -> Instances]
      /\ \A v \in Workers : inst'[v] = IF v = w THEN i ELSE inst[v]
  BY DEF StepInv, TypeOK, Instances
<1>3. TypeOK'
  BY <1>1, <1>2 DEF StepInv, TypeOK, Requests, Instances
<1> QED BY <1>1, <1>2, <1>3 DEF StepInv, Room

\* The record of a request.
LEMMA RequestFields ==
  ASSUME NEW pc, NEW op, NEW n, NEW st
  PROVE  /\ Request(pc, op, n, st).pc = pc /\ Request(pc, op, n, st).op = op
         /\ Request(pc, op, n, st).steps = n /\ Request(pc, op, n, st).state = st
BY DEF Request

LEMMA RequestType ==
  ASSUME NEW pc \in {"start", "step", "write"}, NEW op \in {"start", "step", "stop", "reset"},
         NEW n \in Steps, NEW st \in States
  PROVE  Request(pc, op, n, st) \in Requests
BY DEF Request, Requests

\* The record of a request that waits for Redis to write.
LEMMA WriteRequest ==
  ASSUME NEW st \in States, NEW op \in {"start", "step", "stop", "reset"}, NEW n \in Steps
  PROVE  Request("write", op, n, st) \in Requests /\ Request("write", op, n, st).pc = "write"
BY RequestType, RequestFields

-----------------------------------------------------------------------------
\* What a step leaves in the worker, and what it publishes.
LEMMA StepRunTypes ==
  ASSUME StepInv, NEW w \in Workers, step_run(w),
         NEW c \in Counted(Hydrated(w).kind, req[w].steps)
  PROVE  LET i == [Hydrated(w) EXCEPT !.state.step = @ + c]
         IN  /\ i \in Instances /\ i.kind # "none" /\ i.state.running
             /\ StepPayload(i) \in States
<1> DEFINE h == Hydrated(w)
           i == [Hydrated(w) EXCEPT !.state.step = @ + c]
<1>1. h \in Instances /\ h.state.running /\ h.state.step + req[w].steps \in Steps
  <2>1. CASE RunsLocally(w)
    BY <2>1, RecordFields DEF Hydrated, StepInv, step_run, RunsLocally, Room
  <2>2. CASE ~RunsLocally(w)
    BY <2>2, RecordFields DEF Hydrated, StepInv, step_run, Instances, Room
  <2> QED BY <2>1, <2>2
<1>2. h.kind \in {"micro", "sumo"}
  <2>1. CASE RunsLocally(w)
    <3>1. inst[w].kind # "none"
      BY <2>1 DEF RunsLocally, StepInv, TypeOK, Empty, State
    <3> QED BY <2>1, <3>1, RecordFields DEF Hydrated, StepInv
  <2>2. CASE ~RunsLocally(w)
    BY <2>2 DEF Hydrated
  <2> QED BY <2>1, <2>2
<1>3. /\ h.state \in States /\ h.state.running \in BOOLEAN
      /\ h.state.step \in Steps /\ h.state.scenario \in Scenarios
  BY <1>1, StateFields DEF Instances
<1> DEFINE st == [h.state EXCEPT !.step = @ + c]
<1>a. h.state.step + c \in Steps
  <2>1. req[w].steps \in Steps
    BY RecordFields DEF StepInv
  <2> HIDE DEF h
  <2> QED BY <1>1, <1>3, <2>1, CountedBounds
<1>4. st \in States /\ st.running /\ st.step \in Steps
  <2> HIDE DEF h
  <2> QED BY <1>1, <1>3, <1>a DEF States
<1>5. i = [h EXCEPT !.state = st]
  OBVIOUS
<1> HIDE DEF st
<1>6. i \in Instances /\ i.kind = h.kind /\ i.state = st
  BY <1>1, <1>4, <1>5 DEF Instances
<1>7. StepPayload(i) \in States
  BY <1>4, <1>6, EmptyType, StateType, SimulationAssumption DEF StepPayload
<1> QED BY <1>2, <1>4, <1>6, <1>7

\* StepInv is an invariant, with restarts and Redis failures too: a request that
\* holds the lock of its worker finds the instance as it was when it read Redis.
THEOREM StepInvCorrect == Spec => []StepInv
<1>1. Init => StepInv
  <2> SUFFICES ASSUME Init PROVE StepInv
    OBVIOUS
  <2>1. inst \in [Workers -> Instances] /\ req \in [Workers -> Requests] /\ store \in States
    BY EmptyType DEF Init
  <2>2. shown \in Steps
    BY StepsBounds DEF Init
  <2>3. halted \in BOOLEAN
    BY DEF Init
  <2>4. /\ \A w \in Workers : inst[w].state = Empty /\ req[w].pc # "step"
        /\ deploy \in Deployments
    BY RequestFields DEF Init, NoInstance, Idle
  <2> QED BY <2>1, <2>2, <2>3, <2>4 DEF StepInv, TypeOK, Instances, Requests
<1>2. StepInv /\ [Next]_vars => StepInv'
  <2> SUFFICES ASSUME StepInv, [Next]_vars PROVE StepInv'
    OBVIOUS
  <2>D. /\ UNCHANGED deploy
        /\ deploy.workers \subseteq Workers /\ deploy.engines \subseteq {"micro", "sumo"}
    BY DeployFields DEF StepInv, Next, vars
  <2>T. /\ TypeOK /\ store \in States /\ shown \in Steps /\ halted \in BOOLEAN
    BY DEF StepInv, TypeOK
  <2>1. ASSUME NEW w \in Workers, NEW sc \in Scenarios, start_begin(w, sc)
        PROVE  StepInv'
    <3>1. PICK seen \in Reads :
            req' = [req EXCEPT ![w] =
                      Request("start", "start", 0, [seen EXCEPT !.scenario = sc])]
      BY <2>1 DEF start_begin
    <3>2. [seen EXCEPT !.scenario = sc] \in States
      BY <2>T, ReadsType DEF States
    <3> DEFINE r == Request("start", "start", 0, [seen EXCEPT !.scenario = sc])
    <3>3. r \in Requests /\ r.pc # "step"
      BY <3>2, StepsBounds, RequestType, RequestFields
    <3>4. UNCHANGED <<inst, store, shown>> /\ halted' = FALSE
      BY <2>1 DEF start_begin
    <3> HIDE DEF r
    <3>5. store' \in States /\ shown' \in Steps /\ halted' \in BOOLEAN
      BY <2>T, <3>4
    <3>6. req' = [req EXCEPT ![w] = r]
      BY <3>1 DEF r
    <3> QED BY <3>3, <3>4, <3>5, <3>6, <2>D, RequestStep
  <2>2. ASSUME NEW w \in Workers, start_refuse(w) \/ step_refuse(w)
        PROVE  StepInv'
    <3>1. req' = [req EXCEPT ![w] = Idle] /\ UNCHANGED <<inst, store, shown, halted>>
      BY <2>2 DEF start_refuse, step_refuse
    <3>2. Idle.pc # "step"
      BY RequestFields DEF Idle
    <3> QED BY <2>T, <3>1, <3>2, EmptyType, <2>D, RequestStep
  <2>3. ASSUME NEW w \in Workers, NEW k \in deploy.engines, start_run(w, k)
        PROVE  StepInv'
    <3> DEFINE st == State(TRUE, 0, req[w].state.scenario)
               r == Request("write", "start", 0, st)
               i == [kind |-> k, state |-> st]
    <3>0. req[w].state.scenario \in Scenarios /\ 0 \in Steps
      BY <2>T, RecordFields, StateFields, StepsBounds
    <3>1. st \in States
      BY <3>0, StateType
    <3>2. i \in Instances /\ i.kind # "none"
      BY <3>1, <2>D DEF Instances
    <3>3. r \in Requests /\ r.pc # "step"
      BY <3>0, <3>1, WriteRequest
    <3>4. /\ req' = [req EXCEPT ![w] = r] /\ inst' = [inst EXCEPT ![w] = i]
          /\ UNCHANGED <<store, shown, halted>>
      BY <2>3 DEF start_run, Writing
    <3> HIDE DEF r, i
    <3> QED BY <2>T, <3>2, <3>3, <3>4, <2>D, InstanceStep
  <2>4. ASSUME NEW w \in Workers, NEW n \in StepSizes, step_begin(w, n) PROVE StepInv'
    <3>0. n \in Steps
      BY StepsBounds
    <3>1. PICK seen \in Reads : req' = [req EXCEPT ![w] = Request("step", "step", n, seen)]
      BY <2>4 DEF step_begin
    <3> DEFINE r == Request("step", "step", n, seen)
    <3>2. r \in Requests /\ r.state = seen /\ r.steps = n
      BY <2>T, <3>0, ReadsType, RequestType, RequestFields
    <3>3. inst[w].state.step + n \in Steps /\ seen.step + n \in Steps
      BY <2>4, <2>T, <3>0, ReadsType DEF step_begin
    <3>4. UNCHANGED <<inst, store, shown, halted>>
      BY <2>4 DEF step_begin
    <3>5. req' = [req EXCEPT ![w] = r]
      BY <3>1
    <3> HIDE DEF r
    <3> QED BY <2>T, <3>2, <3>3, <3>4, <3>5, <2>D, RequestStep DEF Room
  <2>5. ASSUME NEW w \in Workers, step_run(w) PROVE StepInv'
    <3>0. PICK c \in Counted(Hydrated(w).kind, req[w].steps) :
            LET i == [Hydrated(w) EXCEPT !.state.step = @ + c]
            IN  /\ inst' = [inst EXCEPT ![w] = i]
                /\ req' = Writing(w, "step", req[w].steps, StepPayload(i))
      BY <2>5 DEF step_run
    <3> DEFINE i == [Hydrated(w) EXCEPT !.state.step = @ + c]
               r == Request("write", "step", req[w].steps, StepPayload(i))
    <3>1. i \in Instances /\ i.kind # "none" /\ StepPayload(i) \in States
      BY <2>5, StepRunTypes
    <3>2. r \in Requests /\ r.pc # "step"
      BY <2>T, <3>1, RecordFields, WriteRequest
    <3>3. /\ req' = [req EXCEPT ![w] = r] /\ inst' = [inst EXCEPT ![w] = i]
          /\ UNCHANGED <<store, shown, halted>>
      BY <2>5, <3>0 DEF step_run, Writing
    <3> HIDE DEF r, i
    <3> QED BY <2>T, <3>1, <3>2, <3>3, <2>D, InstanceStep
  <2>6. ASSUME NEW w \in Workers, stop(w) PROVE StepInv'
    <3> DEFINE i == [inst[w] EXCEPT !.state.running = FALSE]
               r == Request("write", "stop", 0, Empty)
    <3>0. inst[w] \in Instances /\ (inst[w].kind = "none" => inst[w].state = Empty)
      BY <2>T, RecordFields DEF TypeOK
    <3>1. i \in Instances /\ i.kind = inst[w].kind
      BY <3>0 DEF Instances, States
    <3>2. i.kind = "none" => i.state = Empty
      <4>1. /\ i.state \in States /\ i.state.running = FALSE
            /\ i.state.step = inst[w].state.step
            /\ i.state.scenario = inst[w].state.scenario
        BY <3>0 DEF Instances, States
      <4>2. Empty.step = 0 /\ Empty.scenario = Default
        BY DEF Empty, State
      <4> QED BY <3>0, <3>1, <4>1, <4>2, EmptyByFields
    <3>3. r \in Requests /\ r.pc # "step"
      BY EmptyType, StepsBounds, WriteRequest
    <3>4. /\ req' = [req EXCEPT ![w] = r] /\ inst' = [inst EXCEPT ![w] = i]
          /\ UNCHANGED <<store, shown, halted>>
      BY <2>6 DEF stop, Writing, StopPayload
    <3> HIDE DEF r, i
    <3> QED BY <2>T, <3>1, <3>2, <3>3, <3>4, <2>D, InstanceStep
  <2>7. ASSUME NEW w \in Workers, reset(w) PROVE StepInv'
    <3> DEFINE i == AfterReset(inst[w])
               r == Request("write", "reset", 0, Empty)
    <3> DEFINE st == [inst[w].state EXCEPT !.running = (inst[w].kind = "sumo"), !.step = 0]
    <3>0. inst[w] \in Instances /\ (inst[w].kind = "none" => inst[w].state = Empty)
      BY <2>T, RecordFields DEF TypeOK
    <3>a. st \in States /\ st.running = (inst[w].kind = "sumo") /\ st.step = 0
          /\ st.scenario = inst[w].state.scenario
      <4>1. (inst[w].kind = "sumo") \in BOOLEAN /\ 0 \in Steps
        BY StepsBounds
      <4> QED BY <3>0, <4>1 DEF Instances, States
    <3>b. i = [inst[w] EXCEPT !.state = st]
      BY <3>0 DEF AfterReset, Instances
    <3> HIDE DEF i, st
    <3>c. i.state = st
      BY <3>b, <3>0 DEF Instances
    <3>1. i \in Instances /\ i.kind = inst[w].kind
      BY <3>0, <3>a, <3>b DEF Instances
    <3>2. i.kind = "none" => i.state = Empty
      <4>1. Empty.scenario = Default
        BY DEF Empty, State
      <4>2. i.kind = "none" => st.running = FALSE
        BY <3>a, <3>1
      <4> QED BY <3>0, <3>a, <3>c, <3>1, <4>1, <4>2, EmptyByFields
    <3> USE DEF i
    <3>3. r \in Requests /\ r.pc # "step"
      BY EmptyType, StepsBounds, WriteRequest
    <3>4. /\ req' = [req EXCEPT ![w] = r] /\ inst' = [inst EXCEPT ![w] = i]
          /\ UNCHANGED <<store, shown>> /\ halted' = FALSE
      BY <2>7 DEF reset, Writing
    <3> HIDE DEF r, i
    <3> QED BY <2>T, <3>1, <3>2, <3>3, <3>4, <2>D, InstanceStep
  <2>8. ASSUME NEW w \in Workers, write(w) PROVE StepInv'
    <3>1. req' = [req EXCEPT ![w] = Idle] /\ UNCHANGED inst
      BY <2>8 DEF write
    <3>2. store' \in States
      BY <2>8, <2>T, RecordFields DEF write
    <3>3. shown' \in Steps
      BY <2>8, <2>T, RecordFields, StateFields DEF write
    <3>4. halted' \in BOOLEAN
      BY <2>8 DEF write
    <3>5. Idle.pc # "step"
      BY RequestFields DEF Idle
    <3> QED BY <3>1, <3>2, <3>3, <3>4, <3>5, EmptyType, <2>D, RequestStep
  <2>9. ASSUME NEW w \in Workers, worker_restart(w) PROVE StepInv'
    <3>1. Idle.pc # "step" /\ NoInstance.state = Empty
      BY RequestFields DEF Idle, NoInstance
    <3>2. /\ req' = [req EXCEPT ![w] = Idle] /\ inst' = [inst EXCEPT ![w] = NoInstance]
          /\ UNCHANGED <<store, shown, halted>>
      BY <2>9 DEF worker_restart
    <3> QED BY <2>T, <3>1, <3>2, EmptyType, <2>D, InstanceStep
  <2>10. CASE UNCHANGED vars
    BY <2>10 DEF vars, StepInv, TypeOK, Room
  <2>11. ASSUME NEW w \in Workers, step_raises(w) PROVE StepInv'
    <3>1. PICK c \in 0 .. Forward(req[w].steps) : inst' = [inst EXCEPT ![w].state.step = @ + c]
      BY <2>11 DEF step_raises
    <3> DEFINE st == [inst[w].state EXCEPT !.step = @ + c]
               i == [inst[w] EXCEPT !.state = st]
    <3>2. inst[w].state.step + c \in Steps
      <4>1. req[w].steps \in Steps /\ inst[w].state.step \in Steps
            /\ inst[w].state.step + req[w].steps \in Steps
        BY <2>T, <2>11, RecordFields, StateFields DEF StepInv, Room, step_raises
      <4> QED BY <4>1, CountedBounds
    <3>3. inst[w] \in Instances /\ inst[w].state \in States /\ inst[w].kind = "sumo"
      BY <2>T, <2>11, RecordFields DEF step_raises
    <3>4. st \in States
      BY <3>2, <3>3 DEF States
    <3>5. inst' = [inst EXCEPT ![w] = i]
      BY <2>T, <3>1, <3>3 DEF TypeOK, Instances
    <3> HIDE DEF st
    <3>6. i \in Instances /\ i.kind # "none"
      BY <3>3, <3>4 DEF Instances
    <3>7. req' = [req EXCEPT ![w] = Idle] /\ UNCHANGED <<store, shown, halted>> /\ Idle.pc # "step"
      BY <2>11, RequestFields DEF step_raises, Idle
    <3> HIDE DEF i
    <3> QED BY <2>T, <3>5, <3>6, <3>7, EmptyType, <2>D, InstanceStep
  <2>12. ASSUME NEW w \in Workers, reset_raises(w) PROVE StepInv'
    <3>1. PICK b \in BOOLEAN : inst' = [inst EXCEPT ![w].state.running = b]
      BY <2>12 DEF reset_raises
    <3> DEFINE st == [inst[w].state EXCEPT !.running = b]
               i == [inst[w] EXCEPT !.state = st]
    <3>3. inst[w] \in Instances /\ inst[w].state \in States /\ inst[w].kind = "sumo"
      BY <2>T, <2>12, RecordFields DEF reset_raises
    <3>4. st \in States
      BY <3>3 DEF States
    <3>5. inst' = [inst EXCEPT ![w] = i]
      BY <2>T, <3>1, <3>3 DEF TypeOK, Instances
    <3> HIDE DEF st
    <3>6. i \in Instances /\ i.kind # "none"
      BY <3>3, <3>4 DEF Instances
    <3>7. /\ req' = [req EXCEPT ![w] = req[w]] /\ UNCHANGED <<store, shown>> /\ halted' = FALSE
          /\ req[w] \in Requests /\ req[w].pc # "step"
      BY <2>T, <2>12, RecordFields DEF reset_raises, TypeOK, IdleAt
    <3> HIDE DEF i
    <3> QED BY <2>T, <3>5, <3>6, <3>7, <2>D, InstanceStep
  <2>13. ASSUME NEW w \in Workers, stop_raises(w) PROVE StepInv'
    BY <2>10, <2>13, <2>D DEF stop_raises, vars
  <2> QED BY <2>1, <2>2, <2>3, <2>4, <2>5, <2>6, <2>7, <2>8, <2>9, <2>10, <2>11, <2>12, <2>13, <2>D
      DEF Next, Serve
<1> QED BY <1>1, <1>2, PTL DEF Spec

\* TypeOK is an invariant: a worker that never had an instance runs nothing, and
\* no counter passes its bound.
THEOREM TypeCorrect == Spec => []TypeOK
<1>1. StepInv => TypeOK
  BY DEF StepInv
<1> QED BY <1>1, StepInvCorrect, PTL

-----------------------------------------------------------------------------
\* What a state that is about to be written says: "running" only for a worker that runs.
Honest ==
  deploy.faults \subseteq {"traci"} => \A w \in Workers :
    req[w].pc = "write" /\ req[w].state.running => RunsLocally(w)

\* What a step keeps, unless it is a reset that raises.
Keeps == Honest' /\ (deploy.faults \subseteq {"traci"} /\ Backed => Backed')

LEMMA BackedStep ==
  ASSUME StepInv, Honest, [Next]_vars
  PROVE  Honest' /\ (Keeps \/ \E w \in deploy.workers : reset_raises(w))
<1>T. /\ req \in [Workers -> Requests] /\ inst \in [Workers -> Instances]
  BY DEF StepInv, TypeOK, Requests, Instances
<1>D. UNCHANGED deploy /\ deploy.workers \subseteq Workers
  BY DeployFields DEF StepInv, Next, vars
<1>1. ASSUME NEW w \in Workers, NEW r,
             req' = [req EXCEPT ![w] = r], r.pc # "write", req[w].pc # "write",
             UNCHANGED store,
             \A v \in Workers : RunsLocally(v)' <=> RunsLocally(v)
      PROVE  Keeps
  BY <1>1, <1>T, <1>D DEF Honest, Keeps, Backed
<1>2. ASSUME NEW w \in Workers, NEW r, NEW i,
             req' = [req EXCEPT ![w] = r], r.pc = "write",
             inst' = [inst EXCEPT ![w] = i], r.state.running => i.state.running,
             UNCHANGED store
      PROVE  Keeps
  BY <1>2, <1>T, <1>D DEF Honest, Keeps, Backed, RunsLocally
<1>3. ASSUME NEW w \in Workers, NEW sc \in Scenarios, start_begin(w, sc)
      PROVE  Keeps
  BY <1>1, <1>3 DEF Request, start_begin, IdleAt, RunsLocally
<1>4. ASSUME NEW w \in Workers, start_refuse(w) \/ step_refuse(w)
      PROVE  Keeps
  BY <1>1, <1>4, RequestFields DEF start_refuse, step_refuse, Idle, RunsLocally
<1>5. ASSUME NEW w \in Workers, NEW n \in StepSizes, step_begin(w, n) PROVE Keeps
  BY <1>1, <1>5 DEF Request, step_begin, IdleAt, RunsLocally
<1>6. ASSUME NEW w \in Workers, NEW k \in deploy.engines, start_run(w, k)
      PROVE  Keeps
  <2> DEFINE st == State(TRUE, 0, req[w].state.scenario)
             r == Request("write", "start", 0, st)
             i == [kind |-> k, state |-> st]
  <2>1. r.pc = "write" /\ r.state = st /\ i.state = st
    BY DEF Request
  <2>2. /\ req' = [req EXCEPT ![w] = r] /\ inst' = [inst EXCEPT ![w] = i]
        /\ UNCHANGED store
    BY <1>6 DEF start_run, Writing
  <2> HIDE DEF i, r, st
  <2> QED BY <1>2, <2>1, <2>2
<1>7. ASSUME NEW w \in Workers, step_run(w) PROVE Keeps
  <2>0. PICK c \in Counted(Hydrated(w).kind, req[w].steps) :
          LET i == [Hydrated(w) EXCEPT !.state.step = @ + c]
          IN  /\ inst' = [inst EXCEPT ![w] = i]
              /\ req' = Writing(w, "step", req[w].steps, StepPayload(i))
    BY <1>7 DEF step_run
  <2> DEFINE i == [Hydrated(w) EXCEPT !.state.step = @ + c]
             r == Request("write", "step", req[w].steps, StepPayload(i))
  <2>1. i.state.running
    BY <1>7, StepRunTypes
  <2>2. r.pc = "write"
    BY RequestFields
  <2>3. /\ req' = [req EXCEPT ![w] = r] /\ inst' = [inst EXCEPT ![w] = i]
        /\ UNCHANGED store
    BY <1>7, <2>0 DEF step_run, Writing
  <2> HIDE DEF i, r
  <2> QED BY <1>2, <2>1, <2>2, <2>3
<1>8. ASSUME NEW w \in Workers, stop(w) \/ reset(w) PROVE Keeps
  <2>1. PICK op \in {"stop", "reset"} : req' = [req EXCEPT ![w] = Request("write", op, 0, Empty)]
    BY <1>8 DEF stop, reset, Writing, StopPayload
  <2>2. PICK i : inst' = [inst EXCEPT ![w] = i]
    BY <1>8 DEF stop, reset
  <2>3. Empty.running = FALSE
    BY DEF Empty, State
  <2> QED BY <1>2, <1>8, <2>1, <2>2, <2>3 DEF Request, stop, reset
<1>9. ASSUME NEW w \in Workers, write(w) PROVE Keeps
  <2>1. /\ req' = [req EXCEPT ![w] = Idle] /\ UNCHANGED inst /\ Idle.pc = "idle"
        /\ deploy.faults \subseteq {"traci"} => store' = req[w].state
        /\ req[w].pc = "write"
    BY <1>9, RequestFields DEF write, RedisFails, Idle
  <2>2. Honest'
    BY <1>T, <1>D, <2>1 DEF Honest, RunsLocally
  <2>3. deploy.faults \subseteq {"traci"} /\ store'.running => RunsLocally(w)'
    BY <2>1 DEF Honest, RunsLocally
  <2> QED BY <2>2, <2>3 DEF Keeps, Backed
<1>10. ASSUME NEW w \in Workers, worker_restart(w) PROVE Keeps
  <2>1. ~(deploy.faults \subseteq {"traci"})
    BY <1>10 DEF worker_restart
  <2> QED BY <1>D, <2>1 DEF Keeps, Honest
<1>11. ASSUME UNCHANGED <<inst, req, store>> PROVE Keeps
  BY <1>11, <1>D DEF Keeps, Honest, Backed, RunsLocally
<1>12. ASSUME NEW w \in Workers, step_raises(w) PROVE Keeps
  <2>1. PICK c : inst' = [inst EXCEPT ![w].state.step = @ + c]
    BY <1>12 DEF step_raises
  <2>2. inst[w] \in Instances /\ inst[w].state \in States
    BY RecordFields DEF StepInv
  <2>3. inst'[w].state.running = inst[w].state.running
    BY <1>T, <2>1, <2>2 DEF Instances, States
  <2>4. \A v \in Workers : RunsLocally(v)' <=> RunsLocally(v)
    BY <1>T, <2>1, <2>3 DEF RunsLocally
  <2>5. /\ req' = [req EXCEPT ![w] = Idle] /\ req[w].pc = "step" /\ UNCHANGED store
    BY <1>12 DEF step_raises
  <2>6. Idle.pc = "idle"
    BY DEF Idle, Request
  <2> QED BY <1>1, <2>4, <2>5, <2>6
<1>13. ASSUME NEW w \in Workers, reset_raises(w) PROVE Honest'
  BY <1>13, <1>T, <1>D DEF reset_raises, Honest, RunsLocally, IdleAt
<1>14. ASSUME NEW w \in Workers, stop_raises(w) PROVE Keeps
  BY <1>11, <1>14 DEF stop_raises
<1>15. Keeps => Honest'
  BY DEF Keeps
<1>16. CASE UNCHANGED vars
  BY <1>11, <1>15, <1>16 DEF vars
<1>17. ASSUME NEW w \in deploy.workers, Serve(w) \/ worker_restart(w)
       PROVE  Honest' /\ (Keeps \/ \E v \in deploy.workers : reset_raises(v))
  <2>1. w \in Workers
    BY <1>D
  <2> QED BY <1>3, <1>4, <1>5, <1>6, <1>7, <1>8, <1>9, <1>10, <1>12, <1>13, <1>14, <1>15, <1>17,
             <2>1 DEF Serve
<1> QED BY <1>16, <1>17 DEF Next

\* RunningIsBacked, for any number of workers with either engine: while Redis answers and
\* no worker dies, a run that Redis reports is lost to all workers only by a reset that
\* raised; every stop, reset and step that takes the run away from its worker has still to
\* tell Redis.
THEOREM BackedCorrect == Spec => RunningIsBacked
<1> DEFINE Lost == deploy.faults \subseteq {"traci"} /\ Backed /\ ~Backed' =>
                     \E w \in deploy.workers : reset_raises(w)
<1>1. Init => Honest
  BY RequestFields DEF Init, Honest, Idle
<1>2. StepInv /\ Honest /\ [Next]_vars => Honest'
  BY BackedStep
<1>3. StepInv /\ Honest /\ [Next]_vars => [Lost]_vars
  <2> SUFFICES ASSUME StepInv, Honest, [Next]_vars,
                      deploy.faults \subseteq {"traci"}, Backed, ~Backed'
               PROVE  \E w \in deploy.workers : reset_raises(w)
    OBVIOUS
  <2> QED BY BackedStep DEF Keeps
<1>4. Spec => []Honest
  BY <1>1, <1>2, StepInvCorrect, PTL DEF Spec
<1> QED BY <1>3, <1>4, StepInvCorrect, PTL DEF Spec, RunningIsBacked

-----------------------------------------------------------------------------
\* What holds of a worker alone: its instance i and request r against the key s, the step n
\* last answered and whether a stop was (h); m says that SUMO is not installed, x that its
\* calls do not raise.
AloneState(m, x, i, r, s, n, h) ==
  /\ s.running => s.step = n
  /\ h => ~s.running /\ ~i.state.running
  /\ m => i.kind # "sumo"
  /\ r.pc # "write" /\ (i.kind = "sumo" \/ i.state.running) => i.state.step >= n
  /\ r.pc # "write" /\ i.state.running =>
       (i.kind = "micro" \/ x => i.state.step = n) /\ (m => s.running)
  /\ r.pc = "start" => ~h
  /\ r.pc = "step" => r.state = s
  /\ r.pc = "write" =>
       /\ r.state.running => r.state.step = i.state.step /\ r.op # "stop"
       /\ i.state.running => r.op # "stop" /\ (m => r.state.running)
       /\ r.op = "step" =>
            /\ i.state.step >= n + r.steps
            /\ i.kind = "micro" \/ (x /\ r.steps >= 0) => i.state.step = n + r.steps
       /\ r.op = "stop" /\ i.kind = "sumo" => i.state.step >= n
       /\ h => r.op = "stop"

Micro == deploy.engines = {"micro"}
AloneAt(w) == AloneState(Micro, ~TraciFails, inst[w], req[w], store, shown, halted)

\* Workers that are not deployed do nothing.
Absent == \A w \in Workers \ deploy.workers : inst[w] = NoInstance /\ req[w] = Idle

AloneInv == Absent /\ (Reliable => \A w \in deploy.workers : AloneAt(w))

\* One worker's request, and its instance too, changes nobody else's.
LEMMA AbsentStep ==
  ASSUME StepInv, Absent, NEW w \in deploy.workers, UNCHANGED deploy, NEW r, NEW i,
         req' = [req EXCEPT ![w] = r], inst' = [inst EXCEPT ![w] = i]
  PROVE  Absent' /\ req'[w] = r /\ inst'[w] = i
BY DeployFields DEF StepInv, TypeOK, Absent

\* What a step of a worker alone does to the facts about it.
LEMMA AloneStep ==
  ASSUME StepInv, AloneInv, Reliable, NEW w \in deploy.workers, UNCHANGED deploy,
         Serve(w) \/ worker_restart(w)
  PROVE  AloneAt(w)'
<1> DEFINE i == inst[w]
           r == req[w]
           m == Micro
           x == ~TraciFails
<1>1. /\ AloneState(m, x, i, r, store, shown, halted) /\ m' = m /\ x' = x /\ w \in Workers
      /\ Reads = {store} /\ TypeOK
  BY DeployFields DEF StepInv, AloneInv, AloneAt, Micro, TraciFails, Reads, Reliable
<1>2. /\ i.state \in States /\ r.state \in States /\ store \in States /\ halted \in BOOLEAN
      /\ i.kind = "none" => i.state = Empty
      /\ r.op \in {"none", "start", "step", "stop", "reset"}
      /\ r.steps \in Int /\ shown \in Int
      /\ i.kind \in {"none", "micro", "sumo"}
      /\ inst \in [Workers -> Instances] /\ req \in [Workers -> Requests]
  BY <1>1, RecordFields, StepsBounds DEF TypeOK, Instances, Requests
<1>3. Empty.running = FALSE /\ Idle.pc = "idle" /\ Idle.op = "none"
  BY RequestFields DEF Empty, State, Idle
<1>4. \A st \in States : st.running \in BOOLEAN /\ st.step \in Int
  BY StateFields, StepsBounds
<1>5. ASSUME NEW r2, req' = [req EXCEPT ![w] = r2], UNCHANGED <<inst, store, shown>>,
             AloneState(m, x, i, r2, store, shown, halted')
      PROVE  AloneAt(w)'
  BY <1>1, <1>2, <1>5 DEF AloneAt
<1>6. ASSUME NEW r2, NEW i2, req' = [req EXCEPT ![w] = r2], inst' = [inst EXCEPT ![w] = i2],
             UNCHANGED <<store, shown>>, AloneState(m, x, i2, r2, store, shown, halted')
      PROVE  AloneAt(w)'
  BY <1>1, <1>2, <1>6 DEF AloneAt
<1>7. ASSUME NEW sc \in Scenarios, start_begin(w, sc) PROVE AloneAt(w)'
  <2> DEFINE r2 == Request("start", "start", 0, [store EXCEPT !.scenario = sc])
  <2>1. req' = [req EXCEPT ![w] = r2] /\ UNCHANGED <<inst, store, shown>> /\ halted' = FALSE
    BY <1>1, <1>7 DEF start_begin
  <2>2. r2.pc = "start" /\ r.pc = "idle"
    BY <1>7, RequestFields DEF start_begin, IdleAt
  <2> HIDE DEF r2
  <2>3. AloneState(m, x, i, r2, store, shown, FALSE)
    BY <1>1, <2>2 DEF AloneState
  <2> QED BY <1>5, <2>1, <2>3
<1>8. ASSUME start_refuse(w) \/ step_refuse(w) PROVE AloneAt(w)'
  <2>1. /\ req' = [req EXCEPT ![w] = Idle] /\ UNCHANGED <<inst, store, shown, halted>>
        /\ r.pc # "write"
    BY <1>8 DEF start_refuse, step_refuse
  <2>2. AloneState(m, x, i, Idle, store, shown, halted)
    BY <1>1, <1>3, <2>1 DEF AloneState
  <2> QED BY <1>5, <2>1, <2>2
<1>9. ASSUME NEW k \in deploy.engines, start_run(w, k) PROVE AloneAt(w)'
  <2> DEFINE st == State(TRUE, 0, r.state.scenario)
             r2 == Request("write", "start", 0, st)
             i2 == [kind |-> k, state |-> st]
  <2>1. /\ req' = [req EXCEPT ![w] = r2] /\ inst' = [inst EXCEPT ![w] = i2]
        /\ UNCHANGED <<store, shown, halted>> /\ r.pc = "start"
    BY <1>9 DEF start_run, Writing
  <2>2. st.running = TRUE /\ st.step = 0
    BY DEF State
  <2>3. m => k # "sumo"
    BY <1>9 DEF Micro
  <2>4. /\ r2.pc = "write" /\ r2.op = "start" /\ r2.state = st
        /\ i2.kind = k /\ i2.state = st
    BY DEF Request
  <2> HIDE DEF r2, i2, st
  <2>5. AloneState(m, x, i2, r2, store, shown, halted)
    BY <1>1, <2>1, <2>2, <2>3, <2>4 DEF AloneState
  <2> QED BY <1>6, <2>1, <2>5
<1>10. ASSUME NEW k \in StepSizes, step_begin(w, k) PROVE AloneAt(w)'
  <2> DEFINE r2 == Request("step", "step", k, store)
  <2>1. /\ req' = [req EXCEPT ![w] = r2] /\ UNCHANGED <<inst, store, shown, halted>>
        /\ r.pc = "idle"
    BY <1>1, <1>10 DEF step_begin, IdleAt
  <2>2. r2.pc = "step" /\ r2.state = store
    BY RequestFields
  <2> HIDE DEF r2
  <2>3. AloneState(m, x, i, r2, store, shown, halted)
    BY <1>1, <2>1, <2>2 DEF AloneState
  <2> QED BY <1>5, <2>1, <2>3
<1>11. ASSUME step_run(w) PROVE AloneAt(w)'
  <2> DEFINE h == Hydrated(w)
  <2>c. PICK c \in Counted(h.kind, r.steps) :
          LET j == [h EXCEPT !.state.step = @ + c]
          IN  /\ inst' = [inst EXCEPT ![w] = j]
              /\ req' = Writing(w, "step", r.steps, StepPayload(j))
    BY <1>11 DEF step_run
  <2> DEFINE i2 == [h EXCEPT !.state.step = @ + c]
             r2 == Request("write", "step", r.steps, StepPayload(i2))
  <2>1. /\ req' = [req EXCEPT ![w] = r2] /\ inst' = [inst EXCEPT ![w] = i2]
        /\ UNCHANGED <<store, shown, halted>> /\ r.pc = "step"
        /\ i.state.running \/ r.state.running
    BY <1>11, <2>c DEF step_run, Writing, RunsLocally
  <2>2. /\ h \in Instances /\ h.state.running /\ h.state.step >= shown /\ ~halted
        /\ h.kind = "micro" \/ x => h.state.step = shown
        /\ m => h.kind = "micro"
        /\ h.kind \in {"micro", "sumo"} /\ h.state.step \in Int
    <3>1. CASE RunsLocally(w)
      <4>1. h = i /\ i.state.running
        BY <3>1 DEF Hydrated, RunsLocally
      <4>2. i.kind # "none" /\ i \in Instances /\ i.kind \in {"none", "micro", "sumo"}
        BY <1>1, <1>2, <1>3, <4>1, RecordFields
      <4> HIDE DEF h, i
      <4> QED BY <1>1, <1>2, <1>4, <2>1, <4>1, <4>2 DEF AloneState
    <3>2. CASE ~RunsLocally(w)
      <4>1. h = [kind |-> "micro", state |-> store] /\ store.running
        BY <1>1, <2>1, <3>2 DEF Hydrated, RunsLocally, AloneState
      <4>2. h \in Instances /\ h.kind = "micro" /\ h.state = store
        BY <1>2, <4>1 DEF Instances
      <4> QED BY <1>1, <1>2, <1>4, <4>1, <4>2 DEF AloneState
    <3> QED BY <3>1, <3>2
  <2>d. /\ c \in Int /\ c >= r.steps
        /\ h.kind = "micro" \/ r.steps >= 0 => c = r.steps
    <3>1. r.steps \in Steps /\ h.state.step \in Steps /\ h.state.step + r.steps \in Steps
      BY <1>1, <1>2, <2>1, <2>2, RecordFields, StateFields
      DEF Hydrated, StepInv, Room, Instances
    <3> HIDE DEF h
    <3>2. h.kind = "micro" => c = r.steps
      BY <2>c, <3>1, CountedBounds
    <3>3. c \in Int /\ c >= r.steps /\ (r.steps >= 0 => c = r.steps)
      BY <2>c, <3>1, CountedBounds
    <3> QED BY <3>2, <3>3
  <2> HIDE DEF h
  <2>3. i2.kind = h.kind /\ i2.state.running /\ i2.state.step = h.state.step + c
    BY <2>2 DEF Instances, States
  <2>4. /\ r2.pc = "write" /\ r2.op = "step" /\ r2.steps = r.steps
        /\ r2.state.running => r2.state.step = i2.state.step
        /\ m => r2.state.running
    <3> HIDE DEF i2
    <3>1. /\ r2.pc = "write" /\ r2.op = "step" /\ r2.state = StepPayload(i2)
          /\ r2.steps = r.steps
      BY RequestFields
    <3>2. CASE i2.kind = "micro"
      <4>1. StepPayload(i2) = State(TRUE, i2.state.step, Default)
        BY <3>2 DEF StepPayload
      <4> QED BY <3>1, <4>1 DEF State
    <3>3. CASE i2.kind # "micro"
      BY <1>3, <2>2, <2>3, <3>1, <3>3 DEF StepPayload
    <3> QED BY <3>2, <3>3
  <2> HIDE DEF i2, r2
  <2>5. AloneState(m, x, i2, r2, store, shown, halted)
    <3>1. m => i2.kind # "sumo"
      BY <2>2, <2>3
    <3>2. /\ i2.state.step >= shown + r2.steps
          /\ i2.kind = "micro" \/ (x /\ r2.steps >= 0) => i2.state.step = shown + r2.steps
      BY <1>2, <2>2, <2>3, <2>4, <2>d
    <3> QED BY <1>1, <2>1, <2>2, <2>3, <2>4, <3>1, <3>2 DEF AloneState
  <2> QED BY <1>6, <2>1, <2>5
<1>12. ASSUME stop(w) PROVE AloneAt(w)'
  <2> DEFINE i2 == [i EXCEPT !.state.running = FALSE]
             r2 == Request("write", "stop", 0, Empty)
  <2>1. /\ req' = [req EXCEPT ![w] = r2] /\ inst' = [inst EXCEPT ![w] = i2]
        /\ UNCHANGED <<store, shown, halted>>
    BY <1>12 DEF stop, Writing, StopPayload
  <2>2. i2.kind = i.kind /\ i2.state.running = FALSE /\ i2.state.step = i.state.step
    BY <1>1, RecordFields DEF Instances, States
  <2>3. /\ r2.pc = "write" /\ r2.op = "stop" /\ r2.state = Empty
        /\ r.pc # "write"
    BY <1>12, RequestFields DEF stop, IdleAt
  <2> HIDE DEF i2, r2
  <2>4. AloneState(m, x, i2, r2, store, shown, halted)
    BY <1>1, <1>3, <2>2, <2>3 DEF AloneState
  <2> QED BY <1>6, <2>1, <2>4
<1>13. ASSUME reset(w) PROVE AloneAt(w)'
  <2> DEFINE i2 == AfterReset(i)
             r2 == Request("write", "reset", 0, Empty)
  <2>1. /\ req' = [req EXCEPT ![w] = r2] /\ inst' = [inst EXCEPT ![w] = i2]
        /\ UNCHANGED <<store, shown>> /\ halted' = FALSE
    BY <1>13 DEF reset, Writing
  <2>2. i2.kind = i.kind /\ i2.state.running = (i.kind = "sumo")
    <3> DEFINE st == [i.state EXCEPT !.running = (i.kind = "sumo"), !.step = 0]
    <3>1. i \in Instances /\ i.state \in States
      BY <1>1, RecordFields
    <3>2. st.running = (i.kind = "sumo")
      BY <3>1 DEF States
    <3>3. i2 = [i EXCEPT !.state = st]
      BY <3>1 DEF AfterReset, Instances
    <3> HIDE DEF i2, st
    <3> QED BY <3>1, <3>2, <3>3 DEF Instances
  <2>3. r2.pc = "write" /\ r2.op = "reset" /\ r2.state = Empty
    BY RequestFields
  <2> HIDE DEF i2, r2
  <2>4. AloneState(m, x, i2, r2, store, shown, FALSE)
    BY <1>1, <1>3, <2>2, <2>3 DEF AloneState
  <2> QED BY <1>6, <2>1, <2>4
<1>14. ASSUME write(w) PROVE AloneAt(w)'
  <2>1. /\ req' = [req EXCEPT ![w] = Idle] /\ UNCHANGED inst /\ r.pc = "write"
        /\ store' = r.state
        /\ shown' = IF r.op = "stop" THEN shown ELSE i.state.step
        /\ halted' = (halted \/ (r.op = "stop" /\ NoOtherRequest(w)))
    BY <1>14 DEF write, Reliable
  <2>2. halted' => r.op = "stop"
    BY <1>1, <2>1 DEF AloneState
  <2>3. AloneState(m, x, i, Idle, r.state, shown', halted')
    BY <1>1, <1>2, <1>3, <1>4, <2>1, <2>2 DEF AloneState
  <2>4. req'[w] = Idle
    BY <1>1, <1>2, <2>1
  <2> QED BY <1>1, <2>1, <2>3, <2>4 DEF AloneAt
<1>15. ASSUME worker_restart(w) PROVE AloneAt(w)'
  <2>1. /\ req' = [req EXCEPT ![w] = Idle] /\ inst' = [inst EXCEPT ![w] = NoInstance]
        /\ UNCHANGED <<store, shown, halted>>
    BY <1>15 DEF worker_restart
  <2>2. NoInstance.kind = "none" /\ NoInstance.state = Empty
    BY DEF NoInstance
  <2>3. AloneState(m, x, NoInstance, Idle, store, shown, halted)
    BY <1>1, <1>3, <2>2 DEF AloneState
  <2> QED BY <1>6, <2>1, <2>3
<1>16. ASSUME step_raises(w) PROVE AloneAt(w)'
  <2>1. PICK c \in 0 .. Forward(r.steps) : inst' = [inst EXCEPT ![w].state.step = @ + c]
    BY <1>16 DEF step_raises
  <2> DEFINE st == [i.state EXCEPT !.step = @ + c]
             i2 == [i EXCEPT !.state = st]
  <2>2. i \in Instances /\ i.state \in States /\ i.kind = "sumo" /\ i.state.running
    BY <1>1, <1>16, RecordFields DEF step_raises, RunsLocally
  <2>3. inst' = [inst EXCEPT ![w] = i2]
    BY <1>2, <2>1, <2>2 DEF Instances
  <2>4. st.running = i.state.running /\ st.step = i.state.step + c
    BY <2>2 DEF States
  <2> HIDE DEF st
  <2>5. i2.kind = "sumo" /\ i2.state = st
    BY <2>2 DEF Instances
  <2> HIDE DEF i2
  <2>6. c \in Nat /\ i.state.step \in Int
    BY <1>2, <1>4, <2>2 DEF Forward
  <2>7. /\ req' = [req EXCEPT ![w] = Idle] /\ UNCHANGED <<store, shown, halted>>
        /\ r.pc = "step" /\ ~x
    BY <1>16 DEF step_raises
  <2>8. i2.state.step >= shown
    BY <1>1, <1>2, <2>2, <2>4, <2>5, <2>6, <2>7 DEF AloneState
  <2>9. AloneState(m, x, i2, Idle, store, shown, halted)
    BY <1>1, <1>3, <2>2, <2>4, <2>5, <2>7, <2>8 DEF AloneState
  <2> QED BY <1>6, <2>3, <2>7, <2>9
<1>17. ASSUME reset_raises(w) PROVE AloneAt(w)'
  <2>1. PICK b \in BOOLEAN : inst' = [inst EXCEPT ![w].state.running = b]
    BY <1>17 DEF reset_raises
  <2> DEFINE st == [i.state EXCEPT !.running = b]
             i2 == [i EXCEPT !.state = st]
  <2>2. i \in Instances /\ i.state \in States /\ i.kind = "sumo"
    BY <1>1, <1>17, RecordFields DEF reset_raises
  <2>3. inst' = [inst EXCEPT ![w] = i2]
    BY <1>2, <2>1, <2>2 DEF Instances
  <2>4. st.running = b /\ st.step = i.state.step
    BY <2>2 DEF States
  <2> HIDE DEF st
  <2>5. i2.kind = "sumo" /\ i2.state = st
    BY <2>2 DEF Instances
  <2> HIDE DEF i2
  <2>7. /\ req' = [req EXCEPT ![w] = r] /\ UNCHANGED <<store, shown>> /\ halted' = FALSE
        /\ r.pc = "idle" /\ ~x
    BY <1>2, <1>17 DEF reset_raises, IdleAt
  <2>9. AloneState(m, x, i2, r, store, shown, FALSE)
    BY <1>1, <2>2, <2>4, <2>5, <2>7 DEF AloneState
  <2> QED BY <1>6, <2>3, <2>7, <2>9
<1>18. ASSUME stop_raises(w) PROVE AloneAt(w)'
  <2>1. UNCHANGED <<inst, req, store, shown, halted>>
    BY <1>18 DEF stop_raises
  <2> QED BY <1>1, <2>1 DEF AloneAt
<1> QED BY <1>7, <1>8, <1>9, <1>10, <1>11, <1>12, <1>13, <1>14, <1>15, <1>16, <1>17, <1>18 DEF Serve

\* What AloneInv rests on and keeps.
LEMMA AloneInvCorrect == Spec => []AloneInv
<1>1. Init => AloneInv
  <2> SUFFICES ASSUME Init PROVE AloneInv
    OBVIOUS
  <2>1. deploy.workers \subseteq Workers
    BY SimulationAssumption DEF Init
  <2>2. \A w \in Workers : inst[w] = NoInstance /\ req[w] = Idle
    BY DEF Init
  <2>3. AloneState(Micro, ~TraciFails, NoInstance, Idle, store, shown, halted)
    BY RequestFields DEF Init, AloneState, NoInstance, Idle, Empty, State
  <2> QED BY <2>1, <2>2, <2>3 DEF AloneInv, Absent, AloneAt
<1>2. StepInv /\ AloneInv /\ [Next]_vars => AloneInv'
  <2> SUFFICES ASSUME StepInv, AloneInv, [Next]_vars PROVE AloneInv'
    OBVIOUS
  <2>1. ASSUME NEW w \in deploy.workers, Serve(w) \/ worker_restart(w), UNCHANGED deploy
        PROVE  AloneInv'
    <3>1. (\E r : req' = [req EXCEPT ![w] = r]) /\ (\E i : inst' = [inst EXCEPT ![w] = i])
      <4>1. inst = [inst EXCEPT ![w] = inst[w]] /\ req = [req EXCEPT ![w] = req[w]]
        BY DEF StepInv, TypeOK
      <4>2. CASE step_run(w)
        BY <4>2 DEF step_run, Writing
      <4>3. CASE step_raises(w) \/ reset_raises(w)
        BY <4>1, <4>3 DEF step_raises, reset_raises
      <4>4. CASE stop_raises(w)
        BY <4>1, <4>4 DEF stop_raises
      <4> QED BY <2>1, <4>1, <4>2, <4>3, <4>4
        DEF Serve, worker_restart, start_begin, start_refuse, start_run, step_begin,
            step_refuse, stop, reset, write, Writing
    <3>2. Absent'
      BY <2>1, <3>1, AbsentStep DEF AloneInv
    <3>3. Reliable' => Reliable /\ deploy.workers = {w}
      BY <2>1 DEF Reliable, OneWorker, RedisFails
    <3>4. Reliable' => AloneAt(w)'
      BY <2>1, <3>3, AloneStep
    <3> QED BY <2>1, <3>2, <3>3, <3>4 DEF AloneInv
  <2>2. CASE UNCHANGED vars
    BY <2>2 DEF vars, AloneInv, Absent, AloneAt, Micro, TraciFails, Reliable, OneWorker, RedisFails
  <2> QED BY <2>1, <2>2 DEF Next
<1> QED BY <1>1, <1>2, StepInvCorrect, PTL DEF Spec

\* AloneAgrees is an invariant: alone, a worker keeps a stop, whatever SUMO does, and has in
\* Redis what it runs without SUMO, whenever it is restarted.
THEOREM AloneCorrect == Spec => []AloneAgrees
<1>1. StepInv /\ AloneInv => AloneAgrees
  <2> SUFFICES ASSUME StepInv, AloneInv PROVE AloneAgrees
    OBVIOUS
  <2>1. TypeOK
    BY DEF StepInv
  <2>2. StopStopsAlone
    BY DEF AloneInv, AloneAt, AloneState, StopStopsAlone, StopStops, get_state, RunsLocally
  <2>3. RunningIsPublished
    <3> SUFFICES ASSUME Reliable, Micro, NEW w \in Workers, IdleAt(w), RunsLocally(w)
                 PROVE  store.running /\ store.step = inst[w].state.step
      BY DEF RunningIsPublished, Micro
    <3>1. w \in deploy.workers
      BY DEF AloneInv, Absent, RunsLocally, NoInstance, Empty, State
    <3>2. inst[w].kind = "micro"
      <4>1. inst[w].kind \in {"none", "micro", "sumo"} /\ inst[w].kind # "none"
        BY RecordFields DEF StepInv, TypeOK, RunsLocally, Empty, State
      <4> QED BY <3>1, <4>1 DEF AloneInv, AloneAt, AloneState
    <3> QED BY <3>1, <3>2 DEF AloneInv, AloneAt, AloneState, IdleAt, RunsLocally
  <2> QED BY <2>1, <2>2, <2>3 DEF AloneAgrees
<1> QED BY <1>1, StepInvCorrect, AloneInvCorrect, PTL

\* StepsAdvance, an action property: whatever numbers of steps are asked for and whichever
\* of them SUMO fails half way, a worker alone answers the last number and at least the
\* steps asked for, exactly as many as long as SUMO does not fail, also when it had to take
\* the run over from Redis.
THEOREM StepsCorrect == Spec => StepsAdvance
<1> DEFINE Advance == \A w \in Workers : Reliable /\ write(w) /\ req[w].op = "step" =>
             LET n == req[w].steps
             IN  /\ shown' >= shown + n
                 /\ inst[w].kind = "micro" \/ (~TraciFails /\ n >= 0) => shown' = shown + n
<1>1. AloneInv /\ [Next]_vars => [Advance]_vars
  <2> SUFFICES ASSUME AloneInv, NEW w \in Workers, Reliable, write(w), req[w].op = "step"
               PROVE  LET n == req[w].steps
                      IN  /\ shown' >= shown + n
                          /\ inst[w].kind = "micro" \/ (~TraciFails /\ n >= 0)
                               => shown' = shown + n
    OBVIOUS
  <2>1. w \in deploy.workers
    BY RequestFields DEF AloneInv, Absent, write, Idle
  <2> QED BY <2>1 DEF AloneInv, AloneAt, AloneState, write
<1> QED BY <1>1, AloneInvCorrect, PTL DEF Spec, StepsAdvance
=============================================================================
