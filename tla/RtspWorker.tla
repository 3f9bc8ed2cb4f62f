------------------------------- MODULE RtspWorker -------------------------------
(***************************************************************************)
(* The camera worker (ml/vision/rtsp_stream_worker.py): one thread grabs   *)
(* frames into a buffer, another analyses what the buffer holds.  start()  *)
(* starts such a pair; stop() clears a flag that both look at between      *)
(* their waits, and joins neither.                                         *)
(*                                                                         *)
(* patient      whether a stopped worker is started again only once its    *)
(*              threads are gone                                           *)
(* isRunning    the flag                                                   *)
(* grabber      where the grabber thread of each pair is                   *)
(* inference    where the inference thread of each pair is                 *)
(* latestFrame  the buffer: the number of the frame in it, 0 for none      *)
(* grabbed      the number of the last frame                               *)
(* frame        the copy each inference thread works on                    *)
(* lastTelemetry   the frame of the last telemetry sent                    *)
(***************************************************************************)
EXTENDS ServiceBounds, FiniteSets

VARIABLES patient, isRunning, grabber, inference, latestFrame, grabbed, frame, lastTelemetry
vars == <<patient, isRunning, grabber, inference, latestFrame, grabbed, frame, lastTelemetry>>

Gone == {"none", "ended"}
Over(p) == grabber[p] \in Gone /\ inference[p] \in Gone

Init ==
  /\ patient \in BOOLEAN /\ isRunning = FALSE
  /\ grabber = [p \in Pairs |-> "none"] /\ inference = [p \in Pairs |-> "none"]
  /\ latestFrame = 0 /\ grabbed = 0 /\ lastTelemetry = 0
  /\ frame = [p \in Pairs |-> 0]

\* Mutant: a worker that runs may be started.
MayStartAlways == TRUE
MayStart == ~isRunning

start(p) ==
  /\ MayStart /\ grabber[p] = "none"
  /\ patient /\ ~isRunning => \A q \in Pairs : Over(q)
  /\ isRunning' = TRUE
  /\ grabber' = [grabber EXCEPT ![p] = "top"]
  /\ inference' = [inference EXCEPT ![p] = "top"]
  /\ UNCHANGED <<patient, latestFrame, grabbed, frame, lastTelemetry>>

stop ==
  /\ isRunning /\ isRunning' = FALSE
  /\ UNCHANGED <<patient, grabber, inference, latestFrame, grabbed, frame, lastTelemetry>>

Grabber(p, where) == grabber' = [grabber EXCEPT ![p] = where]
Inference(p, where) == inference' = [inference EXCEPT ![p] = where]

\* Another frame is in the buffer.  Frames after the bound are not told apart.
Grab ==
  /\ grabbed' = IF grabbed < Frames THEN grabbed + 1 ELSE Frames
  /\ latestFrame' = grabbed'
NoFrame == UNCHANGED <<latestFrame, grabbed>>

\* Mutant: the loops go on whatever the flag.
GoesOnAnyway == TRUE
GoesOn == isRunning

\* The grabber's loop: the stream is opened, or not; it is read until it fails or the
\* worker is stopped; then, unless it is stopped, a synthetic frame or a pause.
GrabberStep(p) ==
  /\ \/ /\ grabber[p] = "top" /\ NoFrame
        /\ IF GoesOn THEN Grabber(p, "reading") \/ Grabber(p, "released")
                     ELSE Grabber(p, "ended")
     \/ /\ grabber[p] = "reading"
        /\ \/ GoesOn /\ Grab /\ UNCHANGED grabber
           \/ Grabber(p, "released") /\ NoFrame
     \/ /\ grabber[p] = "released"
        /\ IF isRunning THEN Grabber(p, "pause") /\ (Grab \/ NoFrame)
                        ELSE Grabber(p, "ended") /\ NoFrame
     \/ grabber[p] = "pause" /\ Grabber(p, "top") /\ NoFrame
  /\ UNCHANGED <<patient, isRunning, inference, frame, lastTelemetry>>

\* The inference loop: the buffer is copied under the lock, the copy analysed and its
\* telemetry sent, unless the analysis fails; then a pause.
InferenceStep(p) ==
  /\ \/ /\ inference[p] = "top"
        /\ IF ~GoesOn THEN Inference(p, "ended") /\ UNCHANGED frame
           ELSE /\ frame' = [frame EXCEPT ![p] = latestFrame]
                /\ Inference(p, IF latestFrame = 0 THEN "pause" ELSE "processing")
        /\ UNCHANGED lastTelemetry
     \/ /\ inference[p] = "processing" /\ Inference(p, "pause")
        /\ lastTelemetry' \in {frame[p], lastTelemetry}
        /\ UNCHANGED frame
     \/ /\ inference[p] = "pause" /\ Inference(p, "top")
        /\ UNCHANGED <<frame, lastTelemetry>>
  /\ UNCHANGED <<patient, isRunning, grabber, latestFrame, grabbed>>

Next ==
  \/ stop
  \/ \E p \in Pairs : start(p) \/ GrabberStep(p) \/ InferenceStep(p)
Fairness == \A p \in Pairs : WF_vars(GrabberStep(p)) /\ WF_vars(InferenceStep(p))
Spec == Init /\ [][Next]_vars /\ Fairness

(***************************************************************************)
(* Properties.                                                             *)
(***************************************************************************)

\* Every variable has its type.
TypeOK ==
  /\ patient \in BOOLEAN /\ isRunning \in BOOLEAN
  /\ grabber \in [Pairs -> {"none", "top", "reading", "released", "pause", "ended"}]
  /\ inference \in [Pairs -> {"none", "top", "processing", "pause", "ended"}]
  /\ {latestFrame, grabbed, lastTelemetry} \subseteq 0..Frames
  /\ frame \in [Pairs -> 0..Frames]

\* A worker that is started again only after its threads are gone has one pair of them,
\* however often it is told to start.
OnePair ==
  patient => Cardinality({p \in Pairs : ~Over(p)}) <= 1

\* The telemetry of one pair of threads never goes back to an older frame, although the
\* buffer is overwritten while a frame is analysed.
FramesAdvance == [][patient => lastTelemetry' >= lastTelemetry]_lastTelemetry

\* A stopped worker's threads end, unless it is started again before they look at the
\* flag.
ThreadsEnd == ~isRunning ~> (isRunning \/ \A p \in Pairs : Over(p))
=============================================================================
