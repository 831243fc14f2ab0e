---------------------------- MODULE WorkerTimeline ----------------------------
(***************************************************************************)
(* The timeline that returns buffers to a render worker.  A worker numbers *)
(* its frames; frame n may be overwritten when the timeline of that worker *)
(* has reached n.  Consumers give frames back in any order and the news    *)
(* arrives on another thread, perhaps when the worker has been replaced;   *)
(* the owner signals a point when all points up to it are complete, and    *)
(* all points at once when the route has been unbound.  A signal may fail. *)
(*                                                                         *)
(* Workers, barrier and retirement are RendererOwner; what the consumers   *)
(* do with a frame is ReleaseLedger.                                       *)
(***************************************************************************)
EXTENDS Integers, FiniteSetsExt

CONSTANTS
  MaxInstances, \* workers started
  MaxPoints,    \* frames of one worker
  MaxFaults     \* signals that fail

ASSUME TimelineAssumption == {MaxInstances, MaxPoints, MaxFaults} \subseteq Nat

VARIABLES
  process,      \* instance of renderer->process, 0 for none
  instances,    \* workers started so far
  health,       \* "serving", "unbinding", "shutting" or "failed": its state
  lastPoint,    \* its last_release_point
  published,    \* last_published_release_point
  signaled,     \* last_signaled_release_point
  donePoints,   \* completed_release_points
  barrier,      \* waiting_for_unbind
  held,         \* << instance, point >> of the frames consumers use
  returns,      \* << instance, point >> of the frames given back, on their way
  timeline,     \* value of each instance's timeline
  faults        \* points whose signal failed

timelineVars == << process, instances, health, lastPoint, published, signaled, donePoints,
                   barrier, held, returns, timeline, faults >>

Instance == 1 .. MaxInstances
Point    == 1 .. MaxPoints

TimelineInit ==
  /\ process = 0 /\ instances = 0 /\ health = "failed"
  /\ lastPoint = 0 /\ published = 0 /\ signaled = 0 /\ donePoints = {}
  /\ barrier = FALSE
  /\ held = {} /\ returns = {}
  /\ timeline = [i \in Instance |-> 0]
  /\ faults = 0

Consumers == << held, returns >>

\* renderer_spawn, renderer_reset_process_contract
SpawnsInstance ==
  /\ process = 0 /\ instances < MaxInstances
  /\ process' = instances + 1 /\ instances' = instances + 1 /\ health' = "serving"
  /\ lastPoint' = 0 /\ published' = 0 /\ signaled' = 0 /\ donePoints' = {}
  /\ UNCHANGED << barrier, Consumers, timeline, faults >>

\* FRAME_READY.  A worker publishes no pool behind the barrier.
AcceptsFrame ==
  /\ process # 0 /\ health = "serving" /\ ~barrier /\ lastPoint < MaxPoints
  /\ lastPoint' = lastPoint + 1
  /\ UNCHANGED << process, instances, health, published, signaled, donePoints, barrier,
                  Consumers, timeline, faults >>

\* vivid_producer_renderer_next_dmabuf_frame, and FRAME_READY to the consumers.  When the
\* barrier is down again the outputs need another pool before they ask.
PublishesFrame ==
  /\ process # 0 /\ health = "serving" /\ ~barrier /\ published < lastPoint
  /\ published' = published + 1
  /\ held' = held \cup {<< process, published + 1 >>}
  /\ UNCHANGED << process, instances, health, lastPoint, signaled, donePoints, barrier,
                  returns, timeline, faults >>

\* The last consumer of a frame gives it back; the reaper, or the main loop when the
\* frame could not be sent, is going to report it.
GivesBack(h) ==
  /\ h \in held
  /\ held' = held \ {h} /\ returns' = returns \cup {h}
  /\ UNCHANGED << process, instances, health, lastPoint, published, signaled, donePoints,
                  barrier, timeline, faults >>

\* vivid_renderer_process_signal_release_point: the timeline takes the point, or libdrm
\* refuses it.
Signals(p, ok) ==
  /\ timeline' = IF ok THEN [timeline EXCEPT ![process] = Max({@, p})] ELSE timeline
  /\ faults' = IF ok THEN faults ELSE faults + 1
  /\ ok \/ faults < MaxFaults

\* Mutant of OfProcess: a point of any worker is taken.
OfAnyProcess(i) == process # 0
\* The reported frame is one of the worker that runs now.
OfProcess(i) == process # 0 /\ i = process

\* The points up to this one are complete, and the next one is not.
EndsPrefix(points, up) == (signaled + 1) .. up \subseteq points /\ up + 1 \notin points

\* vivid_producer_renderer_complete_frame_release.  Completed points leave the table
\* before they are signalled.
CompletesRelease(r, ok) ==
  /\ r \in returns /\ returns' = returns \ {r}
  /\ IF OfProcess(r[1]) /\ r[2] > signaled
     THEN LET known == donePoints \cup {r[2]} IN
          \E up \in signaled .. MaxPoints :
            /\ EndsPrefix(known, up)
            /\ IF up = signaled THEN /\ ok /\ donePoints' = known
                                     /\ UNCHANGED << signaled, timeline, faults >>
               ELSE /\ donePoints' = known \ ((signaled + 1) .. up)
                    /\ Signals(up, ok)
                    /\ signaled' = IF ok THEN up ELSE signaled
     ELSE ok /\ UNCHANGED << donePoints, signaled, timeline, faults >>
  /\ UNCHANGED << process, instances, health, lastPoint, published, barrier, held >>

\* QUIESCED, or the worker breaks once its buffers are lent; renderer_process_state_changed.
Retires(next) ==
  /\ process # 0 /\ health \in {"serving", "unbinding"}
  /\ next \in {"unbinding", "failed"} /\ next # health
  /\ health' = next
  /\ barrier' = (barrier \/ lastPoint > 0 \/ next = "unbinding")
  /\ UNCHANGED << process, instances, lastPoint, published, signaled, donePoints, Consumers,
                  timeline, faults >>

\* The worker's process group is gone; renderer_process_reaped.
ReapsInstance ==
  /\ process # 0 /\ health \in {"shutting", "failed"}
  /\ process' = 0
  /\ UNCHANGED << instances, health, lastPoint, published, signaled, donePoints, barrier,
                  Consumers, timeline, faults >>

\* Mutant of Final: only what was sent to consumers is returned.
FinalPublished == published
\* QUIESCED proves that nothing follows the last lastPoint frame.
Final == Max({published, lastPoint})

\* vivid_producer_renderer_complete_unbind, when every output has given up its buffers.
\* A signal that fails leaves the barrier up.
CompletesUnbind(ok) ==
  /\ barrier /\ held = {}
  /\ IF process = 0 \/ health = "failed"
     THEN /\ ok /\ barrier' = FALSE
          /\ UNCHANGED << health, signaled, donePoints, timeline, faults >>
     ELSE /\ IF Final = 0 THEN ok /\ UNCHANGED << timeline, faults >> ELSE Signals(Final, ok)
          /\ barrier' = ~ok
          /\ signaled' = IF ok THEN Final ELSE signaled
          /\ donePoints' = IF ok THEN {} ELSE donePoints
          /\ health' = IF ok /\ health = "unbinding" THEN "shutting" ELSE health
  /\ UNCHANGED << process, instances, lastPoint, published, Consumers >>

TimelineNext ==
  \/ SpawnsInstance \/ AcceptsFrame \/ PublishesFrame \/ ReapsInstance
  \/ \E h \in held : GivesBack(h)
  \/ \E ok \in BOOLEAN : CompletesUnbind(ok) \/ \E r \in returns : CompletesRelease(r, ok)
  \/ \E next \in {"unbinding", "failed"} : Retires(next)

TimelineSpec == TimelineInit /\ [][TimelineNext]_timelineVars

-----------------------------------------------------------------------------
\* Types.
TimelineTypeOK ==
  /\ process \in 0 .. instances /\ instances \in 0 .. MaxInstances
  /\ health \in {"serving", "unbinding", "shutting", "failed"}
  /\ {lastPoint, published, signaled} \subseteq 0 .. MaxPoints
  /\ donePoints \subseteq Point /\ barrier \in BOOLEAN
  /\ held \cup returns \subseteq Instance \X Point
  /\ timeline \in [Instance -> 0 .. MaxPoints] /\ faults \in 0 .. MaxFaults

\* A worker is never told to overwrite a frame that a consumer uses.
NothingHeldIsPassed == \A h \in held : timeline[h[1]] < h[2]

\* Unless a signal failed, a worker whose frames have all come back is told so, and one
\* that is shut down has got back what consumers never saw.
NothingIsKeptBack ==
  faults = 0 /\ process # 0 =>
    /\ health = "serving" /\ held = {} /\ returns = {} => timeline[process] = published
    /\ health = "shutting" => timeline[process] = lastPoint

\* The worker's timeline says which of its frames are free, and no more.
TimelineTells == TimelineTypeOK /\ NothingHeldIsPassed /\ NothingIsKeptBack
=============================================================================
