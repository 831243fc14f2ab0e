----------------------------- MODULE RendererHost -----------------------------
(***************************************************************************)
(* The worker's side of a renderer session: the loop of                    *)
(* vivid_renderer_host.c, the frame thread that publishes through          *)
(* vivid_renderer_worker_common.c, and the ring of images the backend      *)
(* paints (the video renderer in the frame thread; the web and scene       *)
(* renderers, when aside, in a thread of their own).                       *)
(*                                                                         *)
(* The actions constrain the variables of this module only.  The loop, the *)
(* frame thread and the painter interleave; an action is what one of them  *)
(* does under one hold of publish_lock, release_lock or the ring's lock.   *)
(***************************************************************************)
EXTENDS Integers, Sequences, FiniteSetsExt

CONSTANTS
  PointLimit,  \* how many release points a behaviour may allocate (bounds the model)
  MaxPackets,  \* packets the socket takes towards the daemon before it would block
  Asides       \* the kinds of backend: TRUE when it paints outside the frame thread

ASSUME PointLimitAssumption == PointLimit \in Nat
ASSUME PacketsAssumption    == MaxPackets \in Nat \ {0}
ASSUME AsidesAssumption     == Asides \subseteq BOOLEAN /\ Asides # {}

VARIABLES
  aside,      \* the backend paints outside the frame thread; nothing changes it
  toWorker,   \* commands on their way to the worker
  toDaemon,   \* events on their way to the daemon
  phase,      \* host->phase
  pc,         \* where run_host_loop stands
  events,     \* host->events and the pending send, oldest first
  wake,       \* host->wake_fd is readable
  wantOut,    \* the poll asks for POLLOUT
  accepting,  \* host->accepting_backend_events
  owed,       \* host->quiesce_reply_pending
  stopping,   \* host->stop_after_flush
  pump,       \* where the frame thread stands, "off" when there is none
  pumpStop,   \* pump->stopping
  playing,    \* the backend paints, until quiesce stops it
  ring,       \* which slot is presented, ready and in progress; ready is fresh
  painting,   \* the slot being written, NoSlot when none
  slotOf,     \* the slot a release point was allocated for (FRAME_READY says it)
  slotPoint,  \* buffer_release_points
  nextPoint,  \* release_timeline.next_point
  timeline    \* the point the shared release timeline has reached

loopVars   == << phase, pc, events, wake, wantOut, accepting, owed, stopping >>
frameVars  == << pump, pumpStop, playing, ring, painting, slotOf, slotPoint, nextPoint >>
workerVars == << loopVars, frameVars >>
hostVars   == << aside, toWorker, toDaemon, timeline, workerVars >>

Slots  == 0 .. 2 \* every backend's ring has three images
NoSlot == 3

Event(op, arg) == [op |-> op, ok |-> TRUE, arg |-> arg]

Room == Len(toDaemon) < MaxPackets

-----------------------------------------------------------------------------
(* Events of the backend and of the loop itself.                           *)

\* Mutant of Enqueue: the loop is not woken.
EnqueueQuietly(seq) == events' = events \o seq /\ UNCHANGED wake

\* enqueue_internal_event
Enqueue(seq) == events' = events \o seq /\ wake' = TRUE

\* enqueue_error, after the events in before were published.
EnqueueError(before) ==
  /\ Enqueue(Append(before, Event("ERROR", 0)))
  /\ accepting' = FALSE
  /\ stopping' = TRUE

\* host_publish_borrowed would take a frame now.
TakesFrame ==
  accepting /\ phase \in {"BACKEND_INIT", "WAIT_NEGOTIATION", "RUNNING"}

-----------------------------------------------------------------------------
(* Commands.                                                               *)

\* Mutant of Open: the window between handshake and negotiation is forgotten.
OpenOnceRunning == {"RUNNING"}

\* The phases in which handle_negotiate, handle_runtime and handle_quiesce work.
Open == {"WAIT_NEGOTIATION", "RUNNING"}

\* handle_command returns TRUE.
Accepts(command) ==
  \/ command = "INIT" /\ phase = "WAIT_INIT"
  \/ command \in {"NEGOTIATE_BUFFERS", "SET_RUNTIME", "QUIESCE"} /\ phase \in Open
  \/ command = "SHUTDOWN" /\ phase = "QUIESCED"

HandshakeReplies ==
  << Event("READY", 0), Event("FORMAT_CAPS", 0), Event("RELEASE_TIMELINE", 0) >>

\* handle_init: the backend publishes the three replies, or fails on the way.
HandleInit ==
  /\ phase' = "BACKEND_INIT"
  /\ \/ /\ Enqueue(HandshakeReplies)
        /\ UNCHANGED << accepting, stopping >>
     \/ \E n \in 0 .. 2 : EnqueueError(SubSeq(HandshakeReplies, 1, n))
  /\ UNCHANGED << owed, frameVars >>

\* handle_negotiate: the backend builds its ring, publishes the pool and starts
\* the frame thread, or fails.
HandleNegotiate ==
  /\ phase' = "RUNNING"
  /\ \/ /\ Enqueue(<< Event("BIND_BUFFERS", Cardinality(Slots)) >>)
        /\ pump' = "wait" /\ pumpStop' = FALSE
        /\ UNCHANGED << accepting, stopping >>
     \/ EnqueueError(<< >>) /\ pumpStop' = TRUE /\ UNCHANGED pump
  /\ UNCHANGED << owed, playing, ring, painting, slotOf, slotPoint, nextPoint >>

\* handle_runtime: the backend obeys, or rejects the command.  (Once: the daemon
\* never reads a second error, and without a bound the queue of them would grow.)
HandleRuntime ==
  /\ UNCHANGED << phase, owed, frameVars >>
  /\ \/ UNCHANGED << events, wake, accepting, stopping >>
     \/ ~stopping /\ EnqueueError(<< >>)

\* Mutant of HandleQuiesce: the frame thread is joined but not told to stop.
HandleQuiesceNoStop ==
  /\ phase' = "QUIESCING"
  /\ accepting' = FALSE
  /\ UNCHANGED << events, wake, owed, stopping, frameVars >>

\* handle_quiesce up to the join of the frame thread (stop_frame_thread).
HandleQuiesce ==
  /\ phase' = "QUIESCING"
  /\ accepting' = FALSE
  /\ pumpStop' = TRUE
  /\ UNCHANGED << events, wake, owed, stopping, pump, playing, ring, painting, slotOf,
                  slotPoint, nextPoint >>

\* handle_shutdown
HandleShutdown ==
  /\ phase' = "EXIT"
  /\ UNCHANGED << events, wake, accepting, owed, stopping, frameVars >>

\* drain_commands refuses the command and goes back to the loop.
Refuse ==
  /\ EnqueueError(<< >>)
  /\ UNCHANGED << phase, owed, frameVars >>

\* Where the loop goes after a command.
After(command) ==
  IF ~Accepts(command) THEN "flush"
  ELSE CASE command = "QUIESCE"  -> "join"
         [] command = "SHUTDOWN" -> "gone"
         [] OTHER                -> "drain"

\* drain_commands takes the next command.
Drain ==
  /\ pc = "drain" /\ toWorker # << >>
  /\ LET command == Head(toWorker) IN
       /\ IF Accepts(command)
          THEN \/ command = "INIT"              /\ HandleInit
               \/ command = "NEGOTIATE_BUFFERS" /\ HandleNegotiate
               \/ command = "SET_RUNTIME"       /\ HandleRuntime
               \/ command = "QUIESCE"           /\ HandleQuiesce
               \/ command = "SHUTDOWN"          /\ HandleShutdown
          ELSE Refuse
       /\ pc' = After(command)
  /\ toWorker' = Tail(toWorker)
  /\ UNCHANGED << toDaemon, timeline, wantOut >>

\* The rest of handle_quiesce, once the frame thread has ended: the backend stops
\* painting and the reply is owed.
Joined ==
  /\ pc = "join" /\ pump = "off"
  /\ playing' = FALSE /\ owed' = TRUE
  /\ pc' = "drain"
  /\ UNCHANGED << toWorker, toDaemon, timeline, phase, events, wake, wantOut, accepting,
                  stopping, pump, pumpStop, ring, painting, slotOf, slotPoint, nextPoint >>

-----------------------------------------------------------------------------
(* The loop.  hangup says that the daemon has closed its end.              *)

\* vivid_renderer_host_run up to the loop: HELLO is sent at once.
Boot ==
  /\ pc = "boot"
  /\ toDaemon' = Append(toDaemon, Event("HELLO", 0))
  /\ phase' = "WAIT_INIT" /\ pc' = "flush"
  /\ UNCHANGED << toWorker, timeline, events, wake, wantOut, accepting, owed, stopping,
                  frameVars >>

\* flush_events sends one event; QUIESCED on the socket ends the quiesce.
Flush(hangup) ==
  /\ pc = "flush" /\ events # << >>
  /\ IF hangup
     THEN pc' = "gone" /\ UNCHANGED << toDaemon, phase, events >>
     ELSE /\ Room
          /\ toDaemon' = Append(toDaemon, Head(events))
          /\ events' = Tail(events)
          /\ phase' = IF Head(events).op = "QUIESCED" THEN "QUIESCED" ELSE phase
          /\ UNCHANGED pc
  /\ UNCHANGED << toWorker, timeline, wake, wantOut, accepting, owed, stopping, frameVars >>

\* finish_init_if_ready
FinishInit ==
  phase' = IF phase = "BACKEND_INIT" /\ events = << >> THEN "WAIT_NEGOTIATION" ELSE phase

\* Mutant of OweQuiesced: the reply does not wait for the events before it.
OweQuiescedFirst ==
  IF owed
  THEN events' = << Event("QUIESCED", 0) >> \o events /\ wake' = TRUE /\ owed' = FALSE
  ELSE UNCHANGED << events, wake, owed >>

\* enqueue_quiesced_if_ready
OweQuiesced ==
  IF owed /\ events = << >>
  THEN Enqueue(<< Event("QUIESCED", 0) >>) /\ owed' = FALSE
  ELSE UNCHANGED << events, wake, owed >>

\* The queue is sent or the socket is full: stop, or finish what waited for the
\* queue and poll.
Turn ==
  /\ pc = "flush" /\ (events = << >> \/ ~Room)
  /\ IF stopping /\ events = << >>
     THEN pc' = "gone" /\ UNCHANGED << phase, events, wake, owed, wantOut >>
     ELSE /\ FinishInit
          /\ OweQuiesced
          /\ wantOut' = (events' # << >>)
          /\ pc' = "poll"
  /\ UNCHANGED << toWorker, toDaemon, timeline, accepting, stopping, frameVars >>

\* poll returns and the wake descriptor is drained.
Poll(hangup) ==
  /\ pc = "poll"
  /\ wake \/ toWorker # << >> \/ hangup \/ (wantOut /\ Room)
  /\ wake' = FALSE
  /\ pc' = IF toWorker # << >> \/ hangup THEN "drain" ELSE "flush"
  /\ UNCHANGED << toWorker, toDaemon, timeline, phase, events, wantOut, accepting, owed,
                  stopping, frameVars >>

\* drain_commands finds the socket empty, or at its end.
Drained(hangup) ==
  /\ pc = "drain" /\ toWorker = << >>
  /\ pc' = IF hangup THEN "gone" ELSE "flush"
  /\ UNCHANGED << toWorker, toDaemon, timeline, phase, events, wake, wantOut, accepting,
                  owed, stopping, frameVars >>

-----------------------------------------------------------------------------
(* Painting and publishing.                                                *)

\* wait_release: the last frame of a slot has been released.
Released(slot) == slotPoint[slot] <= timeline

\* mark_frame_ready and eat_frame swap two slots of the ring.
MarkReady(r) == [r EXCEPT !.inProgress = r.ready, !.ready = r.inProgress, !.fresh = TRUE]
Eat(r)       == [r EXCEPT !.presented = r.ready, !.ready = r.presented, !.fresh = FALSE]

\* The release gate opens and the backend starts to write the slot in progress:
\* the video renderer in the frame thread, the others at any time.
StartPaint ==
  /\ painting = NoSlot /\ Released(ring.inProgress)
  /\ painting' = ring.inProgress
  /\ IF aside
     THEN playing /\ phase \in {"RUNNING", "QUIESCING"} /\ UNCHANGED pump
     ELSE pump = "due" /\ pump' = "paint"
  /\ UNCHANGED << toWorker, toDaemon, timeline, loopVars, pumpStop, playing, ring, slotOf,
                  slotPoint, nextPoint >>

\* The image is complete: mark_frame_ready, and in the video renderer eat_frame.
EndPaint ==
  /\ painting # NoSlot /\ nextPoint < PointLimit
  /\ painting' = NoSlot
  /\ IF aside
     THEN ring' = MarkReady(ring) /\ UNCHANGED pump
     ELSE ring' = Eat(MarkReady(ring)) /\ pump' = "publish"
  /\ UNCHANGED << toWorker, toDaemon, timeline, loopVars, pumpStop, playing, slotOf,
                  slotPoint, nextPoint >>

\* The upload or the blit fails: the slot is not handed on.
PaintFails ==
  /\ painting # NoSlot
  /\ painting' = NoSlot
  /\ pump' = IF aside THEN pump ELSE "wait"
  /\ UNCHANGED << toWorker, toDaemon, timeline, loopVars, pumpStop, playing, ring, slotOf,
                  slotPoint, nextPoint >>

\* next_frame of the web and scene renderers: the frame thread takes a fresh image.
TakeImage ==
  /\ aside /\ pump = "due" /\ ring.fresh /\ nextPoint < PointLimit
  /\ ring' = Eat(ring) /\ pump' = "publish"
  /\ UNCHANGED << toWorker, toDaemon, timeline, loopVars, pumpStop, playing, painting,
                  slotOf, slotPoint, nextPoint >>

\* publish_frame: a point is allocated; a frame the host does not take is
\* completed by the worker itself and ends the frame thread.
PublishFrame ==
  LET p == nextPoint + 1 IN
  /\ pump = "publish"
  /\ nextPoint' = p
  /\ slotOf' = [slotOf EXCEPT ![p] = ring.presented]
  /\ IF TakesFrame
     THEN /\ Enqueue(<< Event("FRAME_READY", p) >>)
          /\ pump' = "record"
          /\ UNCHANGED << timeline, pumpStop >>
     ELSE /\ timeline' = Max({timeline, p})
          /\ pump' = "off" /\ pumpStop' = TRUE
          /\ UNCHANGED << events, wake >>
  /\ UNCHANGED << toWorker, toDaemon, phase, pc, wantOut, accepting, owed, stopping,
                  playing, ring, painting, slotPoint >>

\* The end of publish_frame: only now the slot knows its point.
RecordPoint ==
  /\ pump = "record"
  /\ slotPoint' = [slotPoint EXCEPT ![ring.presented] = nextPoint]
  /\ pump' = "wait"
  /\ UNCHANGED << toWorker, toDaemon, timeline, loopVars, pumpStop, playing, ring, painting,
                  slotOf, nextPoint >>

\* frame_pump_wait returns: a frame is due, or the thread ends.
PumpWaits ==
  /\ pump = "wait"
  /\ \/ ~pumpStop /\ pump' = "due"
     \/ pumpStop /\ pump' = "off"
  /\ UNCHANGED << toWorker, toDaemon, timeline, loopVars, pumpStop, playing, ring, painting,
                  slotOf, slotPoint, nextPoint >>

\* next_frame has none to give: nothing new was drawn, or the gate timed out.
NoFrame ==
  /\ pump = "due"
  /\ pump' = "wait"
  /\ UNCHANGED << toWorker, toDaemon, timeline, loopVars, pumpStop, playing, ring, painting,
                  slotOf, slotPoint, nextPoint >>

Loop(hangup) ==
  Boot \/ Flush(hangup) \/ Turn \/ Poll(hangup) \/ Drain \/ Drained(hangup) \/ Joined

FinishPaint == EndPaint \/ PaintFails

FrameThread ==
  \/ PumpWaits \/ NoFrame \/ TakeImage \/ PublishFrame \/ RecordPoint
  \/ ~aside /\ FinishPaint

Painter == StartPaint \/ (aside /\ FinishPaint)

HostInit ==
  /\ aside \in Asides
  /\ toWorker = << >> /\ toDaemon = << >> /\ timeline = 0
  /\ phase = "BOOT" /\ pc = "unborn"
  /\ events = << >> /\ wake = FALSE /\ wantOut = FALSE
  /\ accepting = TRUE /\ owed = FALSE /\ stopping = FALSE
  /\ pump = "off" /\ pumpStop = FALSE /\ playing = TRUE
  /\ ring = [presented |-> 0, ready |-> 1, inProgress |-> 2, fresh |-> FALSE]
  /\ painting = NoSlot
  /\ slotOf = [p \in 1 .. PointLimit |-> NoSlot]
  /\ slotPoint = [s \in Slots |-> 0]
  /\ nextPoint = 0

HostTypeOK ==
  /\ aside \in Asides
  /\ phase \in {"BOOT", "WAIT_INIT", "BACKEND_INIT", "WAIT_NEGOTIATION", "RUNNING",
                "QUIESCING", "QUIESCED", "EXIT"}
  /\ pc \in {"unborn", "boot", "flush", "poll", "drain", "join", "gone"}
  /\ \A v \in {wake, wantOut, accepting, owed, stopping, pumpStop, playing} : v \in BOOLEAN
  /\ pump \in {"off", "wait", "due", "paint", "publish", "record"}
  /\ ring \in [presented : Slots, ready : Slots, inProgress : Slots, fresh : BOOLEAN]
  /\ {ring.presented, ring.ready, ring.inProgress} = Slots
  /\ painting \in {NoSlot, ring.inProgress}
  /\ slotOf \in [1 .. PointLimit -> Slots \cup {NoSlot}]
  /\ slotPoint \in [Slots -> 0 .. nextPoint]
  /\ nextPoint \in 0 .. PointLimit /\ timeline \in 0 .. nextPoint
  /\ Len(toDaemon) <= MaxPackets
=============================================================================
