--------------------------- MODULE RendererSession ---------------------------
(***************************************************************************)
(* A whole session: the daemon of RendererOwner and the worker of          *)
(* RendererHost over the two directions of their socket, with the release  *)
(* points that come back from the consumers.  RendererOwner lets a worker  *)
(* send anything; here it is the worker of this repository, and what is    *)
(* asked is whether the two agree on the protocol.                         *)
(*                                                                         *)
(* One worker without helper processes.  Disturbance adds what a healthy   *)
(* session has not: a missed deadline and a crash.                         *)
(***************************************************************************)
EXTENDS RendererOwner, RendererHost

CONSTANT MaxCommands \* commands in the socket beyond which no runtime command is sent

ASSUME SessionAssumption ==
  /\ MaxInstances = 1
  /\ MaxPool = Cardinality(Slots)
  /\ MaxPoint = PointLimit
  /\ MaxCommands \in Nat

VARIABLES
  held,      \* points of the frames taken from the worker and not yet released
  completed, \* completed_release_points: released ahead of an earlier point
  signaled   \* last_signaled_release_point

tableVars   == << held, completed, signaled >>
sessionVars == << vars, hostVars, tableVars >>

-----------------------------------------------------------------------------
(* The daemon's steps and the commands they send.                          *)

\* The command a state is entered with.  (renderer_send_runtime_state sends several
\* runtime commands in a row, which are one here.)
EntryCommand ==
  [INITIALIZING |-> "INIT", NEGOTIATING |-> "SET_RUNTIME",
   WAIT_FIRST_FRAME |-> "NEGOTIATE_BUFFERS", QUIESCING |-> "QUIESCE",
   SHUTTING_DOWN |-> "SHUTDOWN"]

\* The commands of a step: the one its new state is entered with, or a runtime
\* command to a worker that stays.
Commands(runtime) ==
  IF state' # state
  THEN IF state' \in DOMAIN EntryCommand THEN << EntryCommand[state'] >> ELSE << >>
  ELSE IF runtime /\ peer THEN << "SET_RUNTIME" >> ELSE << >>

\* A step of the daemon; a spawn boots the worker.
Daemon(Step, runtime) ==
  /\ Step
  /\ toWorker' = toWorker \o Commands(runtime)
  /\ pc' = IF inst' # inst THEN "boot" ELSE pc
  /\ UNCHANGED << aside, phase, events, wake, wantOut, accepting, owed, stopping, frameVars >>

Quiet(Step) == Daemon(Step, FALSE) /\ UNCHANGED << toDaemon, timeline, tableVars >>

\* The configuration keeps the running worker, which is told its runtime state.
Keeps(id, stop) == owned /\ identity = id /\ ShouldRun(id, stop) /\ state \in Running

\* A wallpaper is wished or none is, and runtime commands.  (Stopping playback and
\* clearing errors change nothing more for a single worker.)
Configure ==
  /\ Len(toWorker) < MaxCommands
  /\ \/ \E id \in Identities \cup {NoIdentity} :
          Daemon(ApplyConfig(id, FALSE), Keeps(id, stopped))
     \/ Daemon(RuntimeCommand, TRUE)
  /\ UNCHANGED << toDaemon, timeline, tableVars >>

ReceiveEvent ==
  /\ toDaemon # << >>
  /\ Daemon(Receive(Head(toDaemon)), FALSE)
  /\ toDaemon' = Tail(toDaemon)
  /\ UNCHANGED << timeline, tableVars >>

\* End of file is read after the events before it.
ReadEof == toDaemon = << >> /\ Quiet(Eof)

\* A worker that closes with commands unread resets the connection.
Reset == toWorker # << >> /\ Quiet(IpcError)

\* The route takes a frame; its point waits for the consumers.
Forward ==
  /\ Daemon(NextFrame, FALSE)
  /\ held' = held \cup {Head(frames)}
  /\ UNCHANGED << toDaemon, timeline, completed, signaled >>

\* complete_unbind: the points still out are signalled with the last one the
\* worker used, before it is told to shut down.
RetireTimeline ==
  IF owned /\ state \notin Broken
  THEN /\ timeline' = Max({timeline, lastPoint})
       /\ signaled' = lastPoint /\ completed' = {}
  ELSE UNCHANGED << timeline, signaled, completed >>

Unbound == Daemon(CompleteUnbind, FALSE) /\ RetireTimeline /\ UNCHANGED << toDaemon, held >>

Calls ==
  \/ Quiet(Negotiate) \/ Quiet(InvalidatePool)
  \/ \E o \in Outputs : Quiet(BindOutput(o)) \/ Quiet(ReleaseOutput(o))

-----------------------------------------------------------------------------
(* Release points.                                                         *)

\* Mutant of RunEnds: a released point stands for the earlier ones.
LastReleased(S) == {p \in S \cup {signaled} : \A q \in S : q <= p}

\* The end of the contiguous run of released points after the last signal (there is
\* one, and only one).
RunEnds(S) == {p \in S \cup {signaled} : (signaled + 1) .. p \subseteq S /\ p + 1 \notin S}

\* complete_frame_release: all consumers of a frame have released it, or it was
\* sent to none.
ReleasePoint(p) ==
  /\ p \in held
  /\ held' = held \ {p}
  /\ IF owned /\ p > signaled
     THEN \E h \in RunEnds(completed \cup {p}) :
            /\ signaled' = h
            /\ completed' = {q \in completed \cup {p} : q > h}
            /\ timeline' = Max({timeline, h})
     ELSE UNCHANGED << signaled, completed, timeline >>
  /\ UNCHANGED << vars, aside, toWorker, toDaemon, workerVars >>

-----------------------------------------------------------------------------
(* The worker's steps and its end.                                         *)

WorkerStep(Step) == LeaderAlive /\ Step /\ UNCHANGED << vars, tableVars, aside >>

\* vivid_renderer_host_run closes the socket, then the process ends; SIGTERM
\* ends it anywhere.
Closes == pc = "gone" /\ LeaderAlive /\ PeerCloses /\ UNCHANGED << ownerVars, hostVars, tableVars >>
Ends ==
  /\ (pc = "gone" /\ ~peer) \/ termSent
  /\ LeaderExits /\ UNCHANGED << ownerVars, hostVars, tableVars >>
Crash == LeaderExits /\ UNCHANGED << ownerVars, hostVars, tableVars >>

SessionInit == Init /\ HostInit /\ held = {} /\ completed = {} /\ signaled = 0

\* (The exit of a leader that leaves helpers behind is RendererOwner's TopReap.)
Dispatch == ReceiveEvent \/ ReadEof \/ Reset \/ Quiet(Reap)

Calm ==
  \/ Configure \/ Dispatch \/ Calls \/ Forward \/ Unbound
  \/ \E p \in held : ReleasePoint(p)
  \/ WorkerStep(peer /\ Loop(~ipc)) \/ WorkerStep(Painter) \/ WorkerStep(FrameThread)
  \/ Closes \/ Ends

Disturbance == Quiet(Deadline) \/ Crash

SessionSpec == SessionInit /\ [][Calm \/ Disturbance]_sessionVars

\* A session without crashes in which everyone is in time: the daemon dispatches,
\* the worker's threads run, consumers release frames and answer UNBIND, and the
\* route takes frames on its ticks.  Runtime commands pause now and then: the host
\* reads commands until there are none before it sends an event.
CalmFairness ==
  /\ WF_sessionVars(Dispatch) /\ WF_sessionVars(Unbound) /\ WF_sessionVars(Forward)
  /\ \A o \in Outputs : WF_sessionVars(waiting /\ Quiet(ReleaseOutput(o)))
  /\ \A p \in Points : WF_sessionVars(ReleasePoint(p))
  /\ WF_sessionVars(WorkerStep(peer /\ Loop(~ipc))) /\ WF_sessionVars(WorkerStep(FrameThread))
  /\ SF_sessionVars(WorkerStep(Drained(~ipc)))
  /\ WF_sessionVars(Closes) /\ WF_sessionVars(Ends)

CalmSafety == SessionInit /\ [][Calm]_sessionVars
CalmSpec   == CalmSafety /\ CalmFairness

-----------------------------------------------------------------------------
(* What the two sides may rely on.                                         *)

\* The variables have their types, and the timeline never passes a point that
\* was not allocated.
SessionTypeOK ==
  /\ HostTypeOK
  /\ held \subseteq 1 .. nextPoint /\ completed \subseteq 1 .. nextPoint
  /\ signaled \in 0 .. timeline
  /\ Len(toWorker) <= MaxCommands + 1

\* The host never refuses a command: in whatever order the loop, the frame thread
\* and the daemon run, and whatever breaks, a command arrives in a phase that
\* takes it (drain_commands' "daemon command violates the worker lifecycle state").
NoCommandRefused ==
  /\ SessionTypeOK
  /\ pc = "drain" /\ toWorker # << >> => Accepts(Head(toWorker))

\* The daemon never takes a healthy worker for a broken one: unless the backend
\* reported an error or the owner asked for the end, no packet, order of packets
\* or end of file fails it.
HealthyIsNotBroken == state \in Broken => stopping \/ stopRequested

\* Slots a consumer, the route or the socket may still read.
Unreleased ==
  held \cup {frames[i] : i \in DOMAIN frames}
       \cup {toDaemon[i].arg : i \in {j \in DOMAIN toDaemon : toDaemon[j].op = "FRAME_READY"}}
InUse == {slotOf[p] : p \in Unreleased}

\* "Renderer modules wait that timeline point before reusing the DMA-BUF slot":
\* the slot being written is one that nobody reads.
WriteOnlyReleased == painting \notin InUse

\* That holds of a backend that paints in the frame thread.
ThreadWritesReleased == ~aside => WriteOnlyReleased

\* What a backend in the frame thread must not write, and a backend aside must not
\* be: taken for broken.
BackendsBehave == ThreadWritesReleased /\ (aside => HealthyIsNotBroken)

\* A stop that was requested ends, with the worker reaped.
StopEnds == state = "QUIESCING" ~> state = "EXITED"

\* Every release point a worker hands out is reached by the timeline, in service
\* or when the pool is retired, unless the worker failed.
PointsReturn ==
  \A p \in Points : (nextPoint >= p) ~> (timeline >= p \/ state \in Broken \cup {"EXITED"})
=============================================================================
