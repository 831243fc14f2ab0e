---------------------------- MODULE RendererOwner ----------------------------
(***************************************************************************)
(* The owner of one route's worker (VividProducerRenderer): it decides     *)
(* which worker should run, reconciles the running one with that wish,     *)
(* holds the UNBIND barrier while display consumers still use the buffers  *)
(* of a retired worker, and is told of every change of the worker's state  *)
(* by synchronous callbacks.                                               *)
(*                                                                         *)
(* Each action is one dispatch of the daemon's main context: a transition  *)
(* of RendererProcess and, in the same step, what the owner's callback     *)
(* does.  The route above the owner appears as its calls (prepare, bind,   *)
(* take a frame, UNBIND acknowledged) on the outputs linked to the route.  *)
(* The worker is free: it may send any packet, exit and fork at any time.  *)
(***************************************************************************)
EXTENDS RendererProcess

CONSTANTS
  Identities, \* the identity hashes a configuration can ask for
  NoIdentity, \* no wallpaper, no GPU or no extent: nothing to run
  Outputs     \* the display outputs linked to the route

ASSUME IdentityAssumption == NoIdentity \notin Identities

VARIABLES
  owned,         \* renderer->process # NULL
  identity,      \* identity hash the current worker was spawned with
  desired,       \* desired_identity_hash, NoIdentity for NULL
  stopped,       \* playback_stopped
  startupError,  \* startup_error # NULL
  stopRequested, \* process_stop_requested
  waiting,       \* waiting_for_unbind
  generation,    \* generation, the number outputs compare to see a new pool
  boundTo,       \* instance whose buffers an output's consumer holds, 0 for none
  boundGen       \* generation an output was bound with

wishVars   == << desired, stopped >>
outputVars == << boundTo, boundGen >>
ownerVars  == << owned, identity, wishVars, startupError, stopRequested, waiting,
                 generation, outputVars >>
vars       == << procVars, ownerVars >>

ShouldRun(id, stop) == id # NoIdentity /\ ~stop

-----------------------------------------------------------------------------
(* Callbacks of the process.                                               *)

\* Mutant of Published: only a worker that became active has lent its pool.
PublishedOnceActive == wasActive

\* process_was_active || process_pool_published
Published == wasActive \/ poolSize # 0

\* renderer_process_state_changed, when the process enters s: the barrier, the
\* generation and the startup error it leaves.
WaitingAt(s) ==
  waiting \/ (s # state /\ (s = "UNBINDING" \/ (s \in Broken /\ Published)))

GenerationAt(s) ==
  IF s # state /\ \/ s = "UNBINDING"
                  \/ s \in Broken /\ Published /\ ~waiting
  THEN generation + 1 ELSE generation

ErrorAt(s, err, stop) ==
  err \/ (s # state /\ s \in Broken /\ ~wasActive /\ ~stop)

\* The callbacks of a step that enters state'.
Observe(err) ==
  /\ waiting' = WaitingAt(state')
  /\ generation' = GenerationAt(state')
  /\ startupError' = ErrorAt(state', err, stopRequested')

-----------------------------------------------------------------------------
(* Spawning and reconciling.                                               *)

\* renderer_spawn over the group-leader table L: a new worker, or the error of
\* a spawn that failed, whose process table stays as Idle leaves it.
Spawn(L, id, Idle) ==
  \/ /\ inst < MaxInstances
     /\ NewSpawned
     /\ leader' = [L EXCEPT ![inst + 1] = "alive"] /\ peer' = TRUE
     /\ UNCHANGED helpers
     /\ owned' = TRUE /\ identity' = id
     /\ startupError' = FALSE /\ stopRequested' = FALSE
  \/ /\ Idle
     /\ owned' = FALSE /\ UNCHANGED identity
     /\ startupError' = TRUE /\ stopRequested' = FALSE

\* renderer_reconcile without a process.
ReconcileNone(L, id, stop, err, Idle) ==
  IF ShouldRun(id, stop) /\ ~err
  THEN Spawn(L, id, Idle)
  ELSE /\ Idle
       /\ owned' = FALSE /\ startupError' = err
       /\ UNCHANGED << identity, stopRequested >>

Retiring == {"QUIESCING", "SHUTTING_DOWN", "EXITED"} \cup Broken

\* renderer_reconcile with a process: keep it, leave it to the stop already
\* under way, quiesce it, or terminate it when it cannot be quiesced yet.
ReconcileOwned(id, stop, err) ==
  LET keep == identity = id /\ ShouldRun(id, stop)
                /\ state \notin Broken \cup {"EXITED"} IN
  /\ UNCHANGED << owned, identity >>
  /\ \/ /\ keep \/ waiting \/ state \in Retiring
        /\ IF keep /\ state \in Running THEN SendRuntime ELSE UNCHANGED procVars
        /\ UNCHANGED stopRequested
     \/ /\ ~keep /\ ~waiting /\ state \in Running
        /\ RequestQuiesce
        /\ UNCHANGED stopRequested
     \/ /\ ~keep /\ ~waiting /\ state \notin Running \cup Retiring
        /\ stopRequested' = TRUE
        /\ ProcessFail
  /\ Observe(err)

Reconcile(id, stop, err) ==
  IF owned
  THEN ReconcileOwned(id, stop, err)
  ELSE /\ ReconcileNone(leader, id, stop, err, UNCHANGED procVars)
       /\ UNCHANGED << waiting, generation >>

\* vivid_producer_renderer_apply_config and _set_target_extent, with the
\* clearing of startup errors that precedes a SET_STATE (clear).
ApplyConfig(id, clear) ==
  /\ desired' = id
  /\ Reconcile(id, stopped, startupError /\ desired = id /\ ~clear)
  /\ UNCHANGED << stopped, outputVars >>

\* vivid_producer_renderer_set_playback_stopped
SetPlaybackStopped ==
  /\ stopped' = ~stopped
  /\ Reconcile(desired, ~stopped, startupError)
  /\ UNCHANGED << desired, outputVars >>

\* Playback, media, audio and pointer input for a running worker: only a send
\* that fails changes the daemon.
RuntimeCommand ==
  /\ owned /\ state \in Running
  /\ SendRuntime
  /\ UNCHANGED << owned, identity, stopRequested, wishVars, outputVars >>
  /\ Observe(startupError)

-----------------------------------------------------------------------------
(* Dispatches of the process sources.                                      *)

\* A packet; BIND_BUFFERS publishes a pool and so a new generation.
Receive(m) ==
  /\ owned
  /\ ReceivePacket(m)
  /\ waiting' = WaitingAt(state')
  /\ generation' = IF poolSize' # poolSize THEN generation + 1 ELSE GenerationAt(state')
  /\ startupError' = ErrorAt(state', startupError, stopRequested)
  /\ UNCHANGED << owned, identity, stopRequested, wishVars, outputVars >>

Callback(Dispatch) ==
  /\ owned
  /\ Dispatch
  /\ UNCHANGED << owned, identity, stopRequested, wishVars, outputVars >>
  /\ Observe(startupError)

Eof      == Callback(ReceiveEof)
IpcError == Callback(SocketError)
Deadline == Callback(DeadlineExpired)
TopReap  == Callback(TopReaped)

\* The whole group is gone, at the pidfd or at a poll: the exit is observed,
\* the owner forgets the process and, unless consumers still hold its buffers,
\* reconciles at once.
Reap ==
  LET w == WaitingAt(ExitState)
      e == ErrorAt(ExitState, startupError, stopRequested)
      L == [leader EXCEPT ![inst] = "gone"] IN
  /\ owned /\ GroupGone
  /\ waiting' = w /\ generation' = GenerationAt(ExitState)
  /\ IF w
     THEN /\ FinishReap
          /\ owned' = FALSE /\ startupError' = e
          /\ UNCHANGED << identity, stopRequested >>
     ELSE ReconcileNone(L, desired, stopped, e, FinishReap)
  /\ UNCHANGED << wishVars, outputVars >>

-----------------------------------------------------------------------------
(* Calls of the route.                                                     *)

\* Mutant of Ready: the barrier is not consulted.
ReadyBehindBarrier ==
  owned /\ desired # NoIdentity /\ identity = desired /\ state \in Running

\* vivid_producer_renderer_is_ready_for_dmabuf_negotiation
Ready == owned /\ ~waiting /\ desired # NoIdentity /\ identity = desired /\ state \in Running

\* prepare_dmabuf_buffers_ex starts the negotiation ...
Negotiate ==
  /\ Ready /\ state = "NEGOTIATING" /\ ~negotiated
  /\ SendNegotiateBuffers
  /\ UNCHANGED << owned, identity, stopRequested, wishVars, outputVars >>
  /\ Observe(startupError)

\* ... or copies the pool, which the route binds to an output.
BindOutput(o) ==
  /\ Ready /\ poolSize # 0
  /\ boundTo' = [boundTo EXCEPT ![o] = inst]
  /\ boundGen' = [boundGen EXCEPT ![o] = generation]
  /\ UNCHANGED << procVars, owned, identity, wishVars, startupError, stopRequested,
                  waiting, generation >>

\* vivid_producer_renderer_next_dmabuf_frame
NextFrame ==
  /\ owned /\ ~waiting
  /\ TakeFrame
  /\ UNCHANGED ownerVars

\* A consumer rejects the pool it was bound to (BIND_FAILED): quiesce the worker;
\* a send that fails is followed by an owner-requested stop.
InvalidatePool ==
  /\ \E o \in Outputs : boundTo[o] # 0
  /\ ~waiting /\ owned /\ state \in Running
  /\ RequestQuiesce
  /\ waiting' = WaitingAt(state')
  /\ generation' = GenerationAt(state')
  /\ startupError' = ErrorAt(state', startupError, stopRequested)
  /\ stopRequested' = (stopRequested \/ state' \in Broken)
  /\ UNCHANGED << owned, identity, wishVars, outputVars >>

\* The consumer of o lets go of its buffers: it answered UNBIND, or it left.
ReleaseOutput(o) ==
  /\ boundTo[o] # 0
  /\ boundTo' = [boundTo EXCEPT ![o] = 0]
  /\ boundGen' = [boundGen EXCEPT ![o] = 0]
  /\ UNCHANGED << procVars, owned, identity, wishVars, startupError, stopRequested,
                  waiting, generation >>

\* Mutant of AllReleased: one output's answer stands for the whole route.
SomeReleased == \E o \in Outputs : boundTo[o] = 0

\* The waiting branch of client_rebind_output has gone through every output of
\* the route.
AllReleased == \A o \in Outputs : boundTo[o] = 0

\* The worker was reaped before its consumers let go: reconcile now.
CompleteReaped ==
  /\ ~owned
  /\ waiting' = FALSE
  /\ ReconcileNone(leader, desired, stopped, startupError, UNCHANGED procVars)
  /\ UNCHANGED generation

\* A live worker: shut it down if it is quiesced.  The barrier is cleared first,
\* so a SHUTDOWN that cannot be sent may raise it again through the observer.
CompleteLive ==
  /\ owned
  /\ IF state = "UNBINDING" THEN RequestShutdown ELSE UNCHANGED procVars
  /\ waiting' = (state' \in Broken /\ state' # state /\ Published)
  /\ generation' = IF waiting' THEN generation + 1 ELSE generation
  /\ startupError' = ErrorAt(state', startupError, stopRequested)
  /\ UNCHANGED << owned, identity, stopRequested >>

\* vivid_producer_renderer_complete_unbind
CompleteUnbind ==
  /\ waiting /\ AllReleased
  /\ CompleteReaped \/ CompleteLive
  /\ UNCHANGED << wishVars, outputVars >>

-----------------------------------------------------------------------------

Init ==
  /\ ProcessInit
  /\ owned = FALSE /\ identity = NoIdentity
  /\ desired = NoIdentity /\ stopped = FALSE
  /\ startupError = FALSE /\ stopRequested = FALSE
  /\ waiting = FALSE /\ generation = 1
  /\ boundTo = [o \in Outputs |-> 0] /\ boundGen = [o \in Outputs |-> 0]

Packets ==
  {Packet(op, 0) : op \in Opcodes \ {"BIND_BUFFERS", "FRAME_READY"}}
    \cup {Packet("BIND_BUFFERS", n) : n \in 1 .. MaxPool}
    \cup {Packet("FRAME_READY", p) : p \in Points}
    \cup {Malformed(op) : op \in Opcodes}

Config ==
  \/ \E id \in Identities \cup {NoIdentity}, clear \in BOOLEAN : ApplyConfig(id, clear)
  \/ SetPlaybackStopped
  \/ RuntimeCommand

Sources ==
  \/ \E m \in Packets : Receive(m)
  \/ Eof \/ IpcError \/ Deadline \/ TopReap \/ Reap

Route ==
  \/ Negotiate \/ NextFrame \/ InvalidatePool \/ CompleteUnbind
  \/ \E o \in Outputs : BindOutput(o) \/ ReleaseOutput(o)

Worker ==
  (PeerCloses \/ LeaderExits \/ HelperStarts \/ HelpersExit) /\ UNCHANGED ownerVars

Next == Config \/ Sources \/ Route \/ Worker

Spec == Init /\ [][Next]_vars

\* Scheduling the code relies on: armed timers and ready descriptors are
\* dispatched, and a group that was sent SIGKILL ends.  Nothing obliges a worker
\* to answer, to obey SIGTERM or to exit, a consumer to answer UNBIND, or the
\* route to complete the barrier: what it does about that is in RouteBinding.
Killed == killSent \/ (inst # 0 /\ leader[inst] = "gone")

Fairness ==
  /\ WF_vars(Eof) /\ WF_vars(Deadline) /\ WF_vars(TopReap) /\ WF_vars(Reap)
  /\ WF_vars(Killed /\ LeaderExits /\ UNCHANGED ownerVars)
  /\ WF_vars(Killed /\ HelpersExit /\ UNCHANGED ownerVars)

FairSpec == Spec /\ Fairness

-----------------------------------------------------------------------------
(* Safety.                                                                 *)

\* The variables have the types the code gives them.
TypeOK ==
  /\ ProcessTypeOK
  /\ owned \in BOOLEAN /\ stopped \in BOOLEAN /\ startupError \in BOOLEAN
  /\ stopRequested \in BOOLEAN /\ waiting \in BOOLEAN
  /\ identity \in Identities \cup {NoIdentity}
  /\ desired \in Identities \cup {NoIdentity}
  /\ generation \in Nat \ {0}
  /\ boundTo \in [Outputs -> 0 .. MaxInstances]
  /\ boundGen \in [Outputs -> Nat]

GroupLives(i) == leader[i] \in {"alive", "zombie"} \/ helpers[i]

\* Stop before spawn: at any time at most one worker's process group, helpers
\* and unreaped leader included, exists, and it is the one the owner holds.
\* The pidfd and group-poll sources delay EXITED, and with it the next spawn,
\* until the whole group is gone.
StopBeforeSpawn == \A i \in Instances : GroupLives(i) => owned /\ i = inst

\* The UNBIND barrier: as long as a consumer holds buffers of an earlier worker,
\* no later worker has negotiated a pool.
BarrierBeforeNegotiation ==
  \A o \in Outputs : boundTo[o] \notin {0, inst} => waiting /\ ~negotiated

\* The generation an output was bound with tells it whether its buffers are
\* good: it equals the owner's exactly while the worker that owns them is not
\* past the barrier.  This is all route outputs have to notice an invalid pool.
GenerationTellsStale ==
  \A o \in Outputs : boundTo[o] # 0 =>
    (boundGen[o] = generation <=> owned /\ boundTo[o] = inst /\ ~waiting)

\* A worker is told to shut down, which frees its images, only when no consumer
\* holds one of them.
ShutdownAfterUnbind == state = "SHUTTING_DOWN" => \A o \in Outputs : boundTo[o] = 0

\* No worker can hang the owner: until its leader is reaped, a worker that is
\* neither active nor waiting for consumers has a deadline armed, or has been
\* sent SIGKILL already.
DeadlineCovers ==
  owned /\ leader[inst] # "gone" /\ state \notin {"ACTIVE", "UNBINDING"}
    => deadline \/ killSent

-----------------------------------------------------------------------------
(* What a step may never do, and what must happen.                         *)

Stopping == Retiring \cup {"UNBINDING"}

\* A requested stop is final: no late pool, frame or reply of the worker brings
\* it back into service.
StopIsFinal ==
  [][inst' = inst /\ state \in Stopping => state' \in Stopping]_vars

\* A worker under a stop is reaped with its whole process group, whatever it does,
\* unless it comes to wait for its consumers; and after that wait it is, too.
StoppedIsReaped ==
  \A i \in Instances :
    (inst = i /\ state \in Stopping)
      ~> ((leader[i] = "gone" /\ ~helpers[i]) \/ (inst = i /\ state = "UNBINDING"))

\* A worker that was spawned does not stay in startup: it becomes active or it
\* is stopped.
StartupEnds ==
  \A i \in Instances :
    (inst = i /\ owned /\ state \notin Stopping)
      ~> (inst > i \/ state \in {"ACTIVE"} \cup Stopping)

-----------------------------------------------------------------------------
(* The lease of the pool, an abstract view of owner and workers.           *)

\* A worker past a stop request is retired, one that may lend its pool serves.
Phase ==
  IF ~owned \/ state \in Stopping THEN "retired"
  ELSE IF negotiated THEN "serving" ELSE "starting"

Lease == INSTANCE BufferLease WITH
  Workers <- Instances, Users <- Outputs,
  worker <- inst, phase <- Phase, holds <- boundTo,
  groups <- {i \in Instances : leader[i] = "alive" \/ helpers[i]}

\* The owner implements the exclusive lease of BufferLease.
ImplementsLease == Lease!Spec

-----------------------------------------------------------------------------
(* Claims the code's comments and labels make and the code does not keep.  *)

\* "Terminating that obsolete instance is an owner-requested stop, not a startup
\* failure of the desired generation": an error recorded when a worker breaks
\* was of the configuration still wanted.
StartupErrorIsOfDesired ==
  [][~startupError /\ startupError' /\ inst' = inst /\ state' \in Broken /\ state # state'
       => identity = desired']_vars
=============================================================================
