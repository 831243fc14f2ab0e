--------------------------- MODULE RendererProcess ---------------------------
(***************************************************************************)
(* One renderer worker as the daemon sees it: the lifecycle state machine  *)
(* of vivid_renderer_process.c.  The daemon runs on one main context, so a *)
(* source dispatch (socket, pidfd, deadline, group poll) is one step.      *)
(*                                                                         *)
(* The operators below are the transitions of that file.  They constrain   *)
(* the variables of this module only; RendererOwner conjoins to each the   *)
(* synchronous observer callbacks of the owner.  The worker itself and the *)
(* operating system are represented by what the daemon can observe: the    *)
(* worker's socket end, its process-group leader and the helpers of its    *)
(* group, kept for every instance ever spawned.                            *)
(***************************************************************************)
EXTENDS Integers, Sequences

CONSTANTS
  MaxInstances, \* how many workers a behaviour may spawn (bounds the model)
  MaxPool,      \* most buffers a pool may have (VIVID_RENDERER_MAX_POOL_BUFFERS)
  MaxPoint      \* highest release point a worker may use (bounds the model)

ASSUME InstancesAssumption == MaxInstances \in Nat \ {0}
ASSUME PoolAssumption      == MaxPool \in Nat \ {0}
ASSUME PointAssumption     == MaxPoint \in Nat

VARIABLES
  inst,       \* instance_id of the newest worker, 0 before the first spawn
  state,      \* process->state
  wasActive,  \* process->was_active (and the owner's copy, set in the same step)
  ipc,        \* process->socket_fd >= 0
  deadline,   \* deadline_source is armed
  termSent,   \* process->termination_sent
  killSent,   \* process->kill_sent
  seen,       \* the once-only replies accepted so far (hello_seen, ready_seen, ...)
  negotiated, \* negotiate_request_id is set (and the owner's negotiation_sent)
  quiesced,   \* quiesce_request_id is set
  poolSize,   \* process->pool.n_buffers, 0 until BIND_BUFFERS
  firstFrame, \* process->first_frame_seen
  frames,     \* release points of the frames queued and not taken
  lastPoint,  \* process->last_release_point
  peer,       \* the newest worker's end of the socket is open
  leader,     \* operating-system state of every instance's group leader
  helpers     \* whether an instance's process group still has helpers

opVars   == << seen, negotiated, quiesced, poolSize, firstFrame >>
dataVars == << frames, lastPoint >>
osVars   == << peer, leader, helpers >>
procVars == << inst, state, wasActive, ipc, deadline, termSent, killSent,
               opVars, dataVars, osVars >>

Instances == 1 .. MaxInstances
Points    == 1 .. MaxPoint

Running == {"NEGOTIATING", "WAIT_FIRST_FRAME", "ACTIVE"}
Broken  == {"FAILED", "CRASHED"}
States  == {"EMPTY", "WAIT_HELLO", "INITIALIZING", "QUIESCING", "UNBINDING",
            "SHUTTING_DOWN", "EXITED"} \cup Running \cup Broken

InitReplies == {"READY", "FORMAT_CAPS", "RELEASE_TIMELINE"}
OnceOnly    == {"HELLO"} \cup InitReplies

\* What a worker may send.  "ok" says that the payload is well formed and that
\* a reply carries the request id the daemon is waiting for; "arg" is the
\* buffer count of BIND_BUFFERS and the release point of FRAME_READY.
Opcodes == OnceOnly \cup {"BIND_BUFFERS", "FRAME_READY", "STATE_CHANGED",
                          "BIND_FAILED", "ERROR", "QUIESCED"}
Packet(op, arg) == [op |-> op, ok |-> TRUE, arg |-> arg]
Malformed(op)   == [op |-> op, ok |-> FALSE, arg |-> 0]

-----------------------------------------------------------------------------
(* Deadlines and transitions.                                              *)

\* Mutants of Bounded: a case missing from the switch.
BoundedNotQuiescing   == {"WAIT_HELLO", "INITIALIZING", "NEGOTIATING",
                          "WAIT_FIRST_FRAME", "SHUTTING_DOWN"}
BoundedNotNegotiating == {"WAIT_HELLO", "INITIALIZING", "WAIT_FIRST_FRAME",
                          "QUIESCING", "SHUTTING_DOWN"}

\* schedule_state_deadline: the states a deadline bounds; the others cancel it.
Bounded == {"WAIT_HELLO", "INITIALIZING", "NEGOTIATING", "WAIT_FIRST_FRAME",
            "QUIESCING", "SHUTTING_DOWN"}

Transition(s) ==
  /\ state'     = s
  /\ wasActive' = (wasActive \/ s = "ACTIVE")
  /\ deadline'  = (s \in Bounded)

FailureState == IF wasActive THEN "CRASHED" ELSE "FAILED"

\* Mutant of ProcessFail: SIGTERM is sent without a deadline to follow it up.
ProcessFailUntimed ==
  /\ state' = FailureState /\ ipc' = FALSE
  /\ termSent' = TRUE /\ deadline' = FALSE
  /\ UNCHANGED << inst, wasActive, killSent, opVars, dataVars, osVars >>

\* process_fail: enter the failure state, close the socket, start termination.
ProcessFail ==
  /\ state'    = FailureState
  /\ ipc'      = FALSE
  /\ termSent' = TRUE
  /\ deadline' = (~termSent \/ deadline)
  /\ UNCHANGED << inst, wasActive, killSent, opVars, dataVars, osVars >>

\* queue_command: Change happens once the command is on its way.  When the worker
\* has closed its end, flush_outbox fails the process instead.
Send(Change) == IF peer THEN Change ELSE ProcessFail

-----------------------------------------------------------------------------
(* Spawning and commands of the owner.                                     *)

\* vivid_renderer_process_new_spawned for the next instance: the state after
\* its own two transitions, which no observer sees.
NewSpawned ==
  /\ inst' = inst + 1
  /\ state' = "WAIT_HELLO" /\ deadline' = TRUE
  /\ wasActive' = FALSE /\ ipc' = TRUE /\ termSent' = FALSE /\ killSent' = FALSE
  /\ seen' = {} /\ negotiated' = FALSE /\ quiesced' = FALSE
  /\ poolSize' = 0 /\ firstFrame' = FALSE
  /\ frames' = << >> /\ lastPoint' = 0

SendNegotiateBuffers ==
  Send(/\ Transition("WAIT_FIRST_FRAME")
       /\ negotiated' = TRUE /\ firstFrame' = FALSE
       /\ UNCHANGED << inst, ipc, termSent, killSent, seen, quiesced, poolSize,
                       dataVars, osVars >>)

RequestQuiesce ==
  Send(/\ Transition("QUIESCING")
       /\ quiesced' = TRUE
       /\ UNCHANGED << inst, ipc, termSent, killSent, seen, negotiated, poolSize,
                       firstFrame, dataVars, osVars >>)

RequestShutdown ==
  Send(/\ Transition("SHUTTING_DOWN")
       /\ UNCHANGED << inst, ipc, termSent, killSent, opVars, dataVars, osVars >>)

\* A runtime command changes nothing in the daemon unless its send fails.
SendRuntime == Send(UNCHANGED procVars)

TakeFrame ==
  /\ frames # << >>
  /\ frames' = Tail(frames)
  /\ UNCHANGED << inst, state, wasActive, ipc, deadline, termSent, killSent,
                  opVars, lastPoint, osVars >>

-----------------------------------------------------------------------------
(* Packets.                                                                *)

StoresPool  == {"WAIT_FIRST_FRAME", "ACTIVE", "QUIESCING"}

\* Mutant of StoreFrame: the queue takes one frame too many.
StoreFrameOneMore(p) == poolSize # 0 /\ Len(frames) <= poolSize /\ p > lastPoint

StoreFrame(p) ==
  /\ poolSize # 0
  /\ Len(frames) < poolSize
  /\ p > lastPoint

\* process_accept_packet returns TRUE for m.
Acceptable(m) ==
  IF "HELLO" \notin seen
  THEN m.op = "HELLO" /\ m.ok /\ state = "WAIT_HELLO"
  ELSE \/ /\ m.op \in InitReplies
          /\ m.ok /\ state = "INITIALIZING" /\ m.op \notin seen
       \/ /\ m.op = "BIND_BUFFERS"
          /\ m.ok /\ state \in StoresPool /\ negotiated /\ poolSize = 0
       \/ /\ m.op = "FRAME_READY"
          /\ m.ok /\ state \in StoresPool /\ StoreFrame(m.arg)
       \/ /\ m.op = "STATE_CHANGED"
          /\ state \in {"INITIALIZING", "QUIESCING", "UNBINDING"} \cup Running
       \/ m.op = "BIND_FAILED" /\ m.ok /\ negotiated
       \/ m.op = "ERROR"
       \/ m.op = "QUIESCED" /\ m.ok /\ state = "QUIESCING" /\ quiesced

\* HELLO enters INITIALIZING, whose observer sends INIT at once.  (The replies a
\* failed worker gave are never read again, so a failing send leaves seen alone.)
AcceptHello ==
  Send(/\ Transition("INITIALIZING")
       /\ seen' = {"HELLO"}
       /\ UNCHANGED << inst, ipc, termSent, killSent, negotiated, quiesced,
                       poolSize, firstFrame, dataVars, osVars >>)

\* The last of the three init replies enters NEGOTIATING, whose observer sends
\* the runtime state at once.
AcceptInitReply(op) ==
  LET complete == seen \cup {op} = OnceOnly IN
  IF complete /\ ~peer
  THEN ProcessFail
  ELSE /\ IF complete THEN Transition("NEGOTIATING")
                      ELSE UNCHANGED << state, wasActive, deadline >>
       /\ seen' = seen \cup {op}
       /\ UNCHANGED << inst, ipc, termSent, killSent, negotiated, quiesced,
                       poolSize, firstFrame, dataVars, osVars >>

AcceptBindBuffers(n) ==
  /\ poolSize' = n
  /\ UNCHANGED << inst, state, wasActive, ipc, deadline, termSent, killSent, seen,
                  negotiated, quiesced, firstFrame, dataVars, osVars >>

\* Mutant of AcceptFrameReady: any first frame activates the worker.
AcceptFrameReadyRevives(p) ==
  /\ frames' = Append(frames, p) /\ lastPoint' = p /\ firstFrame' = TRUE
  /\ IF ~firstFrame THEN Transition("ACTIVE")
                     ELSE UNCHANGED << state, wasActive, deadline >>
  /\ UNCHANGED << inst, ipc, termSent, killSent, seen, negotiated, quiesced,
                  poolSize, osVars >>

\* Only a first frame in WAIT_FIRST_FRAME activates the worker: a late one must
\* not cancel a requested stop.
AcceptFrameReady(p) ==
  /\ frames' = Append(frames, p)
  /\ lastPoint' = p
  /\ firstFrame' = TRUE
  /\ IF ~firstFrame /\ state = "WAIT_FIRST_FRAME"
     THEN Transition("ACTIVE")
     ELSE UNCHANGED << state, wasActive, deadline >>
  /\ UNCHANGED << inst, ipc, termSent, killSent, seen, negotiated, quiesced,
                  poolSize, osVars >>

AcceptQuiesced ==
  /\ Transition("UNBINDING")
  /\ UNCHANGED << inst, ipc, termSent, killSent, opVars, dataVars, osVars >>

\* process_socket_ready for one packet.
ReceivePacket(m) ==
  /\ ipc
  /\ IF ~Acceptable(m) \/ m.op \in {"BIND_FAILED", "ERROR"}
     THEN ProcessFail
     ELSE \/ m.op = "HELLO" /\ AcceptHello
          \/ m.op \in InitReplies /\ AcceptInitReply(m.op)
          \/ m.op = "BIND_BUFFERS" /\ AcceptBindBuffers(m.arg)
          \/ m.op = "FRAME_READY" /\ AcceptFrameReady(m.arg)
          \/ m.op = "QUIESCED" /\ AcceptQuiesced
          \/ m.op = "STATE_CHANGED" /\ UNCHANGED procVars

\* process_socket_ready at end of file.
ReceiveEof ==
  /\ ipc /\ ~peer
  /\ IF state = "SHUTTING_DOWN"
     THEN /\ ipc' = FALSE
          /\ UNCHANGED << inst, state, wasActive, deadline, termSent, killSent,
                          opVars, dataVars, osVars >>
     ELSE ProcessFail

\* The socket reports an error after the worker closed it (unread commands are
\* lost) or hangs up on commands still queued: unlike an end of file, this fails
\* a worker that is shutting down too.
SocketError ==
  /\ ipc /\ ~peer
  /\ ProcessFail

-----------------------------------------------------------------------------
(* Deadlines, exit and reaping.                                            *)

\* process_deadline_expired: the first expiry fails the process, the expiry of
\* the SIGTERM deadline kills the whole group.
DeadlineExpired ==
  /\ deadline
  /\ IF ~termSent
     THEN ProcessFail
     ELSE /\ killSent' = TRUE /\ deadline' = FALSE
          /\ UNCHANGED << inst, state, wasActive, ipc, termSent, opVars, dataVars,
                          osVars >>

\* process_pidfd_ready up to the group test: the state the top-level exit
\* leaves, whether or not a helper delays the end of the reap.
ExitState ==
  IF state \in {"SHUTTING_DOWN"} \cup Broken THEN state ELSE FailureState

LeaderExited == inst # 0 /\ leader[inst] = "zombie"

\* The leader is reaped while helpers of its group live: SIGKILL the group and
\* poll it.
TopReaped ==
  /\ LeaderExited /\ helpers[inst]
  /\ leader' = [leader EXCEPT ![inst] = "gone"]
  /\ state' = ExitState /\ deadline' = FALSE /\ ipc' = FALSE
  /\ UNCHANGED << inst, wasActive, termSent, killSent, opVars, dataVars, peer,
                  helpers >>

\* Mutant of GroupGone: the exit of the leader is taken for the end of its group.
GroupGoneAtLeaderExit ==
  inst # 0 /\ state # "EXITED" /\ leader[inst] \in {"zombie", "gone"}

\* process_finish_reap is reached: the whole group is gone.
GroupGone ==
  /\ inst # 0 /\ state # "EXITED" /\ ~helpers[inst]
  /\ leader[inst] \in {"zombie", "gone"}

\* process_finish_reap without the owner's reaction to it.
FinishReap ==
  /\ state' = "EXITED" /\ deadline' = FALSE /\ ipc' = FALSE
  /\ poolSize' = 0 /\ frames' = << >>
  /\ leader' = [leader EXCEPT ![inst] = "gone"]
  /\ UNCHANGED << inst, wasActive, termSent, killSent, seen, negotiated, quiesced,
                  firstFrame, lastPoint, peer, helpers >>

-----------------------------------------------------------------------------
(* The operating system's side of an instance.                             *)

LeaderAlive == inst # 0 /\ leader[inst] = "alive"

\* The worker closes its end, which it does before it exits.
PeerCloses ==
  /\ peer
  /\ peer' = FALSE
  /\ UNCHANGED << inst, state, wasActive, ipc, deadline, termSent, killSent,
                  opVars, dataVars, leader, helpers >>

\* The group leader ends: a crash, its own exit, SIGTERM or SIGKILL.
LeaderExits ==
  /\ LeaderAlive
  /\ leader' = [leader EXCEPT ![inst] = "zombie"] /\ peer' = FALSE
  /\ UNCHANGED << inst, state, wasActive, ipc, deadline, termSent, killSent,
                  opVars, dataVars, helpers >>

\* A running leader forks a helper (the Chromium processes of the web renderer).
HelperStarts ==
  /\ LeaderAlive /\ ~killSent /\ ~helpers[inst]
  /\ helpers' = [helpers EXCEPT ![inst] = TRUE]
  /\ UNCHANGED << inst, state, wasActive, ipc, deadline, termSent, killSent,
                  opVars, dataVars, peer, leader >>

\* The last helper of a group ends.
HelpersExit ==
  /\ inst # 0 /\ helpers[inst]
  /\ helpers' = [helpers EXCEPT ![inst] = FALSE]
  /\ UNCHANGED << inst, state, wasActive, ipc, deadline, termSent, killSent,
                  opVars, dataVars, peer, leader >>

ProcessInit ==
  /\ inst = 0 /\ state = "EMPTY" /\ wasActive = FALSE /\ ipc = FALSE
  /\ deadline = FALSE /\ termSent = FALSE /\ killSent = FALSE
  /\ seen = {} /\ negotiated = FALSE /\ quiesced = FALSE
  /\ poolSize = 0 /\ firstFrame = FALSE
  /\ frames = << >> /\ lastPoint = 0
  /\ peer = FALSE
  /\ leader = [i \in Instances |-> "none"]
  /\ helpers = [i \in Instances |-> FALSE]

ProcessTypeOK ==
  /\ inst \in 0 .. MaxInstances
  /\ state \in States
  /\ wasActive \in BOOLEAN /\ ipc \in BOOLEAN /\ deadline \in BOOLEAN
  /\ termSent \in BOOLEAN /\ killSent \in BOOLEAN
  /\ negotiated \in BOOLEAN /\ quiesced \in BOOLEAN /\ firstFrame \in BOOLEAN
  /\ seen \in SUBSET OnceOnly
  /\ poolSize \in 0 .. MaxPool
  /\ frames \in Seq(Points) /\ Len(frames) <= MaxPool
  /\ lastPoint \in 0 .. MaxPoint
  /\ peer \in BOOLEAN
  /\ leader \in [Instances -> {"none", "alive", "zombie", "gone"}]
  /\ helpers \in [Instances -> BOOLEAN]
=============================================================================
