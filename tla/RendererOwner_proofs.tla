------------------------ MODULE RendererOwner_proofs --------------------------
(*****************************************************************************)
(* Type correctness and safety of RendererOwner.  First, every operation of  *)
(* the process keeps ProcessTypeOK and every action of the owner TypeOK.     *)
(* Then every step is shown to have one of a few shapes (StepShape), seen    *)
(* through the variables the invariants speak of; each inductive invariant is *)
(* preserved shape by shape.                                                 *)
(*****************************************************************************)
EXTENDS RendererOwner, TLAPS

\* What the types of the owner's own variables say, without the process.
OwnerTypeOK ==
  /\ owned \in BOOLEAN /\ stopped \in BOOLEAN /\ startupError \in BOOLEAN
  /\ stopRequested \in BOOLEAN /\ waiting \in BOOLEAN
  /\ identity \in Identities \cup {NoIdentity}
  /\ desired \in Identities \cup {NoIdentity}
  /\ generation \in Nat \ {0}
  /\ boundTo \in [Outputs -> 0 .. MaxInstances]
  /\ boundGen \in [Outputs -> Nat]

-----------------------------------------------------------------------------
(* Operations of the process.                                              *)

\* A failing process stays well typed.
LEMMA ProcessFailType == ASSUME ProcessTypeOK, ProcessFail PROVE ProcessTypeOK'
BY DEF ProcessTypeOK, ProcessFail, FailureState, opVars, dataVars, osVars, States, Running,
       Broken

\* A transition yields well typed values of the variables it sets.
LEMMA TransitionType ==
  ASSUME wasActive \in BOOLEAN, NEW s \in States, Transition(s)
  PROVE  state' \in States /\ wasActive' \in BOOLEAN /\ deadline' \in BOOLEAN
BY DEF Transition

\* The states the transitions below enter.
LEMMA StatesEntered ==
  {"INITIALIZING", "NEGOTIATING", "WAIT_FIRST_FRAME", "ACTIVE", "QUIESCING",
   "UNBINDING", "SHUTTING_DOWN"} \subseteq States
BY DEF States, Running

\* So does a process that is sent a command, whether or not the send fails.
LEMMA CommandType ==
  ASSUME ProcessTypeOK,
         RequestQuiesce \/ RequestShutdown \/ SendNegotiateBuffers \/ SendRuntime
  PROVE  ProcessTypeOK'
<1>1. CASE ~peer
  BY <1>1, ProcessFailType
     DEF RequestQuiesce, RequestShutdown, SendNegotiateBuffers, SendRuntime, Send
<1>2. CASE peer /\ RequestQuiesce
  BY <1>2, TransitionType, StatesEntered
     DEF ProcessTypeOK, RequestQuiesce, Send, dataVars, osVars
<1>3. CASE peer /\ RequestShutdown
  BY <1>3, TransitionType, StatesEntered
     DEF ProcessTypeOK, RequestShutdown, Send, opVars, dataVars, osVars
<1>4. CASE peer /\ SendNegotiateBuffers
  BY <1>4, TransitionType, StatesEntered
     DEF ProcessTypeOK, SendNegotiateBuffers, Send, dataVars, osVars
<1>5. CASE peer /\ SendRuntime
  BY <1>5 DEF ProcessTypeOK, SendRuntime, Send, procVars, opVars, dataVars, osVars
<1> QED BY <1>1, <1>2, <1>3, <1>4, <1>5

\* The packets a worker can send are well typed.
LEMMA PacketType ==
  ASSUME NEW m \in Packets
  PROVE  /\ m.op \in Opcodes /\ m.ok \in BOOLEAN
         /\ m.ok /\ m.op = "BIND_BUFFERS" => m.arg \in 1 .. MaxPool
         /\ m.ok /\ m.op = "FRAME_READY" => m.arg \in Points
<1>1. CASE \E op \in Opcodes \ {"BIND_BUFFERS", "FRAME_READY"} : m = Packet(op, 0)
  BY <1>1 DEF Packet
<1>2. CASE \E n \in 1 .. MaxPool : m = Packet("BIND_BUFFERS", n)
  BY <1>2 DEF Packet, Opcodes
<1>3. CASE \E p \in Points : m = Packet("FRAME_READY", p)
  BY <1>3 DEF Packet, Opcodes
<1>4. CASE \E op \in Opcodes : m = Malformed(op)
  BY <1>4 DEF Malformed
<1> QED BY <1>1, <1>2, <1>3, <1>4 DEF Packets

\* Receiving one of them keeps the process well typed.
LEMMA ReceiveType ==
  ASSUME ProcessTypeOK, NEW m \in Packets, ReceivePacket(m)
  PROVE  ProcessTypeOK'
<1>1. CASE ~Acceptable(m) \/ m.op \in {"BIND_FAILED", "ERROR"}
  BY <1>1, ProcessFailType DEF ReceivePacket
<1>2. CASE Acceptable(m) /\ m.op \notin {"BIND_FAILED", "ERROR"}
  <2>1. CASE m.op = "HELLO" /\ AcceptHello
    <3>1. CASE ~peer
      BY <2>1, <3>1, ProcessFailType DEF AcceptHello, Send
    <3>2. CASE peer
      BY <2>1, <3>2, TransitionType, StatesEntered
         DEF ProcessTypeOK, AcceptHello, Send, dataVars, osVars, OnceOnly
    <3> QED BY <3>1, <3>2
  <2>2. CASE m.op \in InitReplies /\ AcceptInitReply(m.op)
    <3>1. seen \cup {m.op} \in SUBSET OnceOnly
      BY <2>2 DEF ProcessTypeOK, OnceOnly
    <3>2. CASE ProcessFail
      BY <3>2, ProcessFailType
    <3>3. CASE ~ProcessFail
      BY <2>2, <3>1, <3>3, TransitionType, StatesEntered
         DEF ProcessTypeOK, AcceptInitReply, dataVars, osVars
    <3> QED BY <3>2, <3>3
  <2>3. CASE m.op = "BIND_BUFFERS" /\ AcceptBindBuffers(m.arg)
    <3>1. m.arg \in 0 .. MaxPool
      BY <1>2, <2>3, PacketType, PoolAssumption
         DEF Acceptable, InitReplies
    <3> QED
      BY <2>3, <3>1 DEF ProcessTypeOK, AcceptBindBuffers, dataVars, osVars
  <2>4. CASE m.op = "FRAME_READY" /\ AcceptFrameReady(m.arg)
    <3>1. m.arg \in Points /\ StoreFrame(m.arg)
      BY <1>2, <2>4, PacketType DEF Acceptable, InitReplies
    <3>2. Append(frames, m.arg) \in Seq(Points) /\ Len(Append(frames, m.arg)) <= MaxPool
      BY <3>1, PoolAssumption DEF ProcessTypeOK, StoreFrame
    <3>3. m.arg \in 0 .. MaxPoint
      BY <3>1, PointAssumption DEF Points
    <3> QED
      BY <2>4, <3>2, <3>3, TransitionType, StatesEntered
         DEF ProcessTypeOK, AcceptFrameReady, osVars
  <2>5. CASE m.op = "QUIESCED" /\ AcceptQuiesced
    BY <2>5, TransitionType, StatesEntered
       DEF ProcessTypeOK, AcceptQuiesced, opVars, dataVars, osVars
  <2>6. CASE UNCHANGED procVars
    BY <2>6 DEF ProcessTypeOK, procVars, opVars, dataVars, osVars
  <2> QED BY <1>2, <2>1, <2>2, <2>3, <2>4, <2>5, <2>6 DEF ReceivePacket
<1> QED BY <1>1, <1>2

\* The other sources of the process keep it well typed.
LEMMA SourceType ==
  ASSUME ProcessTypeOK, ReceiveEof \/ SocketError \/ DeadlineExpired \/ TopReaped
  PROVE  ProcessTypeOK'
<1>1. CASE ReceiveEof
  BY <1>1, ProcessFailType DEF ProcessTypeOK, ReceiveEof, opVars, dataVars, osVars
<1>2. CASE SocketError
  BY <1>2, ProcessFailType DEF SocketError
<1>3. CASE DeadlineExpired
  BY <1>3, ProcessFailType DEF ProcessTypeOK, DeadlineExpired, opVars, dataVars, osVars
<1>4. CASE TopReaped
  BY <1>4 DEF ProcessTypeOK, TopReaped, ExitState, FailureState, opVars, dataVars,
              States, Running, Broken
<1> QED BY <1>1, <1>2, <1>3, <1>4

\* So does taking a frame off the queue.
LEMMA TakeFrameType == ASSUME ProcessTypeOK, TakeFrame PROVE ProcessTypeOK'
<1>1. Tail(frames) \in Seq(Points) /\ Len(Tail(frames)) <= MaxPool
  BY PoolAssumption DEF ProcessTypeOK, TakeFrame
<1> QED BY <1>1 DEF ProcessTypeOK, TakeFrame, opVars, osVars

\* And so does the end of the reap.
LEMMA FinishReapType == ASSUME ProcessTypeOK, FinishReap PROVE ProcessTypeOK'
<1>1. << >> \in Seq(Points) /\ Len(<< >>) <= MaxPool /\ 0 \in 0 .. MaxPool
  BY PoolAssumption
<1> QED BY <1>1 DEF ProcessTypeOK, FinishReap, States, Broken, Running

-----------------------------------------------------------------------------
(* Operations of the owner.                                                *)

\* The callbacks yield well typed values of the variables they set.
LEMMA CallbackType ==
  ASSUME OwnerTypeOK, NEW s, NEW err \in BOOLEAN, NEW stop \in BOOLEAN
  PROVE  /\ WaitingAt(s) \in BOOLEAN
         /\ GenerationAt(s) \in Nat \ {0}
         /\ ErrorAt(s, err, stop) \in BOOLEAN
BY DEF OwnerTypeOK, WaitingAt, GenerationAt, ErrorAt

\* A spawn, over the table of leaders as it is or with the newest one reaped.
LEMMA SpawnType ==
  ASSUME ProcessTypeOK, OwnerTypeOK, NEW id \in Identities \cup {NoIdentity},
         NEW err \in BOOLEAN, NEW stop \in BOOLEAN,
         NEW L \in [Instances -> {"none", "alive", "zombie", "gone"}],
         \/ ReconcileNone(L, id, stop, err, UNCHANGED procVars)
         \/ ReconcileNone(L, id, stop, err, FinishReap)
  PROVE  /\ ProcessTypeOK'
         /\ owned' \in BOOLEAN /\ identity' \in Identities \cup {NoIdentity}
         /\ startupError' \in BOOLEAN /\ stopRequested' \in BOOLEAN
<1>1. UNCHANGED procVars => ProcessTypeOK'
  BY DEF ProcessTypeOK, procVars, opVars, dataVars, osVars
<1>2. FinishReap => ProcessTypeOK'
  BY FinishReapType
<1>3. ASSUME inst < MaxInstances, NewSpawned, peer' = TRUE, UNCHANGED helpers,
             leader' = [L EXCEPT ![inst + 1] = "alive"]
      PROVE  ProcessTypeOK'
  <2>1. << >> \in Seq(Points) /\ Len(<< >>) <= MaxPool /\ 0 \in 0 .. MaxPool
        /\ 0 \in 0 .. MaxPoint
    BY PoolAssumption, PointAssumption
  <2>2. inst' \in 0 .. MaxInstances
    BY <1>3, InstancesAssumption DEF ProcessTypeOK, NewSpawned
  <2> QED BY <1>3, <2>1, <2>2 DEF ProcessTypeOK, NewSpawned, States, Broken, Running
<1> QED BY <1>1, <1>2, <1>3 DEF ReconcileNone, Spawn, OwnerTypeOK

\* Reconciling a worker that is owned.
LEMMA ReconcileOwnedType ==
  ASSUME ProcessTypeOK, OwnerTypeOK, NEW id, NEW stop \in BOOLEAN,
         NEW err \in BOOLEAN, ReconcileOwned(id, stop, err)
  PROVE  /\ ProcessTypeOK'
         /\ owned' \in BOOLEAN /\ identity' \in Identities \cup {NoIdentity}
         /\ startupError' \in BOOLEAN /\ stopRequested' \in BOOLEAN
         /\ waiting' \in BOOLEAN /\ generation' \in Nat \ {0}
<1>1. stopRequested' \in BOOLEAN
  BY DEF ReconcileOwned, OwnerTypeOK
<1>2. /\ startupError' \in BOOLEAN
      /\ waiting' \in BOOLEAN /\ generation' \in Nat \ {0}
  BY <1>1, CallbackType DEF ReconcileOwned, Observe
<1>3. ProcessTypeOK'
  <2>1. CASE UNCHANGED procVars
    BY <2>1 DEF ProcessTypeOK, procVars, opVars, dataVars, osVars
  <2>2. CASE SendRuntime \/ RequestQuiesce
    BY <2>2, CommandType
  <2>3. CASE ProcessFail
    BY <2>3, ProcessFailType
  <2> QED BY <2>1, <2>2, <2>3 DEF ReconcileOwned
<1> QED BY <1>1, <1>2, <1>3 DEF ReconcileOwned, OwnerTypeOK

\* Reconciling, with or without a worker.
LEMMA ReconcileType ==
  ASSUME ProcessTypeOK, OwnerTypeOK, NEW id \in Identities \cup {NoIdentity},
         NEW stop \in BOOLEAN, NEW err \in BOOLEAN, Reconcile(id, stop, err)
  PROVE  /\ ProcessTypeOK'
         /\ owned' \in BOOLEAN /\ identity' \in Identities \cup {NoIdentity}
         /\ startupError' \in BOOLEAN /\ stopRequested' \in BOOLEAN
         /\ waiting' \in BOOLEAN /\ generation' \in Nat \ {0}
<1>1. CASE owned
  BY <1>1, ReconcileOwnedType DEF Reconcile
<1>2. CASE ~owned
  <2>1. leader \in [Instances -> {"none", "alive", "zombie", "gone"}]
    BY DEF ProcessTypeOK
  <2>2. ReconcileNone(leader, id, stop, err, UNCHANGED procVars)
    BY <1>2 DEF Reconcile
  <2>3. waiting' \in BOOLEAN /\ generation' \in Nat \ {0}
    BY <1>2 DEF Reconcile, OwnerTypeOK
  <2> QED BY <2>1, <2>2, <2>3, SpawnType
<1> QED BY <1>1, <1>2

\* A step of the process with the owner's callbacks.
LEMMA ObserveType ==
  ASSUME OwnerTypeOK, Observe(startupError), stopRequested' \in BOOLEAN,
         UNCHANGED << owned, identity, wishVars, outputVars >>
  PROVE  OwnerTypeOK'
BY CallbackType DEF Observe, OwnerTypeOK, wishVars, outputVars

-----------------------------------------------------------------------------

\* TypeOK is the types of the process and those of the owner.
LEMMA TypeParts == TypeOK <=> ProcessTypeOK /\ OwnerTypeOK
BY DEF TypeOK, OwnerTypeOK

\* The initial state is well typed.
LEMMA TypeCorrectInit == Init => TypeOK
<1>1. << >> \in Seq(Points) /\ Len(<< >>) <= MaxPool /\ 0 \in 0 .. MaxPool
      /\ 0 \in 0 .. MaxPoint /\ 0 \in 0 .. MaxInstances
  BY InstancesAssumption, PoolAssumption, PointAssumption
<1>2. Init => ProcessTypeOK
  BY <1>1 DEF Init, ProcessInit, ProcessTypeOK, States
<1>3. Init => boundTo \in [Outputs -> 0 .. MaxInstances] /\ boundGen \in [Outputs -> Nat]
  BY <1>1 DEF Init
<1>4. Init => /\ owned \in BOOLEAN /\ stopped \in BOOLEAN /\ startupError \in BOOLEAN
              /\ stopRequested \in BOOLEAN /\ waiting \in BOOLEAN
  BY DEF Init
<1>5. Init => /\ identity = NoIdentity /\ desired = NoIdentity /\ generation = 1
  BY DEF Init
<1> QED BY TypeParts, <1>2, <1>3, <1>4, <1>5 DEF OwnerTypeOK

\* Every step keeps the types.
LEMMA TypeCorrectStep == TypeOK /\ [Next]_vars => TypeOK'
<1> SUFFICES ASSUME ProcessTypeOK, OwnerTypeOK, [Next]_vars
             PROVE  ProcessTypeOK' /\ OwnerTypeOK'
  BY DEF TypeOK, OwnerTypeOK
<1>1. ASSUME NEW id \in Identities \cup {NoIdentity}, NEW clear \in BOOLEAN,
             ApplyConfig(id, clear)
      PROVE  ProcessTypeOK' /\ OwnerTypeOK'
  <2> DEFINE err == startupError /\ desired = id /\ ~clear
  <2>1. Reconcile(id, stopped, err) /\ stopped \in BOOLEAN /\ err \in BOOLEAN
    BY <1>1 DEF ApplyConfig, OwnerTypeOK
  <2> HIDE DEF err
  <2> QED BY <1>1, <2>1, ReconcileType DEF ApplyConfig, OwnerTypeOK, outputVars
<1>2. CASE SetPlaybackStopped
  <2>1. Reconcile(desired, ~stopped, startupError)
    BY <1>2 DEF SetPlaybackStopped
  <2> QED
    BY <1>2, <2>1, ReconcileType DEF SetPlaybackStopped, OwnerTypeOK, outputVars
<1>3. CASE RuntimeCommand
  BY <1>3, CommandType, ObserveType DEF RuntimeCommand, OwnerTypeOK
<1>4. ASSUME NEW m \in Packets, Receive(m)
      PROVE  ProcessTypeOK' /\ OwnerTypeOK'
  BY <1>4, ReceiveType, CallbackType DEF Receive, OwnerTypeOK, wishVars, outputVars
<1>5. CASE Eof \/ IpcError \/ Deadline \/ TopReap
  BY <1>5, SourceType, ObserveType
     DEF Eof, IpcError, Deadline, TopReap, Callback, OwnerTypeOK
<1>6. CASE Reap
  <2>1. /\ WaitingAt(ExitState) \in BOOLEAN
        /\ GenerationAt(ExitState) \in Nat \ {0}
        /\ ErrorAt(ExitState, startupError, stopRequested) \in BOOLEAN
    BY CallbackType DEF OwnerTypeOK
  <2>2. [leader EXCEPT ![inst] = "gone"]
          \in [Instances -> {"none", "alive", "zombie", "gone"}]
    BY DEF ProcessTypeOK
  <2>3. CASE WaitingAt(ExitState)
    BY <1>6, <2>1, <2>3, FinishReapType
       DEF Reap, OwnerTypeOK, wishVars, outputVars
  <2>4. CASE ~WaitingAt(ExitState)
    <3>1. ReconcileNone([leader EXCEPT ![inst] = "gone"], desired, stopped,
               ErrorAt(ExitState, startupError, stopRequested), FinishReap)
      BY <1>6, <2>4 DEF Reap
    <3>2. desired \in Identities \cup {NoIdentity} /\ stopped \in BOOLEAN
      BY DEF OwnerTypeOK
    <3>3. /\ ProcessTypeOK'
          /\ owned' \in BOOLEAN /\ identity' \in Identities \cup {NoIdentity}
          /\ startupError' \in BOOLEAN /\ stopRequested' \in BOOLEAN
      BY <2>1, <2>2, <3>1, <3>2, SpawnType
    <3> QED BY <1>6, <2>1, <3>3 DEF Reap, OwnerTypeOK, wishVars, outputVars
  <2> QED BY <2>3, <2>4
<1>7. CASE Negotiate
  BY <1>7, CommandType, ObserveType DEF Negotiate, OwnerTypeOK
<1>8. CASE NextFrame
  BY <1>8, TakeFrameType DEF NextFrame, ownerVars, OwnerTypeOK, wishVars, outputVars
<1>9. CASE InvalidatePool
  BY <1>9, CommandType, CallbackType
     DEF InvalidatePool, OwnerTypeOK, wishVars, outputVars
<1>10. CASE CompleteUnbind /\ CompleteReaped
  <2>1. leader \in [Instances -> {"none", "alive", "zombie", "gone"}]
    BY DEF ProcessTypeOK
  <2>2. /\ desired \in Identities \cup {NoIdentity} /\ stopped \in BOOLEAN
        /\ startupError \in BOOLEAN
    BY DEF OwnerTypeOK
  <2>3. ReconcileNone(leader, desired, stopped, startupError, UNCHANGED procVars)
    BY <1>10 DEF CompleteReaped
  <2>4. /\ ProcessTypeOK'
        /\ owned' \in BOOLEAN /\ identity' \in Identities \cup {NoIdentity}
        /\ startupError' \in BOOLEAN /\ stopRequested' \in BOOLEAN
    BY <2>1, <2>2, <2>3, SpawnType
  <2> QED
    BY <1>10, <2>4 DEF CompleteUnbind, CompleteReaped, OwnerTypeOK, wishVars,
                       outputVars
<1>11. CASE CompleteUnbind /\ CompleteLive
  <2>1. ProcessTypeOK'
    BY <1>11, CommandType
       DEF CompleteLive, ProcessTypeOK, procVars, opVars, dataVars, osVars
  <2>2. waiting' \in BOOLEAN
    BY <1>11 DEF CompleteLive
  <2>3. startupError' \in BOOLEAN
    BY <1>11, CallbackType DEF CompleteLive, OwnerTypeOK
  <2>4. generation' \in Nat \ {0}
    BY <1>11 DEF CompleteLive, OwnerTypeOK
  <2> QED
    BY <1>11, <2>1, <2>2, <2>3, <2>4
       DEF CompleteUnbind, CompleteLive, OwnerTypeOK, wishVars, outputVars
<1>12. ASSUME NEW o \in Outputs, BindOutput(o) \/ ReleaseOutput(o)
       PROVE  ProcessTypeOK' /\ OwnerTypeOK'
  BY <1>12, InstancesAssumption
     DEF BindOutput, ReleaseOutput, ProcessTypeOK, OwnerTypeOK, procVars, opVars,
         dataVars, osVars, wishVars
<1>13. CASE Worker
  <2>1. OwnerTypeOK'
    BY <1>13 DEF Worker, OwnerTypeOK, ownerVars, wishVars, outputVars
  <2>2. CASE PeerCloses
    BY <2>1, <2>2 DEF PeerCloses, ProcessTypeOK, opVars, dataVars
  <2>3. CASE LeaderExits
    BY <2>1, <2>3 DEF LeaderExits, ProcessTypeOK, opVars, dataVars
  <2>4. CASE HelperStarts
    BY <2>1, <2>4 DEF HelperStarts, ProcessTypeOK, opVars, dataVars
  <2>5. CASE HelpersExit
    BY <2>1, <2>5 DEF HelpersExit, ProcessTypeOK, opVars, dataVars
  <2> QED BY <1>13, <2>2, <2>3, <2>4, <2>5 DEF Worker
<1>14. CASE UNCHANGED vars
  BY <1>14 DEF vars, ProcessTypeOK, OwnerTypeOK, procVars, opVars, dataVars, osVars,
               ownerVars, wishVars, outputVars
<1> QED
  BY <1>1, <1>2, <1>3, <1>4, <1>5, <1>6, <1>7, <1>8, <1>9, <1>10, <1>11, <1>12,
     <1>13, <1>14 DEF Next, Config, Sources, Route, CompleteUnbind

\* The variables have the types the code gives them.
THEOREM TypeCorrect == Spec => []TypeOK
BY TypeCorrectInit, TypeCorrectStep, PTL DEF Spec

-----------------------------------------------------------------------------
(* The shapes of a step of a worker the owner holds.                       *)

\* The stages a worker goes through, a stop included, until it is shut down.
Moves ==
  {<< "WAIT_HELLO", "INITIALIZING" >>, << "INITIALIZING", "NEGOTIATING" >>,
   << "NEGOTIATING", "WAIT_FIRST_FRAME" >>, << "WAIT_FIRST_FRAME", "ACTIVE" >>,
   << "QUIESCING", "UNBINDING" >>}
    \cup {<< s, "QUIESCING" >> : s \in Running}

Advance ==
  /\ << state, state' >> \in Moves
  /\ Transition(state')
  /\ UNCHANGED << inst, termSent, killSent, poolSize, leader, helpers >>
  /\ \/ negotiated' = negotiated
     \/ negotiated' = TRUE /\ state = "NEGOTIATING" /\ ~waiting

\* The worker publishes its pool.
PoolStored ==
  /\ state \in StoresPool /\ negotiated /\ poolSize = 0 /\ poolSize' # 0
  /\ UNCHANGED << inst, state, wasActive, deadline, termSent, killSent, negotiated,
                  leader, helpers >>

\* Nothing the invariants speak of changes.
Same ==
  UNCHANGED << inst, state, wasActive, deadline, termSent, killSent, negotiated,
               poolSize, leader, helpers >>

\* The SIGTERM deadline expires and the group is killed.
GroupKilled ==
  /\ termSent /\ killSent'
  /\ UNCHANGED << inst, state, wasActive, termSent, negotiated, poolSize, leader,
                  helpers >>

ProcessStep == ProcessFail \/ Advance \/ PoolStored \/ Same \/ GroupKilled \/ TopReaped

\* Such a step with the owner's callbacks.
OwnedStep ==
  /\ owned /\ owned' = owned
  /\ ProcessStep
  /\ waiting' = WaitingAt(state')
  /\ generation' = IF poolSize' # poolSize THEN generation + 1 ELSE GenerationAt(state')
  /\ stopRequested' => stopRequested \/ state' \in Broken
  /\ UNCHANGED << identity, outputVars >>

\* The owner holds no worker: it spawns one or stays idle.  The barrier can
\* only be lifted, and only with every output released.
IdleStep ==
  /\ ~owned
  /\ \E id, stop, err : ReconcileNone(leader, id, stop, err, UNCHANGED procVars)
  /\ waiting' = waiting \/ (AllReleased /\ ~waiting')
  /\ UNCHANGED << generation, outputVars >>

-----------------------------------------------------------------------------
(* Every step has one of these shapes.                                     *)

\* A command, delivered or not, moves the process along Moves or fails it.
LEMMA CommandShape ==
  /\ RequestQuiesce /\ state \in Running => ProcessFail \/ Advance
  /\ SendNegotiateBuffers /\ state = "NEGOTIATING" /\ ~waiting => ProcessFail \/ Advance
  /\ SendRuntime => ProcessFail \/ Same
<1>1. CASE ~peer
  BY <1>1 DEF RequestQuiesce, SendNegotiateBuffers, SendRuntime, Send
<1>2. CASE peer
  <2>1. RequestQuiesce /\ state \in Running => Advance
    BY <1>2 DEF RequestQuiesce, Send, Transition, Advance, Moves, Running, osVars
  <2>2. SendNegotiateBuffers /\ state = "NEGOTIATING" /\ ~waiting => Advance
    BY <1>2 DEF SendNegotiateBuffers, Send, Transition, Advance, Moves, Running, osVars
  <2>3. SendRuntime => Same
    BY <1>2 DEF SendRuntime, Send, Same, procVars, opVars, osVars
  <2> QED BY <2>1, <2>2, <2>3
<1> QED BY <1>1, <1>2

\* A packet does no more to the process than a move or a failure.
LEMMA ReceiveShape ==
  ASSUME NEW m \in Packets, ReceivePacket(m)
  PROVE  /\ ProcessFail \/ Advance \/ PoolStored \/ Same
<1>1. CASE ~Acceptable(m) \/ m.op \in {"BIND_FAILED", "ERROR"}
  BY <1>1 DEF ReceivePacket
<1>2. CASE Acceptable(m) /\ m.op \notin {"BIND_FAILED", "ERROR"}
  <2>1. CASE m.op = "HELLO" /\ AcceptHello
    <3>1. state = "WAIT_HELLO"
      BY <1>2, <2>1 DEF Acceptable, InitReplies
    <3> QED BY <2>1, <3>1 DEF AcceptHello, Send, Advance, Moves, Transition, osVars
  <2>2. CASE m.op \in InitReplies /\ AcceptInitReply(m.op)
    <3>1. state = "INITIALIZING"
      BY <1>2, <2>2 DEF Acceptable, InitReplies
    <3> QED BY <2>2, <3>1 DEF AcceptInitReply, Advance, Moves, Same, Transition, osVars
  <2>3. CASE m.op = "BIND_BUFFERS" /\ AcceptBindBuffers(m.arg)
    <3>1. m.arg # 0 /\ state \in StoresPool /\ negotiated /\ poolSize = 0
      BY <1>2, <2>3, PacketType DEF Acceptable, InitReplies
    <3> QED BY <2>3, <3>1 DEF AcceptBindBuffers, PoolStored, osVars
  <2>4. CASE m.op = "FRAME_READY" /\ AcceptFrameReady(m.arg)
    BY <2>4 DEF AcceptFrameReady, Advance, Moves, Same, Transition, osVars
  <2>5. CASE m.op = "QUIESCED" /\ AcceptQuiesced
    <3>1. state = "QUIESCING"
      BY <1>2, <2>5 DEF Acceptable, InitReplies
    <3> QED BY <2>5, <3>1 DEF AcceptQuiesced, Advance, Moves, Transition, opVars, osVars
  <2>6. CASE UNCHANGED procVars
    BY <2>6 DEF Same, procVars, opVars, osVars
  <2> QED BY <1>2, <2>1, <2>2, <2>3, <2>4, <2>5, <2>6 DEF ReceivePacket
<1> QED BY <1>1, <1>2

\* Nor do the other sources of the daemon: hang-up, deadline and the end of the leader.
LEMMA SourceShape ==
  ASSUME ReceiveEof \/ SocketError \/ DeadlineExpired \/ TopReaped \/ TakeFrame
  PROVE  ProcessStep
BY DEF ReceiveEof, SocketError, DeadlineExpired, TakeFrame, ProcessStep, Same,
       GroupKilled, opVars, osVars

\* Only a negotiation gives the owner a pool; every other process step keeps or drops it.
LEMMA PoolKept ==
  ProcessStep /\ ~PoolStored => poolSize' = poolSize
BY DEF ProcessStep, ProcessFail, Advance, Same, GroupKilled, TopReaped, opVars

\* A reconcile that finds a worker.
LEMMA ReconcileShape ==
  ASSUME TypeOK, NEW id, NEW stop, NEW err, ReconcileOwned(id, stop, err), owned,
         UNCHANGED outputVars
  PROVE  OwnedStep
<1>1. ProcessFail \/ Advance \/ Same
  BY CommandShape DEF ReconcileOwned, Same, procVars, opVars, osVars
<1>2. stopRequested' => stopRequested \/ state' \in Broken
  BY DEF ReconcileOwned, ProcessFail, FailureState, Broken
<1>3. poolSize' = poolSize
  BY <1>1 DEF ProcessFail, Advance, Same, opVars
<1> QED
  BY <1>1, <1>2, <1>3 DEF ReconcileOwned, Observe, OwnedStep, ProcessStep

\* A reconcile by the configuration or the playback state.
LEMMA WishShape ==
  ASSUME TypeOK, NEW id, NEW stop, NEW err, Reconcile(id, stop, err),
         UNCHANGED outputVars
  PROVE  OwnedStep \/ IdleStep
<1>1. CASE owned
  BY <1>1, ReconcileShape DEF Reconcile
<1>2. CASE ~owned
  BY <1>2 DEF Reconcile, IdleStep
<1> QED BY <1>1, <1>2

\* Every step of the owner is one of the shapes defined above.
LEMMA StepShape ==
  ASSUME TypeOK, [Next]_vars
  PROVE  \/ OwnedStep \/ IdleStep
         \/ CompleteUnbind /\ CompleteLive
         \/ \E o \in Outputs : BindOutput(o) \/ ReleaseOutput(o)
         \/ Reap \/ Worker
         \/ UNCHANGED vars
<1>1. ASSUME NEW id \in Identities \cup {NoIdentity}, NEW clear \in BOOLEAN,
             ApplyConfig(id, clear)
      PROVE  OwnedStep \/ IdleStep
  BY <1>1, WishShape DEF ApplyConfig
<1>2. CASE SetPlaybackStopped
  BY <1>2, WishShape DEF SetPlaybackStopped
<1>3. CASE RuntimeCommand
  <2>1. ProcessFail \/ Same
    BY <1>3, CommandShape DEF RuntimeCommand
  <2> QED
    BY <1>3, <2>1 DEF RuntimeCommand, Observe, OwnedStep, ProcessStep, ProcessFail,
                      Same, opVars
<1>4. ASSUME NEW m \in Packets, Receive(m)
      PROVE  OwnedStep
  <2>1. ProcessStep
    BY <1>4, ReceiveShape DEF Receive, ProcessStep
  <2> QED BY <1>4, <2>1 DEF Receive, OwnedStep
<1>5. CASE Eof \/ IpcError \/ Deadline \/ TopReap
  <2>1. ProcessStep /\ poolSize' = poolSize
    BY <1>5, SourceShape
       DEF Eof, IpcError, Deadline, TopReap, Callback, ReceiveEof, SocketError,
           DeadlineExpired, TopReaped, ProcessFail, opVars
  <2> QED
    BY <1>5, <2>1 DEF Eof, IpcError, Deadline, TopReap, Callback, Observe, OwnedStep
<1>6. CASE Negotiate
  <2>1. ProcessFail \/ Advance
    BY <1>6, CommandShape DEF Negotiate, Ready
  <2> QED
    BY <1>6, <2>1 DEF Negotiate, Ready, Observe, OwnedStep, ProcessStep, ProcessFail,
                      Advance, opVars
<1>7. CASE NextFrame
  BY <1>7 DEF NextFrame, TakeFrame, OwnedStep, ProcessStep, Same, WaitingAt,
              GenerationAt, ownerVars, opVars, osVars, TypeOK
<1>8. CASE InvalidatePool
  <2>1. ProcessFail \/ Advance
    BY <1>8, CommandShape DEF InvalidatePool
  <2> QED
    BY <1>8, <2>1 DEF InvalidatePool, OwnedStep, ProcessStep, ProcessFail, Advance,
                      opVars
<1>9. CASE CompleteUnbind /\ CompleteReaped
  BY <1>9 DEF CompleteUnbind, CompleteReaped, IdleStep
<1> QED
  BY <1>1, <1>2, <1>3, <1>4, <1>5, <1>6, <1>7, <1>8, <1>9
     DEF Next, Config, Sources, Route, CompleteUnbind

-----------------------------------------------------------------------------
(* Stop before spawn.                                                      *)

\* Strengthens StopBeforeSpawn: which instances have ended, and that an owned
\* worker is the newest.
GroupInv ==
  /\ \A i \in Instances : i > inst => leader[i] = "none" /\ ~helpers[i]
  /\ \A i \in Instances : i < inst => leader[i] = "gone" /\ ~helpers[i]
  /\ ~owned /\ inst # 0 => leader[inst] = "gone" /\ ~helpers[inst]
  /\ owned => inst # 0

\* A spawn or a failed one, once the newest group is gone.
LEMMA SpawnGroup ==
  ASSUME TypeOK, GroupInv, NEW id, NEW stop, NEW err,
         NEW L \in [Instances -> {"none", "alive", "zombie", "gone"}],
         \A i \in Instances : i # inst => L[i] = leader[i],
         inst # 0 => L[inst] = "gone" /\ ~helpers[inst],
         \/ ReconcileNone(L, id, stop, err, UNCHANGED procVars) /\ L = leader
         \/ ReconcileNone(L, id, stop, err, FinishReap) /\ (FinishReap => leader' = L)
  PROVE  GroupInv'
<1>1. inst \in 0 .. MaxInstances
  BY DEF TypeOK, ProcessTypeOK
<1>2. CASE owned' = FALSE /\ UNCHANGED << inst, helpers >> /\ leader' = L
  BY <1>1, <1>2 DEF GroupInv
<1>3. CASE /\ inst < MaxInstances /\ inst' = inst + 1 /\ UNCHANGED helpers
           /\ leader' = [L EXCEPT ![inst + 1] = "alive"] /\ owned' = TRUE
  <2>1. \A i \in Instances : i > inst' => leader'[i] = "none" /\ ~helpers'[i]
    BY <1>1, <1>3 DEF GroupInv, Instances
  <2>2. \A i \in Instances : i < inst' => leader'[i] = "gone" /\ ~helpers'[i]
    BY <1>1, <1>3 DEF GroupInv, Instances
  <2> QED BY <1>1, <1>3, <2>1, <2>2 DEF GroupInv
<1> QED
  BY <1>2, <1>3
     DEF ReconcileNone, Spawn, NewSpawned, FinishReap, procVars, osVars

\* Every step keeps at most one process group, that of the owned worker.
LEMMA GroupStep == TypeOK /\ GroupInv /\ [Next]_vars => GroupInv'
<1> SUFFICES ASSUME TypeOK, GroupInv, [Next]_vars PROVE GroupInv'
  OBVIOUS
<1> USE DEF GroupInv
<1>0. /\ inst \in 0 .. MaxInstances
      /\ leader \in [Instances -> {"none", "alive", "zombie", "gone"}]
      /\ helpers \in [Instances -> BOOLEAN]
  BY DEF TypeOK, ProcessTypeOK
<1>1. CASE OwnedStep
  <2>1. CASE UNCHANGED << inst, leader, helpers >>
    BY <1>1, <2>1 DEF OwnedStep
  <2>2. CASE TopReaped
    BY <1>0, <1>1, <2>2 DEF OwnedStep, TopReaped, LeaderExited
  <2> QED
    BY <1>1, <2>1, <2>2
       DEF OwnedStep, ProcessStep, ProcessFail, Advance, PoolStored, Same, GroupKilled,
           osVars
<1>2. CASE IdleStep
  <2>1. PICK id, stop, err : ReconcileNone(leader, id, stop, err, UNCHANGED procVars)
    BY <1>2 DEF IdleStep
  <2> QED BY <1>0, <1>2, <2>1, SpawnGroup DEF IdleStep
<1>3. CASE CompleteUnbind /\ CompleteLive
  <2>1. UNCHANGED << inst, leader, helpers, owned >>
    BY <1>3
       DEF CompleteLive, RequestShutdown, Send, ProcessFail, procVars, osVars
  <2> QED BY <2>1
<1>4. ASSUME NEW o \in Outputs, BindOutput(o) \/ ReleaseOutput(o)
      PROVE  GroupInv'
  BY <1>4 DEF BindOutput, ReleaseOutput, procVars, osVars
<1>5. CASE Reap
  <2> DEFINE L == [leader EXCEPT ![inst] = "gone"]
  <2>1. /\ L \in [Instances -> {"none", "alive", "zombie", "gone"}]
        /\ \A i \in Instances : i # inst => L[i] = leader[i]
        /\ inst # 0 => L[inst] = "gone" /\ ~helpers[inst]
    BY <1>0, <1>5 DEF Reap, GroupGone, Instances
  <2>2. CASE ~WaitingAt(ExitState)
    <3>1. ReconcileNone(L, desired, stopped,
            ErrorAt(ExitState, startupError, stopRequested), FinishReap)
      BY <1>5, <2>2 DEF Reap
    <3>2. FinishReap => leader' = L
      BY DEF FinishReap
    <3> HIDE DEF L
    <3> QED BY <1>0, <2>1, <3>1, <3>2, SpawnGroup
  <2>3. CASE WaitingAt(ExitState)
    BY <1>0, <1>5, <2>1, <2>3 DEF Reap, FinishReap
  <2> QED BY <2>2, <2>3
<1>6. CASE Worker
  BY <1>0, <1>6
     DEF Worker, PeerCloses, LeaderExits, HelperStarts, HelpersExit, LeaderAlive,
         ownerVars
<1>7. CASE UNCHANGED vars
  BY <1>7 DEF vars, procVars, osVars, ownerVars
<1> QED BY <1>1, <1>2, <1>3, <1>4, <1>5, <1>6, <1>7, StepShape

\* At any time at most one worker's process group exists, and it is owned.
THEOREM StopBeforeSpawnHolds == Spec => []StopBeforeSpawn
<1>1. Init => GroupInv
  BY DEF Init, ProcessInit, GroupInv, Instances
<1>2. TypeOK /\ GroupInv => StopBeforeSpawn
  BY DEF GroupInv, StopBeforeSpawn, GroupLives, TypeOK, ProcessTypeOK, Instances
<1> QED BY <1>1, <1>2, GroupStep, TypeCorrect, PTL DEF Spec

-----------------------------------------------------------------------------
(* The UNBIND barrier.                                                     *)

\* Strengthens BarrierBeforeNegotiation and ShutdownAfterUnbind: buffers of the
\* newest worker are held behind the barrier, or while it serves its pool.
HoldInv ==
  /\ BarrierBeforeNegotiation
  /\ \A o \in Outputs : boundTo[o] <= inst
  /\ \A o \in Outputs : boundTo[o] # 0 /\ ~waiting =>
       owned /\ state \in Running \cup {"QUIESCING"} /\ poolSize # 0
  /\ ShutdownAfterUnbind

\* A worker that leaves service while its buffers are held raises the barrier.
LEMMA LeavingRaises ==
  ASSUME NEW s, poolSize # 0, state \in Running \cup {"QUIESCING"}, s \in Broken
  PROVE  WaitingAt(s) /\ GenerationAt(s) = IF waiting THEN generation ELSE generation + 1
BY DEF WaitingAt, GenerationAt, Published, Running, Broken

\* Every step keeps the barrier up as long as an earlier worker's buffers are held.
LEMMA HoldStep == TypeOK /\ GroupInv /\ HoldInv /\ [Next]_vars => HoldInv'
<1> SUFFICES ASSUME TypeOK, GroupInv, HoldInv, [Next]_vars PROVE HoldInv'
  OBVIOUS
<1> USE DEF HoldInv, BarrierBeforeNegotiation, ShutdownAfterUnbind
<1>0. /\ inst \in 0 .. MaxInstances /\ boundTo \in [Outputs -> 0 .. MaxInstances]
      /\ inst \in Nat /\ waiting \in BOOLEAN
      /\ \A o \in Outputs : boundTo[o] \in Nat
  BY InstancesAssumption DEF TypeOK, ProcessTypeOK
<1>1. CASE OwnedStep
  <2>1. UNCHANGED << inst, boundTo, owned >>
    BY <1>1
       DEF OwnedStep, ProcessStep, ProcessFail, Advance, PoolStored, Same, GroupKilled,
           TopReaped, outputVars
  <2>2. waiting => waiting'
    BY <1>1 DEF OwnedStep, WaitingAt
  <2>3. negotiated' => negotiated \/ ~waiting
    BY <1>1
       DEF OwnedStep, ProcessStep, ProcessFail, Advance, PoolStored, Same, GroupKilled,
           TopReaped, opVars
  <2>4. state' = "SHUTTING_DOWN" => state = "SHUTTING_DOWN"
    BY <1>1
       DEF OwnedStep, ProcessStep, ProcessFail, Advance, PoolStored, Same, GroupKilled,
           TopReaped, ExitState, FailureState, Moves, Running, Broken
  <2>5. poolSize # 0 => poolSize' # 0
    BY <1>1
       DEF OwnedStep, ProcessStep, ProcessFail, Advance, PoolStored, Same, GroupKilled,
           TopReaped, opVars
  <2>6. ASSUME state \in Running \cup {"QUIESCING"}, poolSize # 0
        PROVE  waiting' \/ state' \in Running \cup {"QUIESCING"}
    <3>1. CASE ProcessFail \/ TopReaped
      <4>1. state' \in Broken
        BY <2>6, <3>1 DEF ProcessFail, TopReaped, ExitState, FailureState, Running, Broken
      <4> QED BY <1>1, <2>6, <4>1, LeavingRaises DEF OwnedStep
    <3>2. CASE Advance
      <4>1. CASE state' = "UNBINDING"
        BY <1>1, <2>6, <4>1 DEF OwnedStep, WaitingAt, Running
      <4> QED BY <2>6, <3>2, <4>1 DEF Advance, Moves, Running
    <3> QED
      BY <1>1, <2>6, <3>1, <3>2 DEF OwnedStep, ProcessStep, PoolStored, Same, GroupKilled
  <2> QED BY <2>1, <2>2, <2>3, <2>4, <2>5, <2>6
<1>2. CASE IdleStep
  <2>1. \A o \in Outputs : boundTo[o] = 0 \/ waiting'
    BY <1>2 DEF IdleStep, AllReleased
  <2>2. PICK id, stop, err : ReconcileNone(leader, id, stop, err, UNCHANGED procVars)
    BY <1>2 DEF IdleStep
  <2>3. CASE UNCHANGED procVars
    BY <1>0, <1>2, <2>1, <2>3 DEF IdleStep, procVars, opVars, outputVars
  <2>4. CASE NewSpawned
    BY <1>0, <1>2, <2>1, <2>4 DEF IdleStep, NewSpawned, outputVars
  <2> QED BY <2>2, <2>3, <2>4 DEF ReconcileNone, Spawn
<1>3. CASE CompleteUnbind /\ CompleteLive
  <2>1. UNCHANGED << inst, boundTo >> /\ \A o \in Outputs : boundTo[o] = 0
    BY <1>3
       DEF CompleteUnbind, CompleteLive, RequestShutdown, Send, ProcessFail, procVars,
           AllReleased, outputVars
  <2> QED BY <1>0, <2>1
<1>4. ASSUME NEW o \in Outputs, BindOutput(o) PROVE HoldInv'
  BY <1>0, <1>4 DEF BindOutput, Ready, procVars, opVars, Running
<1>5. ASSUME NEW o \in Outputs, ReleaseOutput(o) PROVE HoldInv'
  BY <1>0, <1>5 DEF ReleaseOutput, procVars, opVars
<1>6. CASE Reap
  <2>1. \A o \in Outputs : boundTo[o] = 0 \/ WaitingAt(ExitState)
    <3> SUFFICES ASSUME NEW o \in Outputs, boundTo[o] # 0, ~waiting
                 PROVE  WaitingAt(ExitState)
      BY <1>0 DEF WaitingAt
    <3>1. ExitState \in Broken
      BY DEF ExitState, FailureState, Running, Broken
    <3> QED BY <3>1, LeavingRaises
  <2>2. CASE WaitingAt(ExitState)
    BY <1>0, <1>6, <2>2 DEF Reap, FinishReap, outputVars
  <2>3. CASE ~WaitingAt(ExitState)
    <3>1. ReconcileNone([leader EXCEPT ![inst] = "gone"], desired, stopped,
            ErrorAt(ExitState, startupError, stopRequested), FinishReap)
      BY <1>6, <2>3 DEF Reap
    <3>2. inst' \in {inst, inst + 1}
      BY <3>1 DEF ReconcileNone, Spawn, FinishReap, NewSpawned
    <3> QED BY <1>0, <1>6, <2>1, <2>3, <3>2 DEF Reap, outputVars
  <2> QED BY <2>2, <2>3
<1>7. CASE Worker
  BY <1>7
     DEF Worker, PeerCloses, LeaderExits, HelperStarts, HelpersExit, ownerVars, opVars,
         outputVars
<1>8. CASE UNCHANGED vars
  BY <1>8 DEF vars, procVars, opVars, ownerVars, outputVars
<1> QED BY <1>1, <1>2, <1>3, <1>4, <1>5, <1>6, <1>7, <1>8, StepShape

\* No later worker negotiates while a consumer holds buffers of an earlier one.
THEOREM BarrierHolds == Spec => []BarrierBeforeNegotiation
<1>1. Init => GroupInv /\ HoldInv
  BY DEF Init, ProcessInit, GroupInv, HoldInv, BarrierBeforeNegotiation,
         ShutdownAfterUnbind, Instances
<1>2. HoldInv => BarrierBeforeNegotiation
  BY DEF HoldInv
<1> QED BY <1>1, <1>2, GroupStep, HoldStep, TypeCorrect, PTL DEF Spec

\* A worker is told to shut down only when no consumer holds one of its images.
THEOREM ShutdownHolds == Spec => []ShutdownAfterUnbind
<1>1. Init => GroupInv /\ HoldInv
  BY DEF Init, ProcessInit, GroupInv, HoldInv, BarrierBeforeNegotiation,
         ShutdownAfterUnbind, Instances
<1>2. HoldInv => ShutdownAfterUnbind
  BY DEF HoldInv
<1> QED BY <1>1, <1>2, GroupStep, HoldStep, TypeCorrect, PTL DEF Spec

-----------------------------------------------------------------------------
(* The generation.                                                         *)

\* Strengthens GenerationTellsStale: no output is ahead of the owner.
GenInv ==
  /\ GenerationTellsStale
  /\ \A o \in Outputs : boundTo[o] # 0 => boundGen[o] <= generation

\* Every step keeps the generations of outputs and owner in agreement.
LEMMA GenStep == TypeOK /\ GroupInv /\ HoldInv /\ GenInv /\ [Next]_vars => GenInv'
<1> SUFFICES ASSUME TypeOK, GroupInv, HoldInv, GenInv, [Next]_vars PROVE GenInv'
  OBVIOUS
<1> USE DEF GenInv, GenerationTellsStale
<1>0. /\ generation \in Nat /\ boundGen \in [Outputs -> Nat] /\ inst \in Nat
      /\ boundTo \in [Outputs -> 0 .. MaxInstances] /\ waiting \in BOOLEAN
      /\ \A o \in Outputs : boundTo[o] \in Nat /\ boundGen[o] \in Nat
  BY InstancesAssumption DEF TypeOK, ProcessTypeOK
<1>1. CASE OwnedStep
  <2>1. UNCHANGED << inst, owned, boundTo, boundGen >>
    BY <1>1
       DEF OwnedStep, ProcessStep, ProcessFail, Advance, PoolStored, Same, GroupKilled,
           TopReaped, outputVars
  <2>2. waiting => waiting'
    BY <1>1 DEF OwnedStep, WaitingAt
  <2>3. generation' \in {generation, generation + 1}
    BY <1>1 DEF OwnedStep, GenerationAt
  <2>4. ~waiting /\ waiting' => generation' = generation + 1
    BY <1>1 DEF OwnedStep, WaitingAt, GenerationAt
  <2>5. ~waiting /\ ~waiting' /\ generation' # generation => poolSize = 0
    <3>1. PoolStored => poolSize = 0
      BY DEF PoolStored
    <3>2. ~PoolStored => poolSize' = poolSize
      BY <1>1, PoolKept DEF OwnedStep
    <3>3. ~waiting /\ ~waiting' => GenerationAt(state') = generation
      BY <1>1 DEF OwnedStep, WaitingAt, GenerationAt
    <3> QED BY <1>1, <3>1, <3>2, <3>3 DEF OwnedStep
  <2>6. \A o \in Outputs : boundTo[o] # 0 /\ ~waiting => poolSize # 0
    BY DEF HoldInv
  <2> QED BY <1>0, <2>1, <2>2, <2>3, <2>4, <2>5, <2>6
<1>2. CASE IdleStep
  <2>1. \A o \in Outputs : boundTo[o] # 0 => waiting /\ waiting' /\ boundGen[o] # generation
    BY <1>2 DEF IdleStep, AllReleased, HoldInv
  <2> QED BY <1>2, <2>1 DEF IdleStep, outputVars
<1>3. CASE CompleteUnbind /\ CompleteLive
  BY <1>3 DEF CompleteUnbind, CompleteLive, AllReleased, outputVars
<1>4. ASSUME NEW o \in Outputs, BindOutput(o) PROVE GenInv'
  <2>1. inst # 0
    BY <1>4 DEF BindOutput, Ready, GroupInv
  <2> QED BY <1>0, <1>4, <2>1 DEF BindOutput, Ready, procVars
<1>5. ASSUME NEW o \in Outputs, ReleaseOutput(o) PROVE GenInv'
  BY <1>0, <1>5 DEF ReleaseOutput, procVars
<1>6. CASE Reap
  <2>1. generation' \in {generation, generation + 1} /\ owned
        /\ UNCHANGED << boundTo, boundGen >>
    BY <1>6 DEF Reap, GenerationAt, outputVars
  <2>2. ~waiting /\ waiting' => generation' = generation + 1
    BY <1>6 DEF Reap, WaitingAt, GenerationAt, ExitState, FailureState, Broken
  <2>3. \A o \in Outputs : boundTo[o] # 0 => waiting'
    <3> SUFFICES ASSUME NEW o \in Outputs, boundTo[o] # 0, ~waiting PROVE waiting'
      BY <1>6 DEF Reap, WaitingAt
    <3>1. ExitState \in Broken /\ poolSize # 0 /\ state \in Running \cup {"QUIESCING"}
      BY DEF ExitState, FailureState, Running, Broken, HoldInv
    <3> QED BY <1>6, <3>1, LeavingRaises DEF Reap
  <2> QED BY <1>0, <2>1, <2>2, <2>3
<1>7. CASE Worker
  BY <1>7
     DEF Worker, PeerCloses, LeaderExits, HelperStarts, HelpersExit, ownerVars, outputVars
<1>8. CASE UNCHANGED vars
  BY <1>8 DEF vars, procVars, ownerVars, outputVars
<1> QED BY <1>1, <1>2, <1>3, <1>4, <1>5, <1>6, <1>7, <1>8, StepShape

\* An output's generation equals the owner's exactly while its buffers are good.
THEOREM GenerationHolds == Spec => []GenerationTellsStale
<1>1. Init => GroupInv /\ HoldInv /\ GenInv
  BY DEF Init, ProcessInit, GroupInv, HoldInv, BarrierBeforeNegotiation,
         ShutdownAfterUnbind, GenInv, GenerationTellsStale, Instances
<1>2. GenInv => GenerationTellsStale
  BY DEF GenInv
<1> QED BY <1>1, <1>2, GroupStep, HoldStep, GenStep, TypeCorrect, PTL DEF Spec

-----------------------------------------------------------------------------
(* Deadlines and stops.                                                    *)

\* Strengthens DeadlineCovers: termination starts only with a failure, and an
\* owned worker has neither not begun nor ended.
DeadlineInv ==
  /\ DeadlineCovers
  /\ owned => state \notin {"EMPTY", "EXITED"}
  /\ owned /\ (termSent \/ stopRequested) => state \in Broken

\* Every step leaves a worker that is on its way somewhere with a timer.
LEMMA DeadlineStep == TypeOK /\ GroupInv /\ DeadlineInv /\ [Next]_vars => DeadlineInv'
<1> SUFFICES ASSUME TypeOK, GroupInv, DeadlineInv, [Next]_vars PROVE DeadlineInv'
  OBVIOUS
<1> USE DEF DeadlineInv, DeadlineCovers
<1>0. /\ leader \in [Instances -> {"none", "alive", "zombie", "gone"}]
      /\ owned => inst \in Instances
      /\ state \in States
  BY DEF TypeOK, ProcessTypeOK, GroupInv, Instances
<1>1. CASE OwnedStep
  <2>0. owned /\ owned' /\ (stopRequested' => stopRequested \/ state' \in Broken)
    BY <1>1 DEF OwnedStep
  <2>1. CASE ProcessFail
    BY <2>0, <2>1 DEF ProcessFail, FailureState, Broken, osVars
  <2>2. CASE Advance
    BY <2>0, <2>2 DEF Advance, Moves, Transition, Bounded, Running, Broken
  <2>3. CASE PoolStored \/ Same \/ GroupKilled
    BY <2>0, <2>3 DEF PoolStored, Same, GroupKilled, Broken
  <2>4. CASE TopReaped
    BY <1>0, <2>0, <2>4 DEF TopReaped, ExitState, FailureState, Broken, Instances
  <2> QED BY <1>1, <2>1, <2>2, <2>3, <2>4 DEF OwnedStep, ProcessStep
<1>2. CASE IdleStep
  BY <1>2 DEF IdleStep, ReconcileNone, Spawn, NewSpawned, Broken
<1>3. CASE CompleteUnbind /\ CompleteLive
  <2>1. CASE state = "UNBINDING" /\ peer
    <3>1. /\ state' = "SHUTTING_DOWN" /\ deadline' = ("SHUTTING_DOWN" \in Bounded)
          /\ UNCHANGED << owned, termSent, stopRequested >>
      BY <1>3, <2>1 DEF CompleteLive, RequestShutdown, Send, Transition
    <3>2. deadline' = TRUE
      BY <3>1 DEF Bounded
    <3> QED BY <1>3, <2>1, <3>1, <3>2 DEF CompleteLive, Broken
  <2>2. CASE state = "UNBINDING" /\ ~peer
    BY <1>3, <2>2 DEF CompleteLive, RequestShutdown, Send, ProcessFail, FailureState,
                      Broken, osVars
  <2>3. CASE state # "UNBINDING"
    BY <1>3, <2>3 DEF CompleteLive, procVars, osVars
  <2> QED BY <2>1, <2>2, <2>3
<1>4. ASSUME NEW o \in Outputs, BindOutput(o) \/ ReleaseOutput(o)
      PROVE  DeadlineInv'
  BY <1>4 DEF BindOutput, ReleaseOutput, procVars, osVars
<1>5. CASE Reap
  BY <1>5 DEF Reap, ReconcileNone, Spawn, NewSpawned, Broken
<1>6. CASE Worker
  BY <1>0, <1>6
     DEF Worker, PeerCloses, LeaderExits, HelperStarts, HelpersExit, LeaderAlive,
         ownerVars
<1>7. CASE UNCHANGED vars
  BY <1>7 DEF vars, procVars, osVars, ownerVars
<1> QED BY <1>1, <1>2, <1>3, <1>4, <1>5, <1>6, <1>7, StepShape

\* A worker that is neither active nor waiting for consumers is on a deadline.
THEOREM DeadlineHolds == Spec => []DeadlineCovers
<1>1. Init => GroupInv /\ DeadlineInv
  BY DEF Init, ProcessInit, GroupInv, DeadlineInv, DeadlineCovers, Instances
<1>2. DeadlineInv => DeadlineCovers
  BY DEF DeadlineInv
<1> QED BY <1>1, <1>2, GroupStep, DeadlineStep, TypeCorrect, PTL DEF Spec

\* A worker under a stop stays under it until it is replaced.
THEOREM StopHolds == Spec => StopIsFinal
<1>1. ASSUME TypeOK, [Next]_vars, inst' = inst, state \in Stopping
      PROVE  state' \in Stopping
  <2>0. inst \in Nat
    BY <1>1, InstancesAssumption DEF TypeOK, ProcessTypeOK
  <2> USE DEF Stopping, Retiring, Running, Broken
  <2>1. CASE OwnedStep
    BY <1>1, <2>1
       DEF OwnedStep, ProcessStep, ProcessFail, FailureState, Advance, Moves,
           PoolStored, Same, GroupKilled, TopReaped, ExitState
  <2>2. CASE IdleStep
    BY <1>1, <2>0, <2>2 DEF IdleStep, ReconcileNone, Spawn, NewSpawned, procVars
  <2>3. CASE CompleteUnbind /\ CompleteLive
    BY <1>1, <2>3
       DEF CompleteLive, RequestShutdown, Send, Transition, ProcessFail, FailureState,
           procVars
  <2>4. CASE Reap
    BY <1>1, <2>0, <2>4 DEF Reap, ReconcileNone, Spawn, NewSpawned, FinishReap
  <2>5. CASE UNCHANGED state
    BY <1>1, <2>5
  <2> QED
    BY <1>1, <2>1, <2>2, <2>3, <2>4, <2>5, StepShape
       DEF BindOutput, ReleaseOutput, Worker, PeerCloses, LeaderExits, HelperStarts,
           HelpersExit, vars, procVars
<1>2. TypeOK /\ [Next]_vars => [inst' = inst /\ state \in Stopping => state' \in Stopping]_vars
  BY <1>1
<1> QED BY <1>2, TypeCorrect, PTL DEF Spec, StopIsFinal

-----------------------------------------------------------------------------
(* The owner of a route implements the exclusive lease of BufferLease: the *)
(* initial states map to initial ones and every step maps to a step of the *)
(* lease or to none.  BufferLease itself keeps lenders exclusive.          *)

\* A worker stores its pool only after it was asked to negotiate one.
PoolInv == poolSize = 0 \/ negotiated = TRUE

\* Every step keeps the pool with a worker that serves.
LEMMA PoolStep == TypeOK /\ PoolInv /\ [Next]_vars => PoolInv'
<1> SUFFICES ASSUME TypeOK, PoolInv, [Next]_vars PROVE PoolInv'
  OBVIOUS
<1> USE DEF PoolInv
<1>1. CASE OwnedStep
  <2>1. CASE Advance
    BY <2>1 DEF Advance
  <2>2. CASE PoolStored
    BY <2>2 DEF PoolStored, TypeOK, ProcessTypeOK
  <2> QED
    BY <1>1, <2>1, <2>2
       DEF OwnedStep, ProcessStep, ProcessFail, Advance, PoolStored, Same, GroupKilled,
           TopReaped, opVars
<1>2. CASE IdleStep
  BY <1>2 DEF IdleStep, ReconcileNone, Spawn, NewSpawned, procVars, opVars
<1>3. CASE CompleteUnbind /\ CompleteLive
  BY <1>3 DEF CompleteLive, RequestShutdown, Send, ProcessFail, procVars, opVars
<1>4. CASE Reap
  BY <1>4 DEF Reap, ReconcileNone, Spawn, NewSpawned, FinishReap
<1>5. CASE UNCHANGED << poolSize, negotiated >>
  BY <1>5
<1> QED
  BY <1>1, <1>2, <1>3, <1>4, <1>5, StepShape
     DEF BindOutput, ReleaseOutput, Worker, PeerCloses, LeaderExits, HelperStarts,
         HelpersExit, vars, procVars, opVars

-----------------------------------------------------------------------------

\* What the owner has to keep for its steps to be steps of the lease.
LeaseInv == TypeOK /\ GroupInv /\ HoldInv /\ DeadlineInv /\ PoolInv

Groups == {i \in Instances : leader[i] = "alive" \/ helpers[i]}

\* The process groups are those of the newest worker, and none once it is gone.
LEMMA GroupsOfNewest ==
  ASSUME LeaseInv
  PROVE  /\ Groups \subseteq {inst}
         /\ ~owned => Groups = {}
BY InstancesAssumption DEF LeaseInv, TypeOK, ProcessTypeOK, GroupInv, Groups, Instances

\* The lease's view of a step of an owned worker.
LEMMA WorkerLease ==
  ASSUME LeaseInv, OwnedStep
  PROVE  \/ Lease!Retire
         \/ Lease!Serve
         \/ UNCHANGED << inst, Phase, boundTo, Groups >>
<1> USE DEF LeaseInv
<1>1. UNCHANGED << inst, boundTo, owned, helpers >>
  BY DEF OwnedStep, ProcessStep, ProcessFail, Advance, PoolStored, Same, GroupKilled,
         TopReaped, outputVars, osVars
<1>2. Groups' = Groups
  <2>1. CASE UNCHANGED leader
    BY <1>1, <2>1 DEF Groups
  <2>2. CASE TopReaped
    BY <1>1, <2>2 DEF TopReaped, LeaderExited, Groups, TypeOK, ProcessTypeOK
  <2> QED
    BY <2>1, <2>2
       DEF OwnedStep, ProcessStep, ProcessFail, Advance, PoolStored, Same, GroupKilled,
           osVars
<1>3. owned /\ owned'
  BY DEF OwnedStep
<1>4. CASE state' \in Stopping
  <2>1. Phase' = "retired"
    BY <1>4 DEF Phase
  <2> QED BY <1>1, <1>2, <2>1 DEF Lease!Retire, Groups
<1>5. CASE state' \notin Stopping /\ negotiated' = negotiated
  <2>1. state \notin Stopping
    BY <1>5
       DEF OwnedStep, ProcessStep, ProcessFail, FailureState, Advance, Moves,
           PoolStored, Same, GroupKilled, TopReaped, ExitState, Stopping, Retiring,
           Running, Broken
  <2>2. Phase' = Phase
    BY <1>3, <1>5, <2>1 DEF Phase
  <2> QED BY <1>1, <1>2, <2>2
<1>6. CASE state' \notin Stopping /\ negotiated' # negotiated
  <2>1. Advance /\ negotiated' = TRUE /\ state = "NEGOTIATING" /\ ~waiting
    BY <1>6
       DEF OwnedStep, ProcessStep, ProcessFail, Advance, PoolStored, Same, GroupKilled,
           TopReaped, opVars
  <2>2. negotiated = FALSE
    BY <1>6, <2>1 DEF TypeOK, ProcessTypeOK
  <2>3. Phase = "starting" /\ Phase' = "serving"
    BY <1>3, <1>6, <2>1, <2>2 DEF Phase, Stopping, Retiring, Broken
  <2>4. \A o \in Outputs : boundTo[o] = 0
    BY <2>1, <2>2 DEF HoldInv, BarrierBeforeNegotiation, PoolInv
  <2> QED BY <1>1, <1>2, <2>3, <2>4 DEF Lease!Serve, Groups
<1> QED BY <1>4, <1>5, <1>6

\* A spawn, which finds no process group and no serving worker, starts a worker.
LEMMA SpawnLease ==
  ASSUME LeaseInv, Phase = "retired", Groups = {}, NewSpawned, inst < MaxInstances,
         \A i \in Instances : leader'[i] = "alive" <=> i = inst + 1,
         UNCHANGED << helpers, boundTo >>, owned' = TRUE
  PROVE  Lease!Start
<1>1. inst + 1 \in Instances
  BY InstancesAssumption DEF LeaseInv, TypeOK, ProcessTypeOK, Instances
<1>2. Groups' = {inst + 1}
  BY <1>1 DEF Groups
<1>3. Phase' = "starting"
  BY DEF NewSpawned, Phase, Stopping, Retiring, Broken
<1> QED BY <1>1, <1>2, <1>3 DEF Lease!Start, Groups, NewSpawned

\* A step that finds or leaves no owned worker.
LEMMA ReconcileLease ==
  ASSUME LeaseInv, NEW id, NEW stop, NEW err, NEW L,
         L \in [Instances -> {"none", "alive", "zombie", "gone"}],
         \A i \in Instances : L[i] # "alive", Groups = {},
         UNCHANGED boundTo,
         \/ ReconcileNone(L, id, stop, err, UNCHANGED procVars) /\ L = leader
         \/ ReconcileNone(L, id, stop, err, FinishReap) /\ (FinishReap => leader' = L),
         inst' # inst => Phase = "retired"
  PROVE  \/ Lease!Start
         \/ Lease!Retire
         \/ UNCHANGED << inst, Phase, boundTo, Groups >>
<1>1. CASE owned' = FALSE /\ UNCHANGED << inst, helpers >> /\ leader' = L
  <2>1. Groups' = {}
    BY <1>1 DEF Groups
  <2>2. Phase' = "retired"
    BY <1>1 DEF Phase
  <2> QED BY <1>1, <2>1, <2>2 DEF Lease!Retire, Groups
<1>2. CASE /\ inst < MaxInstances /\ NewSpawned /\ UNCHANGED helpers
           /\ leader' = [L EXCEPT ![inst + 1] = "alive"] /\ owned' = TRUE
  <2>1. inst \in Nat /\ inst + 1 \in Instances
    BY <1>2, InstancesAssumption DEF LeaseInv, TypeOK, ProcessTypeOK, Instances
  <2>2. \A i \in Instances : leader'[i] = "alive" <=> i = inst + 1
    BY <1>2, <2>1
  <2>3. Phase = "retired"
    BY <1>2, <2>1 DEF NewSpawned
  <2> QED BY <1>2, <2>2, <2>3, SpawnLease
<1> QED
  BY <1>1, <1>2 DEF ReconcileNone, Spawn, FinishReap, procVars, osVars

\* Every step is, seen through the mapping, a step of the lease or a stutter.
LEMMA LeaseStep == LeaseInv /\ [Next]_vars => [Lease!Next]_(Lease!leaseVars)
<1> SUFFICES ASSUME LeaseInv, [Next]_vars
             PROVE  \/ Lease!Next
                    \/ UNCHANGED << inst, Phase, boundTo, Groups >>
  BY DEF Lease!leaseVars, Groups
<1>0. /\ leader \in [Instances -> {"none", "alive", "zombie", "gone"}]
      /\ helpers \in [Instances -> BOOLEAN]
      /\ boundTo \in [Outputs -> 0 .. MaxInstances]
  BY DEF LeaseInv, TypeOK, ProcessTypeOK
<1>1. CASE OwnedStep
  BY <1>1, WorkerLease DEF Lease!Next
<1>2. CASE IdleStep
  <2>1. PICK id, stop, err : ReconcileNone(leader, id, stop, err, UNCHANGED procVars)
    BY <1>2 DEF IdleStep
  <2>2. Phase = "retired" /\ Groups = {} /\ \A i \in Instances : leader[i] # "alive"
    BY <1>2, GroupsOfNewest DEF IdleStep, Phase, Groups
  <2>3. UNCHANGED boundTo
    BY <1>2 DEF IdleStep, outputVars
  <2> QED BY <1>0, <2>1, <2>2, <2>3, ReconcileLease DEF Lease!Next
<1>3. CASE CompleteUnbind /\ CompleteLive
  <2>1. UNCHANGED << inst, boundTo, owned, Groups, negotiated >>
    BY <1>3
       DEF CompleteUnbind, CompleteLive, RequestShutdown, Send, ProcessFail, Groups,
           procVars, opVars, osVars, outputVars
  <2>2. state' = state \/ (state \in Stopping /\ state' \in Stopping)
    BY <1>3
       DEF CompleteLive, RequestShutdown, Send, Transition, ProcessFail, FailureState,
           procVars, Stopping, Retiring, Broken
  <2> QED BY <2>1, <2>2 DEF Phase
<1>4. ASSUME NEW o \in Outputs, BindOutput(o) PROVE Lease!Next
  <2>1. Phase = "serving"
    BY <1>4 DEF BindOutput, Ready, LeaseInv, PoolInv, Phase, Stopping, Retiring, Broken,
                Running
  <2>2. UNCHANGED << inst, Phase, Groups >> /\ boundTo' = [boundTo EXCEPT ![o] = inst]
    BY <1>4 DEF BindOutput, Phase, Groups, procVars, opVars, osVars
  <2> QED BY <2>1, <2>2 DEF Lease!Next, Lease!Lend, Groups
<1>5. ASSUME NEW o \in Outputs, ReleaseOutput(o) PROVE Lease!Next
  <2>1. UNCHANGED << inst, Phase, Groups >> /\ boundTo' = [boundTo EXCEPT ![o] = 0]
        /\ boundTo[o] # 0
    BY <1>5 DEF ReleaseOutput, Phase, Groups, procVars, opVars, osVars
  <2> QED BY <2>1 DEF Lease!Next, Lease!Return, Groups
<1>6. CASE Reap
  <2> DEFINE L == [leader EXCEPT ![inst] = "gone"]
  <2>1. \A i \in Instances : ~helpers[i] /\ leader[i] # "alive"
    <3>1. inst \in Instances /\ leader[inst] # "alive" /\ ~helpers[inst]
      BY <1>6 DEF Reap, GroupGone, LeaseInv, TypeOK, ProcessTypeOK, Instances
    <3> QED BY <3>1, GroupsOfNewest DEF Groups
  <2>2. Groups = {}
    BY <2>1 DEF Groups
  <2>3. UNCHANGED boundTo
    BY <1>6 DEF Reap, outputVars
  <2>4. CASE WaitingAt(ExitState)
    <3>1. UNCHANGED << inst, helpers >> /\ leader' = L /\ owned' = FALSE
      BY <1>6, <2>4 DEF Reap, FinishReap
    <3>2. Groups' = {} /\ Phase' = "retired"
      BY <1>0, <2>1, <3>1 DEF Groups, Phase
    <3> QED BY <2>2, <2>3, <3>1, <3>2 DEF Lease!Next, Lease!Retire, Groups
  <2>5. CASE ~WaitingAt(ExitState)
    <3> DEFINE err == ErrorAt(ExitState, startupError, stopRequested)
    <3>1. ReconcileNone(L, desired, stopped, err, FinishReap)
      BY <1>6, <2>5 DEF Reap
    <3>2. FinishReap => leader' = L
      BY DEF FinishReap
    <3>3. inst' # inst => Phase = "retired"
      <4>1. inst' # inst => ~err
        BY <3>1 DEF ReconcileNone, FinishReap
      <4>2. ~err => state \in Stopping
        BY <1>6, <2>5
           DEF Reap, ErrorAt, WaitingAt, Published, ExitState, FailureState, LeaseInv,
               DeadlineInv, Stopping, Retiring, Broken
      <4> QED BY <4>1, <4>2 DEF Phase
    <3>4. /\ L \in [Instances -> {"none", "alive", "zombie", "gone"}]
          /\ \A i \in Instances : L[i] # "alive"
      BY <1>0, <2>1
    <3> HIDE DEF L, err
    <3> QED BY <2>2, <2>3, <3>1, <3>2, <3>3, <3>4, ReconcileLease DEF Lease!Next
  <2> QED BY <2>4, <2>5
<1>7. CASE Worker
  <2>1. UNCHANGED << inst, Phase, boundTo >>
    BY <1>7
       DEF Worker, PeerCloses, LeaderExits, HelperStarts, HelpersExit, ownerVars,
           outputVars, opVars, Phase
  <2>2. Groups' = Groups \/ Groups' = {}
    <3>1. CASE PeerCloses
      BY <3>1 DEF PeerCloses, Groups
    <3>2. CASE HelperStarts
      BY <1>0, <3>2 DEF HelperStarts, LeaderAlive, Groups
    <3>3. CASE LeaderExits
      BY <1>0, <3>3, GroupsOfNewest DEF LeaderExits, LeaderAlive, Groups
    <3>4. CASE HelpersExit
      BY <1>0, <3>4, GroupsOfNewest DEF HelpersExit, Groups
    <3> QED BY <1>7, <3>1, <3>2, <3>3, <3>4 DEF Worker
  <2> QED BY <2>1, <2>2 DEF Lease!Next, Lease!GroupEnds, Groups
<1>8. CASE UNCHANGED vars
  BY <1>8
     DEF vars, procVars, osVars, opVars, ownerVars, outputVars, Phase, Groups
<1> QED BY <1>1, <1>2, <1>3, <1>4, <1>5, <1>6, <1>7, <1>8, StepShape DEF LeaseInv

\* The owner implements the exclusive lease.
THEOREM Refinement == Spec => ImplementsLease
<1>1. Init => LeaseInv
  <2>1. Init => TypeOK
    BY TypeCorrectInit
  <2> QED
    BY <2>1 DEF Init, ProcessInit, LeaseInv, GroupInv, HoldInv, BarrierBeforeNegotiation,
                ShutdownAfterUnbind, DeadlineInv, DeadlineCovers, PoolInv, Instances
<1>2. LeaseInv /\ [Next]_vars => LeaseInv'
  BY TypeCorrectStep, GroupStep, HoldStep, DeadlineStep, PoolStep DEF LeaseInv
<1>3. Init => Lease!Init
  BY DEF Init, ProcessInit, Lease!Init, Phase, Instances
<1> QED BY <1>1, <1>2, <1>3, LeaseStep, PTL DEF Spec, ImplementsLease, Lease!Spec
=============================================================================
