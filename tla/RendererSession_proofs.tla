----------------------- MODULE RendererSession_proofs -------------------------
(*****************************************************************************)
(* The two sides of a session agree on the protocol, for any number of       *)
(* outputs, points, commands and packets, and whatever breaks.               *)
(*                                                                           *)
(* A step of the daemon has one of a few shapes (Shape), seen through the    *)
(* variables a session has; so has a step of the worker.  The invariant      *)
(* MainInv says where in the protocol the two sides are and what is on its   *)
(* way between them; it is kept shape by shape.  It gives CommandFits, that  *)
(* a command arrives in a phase that takes it, and with the types            *)
(* (TypesStep) that a session is a behaviour of RendererOwner.               *)
(*****************************************************************************)
EXTENDS MCRendererSession, RendererOwner_proofs, SequenceTheorems, FiniteSetTheorems

-----------------------------------------------------------------------------
(* What is sent.                                                           *)

\* The events a worker sends and the commands it gets.
Messages ==
  {Event(op, 0) : op \in OnceOnly \cup {"ERROR", "QUIESCED"}}
    \cup {Event("BIND_BUFFERS", MaxPool)} \cup {Event("FRAME_READY", p) : p \in 1 .. PointLimit}
Orders == {"INIT", "SET_RUNTIME", "NEGOTIATE_BUFFERS", "QUIESCE", "SHUTDOWN"}

Ended   == Broken \cup {"EXITED"}
Leaving == {"QUIESCING", "UNBINDING", "SHUTTING_DOWN"}

\* How far the daemon is with the worker.
Stages ==
  /\ inst = 0 <=> state = "EMPTY"
  /\ inst = 0 => ~waiting
  /\ owned <=> state \notin {"EMPTY", "EXITED"}
  /\ ipc => state \notin Ended \cup {"EMPTY"}
  /\ owned /\ ~ipc => state \in Broken \cup {"SHUTTING_DOWN"}
  /\ "HELLO" \in seen \/ seen = {}
  /\ state \in {"EMPTY", "WAIT_HELLO"} => seen = {}
  /\ state = "INITIALIZING" => "HELLO" \in seen /\ seen # OnceOnly
  /\ state \in Running \cup Leaving => seen = OnceOnly
  /\ state \in {"EMPTY", "WAIT_HELLO", "INITIALIZING", "NEGOTIATING"} => ~negotiated
  /\ state \in {"WAIT_FIRST_FRAME", "ACTIVE"} => negotiated
  /\ state \in {"EMPTY", "WAIT_HELLO", "INITIALIZING"} \cup Running => ~quiesced
  /\ state \in Leaving => quiesced
  /\ poolSize # 0 => negotiated
  /\ owned /\ waiting => state \in Broken \cup {"UNBINDING"}
  /\ negotiated \/ quiesced => seen = OnceOnly
  /\ termSent => state \in Ended

\* The types of what is on its way.
Mail ==
  /\ toDaemon \in Seq(Messages) /\ events \in Seq(Messages) /\ toWorker \in Seq(Orders)
  /\ pump = "publish" => nextPoint < PointLimit
  /\ nextPoint \in 0 .. PointLimit
  /\ phase \in {"BOOT", "WAIT_INIT", "BACKEND_INIT", "WAIT_NEGOTIATION", "RUNNING", "QUIESCING",
                "QUIESCED", "EXIT"}

-----------------------------------------------------------------------------
(* What a step of the daemon is.                                           *)

HostKept ==
  /\ UNCHANGED << aside, phase, events, wake, wantOut, accepting, owed, stopping, frameVars >>
  /\ pc' = IF inst' # inst THEN "boot" ELSE pc

\* Nothing changes that the session sees of the process.
Rest ==
  /\ UNCHANGED << inst, state, ipc, termSent, seen, negotiated, quiesced, poolSize, owned, peer,
                  lastPoint >>
  /\ waiting' => waiting
  /\ stopRequested' = stopRequested \/ ~owned

Quietly == toWorker' = toWorker /\ toDaemon' = toDaemon
Sends(x) == toWorker' = Append(toWorker, x) /\ toDaemon' = toDaemon
Reads(op) == toDaemon # << >> /\ Head(toDaemon).op = op /\ toDaemon' = Tail(toDaemon)

Rests == Rest /\ frames' = frames /\ Quietly
Tells ==
  /\ Rest /\ frames' = frames
  /\ state \in Running /\ Len(toWorker) < MaxCommands /\ Sends("SET_RUNTIME")
Takes == Rest /\ frames # << >> /\ frames' = Tail(frames) /\ Quietly

\* Why a process fails.
Reason ==
  \/ stopRequested'
  \/ ~peer /\ ipc /\ (state # "SHUTTING_DOWN" \/ toWorker # << >>)
  \/ ipc /\ toDaemon # << >> /\ (~Acceptable(Head(toDaemon)) \/ Head(toDaemon).op = "ERROR")
Fails ==
  /\ owned /\ owned' = owned
  /\ state' \in Broken /\ ipc' = FALSE /\ termSent' = TRUE
  /\ UNCHANGED << inst, seen, negotiated, quiesced, poolSize, peer, lastPoint, frames >>
  /\ toWorker' = toWorker
  /\ toDaemon' = toDaemon \/ (ipc /\ toDaemon # << >> /\ toDaemon' = Tail(toDaemon))
  /\ stopRequested => stopRequested'

Spawns ==
  /\ inst = 0 /\ inst' = 1 /\ state' = "WAIT_HELLO" /\ ipc' = TRUE /\ termSent' = FALSE
  /\ seen' = {} /\ negotiated' = FALSE /\ quiesced' = FALSE /\ poolSize' = 0
  /\ frames' = << >> /\ lastPoint' = 0 /\ owned' = TRUE /\ peer' = TRUE
  /\ Len(toWorker) < MaxCommands /\ waiting' = waiting /\ Quietly

Reaps ==
  /\ owned /\ owned' = FALSE /\ state' = "EXITED" /\ ipc' = FALSE
  /\ poolSize' = 0 /\ frames' = << >>
  /\ UNCHANGED << inst, termSent, seen, negotiated, quiesced, lastPoint, peer >>
  /\ Quietly

\* A change of the stage, and of nothing else but what is named.
Stage(s) ==
  /\ owned /\ state' = s
  /\ waiting' = (waiting \/ s = "UNBINDING")
  /\ UNCHANGED << inst, ipc, termSent, owned, peer, stopRequested >>

ReadsHello ==
  /\ Reads("HELLO") /\ state = "WAIT_HELLO" /\ Stage("INITIALIZING") /\ seen' = {"HELLO"} /\ ipc
  /\ toWorker' = Append(toWorker, "INIT")
  /\ UNCHANGED << negotiated, quiesced, poolSize, lastPoint, frames >>
ReadsReply ==
  /\ \E op \in InitReplies \ seen :
       /\ Reads(op) /\ seen' = seen \cup {op}
       /\ IF seen' = OnceOnly
          THEN Stage("NEGOTIATING") /\ toWorker' = Append(toWorker, "SET_RUNTIME")
          ELSE Stage(state) /\ toWorker' = toWorker
  /\ state = "INITIALIZING" /\ "HELLO" \in seen /\ ipc
  /\ UNCHANGED << negotiated, quiesced, poolSize, lastPoint, frames >>
ReadsPool ==
  /\ Reads("BIND_BUFFERS") /\ Stage(state) /\ state \in StoresPool /\ negotiated /\ ipc
  /\ poolSize = 0 /\ poolSize' = Head(toDaemon).arg
  /\ toWorker' = toWorker /\ UNCHANGED << seen, negotiated, quiesced, lastPoint, frames >>
ReadsFrame ==
  /\ Reads("FRAME_READY") /\ state \in StoresPool /\ StoreFrame(Head(toDaemon).arg) /\ ipc
  /\ Stage(state) \/ (state = "WAIT_FIRST_FRAME" /\ Stage("ACTIVE"))
  /\ frames' = Append(frames, Head(toDaemon).arg) /\ lastPoint' = Head(toDaemon).arg
  /\ toWorker' = toWorker /\ UNCHANGED << seen, negotiated, quiesced, poolSize >>
ReadsQuiesced ==
  /\ Reads("QUIESCED") /\ state = "QUIESCING" /\ Stage("UNBINDING") /\ ipc
  /\ toWorker' = toWorker
  /\ UNCHANGED << seen, negotiated, quiesced, poolSize, lastPoint, frames >>
Negotiates ==
  /\ state = "NEGOTIATING" /\ ~negotiated /\ Stage("WAIT_FIRST_FRAME") /\ negotiated' = TRUE
  /\ Sends("NEGOTIATE_BUFFERS")
  /\ UNCHANGED << seen, quiesced, poolSize, lastPoint, frames >>
Quiesces ==
  /\ state \in Running /\ Stage("QUIESCING") /\ quiesced' = TRUE
  /\ Sends("QUIESCE")
  /\ Len(toWorker) < MaxCommands \/ \E o \in Outputs : boundTo[o] # 0 /\ ~waiting
  /\ UNCHANGED << seen, negotiated, poolSize, lastPoint, frames >>
ShutsDown ==
  /\ owned /\ state = "UNBINDING" /\ state' = "SHUTTING_DOWN" /\ waiting' = FALSE
  /\ UNCHANGED << inst, ipc, termSent, owned, peer, stopRequested >>
  /\ Sends("SHUTDOWN")
  /\ UNCHANGED << seen, negotiated, quiesced, poolSize, lastPoint, frames >>
HangsUp ==
  /\ owned /\ state = "SHUTTING_DOWN" /\ ipc' = FALSE /\ Quietly
  /\ UNCHANGED << inst, state, waiting, termSent, owned, peer, stopRequested >>
  /\ UNCHANGED << seen, negotiated, quiesced, poolSize, lastPoint, frames >>

Orderly ==
  \/ Rests \/ Tells \/ Takes \/ Spawns \/ Reaps \/ ReadsHello \/ ReadsReply \/ ReadsPool
  \/ ReadsFrame \/ ReadsQuiesced \/ Negotiates \/ Quiesces \/ ShutsDown \/ HangsUp

Shape == Orderly \/ Fails

\* Everyone is in time.
CalmShape == Orderly \/ (Fails /\ Reason)

-----------------------------------------------------------------------------
(* Every step of the daemon has one of these shapes.                       *)

CalmStep   == Configure \/ Dispatch \/ Calls \/ Forward \/ Unbound
DaemonStep == CalmStep \/ Quiet(Deadline)

LEMMA Entries ==
  /\ DOMAIN EntryCommand = {"INITIALIZING", "NEGOTIATING", "WAIT_FIRST_FRAME", "QUIESCING", "SHUTTING_DOWN"}
  /\ EntryCommand["INITIALIZING"] = "INIT" /\ EntryCommand["NEGOTIATING"] = "SET_RUNTIME"
  /\ EntryCommand["WAIT_FIRST_FRAME"] = "NEGOTIATE_BUFFERS"
  /\ EntryCommand["QUIESCING"] = "QUIESCE" /\ EntryCommand["SHUTTING_DOWN"] = "SHUTDOWN"
BY DEF EntryCommand

\* What a step sends, by the state it enters.
LEMMA Issued ==
  ASSUME toWorker \in Seq(Orders), NEW runtime \in BOOLEAN, toWorker' = toWorker \o Commands(runtime)
  PROVE  /\ state' = state /\ ~(runtime /\ peer) => toWorker' = toWorker
         /\ state' = state /\ runtime /\ peer => toWorker' = Append(toWorker, "SET_RUNTIME")
         /\ state' # state /\ state' \in Ended \cup {"WAIT_HELLO", "ACTIVE", "UNBINDING"} => toWorker' = toWorker
         /\ state' # state /\ state' = "INITIALIZING" => toWorker' = Append(toWorker, "INIT")
         /\ state' # state /\ state' = "NEGOTIATING" => toWorker' = Append(toWorker, "SET_RUNTIME")
         /\ state' # state /\ state' = "WAIT_FIRST_FRAME" => toWorker' = Append(toWorker, "NEGOTIATE_BUFFERS")
         /\ state' # state /\ state' = "QUIESCING" => toWorker' = Append(toWorker, "QUIESCE")
         /\ state' # state /\ state' = "SHUTTING_DOWN" => toWorker' = Append(toWorker, "SHUTDOWN")
<1>1. toWorker \o << >> = toWorker
  OBVIOUS
<1>2. \A x : toWorker \o << x >> = Append(toWorker, x)
  OBVIOUS
<1> QED BY <1>1, <1>2, Entries DEF Commands, Ended, Broken


LEMMA OneWorker == MaxInstances = 1 /\ MaxCommands \in Nat /\ MaxPoint = PointLimit /\ MaxPool \in Nat
BY SessionAssumption, PoolAssumption

LEMMA FailsShape ==
  ASSUME owned, owned' = owned, ProcessFail, toWorker' = toWorker,
         toDaemon' = toDaemon \/ (ipc /\ toDaemon # << >> /\ toDaemon' = Tail(toDaemon)),
         stopRequested => stopRequested', Reason
  PROVE  Fails /\ Reason
BY DEF ProcessFail, FailureState, Fails, Broken, opVars, dataVars, osVars

LEMMA BrokenIn == FailureState \in Broken /\ Broken \subseteq Ended /\ Running \cap Ended = {}
BY DEF FailureState, Broken, Ended, Running

LEMMA Connected ==
  ASSUME Stages, owned, state \in Running \cup {"UNBINDING"}
  PROVE  ipc /\ state # "SHUTTING_DOWN"
BY DEF Stages, Running, Broken

LEMMA ReconcileOwnedSession ==
  ASSUME TypeOK, Mail, Stages, owned, NEW id, NEW stop, NEW err, ReconcileOwned(id, stop, err),
         toWorker' = toWorker \o Commands(Keeps(id, stop)), toDaemon' = toDaemon,
         Len(toWorker) < MaxCommands
  PROVE  CalmShape
<1> DEFINE keep == identity = id /\ ShouldRun(id, stop) /\ state \notin Broken \cup {"EXITED"}
<1>1. (keep /\ state \in Running <=> Keeps(id, stop)) /\ Keeps(id, stop) \in BOOLEAN
  BY BrokenIn DEF Keeps, Ended
<1>2. owned' = owned /\ waiting' = WaitingAt(state') /\ waiting \in BOOLEAN
  BY DEF ReconcileOwned, Observe, TypeOK
<1>3. toWorker \in Seq(Orders)
  BY DEF Mail
<1>4. CASE keep /\ state \in Running /\ SendRuntime /\ UNCHANGED stopRequested
  <2>1. CASE peer
    <3>1. UNCHANGED procVars
      BY <1>4, <2>1 DEF SendRuntime, Send
    <3>2. Rest /\ frames' = frames
      BY <1>2, <1>4, <3>1 DEF Rest, WaitingAt, procVars, opVars, dataVars, osVars
    <3>3. toWorker' = Append(toWorker, "SET_RUNTIME")
      BY <1>1, <1>3, <1>4, <2>1, <3>1, Issued DEF procVars
    <3> QED BY <1>4, <3>2, <3>3 DEF Tells, Sends, Orderly, CalmShape
  <2>2. CASE ~peer
    <3>1. ProcessFail
      BY <1>4, <2>2 DEF SendRuntime, Send
    <3>2. toWorker' = toWorker
      BY <1>1, <1>3, <2>2, <3>1, Issued, BrokenIn DEF ProcessFail
    <3>3. Reason
      BY <1>4, <2>2, Connected DEF Reason
    <3> QED BY <1>2, <1>4, <3>1, <3>2, <3>3, FailsShape DEF CalmShape
  <2> QED BY <2>1, <2>2
<1>5. CASE ~(keep /\ state \in Running) /\ UNCHANGED procVars /\ UNCHANGED stopRequested
  <2>1. Rest /\ frames' = frames
    BY <1>2, <1>5 DEF Rest, WaitingAt, procVars, opVars, dataVars, osVars
  <2>2. toWorker' = toWorker
    BY <1>1, <1>3, <1>5, Issued DEF procVars
  <2> QED BY <2>1, <2>2 DEF Rests, Quietly, Orderly, CalmShape
<1>6. CASE ~waiting /\ state \in Running /\ RequestQuiesce /\ UNCHANGED stopRequested
  <2>1. CASE peer
    <3>1. state' = "QUIESCING" /\ state # "QUIESCING"
      BY <1>6, <2>1 DEF RequestQuiesce, Send, Transition, Running
    <3>2. toWorker' = Append(toWorker, "QUIESCE")
      BY <1>1, <1>3, <3>1, Issued
    <3> QED
      BY <1>2, <1>6, <2>1, <3>1, <3>2
         DEF RequestQuiesce, Send, Quiesces, Stage, Sends, WaitingAt, Broken, Orderly, CalmShape, dataVars, osVars
  <2>2. CASE ~peer
    <3>1. ProcessFail
      BY <1>6, <2>2 DEF RequestQuiesce, Send
    <3>2. toWorker' = toWorker
      BY <1>1, <1>3, <2>2, <3>1, Issued, BrokenIn DEF ProcessFail
    <3>3. Reason
      BY <1>6, <2>2, Connected DEF Reason
    <3> QED BY <1>2, <1>6, <3>1, <3>2, <3>3, FailsShape DEF CalmShape
  <2> QED BY <2>1, <2>2
<1>7. CASE state \notin Running \cup Retiring /\ stopRequested' = TRUE /\ ProcessFail
  <2>1. state' # state /\ state' \in Ended
    BY <1>7, BrokenIn DEF ProcessFail, Retiring
  <2>2. toWorker' = toWorker
    BY <1>1, <1>3, <2>1, Issued
  <2>3. Reason
    BY <1>7 DEF Reason
  <2> QED BY <1>2, <1>7, <2>2, <2>3, FailsShape DEF CalmShape
<1> QED BY <1>4, <1>5, <1>6, <1>7 DEF ReconcileOwned

LEMMA ReconcileNoneSession ==
  ASSUME TypeOK, Mail, Stages, ~owned, NEW id, NEW stop, NEW err,
         ReconcileNone(leader, id, stop, err, UNCHANGED procVars),
         toWorker' = toWorker \o Commands(FALSE), toDaemon' = toDaemon, waiting' => waiting
  PROVE  inst # 0 \/ (waiting' = waiting /\ Len(toWorker) < MaxCommands) => CalmShape
<1>1. toWorker \in Seq(Orders)
  BY DEF Mail
<1>2. CASE UNCHANGED procVars /\ owned' = FALSE
  <2>1. Rest /\ frames' = frames /\ inst' = inst
    BY <1>2 DEF Rest, TypeOK, procVars, opVars, dataVars, osVars
  <2>2. toWorker' = toWorker
    BY <1>1, <1>2, Issued DEF procVars
  <2> QED BY <2>1, <2>2 DEF Rests, Quietly, Orderly, CalmShape
<1>3. CASE inst < MaxInstances /\ NewSpawned /\ peer' = TRUE /\ owned' = TRUE
  <2>1. inst = 0 /\ inst' = 1 /\ inst \in Nat
    BY <1>3, OneWorker DEF TypeOK, ProcessTypeOK, NewSpawned
  <2>2. state' # state /\ state' = "WAIT_HELLO"
    BY <1>3, <2>1 DEF Stages, NewSpawned
  <2>3. toWorker' = toWorker
    BY <1>1, <2>2, Issued
  <2>4. SUFFICES ASSUME waiting' = waiting, Len(toWorker) < MaxCommands
                 PROVE  Spawns
    BY <2>1 DEF Orderly, CalmShape
  <2> QED BY <1>3, <2>1, <2>2, <2>3, <2>4 DEF NewSpawned, Spawns, Quietly
<1> QED BY <1>2, <1>3 DEF ReconcileNone, Spawn

LEMMA ConfigureShape ==
  ASSUME TypeOK, Mail, Stages, Configure
  PROVE  HostKept /\ CalmShape
<1>1. CASE \E id \in Identities \cup {NoIdentity} : Daemon(ApplyConfig(id, FALSE), Keeps(id, stopped))
  <2>1. PICK id : Daemon(ApplyConfig(id, FALSE), Keeps(id, stopped))
    BY <1>1
  <2>2. PICK err : Reconcile(id, stopped, err)
    BY <2>1 DEF Daemon, ApplyConfig
  <2>3. CASE owned
    BY <2>1, <2>2, <2>3, ReconcileOwnedSession DEF Daemon, Reconcile, Configure, HostKept
  <2>4. CASE ~owned
    <3>1. Keeps(id, stopped) = FALSE
      BY <2>4 DEF Keeps
    <3>2. waiting' = waiting /\ ReconcileNone(leader, id, stopped, err, UNCHANGED procVars)
      BY <2>2, <2>4 DEF Reconcile
    <3> QED BY <2>1, <2>4, <3>1, <3>2, ReconcileNoneSession DEF Daemon, Configure, HostKept
  <2> QED BY <2>3, <2>4
<1>2. CASE Daemon(RuntimeCommand, TRUE)
  <2>1. /\ owned /\ state \in Running /\ SendRuntime /\ owned' = owned /\ stopRequested' = stopRequested
        /\ waiting' = WaitingAt(state') /\ waiting \in BOOLEAN /\ toWorker \in Seq(Orders)
        /\ toWorker' = toWorker \o Commands(TRUE) /\ toDaemon' = toDaemon /\ HostKept
    BY <1>2 DEF Daemon, RuntimeCommand, Observe, TypeOK, Mail, Configure, HostKept
  <2>2. CASE peer
    <3>1. UNCHANGED procVars
      BY <2>1, <2>2 DEF SendRuntime, Send
    <3>2. Rest /\ frames' = frames
      BY <2>1, <3>1 DEF Rest, WaitingAt, procVars, opVars, dataVars, osVars
    <3>3. toWorker' = Append(toWorker, "SET_RUNTIME")
      BY <2>1, <2>2, <3>1, Issued DEF procVars
    <3> QED BY <2>1, <3>2, <3>3 DEF Tells, Sends, Orderly, CalmShape, Configure
  <2>3. CASE ~peer
    <3>1. ProcessFail
      BY <2>1, <2>3 DEF SendRuntime, Send
    <3>2. toWorker' = toWorker
      BY <2>1, <2>3, <3>1, Issued, BrokenIn DEF ProcessFail
    <3>3. Reason
      BY <2>1, <2>3, Connected DEF Reason
    <3> QED BY <2>1, <3>1, <3>2, <3>3, FailsShape DEF CalmShape
  <2> QED BY <2>2, <2>3
<1> QED BY <1>1, <1>2 DEF Configure

LEMMA FailSends ==
  ASSUME toWorker \in Seq(Orders), ProcessFail, toWorker' = toWorker \o Commands(FALSE)
  PROVE  toWorker' = toWorker
BY Issued, BrokenIn DEF ProcessFail

\* A message is an event of one of these kinds.
LEMMA MessageKinds ==
  \A x \in Messages :
    /\ x.ok = TRUE
    /\ x.op \in {"HELLO", "READY", "FORMAT_CAPS", "RELEASE_TIMELINE", "BIND_BUFFERS",
                 "FRAME_READY", "ERROR", "QUIESCED"}
    /\ x.op = "BIND_BUFFERS" => x.arg = MaxPool
    /\ x.op = "FRAME_READY" => x.arg \in 1 .. PointLimit
    /\ x.op \notin {"BIND_BUFFERS", "FRAME_READY"} => x = Event(x.op, 0)
BY DEF Messages, OnceOnly, InitReplies, Event

LEMMA EventShape ==
  ASSUME TypeOK, Mail, Stages, ReceiveEvent
  PROVE  HostKept /\ CalmShape
<1> DEFINE m == Head(toDaemon)
<1>1. /\ toDaemon # << >> /\ owned /\ ReceivePacket(m) /\ toDaemon' = Tail(toDaemon) /\ ipc
      /\ toWorker' = toWorker \o Commands(FALSE) /\ HostKept
      /\ waiting' = WaitingAt(state') /\ owned' = owned /\ stopRequested' = stopRequested
  BY DEF ReceiveEvent, Daemon, Receive, HostKept, ReceivePacket
<1>2. toWorker \in Seq(Orders) /\ m \in Messages
  BY <1>1 DEF Mail
<1>3. waiting \in BOOLEAN /\ state \in States /\ seen \subseteq OnceOnly /\ state \notin Ended
  BY <1>1 DEF TypeOK, ProcessTypeOK, Stages
<1>4. CASE ProcessFail /\ (~Acceptable(m) \/ m.op = "ERROR" \/ (~peer /\ state # "SHUTTING_DOWN"))
  <2>1. toWorker' = toWorker
    BY <1>1, <1>2, <1>4, FailSends
  <2>2. Reason
    BY <1>1, <1>3, <1>4 DEF Reason
  <2> QED BY <1>1, <1>4, <2>1, <2>2, FailsShape DEF CalmShape
<1>5. CASE m.op = "HELLO" /\ Acceptable(m) /\ AcceptHello
  <2>1. state = "WAIT_HELLO"
    BY <1>5 DEF Acceptable, InitReplies
  <2>2. CASE ~peer
    BY <1>4, <1>5, <2>1, <2>2 DEF AcceptHello, Send
  <2>3. CASE peer
    <3>1. state' = "INITIALIZING" /\ seen' = {"HELLO"}
      BY <1>5, <2>3 DEF AcceptHello, Send, Transition
    <3>2. toWorker' = Append(toWorker, "INIT")
      BY <1>1, <1>2, <2>1, <3>1, Issued
    <3>3. Stage("INITIALIZING")
      BY <1>1, <1>3, <1>5, <2>1, <2>3, <3>1 DEF AcceptHello, Send, Stage, WaitingAt, Broken, osVars
    <3> QED
      BY <1>1, <1>5, <2>1, <2>3, <3>1, <3>2, <3>3
         DEF AcceptHello, Send, ReadsHello, Reads, Orderly, CalmShape, dataVars
  <2> QED BY <2>2, <2>3
<1>6. CASE m.op \in InitReplies /\ Acceptable(m) /\ AcceptInitReply(m.op)
  <2>1. state = "INITIALIZING" /\ m.op \notin seen /\ "HELLO" \in seen
    BY <1>6 DEF Acceptable, InitReplies
  <2>2. CASE ~peer /\ seen \cup {m.op} = OnceOnly
    BY <1>4, <1>6, <2>1, <2>2 DEF AcceptInitReply
  <2>3. CASE peer /\ seen \cup {m.op} = OnceOnly
    <3>1. state' = "NEGOTIATING" /\ seen' = seen \cup {m.op}
      BY <1>6, <2>3 DEF AcceptInitReply, Transition
    <3>2. toWorker' = Append(toWorker, "SET_RUNTIME")
      BY <1>1, <1>2, <2>1, <3>1, Issued
    <3>3. Stage("NEGOTIATING")
      BY <1>1, <1>3, <1>6, <2>1, <2>3, <3>1 DEF AcceptInitReply, Stage, WaitingAt, Broken, osVars
    <3>4. UNCHANGED << negotiated, quiesced, poolSize, lastPoint, frames >>
      BY <1>6, <2>3 DEF AcceptInitReply, dataVars
    <3> QED BY <1>1, <1>6, <2>1, <2>3, <3>1, <3>2, <3>3, <3>4 DEF ReadsReply, Reads, Orderly, CalmShape
  <2>4. CASE seen \cup {m.op} # OnceOnly
    <3>1. state' = state /\ seen' = seen \cup {m.op}
      BY <1>6, <2>4 DEF AcceptInitReply
    <3>2. toWorker' = toWorker
      BY <1>1, <1>2, <3>1, Issued
    <3>3. Stage(state)
      BY <1>1, <1>3, <1>6, <2>1, <2>4, <3>1 DEF AcceptInitReply, Stage, WaitingAt, Broken, osVars
    <3>4. UNCHANGED << negotiated, quiesced, poolSize, lastPoint, frames >>
      BY <1>6, <2>4 DEF AcceptInitReply, dataVars
    <3> QED BY <1>1, <1>6, <2>1, <2>4, <3>1, <3>2, <3>3, <3>4 DEF ReadsReply, Reads, Orderly, CalmShape
  <2> QED BY <2>2, <2>3, <2>4
<1>7. CASE m.op = "BIND_BUFFERS" /\ Acceptable(m) /\ AcceptBindBuffers(m.arg)
  <2>1. state \in StoresPool /\ negotiated /\ poolSize = 0
    BY <1>7 DEF Acceptable, InitReplies
  <2>2. state' = state /\ toWorker' = toWorker
    BY <1>1, <1>2, <1>7, Issued DEF AcceptBindBuffers
  <2>3. Stage(state)
    BY <1>1, <1>3, <1>7, <2>1, <2>2 DEF AcceptBindBuffers, Stage, WaitingAt, StoresPool, osVars
  <2> QED
    BY <1>1, <1>7, <2>1, <2>2, <2>3 DEF AcceptBindBuffers, ReadsPool, Reads, Orderly, CalmShape, dataVars
<1>8. CASE m.op = "FRAME_READY" /\ Acceptable(m) /\ AcceptFrameReady(m.arg)
  <2>1. state \in StoresPool /\ StoreFrame(m.arg)
    BY <1>8 DEF Acceptable, InitReplies
  <2>2. state' = state \/ (state = "WAIT_FIRST_FRAME" /\ state' = "ACTIVE")
    BY <1>8 DEF AcceptFrameReady, Transition
  <2>3. toWorker' = toWorker
    BY <1>1, <1>2, <2>2, Issued
  <2>4. /\ waiting' = waiting /\ state # "UNBINDING"
        /\ UNCHANGED << inst, ipc, termSent, owned, peer, stopRequested >>
    BY <1>1, <1>3, <1>8, <2>1, <2>2 DEF AcceptFrameReady, WaitingAt, StoresPool, Broken, osVars
  <2>5. Stage(state) \/ (state = "WAIT_FIRST_FRAME" /\ Stage("ACTIVE"))
    BY <1>1, <1>3, <2>2, <2>4 DEF Stage
  <2>6. frames' = Append(frames, m.arg) /\ lastPoint' = m.arg
    BY <1>8 DEF AcceptFrameReady
  <2>7. UNCHANGED << seen, negotiated, quiesced, poolSize >>
    BY <1>8 DEF AcceptFrameReady
  <2> QED BY <1>1, <1>8, <2>1, <2>3, <2>5, <2>6, <2>7 DEF ReadsFrame, Reads, Orderly, CalmShape
<1>9. CASE m.op = "QUIESCED" /\ Acceptable(m) /\ AcceptQuiesced
  <2>1. state = "QUIESCING" /\ state' = "UNBINDING"
    BY <1>9 DEF Acceptable, InitReplies, AcceptQuiesced, Transition
  <2>2. toWorker' = toWorker
    BY <1>1, <1>2, <2>1, Issued
  <2>3. Stage("UNBINDING")
    BY <1>1, <1>3, <1>9, <2>1 DEF AcceptQuiesced, Stage, WaitingAt, osVars
  <2> QED
    BY <1>1, <1>9, <2>1, <2>2, <2>3
       DEF AcceptQuiesced, ReadsQuiesced, Reads, Orderly, CalmShape, dataVars, opVars
<1> QED
  <2>1. m.op # "STATE_CHANGED" /\ m.op # "BIND_FAILED"
    BY <1>2, MessageKinds
  <2> QED BY <1>1, <1>4, <1>5, <1>6, <1>7, <1>8, <1>9, <2>1 DEF ReceivePacket

LEMMA DispatchShape ==
  ASSUME TypeOK, Mail, Stages, ReadEof \/ Reset \/ Quiet(Reap)
  PROVE  HostKept /\ CalmShape
<1> SUFFICES ASSUME HostKept, toDaemon' = toDaemon, toWorker' = toWorker \o Commands(FALSE), owned
             PROVE  CalmShape
  BY DEF ReadEof, Reset, Quiet, Daemon, HostKept, Eof, IpcError, Deadline, Callback, Reap
<1>1. toWorker \in Seq(Orders) /\ waiting \in BOOLEAN
  BY DEF Mail, TypeOK
<1>2. CASE ReadEof
  <2>1. ipc /\ ~peer /\ owned' = owned /\ stopRequested' = stopRequested /\ waiting' = WaitingAt(state')
    BY <1>2 DEF ReadEof, Quiet, Daemon, Eof, Callback, ReceiveEof, Observe
  <2>2. CASE state = "SHUTTING_DOWN"
    <3>1. state' = state
      BY <1>2, <2>2 DEF ReadEof, Quiet, Daemon, Eof, Callback, ReceiveEof
    <3>2. toWorker' = toWorker
      BY <1>1, <3>1, Issued
    <3> QED
      BY <1>1, <1>2, <2>1, <2>2, <3>1, <3>2
         DEF ReadEof, Quiet, Daemon, Eof, Callback, ReceiveEof, HangsUp, Quietly, WaitingAt, Orderly, CalmShape,
             opVars, dataVars, osVars
  <2>3. CASE state # "SHUTTING_DOWN"
    <3>1. ProcessFail
      BY <1>2, <2>3 DEF ReadEof, Quiet, Daemon, Eof, Callback, ReceiveEof
    <3>2. toWorker' = toWorker
      BY <1>1, <3>1, FailSends
    <3>3. Reason
      BY <2>1, <2>3 DEF Stages, Reason
    <3> QED BY <2>1, <3>1, <3>2, <3>3, FailsShape DEF CalmShape
  <2> QED BY <2>2, <2>3
<1>3. CASE Reset
  <2>1. /\ ipc /\ ~peer /\ owned' = owned /\ stopRequested' = stopRequested /\ ProcessFail
        /\ toWorker # << >>
    BY <1>3 DEF Reset, Quiet, Daemon, IpcError, Callback, SocketError
  <2>2. toWorker' = toWorker
    BY <1>1, <2>1, FailSends
  <2>3. Reason
    BY <2>1 DEF Reason
  <2> QED BY <2>1, <2>2, <2>3, FailsShape DEF CalmShape
<1>4. CASE Quiet(Reap)
  <2>1. owned' = FALSE /\ FinishReap
    BY <1>4, OneWorker
       DEF Quiet, Daemon, Reap, ReconcileNone, Spawn, GroupGone, TypeOK, ProcessTypeOK
  <2>2. state' # state /\ state' \in Ended
    BY <2>1 DEF FinishReap, Ended, Stages
  <2>3. toWorker' = toWorker
    BY <1>1, <2>2, Issued
  <2> QED BY <2>1, <2>3 DEF FinishReap, Reaps, Quietly, Orderly, CalmShape
<1> QED BY <1>2, <1>3, <1>4

\* A missed deadline.
LEMMA LateShape ==
  ASSUME TypeOK, Mail, Stages, Quiet(Deadline)
  PROVE  HostKept /\ Shape
<1>1. /\ HostKept /\ toDaemon' = toDaemon /\ toWorker' = toWorker \o Commands(FALSE) /\ owned
      /\ owned' = owned /\ stopRequested' = stopRequested /\ waiting' = WaitingAt(state')
      /\ toWorker \in Seq(Orders) /\ waiting \in BOOLEAN
  BY DEF Quiet, Daemon, HostKept, Deadline, Callback, Observe, Mail, TypeOK
<1>2. CASE ProcessFail
  <2>1. toWorker' = toWorker
    BY <1>1, <1>2, FailSends
  <2> QED
    BY <1>1, <1>2, <2>1 DEF ProcessFail, FailureState, Fails, Broken, Shape, opVars, dataVars, osVars
<1>3. CASE UNCHANGED << inst, state, wasActive, ipc, termSent, opVars, dataVars, osVars >>
  <2>1. toWorker' = toWorker
    BY <1>1, <1>3, Issued
  <2> QED
    BY <1>1, <1>3, <2>1 DEF Rests, Rest, Quietly, WaitingAt, Orderly, Shape, opVars, dataVars, osVars
<1> QED
  BY <1>2, <1>3 DEF Quiet, Daemon, Deadline, Callback, DeadlineExpired

LEMMA RouteShape ==
  ASSUME TypeOK, Mail, Stages, Calls \/ Forward
  PROVE  HostKept /\ CalmShape
<1> SUFFICES ASSUME HostKept, toDaemon' = toDaemon, toWorker' = toWorker \o Commands(FALSE)
             PROVE  CalmShape
  BY DEF Calls, Forward, Quiet, Daemon, HostKept
<1>1. toWorker \in Seq(Orders) /\ waiting \in BOOLEAN /\ stopRequested \in BOOLEAN
  BY DEF Mail, TypeOK
<1>2. CASE Quiet(Negotiate)
  <2>1. /\ owned /\ owned' = owned /\ stopRequested' = stopRequested /\ waiting' = WaitingAt(state')
        /\ state = "NEGOTIATING" /\ ~negotiated /\ SendNegotiateBuffers
    BY <1>2 DEF Quiet, Daemon, Negotiate, Ready, Observe
  <2>2. CASE peer
    <3>1. state' = "WAIT_FIRST_FRAME"
      BY <2>1, <2>2 DEF SendNegotiateBuffers, Send, Transition
    <3>2. toWorker' = Append(toWorker, "NEGOTIATE_BUFFERS")
      BY <1>1, <2>1, <3>1, Issued
    <3>3. Stage("WAIT_FIRST_FRAME")
      BY <1>1, <2>1, <2>2, <3>1 DEF SendNegotiateBuffers, Send, Stage, WaitingAt, Broken, osVars
    <3> QED
      BY <2>1, <2>2, <3>2, <3>3 DEF SendNegotiateBuffers, Send, Negotiates, Sends, Orderly, CalmShape, dataVars
  <2>3. CASE ~peer
    <3>1. ProcessFail
      BY <2>1, <2>3 DEF SendNegotiateBuffers, Send
    <3>2. toWorker' = toWorker
      BY <1>1, <3>1, FailSends
    <3>3. Reason
      BY <2>1, <2>3, Connected DEF Reason, Running
    <3> QED BY <2>1, <3>1, <3>2, <3>3, FailsShape DEF CalmShape
  <2> QED BY <2>2, <2>3
<1>3. CASE Quiet(InvalidatePool)
  <2>1. /\ owned /\ owned' = owned /\ waiting' = WaitingAt(state') /\ state \in Running /\ ~waiting
        /\ stopRequested' = (stopRequested \/ state' \in Broken) /\ RequestQuiesce
        /\ \E o \in Outputs : boundTo[o] # 0
    BY <1>3 DEF Quiet, Daemon, InvalidatePool
  <2>2. CASE peer
    <3>1. state' = "QUIESCING" /\ state # "QUIESCING"
      BY <2>1, <2>2 DEF RequestQuiesce, Send, Transition, Running
    <3>2. toWorker' = Append(toWorker, "QUIESCE")
      BY <1>1, <3>1, Issued
    <3>3. Stage("QUIESCING")
      BY <1>1, <2>1, <2>2, <3>1 DEF RequestQuiesce, Send, Stage, WaitingAt, Broken, osVars
    <3> QED
      BY <2>1, <2>2, <3>2, <3>3 DEF RequestQuiesce, Send, Quiesces, Sends, Orderly, CalmShape, dataVars
  <2>3. CASE ~peer
    <3>1. ProcessFail
      BY <2>1, <2>3 DEF RequestQuiesce, Send
    <3>2. toWorker' = toWorker
      BY <1>1, <3>1, FailSends
    <3>3. Reason
      BY <2>1, <2>3, Connected DEF Reason
    <3>4. stopRequested => stopRequested'
      BY <2>1
    <3> QED BY <2>1, <3>1, <3>2, <3>3, <3>4, FailsShape DEF CalmShape
  <2> QED BY <2>2, <2>3
<1>4. CASE \E o \in Outputs : Quiet(BindOutput(o)) \/ Quiet(ReleaseOutput(o))
  <2>1. UNCHANGED << procVars, owned, waiting, stopRequested >>
    BY <1>4 DEF Quiet, Daemon, BindOutput, ReleaseOutput
  <2>2. toWorker' = toWorker
    BY <1>1, <2>1, Issued DEF procVars
  <2> QED BY <2>1, <2>2 DEF Rests, Rest, Quietly, Orderly, CalmShape, procVars, opVars, dataVars, osVars
<1>5. CASE Forward
  <2>1. TakeFrame /\ UNCHANGED << owned, waiting, stopRequested >>
    BY <1>5 DEF Forward, Daemon, NextFrame, ownerVars
  <2>2. toWorker' = toWorker
    BY <1>1, <2>1, Issued DEF TakeFrame
  <2> QED BY <2>1, <2>2 DEF TakeFrame, Takes, Rest, Quietly, Orderly, CalmShape, opVars, osVars
<1> QED BY <1>2, <1>3, <1>4, <1>5 DEF Calls

LEMMA UnboundShape ==
  ASSUME TypeOK, Mail, Stages, Unbound
  PROVE  HostKept /\ CalmShape
<1>1. /\ HostKept /\ toDaemon' = toDaemon /\ toWorker' = toWorker \o Commands(FALSE)
      /\ waiting /\ (CompleteReaped \/ CompleteLive)
  BY DEF Unbound, Daemon, HostKept, CompleteUnbind
<1>2. toWorker \in Seq(Orders) /\ inst # 0
  BY <1>1 DEF Mail, Stages
<1>3. CASE CompleteReaped
  <2>1. ~owned /\ waiting' = FALSE /\ ReconcileNone(leader, desired, stopped, startupError, UNCHANGED procVars)
    BY <1>3 DEF CompleteReaped
  <2> QED BY <1>1, <1>2, <2>1, ReconcileNoneSession
<1>4. CASE CompleteLive /\ state # "UNBINDING"
  <2>1. owned /\ UNCHANGED << procVars, owned, stopRequested >> /\ waiting' = FALSE
    BY <1>4 DEF CompleteLive, procVars
  <2>2. toWorker' = toWorker
    BY <1>2, <1>1, <2>1, Issued DEF procVars
  <2> QED BY <1>1, <2>1, <2>2 DEF Rests, Rest, Quietly, Orderly, CalmShape, procVars, opVars, dataVars, osVars
<1>5. CASE CompleteLive /\ state = "UNBINDING"
  <2>1. /\ owned /\ owned' = owned /\ stopRequested' = stopRequested /\ RequestShutdown
        /\ waiting' = (state' \in Broken /\ state' # state /\ Published)
    BY <1>5 DEF CompleteLive
  <2>2. CASE peer
    <3>1. state' = "SHUTTING_DOWN"
      BY <2>1, <2>2 DEF RequestShutdown, Send, Transition
    <3>2. toWorker' = Append(toWorker, "SHUTDOWN") /\ waiting' = FALSE
      BY <1>1, <1>2, <1>5, <2>1, <3>1, Issued DEF Broken
    <3> QED
      BY <1>1, <1>5, <2>1, <2>2, <3>1, <3>2
         DEF RequestShutdown, Send, ShutsDown, Sends, Orderly, CalmShape, opVars, dataVars, osVars
  <2>3. CASE ~peer
    <3>1. ProcessFail
      BY <2>1, <2>3 DEF RequestShutdown, Send
    <3>2. toWorker' = toWorker
      BY <1>1, <1>2, <3>1, FailSends
    <3>3. Reason
      BY <1>5, <2>1, <2>3, Connected DEF Reason
    <3> QED BY <1>1, <2>1, <3>1, <3>2, <3>3, FailsShape DEF CalmShape
  <2> QED BY <2>2, <2>3
<1> QED BY <1>1, <1>3, <1>4, <1>5

LEMMA CalmDaemonShape ==
  ASSUME TypeOK, Mail, Stages, CalmStep
  PROVE  HostKept /\ CalmShape
<1>1. CASE Configure
  BY <1>1, ConfigureShape
<1>2. CASE ReceiveEvent
  BY <1>2, EventShape
<1>3. CASE ReadEof \/ Reset \/ Quiet(Reap)
  BY <1>3, DispatchShape
<1>4. CASE Calls \/ Forward
  BY <1>4, RouteShape
<1>5. CASE Unbound
  BY <1>5, UnboundShape
<1> QED BY <1>1, <1>2, <1>3, <1>4, <1>5 DEF CalmStep, Dispatch

LEMMA DaemonShape ==
  ASSUME TypeOK, Mail, Stages, DaemonStep
  PROVE  HostKept /\ Shape
<1>1. CalmShape => Shape
  BY DEF CalmShape, Shape
<1> QED BY <1>1, CalmDaemonShape, LateShape DEF DaemonStep, CalmStep

-----------------------------------------------------------------------------
(* What is on its way between the two sides.                               *)

\* The events that the daemon has not read yet.
Coming == toDaemon \o events

Has(q, op) == \E i \in 1 .. Len(q) : q[i].op = op
Asks(c, x) == \E i \in 1 .. Len(c) : c[i] = x

\* Events of q come once each, frames and errors apart, and never again when the
\* daemon got them; the pool is before its frames and QUIESCED is the last.
Ordered(q, got) ==
  /\ \A i \in 1 .. Len(q) : q[i].op \notin got
  /\ \A i, j \in 1 .. Len(q) : q[i].op = q[j].op => i = j \/ q[i].op \in {"FRAME_READY", "ERROR"}
  /\ \A i, j \in 1 .. Len(q) : q[i].op = "BIND_BUFFERS" /\ q[j].op = "FRAME_READY" => i < j
  /\ \A i \in 1 .. Len(q) : q[i].op = "QUIESCED" => i = Len(q)

\* The replies to INIT end with the timeline or with an error.
Answers(q) ==
  \A i \in 1 .. Len(q) : q[i].op \in {"RELEASE_TIMELINE", "ERROR"} <=> i = Len(q)

\* The frames of q have points up to n.
PointsTo(q, n) == \A i \in 1 .. Len(q) : q[i].op = "FRAME_READY" => q[i].arg \in 1 .. n

\* Commands of a worker in service: nothing follows QUIESCE, and one negotiation.
Ordinary(c) ==
  /\ \A i \in 1 .. Len(c) : c[i] \in {"SET_RUNTIME", "NEGOTIATE_BUFFERS", "QUIESCE"}
  /\ \A i \in 1 .. Len(c) : c[i] = "QUIESCE" => i = Len(c)
  /\ \A i, j \in 1 .. Len(c) : c[i] = "NEGOTIATE_BUFFERS" /\ c[j] = c[i] => i = j

\* What the daemon got of what comes once.
Got == seen \cup (IF poolSize # 0 THEN {"BIND_BUFFERS"} ELSE {})

\* The worker has read the negotiation.
Served == negotiated /\ ~Asks(toWorker, "NEGOTIATE_BUFFERS")

\* The handshake.
Greets ==
  /\ pc = "unborn" <=> inst = 0
  /\ pc \in {"unborn", "boot"} <=> phase = "BOOT"
  /\ phase = "BOOT" =>
       toWorker = << >> /\ toDaemon = << >> /\ events = << >> /\ ~stopping /\ seen = {}
  /\ phase = "WAIT_INIT" =>
       /\ events = << >> /\ ~stopping
       /\ \/ seen = {} /\ toDaemon = << Event("HELLO", 0) >> /\ toWorker = << >>
          \/ seen = {} /\ toDaemon = << >> /\ toWorker = << >> /\ state \in Ended
          \/ seen = {"HELLO"} /\ toDaemon = << >> /\ toWorker = << "INIT" >>
  /\ phase \notin {"BOOT", "WAIT_INIT"} => "HELLO" \in seen

\* The replies to INIT are on their way.
Prepares ==
  phase = "BACKEND_INIT" =>
    /\ Answers(Coming)
    /\ events = << >> => pc = "flush" \/ (stopping /\ pc = "gone")
    /\ Has(Coming, "RELEASE_TIMELINE") \/ "RELEASE_TIMELINE" \in seen => ~stopping

\* Which commands are on their way in which phase.
Fits ==
  /\ phase \in {"BACKEND_INIT"} \cup Open => Ordinary(toWorker)
  /\ phase \notin {"BOOT", "WAIT_INIT"} /\ toWorker # << >> => seen = OnceOnly
  /\ phase \in {"QUIESCING", "EXIT"} => toWorker = << >>
  /\ phase = "QUIESCED" => toWorker \in {<< >>, << "SHUTDOWN" >>}
  /\ Asks(toWorker, "QUIESCE") => quiesced
  /\ phase = "EXIT" \/ Asks(toWorker, "SHUTDOWN") => state \in {"SHUTTING_DOWN"} \cup Ended

\* How many they are.
Bounds ==
  /\ inst # 0 => MaxCommands # 0
  /\ Len(toWorker) <= MaxCommands + 1
  /\ Len(toWorker) <= MaxCommands \/ Asks(toWorker, "NEGOTIATE_BUFFERS") \/ Asks(toWorker, "QUIESCE")

\* The pool and its frames follow the negotiation.
Serves ==
  /\ Asks(toWorker, "NEGOTIATE_BUFFERS") => negotiated /\ phase \in {"BACKEND_INIT", "WAIT_NEGOTIATION"}
  /\ phase \in {"BOOT", "WAIT_INIT", "BACKEND_INIT", "WAIT_NEGOTIATION"} => ~Served
  /\ phase = "RUNNING" => Served
  /\ ~Served => pump = "off" /\ nextPoint = 0 /\ poolSize = 0 /\ ~Has(Coming, "BIND_BUFFERS")
  /\ ipc /\ poolSize = 0 /\ (nextPoint > 0 \/ pump # "off") => Has(Coming, "BIND_BUFFERS")

\* The end of the service.
Parts ==
  /\ phase \in {"QUIESCING", "QUIESCED", "EXIT"} => quiesced
  /\ pc = "join" => phase = "QUIESCING" /\ ~owed /\ ~Has(Coming, "QUIESCED")
  /\ owed => phase = "QUIESCING" /\ pump = "off" /\ ~Has(Coming, "QUIESCED")
  /\ Has(Coming, "QUIESCED") =>
       /\ pump = "off" /\ toWorker = << >> /\ state \notin {"UNBINDING", "SHUTTING_DOWN"}
       /\ \/ phase = "QUIESCING" /\ events = << Event("QUIESCED", 0) >>
          \/ phase = "QUIESCED" /\ events = << >>
  /\ phase \in {"QUIESCED", "EXIT"} => pump = "off" /\ events = << >>
  /\ state = "UNBINDING" => phase = "QUIESCED" /\ toWorker = << >> /\ Coming = << >>
  /\ state = "SHUTTING_DOWN" =>
       /\ Coming = << >>
       /\ phase = "EXIT" \/ (phase = "QUIESCED" /\ toWorker = << "SHUTDOWN" >>)

\* What is on its way is sound.
Sound ==
  /\ Ordered(Coming, Got) /\ PointsTo(Coming, nextPoint)
  /\ Has(Coming, "ERROR") => stopping
  /\ poolSize \in {0, MaxPool}

MainInv == Stages /\ Mail /\ Sound /\ Greets /\ Prepares /\ Fits /\ Bounds /\ Serves /\ Parts

-----------------------------------------------------------------------------
(* Facts about sequences of events and commands.                           *)

LEMMA JoinSeq ==
  ASSUME NEW S, NEW s \in Seq(S), NEW t \in Seq(S)
  PROVE  /\ s \o t \in Seq(S) /\ Len(s \o t) = Len(s) + Len(t)
         /\ s # << >> => s \o t # << >> /\ Head(s \o t) = Head(s) /\ Tail(s) \o t = Tail(s \o t)
         /\ t # << >> => Append(s, Head(t)) \o Tail(t) = s \o t
         /\ \A x \in S : s \o Append(t, x) = Append(s \o t, x)
<1>1. s \o t \in Seq(S) /\ Len(s \o t) = Len(s) + Len(t)
  BY ConcatProperties
<1>2. ASSUME s # << >>
      PROVE  s \o t # << >> /\ Head(s \o t) = Head(s) /\ Tail(s) \o t = Tail(s \o t)
  <2>1. s \o t # << >> /\ Head(s \o t) = Head(s)
    BY <1>2
  <2>2. Len(Tail(s) \o t) = Len(Tail(s \o t))
    BY <1>1, <1>2, <2>1
  <2>3. \A i \in 1 .. Len(Tail(s) \o t) : (Tail(s) \o t)[i] = Tail(s \o t)[i]
    BY <1>1, <1>2, <2>1
  <2>4. Tail(s) \o t \in Seq(S) /\ Tail(s \o t) \in Seq(S)
    BY <1>1, <1>2, <2>1
  <2> QED BY <2>1, <2>2, <2>3, <2>4, SeqEqual
<1>3. ASSUME t # << >>
      PROVE  Append(s, Head(t)) \o Tail(t) = s \o t
  <2>1. Append(s, Head(t)) \in Seq(S) /\ Tail(t) \in Seq(S) /\ Append(s, Head(t)) \o Tail(t) \in Seq(S)
    BY <1>3
  <2>2. Len(Append(s, Head(t)) \o Tail(t)) = Len(s \o t)
    BY <1>1, <1>3, <2>1
  <2>3. \A i \in 1 .. Len(s \o t) : (Append(s, Head(t)) \o Tail(t))[i] = (s \o t)[i]
    BY <1>1, <1>3, <2>1
  <2> QED BY <1>1, <2>1, <2>2, <2>3, SeqEqual
<1>4. ASSUME NEW x \in S
      PROVE  s \o Append(t, x) = Append(s \o t, x)
  <2>1. s \o Append(t, x) \in Seq(S) /\ Append(s \o t, x) \in Seq(S)
    BY <1>1
  <2>2. Len(s \o Append(t, x)) = Len(Append(s \o t, x))
    BY <1>1
  <2>3. \A i \in 1 .. Len(s \o Append(t, x)) : (s \o Append(t, x))[i] = Append(s \o t, x)[i]
    BY <1>1
  <2> QED BY <2>1, <2>2, <2>3, SeqEqual
<1> QED BY <1>1, <1>2, <1>3, <1>4

LEMMA TailIs ==
  ASSUME NEW S, NEW q \in Seq(S), q # << >>
  PROVE  /\ 1 \in 1 .. Len(q) /\ Head(q) = q[1] /\ Len(Tail(q)) = Len(q) - 1 /\ Len(q) \in Nat
         /\ Tail(q) \in Seq(S) /\ Head(q) \in S
         /\ \A i \in 1 .. Len(Tail(q)) : Tail(q)[i] = q[i + 1] /\ i + 1 \in 1 .. Len(q)
         /\ Tail(q) = << >> <=> Len(q) = 1
<1>1. /\ 1 \in 1 .. Len(q) /\ Head(q) = q[1] /\ Len(Tail(q)) = Len(q) - 1 /\ Len(q) \in Nat
      /\ Tail(q) \in Seq(S) /\ Head(q) \in S
      /\ \A i \in 1 .. Len(Tail(q)) : Tail(q)[i] = q[i + 1] /\ i + 1 \in 1 .. Len(q)
  OBVIOUS
<1>2. Tail(q) = << >> <=> Len(Tail(q)) = 0
  BY <1>1, EmptySeq
<1> QED BY <1>1, <1>2

LEMMA HasTail ==
  ASSUME NEW q \in Seq(Messages), q # << >>
  PROVE  \A op : Has(q, op) <=> Head(q).op = op \/ Has(Tail(q), op)
<1> SUFFICES ASSUME NEW op PROVE Has(q, op) <=> Head(q).op = op \/ Has(Tail(q), op)
  OBVIOUS
<1>1. ASSUME Has(q, op) PROVE Head(q).op = op \/ Has(Tail(q), op)
  <2>1. PICK i \in 1 .. Len(q) : q[i].op = op
    BY <1>1 DEF Has
  <2>2. CASE i = 1
    BY <2>1, <2>2
  <2>3. CASE i # 1
    <3>1. i - 1 \in 1 .. Len(Tail(q)) /\ Tail(q)[i - 1] = q[i]
      BY <2>3
    <3> QED BY <2>1, <3>1 DEF Has
  <2> QED BY <2>2, <2>3
<1>2. ASSUME Head(q).op = op PROVE Has(q, op)
  <2>1. 1 \in 1 .. Len(q) /\ q[1] = Head(q)
    OBVIOUS
  <2> QED BY <1>2, <2>1 DEF Has
<1>3. ASSUME Has(Tail(q), op) PROVE Has(q, op)
  <2>1. PICK i \in 1 .. Len(Tail(q)) : Tail(q)[i].op = op
    BY <1>3 DEF Has
  <2>2. i + 1 \in 1 .. Len(q) /\ Tail(q)[i] = q[i + 1]
    OBVIOUS
  <2> QED BY <2>1, <2>2 DEF Has
<1> QED BY <1>1, <1>2, <1>3

LEMMA HasAppend ==
  ASSUME NEW q \in Seq(Messages), NEW x \in Messages
  PROVE  \A op : Has(Append(q, x), op) <=> Has(q, op) \/ x.op = op
<1> DEFINE r == Append(q, x)
<1>1. /\ Len(r) = Len(q) + 1 /\ Len(q) \in Nat /\ r[Len(q) + 1] = x
      /\ \A i \in 1 .. Len(q) : r[i] = q[i]
  OBVIOUS
<1> HIDE DEF r
<1> QED BY <1>1 DEF Has, r

LEMMA HasNone == \A op : ~Has(<< >>, op)
BY DEF Has

LEMMA AsksTail ==
  ASSUME NEW q \in Seq(Orders), q # << >>
  PROVE  \A x : Asks(q, x) <=> Head(q) = x \/ Asks(Tail(q), x)
<1> SUFFICES ASSUME NEW x PROVE Asks(q, x) <=> Head(q) = x \/ Asks(Tail(q), x)
  OBVIOUS
<1>1. ASSUME Asks(q, x) PROVE Head(q) = x \/ Asks(Tail(q), x)
  <2>1. PICK i \in 1 .. Len(q) : q[i] = x
    BY <1>1 DEF Asks
  <2>2. CASE i = 1
    BY <2>1, <2>2
  <2>3. CASE i # 1
    <3>1. i - 1 \in 1 .. Len(Tail(q)) /\ Tail(q)[i - 1] = q[i]
      BY <2>3
    <3> QED BY <2>1, <3>1 DEF Asks
  <2> QED BY <2>2, <2>3
<1>2. ASSUME Head(q) = x PROVE Asks(q, x)
  <2>1. 1 \in 1 .. Len(q) /\ q[1] = Head(q)
    OBVIOUS
  <2> QED BY <1>2, <2>1 DEF Asks
<1>3. ASSUME Asks(Tail(q), x) PROVE Asks(q, x)
  <2>1. PICK i \in 1 .. Len(Tail(q)) : Tail(q)[i] = x
    BY <1>3 DEF Asks
  <2>2. i + 1 \in 1 .. Len(q) /\ Tail(q)[i] = q[i + 1]
    OBVIOUS
  <2> QED BY <2>1, <2>2 DEF Asks
<1> QED BY <1>1, <1>2, <1>3

LEMMA AsksAppend ==
  ASSUME NEW q \in Seq(Orders), NEW y \in Orders
  PROVE  /\ \A x : Asks(Append(q, y), x) <=> Asks(q, x) \/ y = x
         /\ Len(Append(q, y)) = Len(q) + 1 /\ Append(q, y) # << >> /\ Append(q, y) \in Seq(Orders)
<1> DEFINE r == Append(q, y)
<1>1. /\ Len(r) = Len(q) + 1 /\ Len(q) \in Nat /\ r[Len(q) + 1] = y
      /\ \A i \in 1 .. Len(q) : r[i] = q[i]
      /\ r # << >> /\ r \in Seq(Orders)
  OBVIOUS
<1> HIDE DEF r
<1> QED BY <1>1 DEF Asks, r

LEMMA AsksNone == \A x : ~Asks(<< >>, x)
BY DEF Asks

\* The daemon reads an event and gets no more than that.
LEMMA OrderedTail ==
  ASSUME NEW q \in Seq(Messages), q # << >>, NEW got, Ordered(q, got)
  PROVE  /\ Head(q).op \notin {"FRAME_READY", "ERROR"} =>
               ~Has(Tail(q), Head(q).op) /\ Ordered(Tail(q), got \cup {Head(q).op})
         /\ Ordered(Tail(q), got)
         /\ Head(q).op = "QUIESCED" => Tail(q) = << >> /\ Len(q) = 1
         /\ Head(q).op \notin got
         /\ Head(q).op = "FRAME_READY" => ~Has(q, "BIND_BUFFERS")
<1>1. /\ 1 \in 1 .. Len(q) /\ Head(q) = q[1] /\ Len(Tail(q)) = Len(q) - 1 /\ Len(q) \in Nat
      /\ \A i \in 1 .. Len(Tail(q)) : Tail(q)[i] = q[i + 1] /\ i + 1 \in 1 .. Len(q)
  OBVIOUS
<1>2. PICK r : r = Tail(q)
  OBVIOUS
<1>20. Len(r) = Len(q) - 1 /\ Len(q) \in Nat
  BY <1>1, <1>2
<1>21. \A i \in 1 .. Len(r) : r[i] = q[i + 1] /\ i + 1 \in 1 .. Len(q) /\ i \in Nat
  BY <1>1, <1>2
<1>0. /\ Len(r) = Len(q) - 1 /\ (\A i \in 1 .. Len(r) : r[i] = q[i + 1] /\ i + 1 \in 1 .. Len(q) /\ i \in Nat)
      /\ \A i, j \in 1 .. Len(r) : i + 1 = j + 1 => i = j
      /\ \A i, j \in 1 .. Len(r) : i + 1 < j + 1 => i < j
      /\ \A i \in 1 .. Len(r) : i + 1 = Len(q) => i = Len(r)
  BY <1>20, <1>21
<1>8. \A i \in 1 .. Len(r) : r[i].op \notin got
  BY <1>0 DEF Ordered
<1>9. ASSUME NEW i \in 1 .. Len(r), NEW j \in 1 .. Len(r), r[i].op = r[j].op
      PROVE  i = j \/ r[i].op \in {"FRAME_READY", "ERROR"}
  <2>1. i + 1 \in 1 .. Len(q) /\ j + 1 \in 1 .. Len(q) /\ q[i + 1].op = q[j + 1].op /\ r[i] = q[i + 1]
    BY <1>0, <1>9
  <2>2. i + 1 = j + 1 \/ q[i + 1].op \in {"FRAME_READY", "ERROR"}
    BY <2>1 DEF Ordered
  <2> QED BY <2>1, <2>2
<1>10. ASSUME NEW i \in 1 .. Len(r), NEW j \in 1 .. Len(r), r[i].op = "BIND_BUFFERS", r[j].op = "FRAME_READY"
       PROVE  i < j
  <2>1. /\ i + 1 \in 1 .. Len(q) /\ j + 1 \in 1 .. Len(q)
        /\ q[i + 1].op = "BIND_BUFFERS" /\ q[j + 1].op = "FRAME_READY"
    BY <1>0, <1>10
  <2>2. i + 1 < j + 1
    BY <2>1 DEF Ordered
  <2> QED BY <1>0, <2>2
<1>11. ASSUME NEW i \in 1 .. Len(r), r[i].op = "QUIESCED"
       PROVE  i = Len(r)
  <2>1. i + 1 \in 1 .. Len(q) /\ q[i + 1].op = "QUIESCED"
    BY <1>0, <1>11
  <2>2. i + 1 = Len(q)
    BY <2>1 DEF Ordered
  <2> QED BY <1>0, <2>2
<1>3. Ordered(r, got)
  BY <1>8, <1>9, <1>10, <1>11 DEF Ordered
<1>12. ASSUME Head(q).op \notin {"FRAME_READY", "ERROR"}, NEW i \in 1 .. Len(r)
       PROVE  r[i].op # Head(q).op
  <2>1. i + 1 # 1
    BY <1>0
  <2> QED BY <1>0, <1>1, <1>12, <2>1 DEF Ordered
<1>4. Head(q).op \notin {"FRAME_READY", "ERROR"} => ~Has(r, Head(q).op) /\ Ordered(r, got \cup {Head(q).op})
  BY <1>8, <1>9, <1>10, <1>11, <1>12 DEF Ordered, Has
<1>5. Head(q).op = "QUIESCED" => Tail(q) = << >> /\ Len(q) = 1
  <2> SUFFICES ASSUME Head(q).op = "QUIESCED" PROVE Tail(q) = << >> /\ Len(q) = 1
    OBVIOUS
  <2>1. Len(q) = 1
    BY <1>1 DEF Ordered
  <2> QED BY <2>1, TailIs
<1>6. Head(q).op \notin got
  BY <1>1 DEF Ordered
<1>7. Head(q).op = "FRAME_READY" => ~Has(q, "BIND_BUFFERS")
  <2> SUFFICES ASSUME Head(q).op = "FRAME_READY", Has(q, "BIND_BUFFERS") PROVE FALSE
    OBVIOUS
  <2>1. PICK i \in 1 .. Len(q) : q[i].op = "BIND_BUFFERS"
    BY DEF Has
  <2>2. i < 1
    BY <1>1, <2>1 DEF Ordered
  <2> QED BY <2>2
<1> QED BY <1>2, <1>3, <1>4, <1>5, <1>6, <1>7

LEMMA OrderedAppend ==
  ASSUME NEW q \in Seq(Messages), NEW x \in Messages, NEW got, Ordered(q, got),
         x.op \notin got, ~Has(q, "QUIESCED"),
         x.op \in {"FRAME_READY", "ERROR"} \/ ~Has(q, x.op),
         x.op = "BIND_BUFFERS" => ~Has(q, "FRAME_READY")
  PROVE  Ordered(Append(q, x), got)
<1>1. PICK r : r = Append(q, x)
  OBVIOUS
<1>2. /\ Len(r) = Len(q) + 1 /\ Len(q) \in Nat /\ r[Len(q) + 1] = x
      /\ \A i \in 1 .. Len(q) : r[i] = q[i]
      /\ \A i \in 1 .. Len(r) : i \in 1 .. Len(q) \/ i = Len(q) + 1
  BY <1>1
<1>3. \A i \in 1 .. Len(r) : r[i].op \notin got
  BY <1>2 DEF Ordered
<1>4. \A i, j \in 1 .. Len(r) : r[i].op = r[j].op => i = j \/ r[i].op \in {"FRAME_READY", "ERROR"}
  BY <1>2 DEF Ordered, Has
<1>5. \A i, j \in 1 .. Len(r) : r[i].op = "BIND_BUFFERS" /\ r[j].op = "FRAME_READY" => i < j
  BY <1>2 DEF Ordered, Has
<1>6. \A i \in 1 .. Len(r) : r[i].op = "QUIESCED" => i = Len(r)
  BY <1>2 DEF Ordered, Has
<1> QED BY <1>1, <1>3, <1>4, <1>5, <1>6 DEF Ordered

LEMMA AnswersTail ==
  ASSUME NEW q \in Seq(Messages), q # << >>, Answers(q)
  PROVE  Answers(Tail(q)) /\ (Head(q).op \in {"RELEASE_TIMELINE", "ERROR"} <=> Tail(q) = << >>)
<1>1. /\ 1 \in 1 .. Len(q) /\ Head(q) = q[1] /\ Len(Tail(q)) = Len(q) - 1 /\ Len(q) \in Nat
      /\ \A i \in 1 .. Len(Tail(q)) : Tail(q)[i] = q[i + 1] /\ i + 1 \in 1 .. Len(q)
      /\ Tail(q) = << >> <=> Len(q) = 1
  BY TailIs
<1>2. PICK r : r = Tail(q)
  OBVIOUS
<1>0. /\ \A i \in 1 .. Len(r) : r[i] = q[i + 1] /\ i + 1 \in 1 .. Len(q) /\ i \in Nat
      /\ \A i \in 1 .. Len(r) : i + 1 = Len(q) <=> i = Len(r)
  BY <1>1, <1>2
<1>3. Answers(r)
  BY <1>0 DEF Answers
<1> QED BY <1>1, <1>2, <1>3 DEF Answers

LEMMA PointsTail ==
  ASSUME NEW q \in Seq(Messages), q # << >>, NEW n \in Nat, PointsTo(q, n)
  PROVE  PointsTo(Tail(q), n) /\ (Head(q).op = "FRAME_READY" => Head(q).arg \in 1 .. n)
<1>1. /\ 1 \in 1 .. Len(q) /\ Head(q) = q[1]
      /\ \A i \in 1 .. Len(Tail(q)) : Tail(q)[i] = q[i + 1] /\ i + 1 \in 1 .. Len(q)
  OBVIOUS
<1>2. PICK r : r = Tail(q)
  OBVIOUS
<1> QED BY <1>1, <1>2 DEF PointsTo

LEMMA PointsAppend ==
  ASSUME NEW q \in Seq(Messages), NEW x \in Messages, NEW n \in Nat, NEW k \in Nat, n <= k,
         PointsTo(q, n), x.op = "FRAME_READY" => x.arg \in 1 .. k
  PROVE  PointsTo(Append(q, x), k)
<1>1. PICK r : r = Append(q, x)
  OBVIOUS
<1>2. /\ Len(r) = Len(q) + 1 /\ Len(q) \in Nat /\ r[Len(q) + 1] = x
      /\ \A i \in 1 .. Len(q) : r[i] = q[i]
      /\ \A i \in 1 .. Len(r) : i \in 1 .. Len(q) \/ i = Len(q) + 1
  BY <1>1
<1> QED BY <1>1, <1>2 DEF PointsTo

LEMMA OrdinaryTail ==
  ASSUME NEW q \in Seq(Orders), q # << >>, Ordinary(q)
  PROVE  /\ Ordinary(Tail(q)) /\ Head(q) \in {"SET_RUNTIME", "NEGOTIATE_BUFFERS", "QUIESCE"}
         /\ Head(q) = "QUIESCE" => Tail(q) = << >>
         /\ Head(q) = "NEGOTIATE_BUFFERS" => ~Asks(Tail(q), "NEGOTIATE_BUFFERS")
         /\ ~Asks(q, "SHUTDOWN")
<1>1. /\ 1 \in 1 .. Len(q) /\ Head(q) = q[1] /\ Len(Tail(q)) = Len(q) - 1 /\ Len(q) \in Nat
      /\ \A i \in 1 .. Len(Tail(q)) : Tail(q)[i] = q[i + 1] /\ i + 1 \in 1 .. Len(q)
      /\ Tail(q) = << >> <=> Len(q) = 1
  BY TailIs
<1>2. PICK r : r = Tail(q)
  OBVIOUS
<1>20. Len(r) = Len(q) - 1 /\ Len(q) \in Nat
  BY <1>1, <1>2
<1>21. \A i \in 1 .. Len(r) : r[i] = q[i + 1] /\ i + 1 \in 1 .. Len(q) /\ i \in Nat
  BY <1>1, <1>2
<1>0. /\ Len(r) = Len(q) - 1 /\ (\A i \in 1 .. Len(r) : r[i] = q[i + 1] /\ i + 1 \in 1 .. Len(q) /\ i \in Nat)
      /\ \A i, j \in 1 .. Len(r) : i + 1 = j + 1 => i = j
      /\ \A i \in 1 .. Len(r) : i + 1 = Len(q) => i = Len(r)
  BY <1>20, <1>21
<1>3. \A i \in 1 .. Len(r) : r[i] \in {"SET_RUNTIME", "NEGOTIATE_BUFFERS", "QUIESCE"}
  BY <1>0 DEF Ordinary
<1>4. \A i \in 1 .. Len(r) : r[i] = "QUIESCE" => i = Len(r)
  BY <1>0 DEF Ordinary
<1>5. \A i, j \in 1 .. Len(r) : r[i] = "NEGOTIATE_BUFFERS" /\ r[j] = r[i] => i = j
  BY <1>0 DEF Ordinary
<1>6. Head(q) \in {"SET_RUNTIME", "NEGOTIATE_BUFFERS", "QUIESCE"} /\ (Head(q) = "QUIESCE" => Tail(q) = << >>)
  BY <1>1 DEF Ordinary
<1>7. Head(q) = "NEGOTIATE_BUFFERS" => ~Asks(r, "NEGOTIATE_BUFFERS")
  <2> SUFFICES ASSUME Head(q) = "NEGOTIATE_BUFFERS", NEW i \in 1 .. Len(r), r[i] = "NEGOTIATE_BUFFERS"
               PROVE  FALSE
    BY DEF Asks
  <2>1. i + 1 # 1
    BY <1>0
  <2> QED BY <1>0, <1>1, <2>1 DEF Ordinary
<1>8. ~Asks(q, "SHUTDOWN")
  BY DEF Ordinary, Asks
<1> QED BY <1>2, <1>3, <1>4, <1>5, <1>6, <1>7, <1>8 DEF Ordinary

LEMMA OrdinaryAppend ==
  ASSUME NEW q \in Seq(Orders), NEW x \in {"SET_RUNTIME", "NEGOTIATE_BUFFERS", "QUIESCE"},
         Ordinary(q), ~Asks(q, "QUIESCE"),
         x = "NEGOTIATE_BUFFERS" => ~Asks(q, "NEGOTIATE_BUFFERS")
  PROVE  Ordinary(Append(q, x))
<1>1. PICK r : r = Append(q, x)
  OBVIOUS
<1>2. /\ Len(r) = Len(q) + 1 /\ Len(q) \in Nat /\ r[Len(q) + 1] = x
      /\ \A i \in 1 .. Len(q) : r[i] = q[i]
      /\ \A i \in 1 .. Len(r) : i \in 1 .. Len(q) \/ i = Len(q) + 1
  BY <1>1
<1> QED BY <1>1, <1>2 DEF Ordinary, Asks

-----------------------------------------------------------------------------
(* The daemon's steps keep the invariant.                                  *)

LEMMA StagesStep ==
  ASSUME TypeOK, Mail, Stages, Shape
  PROVE  Stages'
<1>1. state \in States /\ seen \subseteq OnceOnly /\ waiting \in BOOLEAN /\ owned \in BOOLEAN
  BY DEF TypeOK, ProcessTypeOK
<1> USE DEF Ended, Leaving, Broken, Running, OnceOnly, InitReplies
<1>2. CASE Rests \/ Tells \/ Takes
  BY <1>2 DEF Rests, Tells, Takes, Rest, Stages
<1>3. CASE Fails
  BY <1>1, <1>3 DEF Fails, Stages
<1>4. CASE Spawns
  BY <1>4 DEF Spawns, Stages
<1>5. CASE Reaps
  BY <1>1, <1>5 DEF Reaps, Stages
<1>6. CASE ReadsHello
  <2>1. {"HELLO"} # {"HELLO", "READY", "FORMAT_CAPS", "RELEASE_TIMELINE"}
    OBVIOUS
  <2> QED BY <1>1, <1>6, <2>1 DEF ReadsHello, Stage, Stages
<1>7. CASE ReadsReply
  BY <1>7 DEF ReadsReply, Stage, Stages
<1>8. CASE ReadsPool
  BY <1>1, <1>8 DEF ReadsPool, StoresPool, Stage, Stages
<1>13. CASE ReadsFrame
  <2>1. CASE Stage(state)
    BY <1>1, <1>13, <2>1 DEF ReadsFrame, StoresPool, Stage, Stages
  <2>2. CASE state = "WAIT_FIRST_FRAME" /\ Stage("ACTIVE")
    BY <1>1, <1>13, <2>2 DEF ReadsFrame, Stage, Stages
  <2> QED BY <1>13, <2>1, <2>2 DEF ReadsFrame
<1>9. CASE ReadsQuiesced
  BY <1>9 DEF ReadsQuiesced, Stage, Stages
<1>10. CASE Negotiates
  BY <1>10 DEF Negotiates, Stage, Stages
<1>11. CASE Quiesces
  BY <1>11 DEF Quiesces, Stage, Stages
<1>12. CASE ShutsDown \/ HangsUp
  BY <1>12 DEF ShutsDown, HangsUp, Stages
<1> QED
  BY <1>2, <1>3, <1>4, <1>5, <1>6, <1>7, <1>8, <1>9, <1>10, <1>11, <1>12, <1>13 DEF Shape, Orderly

\* What a step of the daemon does to what is on its way.
LEMMA ShapeMail ==
  ASSUME Mail, Shape, HostKept
  PROVE  /\ Mail'
         /\ \/ toDaemon' = toDaemon /\ Coming' = Coming
            \/ /\ toDaemon # << >> /\ toDaemon' = Tail(toDaemon)
               /\ Coming # << >> /\ Head(Coming) = Head(toDaemon) /\ Coming' = Tail(Coming)
<1>1. toDaemon' = toDaemon \/ (toDaemon # << >> /\ toDaemon' = Tail(toDaemon))
  BY DEF Shape, Orderly, Rests, Tells, Takes, Fails, Spawns, Reaps, ReadsHello, ReadsReply, ReadsPool, ReadsFrame,
         ReadsQuiesced, Negotiates, Quiesces, ShutsDown, HangsUp, Quietly, Sends, Reads
<1>2. toWorker' = toWorker \/ \E x \in Orders : toWorker' = Append(toWorker, x)
  BY DEF Shape, Orderly, Rests, Tells, Takes, Fails, Spawns, Reaps, ReadsHello, ReadsReply, ReadsPool, ReadsFrame,
         ReadsQuiesced, Negotiates, Quiesces, ShutsDown, HangsUp, Quietly, Sends, Orders
<1>3. toWorker' \in Seq(Orders)
  <2>1. toWorker \in Seq(Orders)
    BY DEF Mail
  <2>2. \A x \in Orders : Append(toWorker, x) \in Seq(Orders)
    BY <2>1
  <2> QED BY <1>2, <2>1, <2>2
<1>4. toDaemon' \in Seq(Messages)
  BY <1>1, TailIs DEF Mail
<1>5. events' = events /\ pump' = pump /\ nextPoint' = nextPoint /\ phase' = phase
  BY DEF HostKept, frameVars
<1>6. Coming' = toDaemon' \o events
  BY <1>5 DEF Coming
<1>7. toDaemon # << >> => Coming # << >> /\ Head(Coming) = Head(toDaemon) /\ Tail(toDaemon) \o events = Tail(Coming)
  BY JoinSeq DEF Mail, Coming
<1> QED BY <1>1, <1>3, <1>4, <1>5, <1>6, <1>7 DEF Mail, Coming

LEMMA ComingSeq == Mail => Coming \in Seq(Messages) /\ nextPoint \in Nat
BY JoinSeq, PointLimitAssumption DEF Mail, Coming

\* Nothing changes but the connection and the daemon's own frames.
Still ==
  /\ UNCHANGED << inst, state, seen, negotiated, quiesced, poolSize, toWorker, toDaemon >>
  /\ ipc' => ipc

LEMMA StillStep ==
  ASSUME MainInv, HostKept, Still, Mail', Stages'
  PROVE  MainInv'
<1>1. /\ Coming' = Coming /\ pc' = pc /\ Got' = Got
      /\ UNCHANGED << phase, events, owed, stopping, pump, nextPoint >>
  BY DEF HostKept, Still, Coming, Got, frameVars
<1>2. Sound' /\ Greets' /\ Prepares'
  BY <1>1 DEF MainInv, Still, Sound, Greets, Prepares
<1>3. Fits' /\ Bounds'
  BY <1>1 DEF MainInv, Still, Fits, Bounds
<1>4. Served' = Served
  BY DEF Still, Served
<1>5. Serves' /\ Parts'
  BY <1>1, <1>4 DEF MainInv, Still, Serves, Parts
<1> QED BY <1>2, <1>3, <1>5 DEF MainInv

\* The worker is told its runtime state.
LEMMA TellsStep ==
  ASSUME MainInv, HostKept, Tells, Mail', Stages'
  PROVE  MainInv'
<1>1. /\ Coming' = Coming /\ pc' = pc /\ Got' = Got
      /\ UNCHANGED << inst, state, ipc, seen, negotiated, quiesced, poolSize, toDaemon >>
      /\ UNCHANGED << phase, events, owed, stopping, pump, nextPoint >>
  BY DEF HostKept, Tells, Rest, Sends, Coming, Got, frameVars
<1>2. /\ toWorker' = Append(toWorker, "SET_RUNTIME") /\ toWorker \in Seq(Orders) /\ "SET_RUNTIME" \in Orders
      /\ Len(toWorker) < MaxCommands /\ Len(toWorker) \in Nat
  BY DEF Tells, Sends, MainInv, Mail, Orders
<1>3. /\ seen = OnceOnly /\ ~quiesced /\ state \in Running /\ seen # {} /\ seen # {"HELLO"}
  BY DEF Tells, MainInv, Stages, OnceOnly, InitReplies
<1>4. /\ \A x : Asks(toWorker', x) <=> Asks(toWorker, x) \/ x = "SET_RUNTIME"
      /\ Len(toWorker') = Len(toWorker) + 1
  BY <1>2, AsksAppend
<1>5. phase \in {"BACKEND_INIT"} \cup Open /\ ~Asks(toWorker, "QUIESCE")
  <2>1. phase \notin {"BOOT", "WAIT_INIT"}
    BY <1>3 DEF MainInv, Greets
  <2>2. phase \notin {"QUIESCING", "QUIESCED", "EXIT"}
    BY <1>3 DEF MainInv, Parts
  <2>3. ~Asks(toWorker, "QUIESCE")
    BY <1>3 DEF MainInv, Fits
  <2> QED BY <2>1, <2>2, <2>3 DEF MainInv, Mail, Open
<1>6. Sound' /\ Greets' /\ Prepares'
  BY <1>1, <1>5 DEF MainInv, Sound, Greets, Prepares, Open
<1>7. Ordinary(toWorker')
  BY <1>2, <1>5, OrdinaryAppend DEF MainInv, Fits
<1>8. Fits'
  BY <1>1, <1>3, <1>4, <1>5, <1>7 DEF MainInv, Fits, Open
<1>9. Bounds'
  BY <1>1, <1>2, <1>4, OneWorker DEF MainInv, Bounds
<1>10. Served' = Served
  BY <1>1, <1>4 DEF Served
<1>11. Serves'
  BY <1>1, <1>4, <1>10 DEF MainInv, Serves
<1>12. Parts'
  BY <1>1, <1>3, <1>5 DEF MainInv, Parts, Running, Open
<1> QED BY <1>6, <1>8, <1>9, <1>11, <1>12 DEF MainInv

\* The process fails or is reaped.
Halts ==
  /\ inst # 0 /\ state' \in Ended /\ ~ipc'
  /\ UNCHANGED << inst, seen, negotiated, quiesced, toWorker >>
  /\ poolSize' \in {0, poolSize}

LEMMA HaltsStep ==
  ASSUME MainInv, HostKept, Shape, Halts, Mail', Stages'
  PROVE  MainInv'
<1>1. /\ pc' = pc /\ Got' \subseteq Got
      /\ UNCHANGED << phase, events, owed, stopping, pump, nextPoint >>
  BY DEF HostKept, Halts, Got, frameVars
<1>2. /\ Coming \in Seq(Messages) /\ nextPoint \in Nat
      /\ \/ toDaemon' = toDaemon /\ Coming' = Coming
         \/ /\ toDaemon # << >> /\ toDaemon' = Tail(toDaemon)
            /\ Coming # << >> /\ Coming' = Tail(Coming)
  BY ComingSeq, ShapeMail DEF MainInv
<1>3. /\ \A op : Has(Coming', op) => Has(Coming, op)
      /\ Ordered(Coming', Got) /\ PointsTo(Coming', nextPoint)
      /\ Coming = << >> => Coming' = << >>
  BY <1>2, HasTail, OrderedTail, PointsTail DEF MainInv, Sound
<1>4. Ordered(Coming', Got')
  BY <1>1, <1>3 DEF Ordered
<1>5. Sound'
  BY <1>1, <1>3, <1>4 DEF MainInv, Sound, Halts
<1>6. Greets'
  <2>1. toDaemon = << >> => toDaemon' = << >>
    BY <1>2
  <2>2. toDaemon = << Event("HELLO", 0) >> => toDaemon' = toDaemon \/ toDaemon' = << >>
    BY <1>2
  <2> QED BY <1>1, <2>1, <2>2 DEF MainInv, Greets, Halts
<1>7. Prepares'
  BY <1>1, <1>2, <1>3, AnswersTail DEF MainInv, Prepares, Halts
<1>8. Fits' /\ Bounds'
  BY <1>1 DEF MainInv, Fits, Bounds, Halts
<1>9. Served' = Served
  BY DEF Halts, Served
<1>10. Serves'
  BY <1>1, <1>3, <1>9 DEF MainInv, Serves, Halts
<1>11. Parts'
  BY <1>1, <1>3 DEF MainInv, Parts, Halts, Ended, Broken
<1> QED BY <1>5, <1>6, <1>7, <1>8, <1>10, <1>11 DEF MainInv

LEMMA SpawnsStep ==
  ASSUME MainInv, HostKept, Spawns, Mail', Stages'
  PROVE  MainInv'
<1>1. /\ pc' = "boot" /\ phase = "BOOT" /\ seen' = {} /\ ~negotiated' /\ poolSize' = 0 /\ inst' # 0
      /\ state' = "WAIT_HELLO" /\ toWorker = << >> /\ toDaemon = << >> /\ events = << >> /\ ~stopping
      /\ UNCHANGED << toWorker, toDaemon, phase, events, owed, stopping, pump, nextPoint >>
      /\ ~negotiated /\ MaxCommands # 0
  BY DEF HostKept, Spawns, MainInv, Greets, Stages, Quietly, frameVars
<1>2. Coming = << >> /\ Coming' = << >>
  BY <1>1 DEF Coming
<1>3. Sound'
  BY <1>1, <1>2 DEF MainInv, Sound, Ordered, PointsTo, Has
<1>4. Greets' /\ Prepares' /\ Fits'
  BY <1>1, AsksNone DEF MainInv, Greets, Prepares, Fits, Open
<1>5. Bounds'
  BY <1>1, OneWorker DEF MainInv, Bounds
<1>6. ~Served /\ ~Served'
  BY <1>1 DEF Served
<1>7. Serves'
  BY <1>1, <1>2, <1>6, AsksNone, HasNone DEF MainInv, Serves
<1>8. Parts'
  BY <1>1, <1>2, HasNone DEF MainInv, Parts
<1> QED BY <1>3, <1>4, <1>5, <1>7, <1>8 DEF MainInv

\* The daemon reads an event with opcode x.
LEMMA ReadsOne ==
  ASSUME MainInv, HostKept, inst' = inst, NEW x, Reads(x)
  PROVE  /\ UNCHANGED << pc, phase, events, owed, stopping, pump, nextPoint >>
         /\ toDaemon # << >> /\ toDaemon' = Tail(toDaemon)
         /\ Head(toDaemon) \in Messages /\ Head(toDaemon).op = x
         /\ Coming \in Seq(Messages) /\ Coming # << >> /\ Head(Coming) = Head(toDaemon)
         /\ Coming' = Tail(Coming) /\ Len(Coming) = Len(toDaemon) + Len(events)
         /\ \A o : Has(Coming, o) <=> x = o \/ Has(Coming', o)
         /\ Ordered(Coming', Got) /\ PointsTo(Coming', nextPoint) /\ x \notin Got
         /\ x \notin {"FRAME_READY", "ERROR"} => ~Has(Coming', x) /\ Ordered(Coming', Got \cup {x})
         /\ x = "QUIESCED" => Coming' = << >> /\ Len(Coming) = 1
         /\ x = "FRAME_READY" => ~Has(Coming, "BIND_BUFFERS") /\ Head(toDaemon).arg \in 1 .. nextPoint
<1>1. /\ UNCHANGED << pc, phase, events, owed, stopping, pump, nextPoint >>
      /\ toDaemon # << >> /\ toDaemon' = Tail(toDaemon)
      /\ toDaemon \in Seq(Messages) /\ events \in Seq(Messages) /\ Head(toDaemon).op = x
  BY DEF HostKept, frameVars, MainInv, Mail, Reads
<1>2. Head(toDaemon) \in Messages
  BY <1>1, TailIs
<1>3. /\ Coming \in Seq(Messages) /\ Coming # << >> /\ Head(Coming) = Head(toDaemon)
      /\ Tail(toDaemon) \o events = Tail(Coming) /\ Len(Coming) = Len(toDaemon) + Len(events)
  BY <1>1, JoinSeq DEF Coming
<1>4. Coming' = Tail(Coming)
  BY <1>1, <1>3 DEF Coming
<1>5. \A o : Has(Coming, o) <=> Head(Coming).op = o \/ Has(Tail(Coming), o)
  BY <1>3, HasTail
<1>6. Ordered(Coming, Got) /\ PointsTo(Coming, nextPoint) /\ nextPoint \in Nat
  BY ComingSeq DEF MainInv, Sound
<1>7. /\ x \notin {"FRAME_READY", "ERROR"} => ~Has(Tail(Coming), x) /\ Ordered(Tail(Coming), Got \cup {x})
      /\ Ordered(Tail(Coming), Got)
      /\ x = "QUIESCED" => Tail(Coming) = << >> /\ Len(Coming) = 1
      /\ x \notin Got
      /\ x = "FRAME_READY" => ~Has(Coming, "BIND_BUFFERS")
  BY <1>1, <1>3, <1>6, OrderedTail
<1>8. PointsTo(Tail(Coming), nextPoint) /\ (x = "FRAME_READY" => Head(toDaemon).arg \in 1 .. nextPoint)
  BY <1>1, <1>3, <1>6, PointsTail
<1> QED BY <1>1, <1>2, <1>3, <1>4, <1>5, <1>7, <1>8

LEMMA ReadsHelloStep ==
  ASSUME MainInv, HostKept, ReadsHello, Mail', Stages'
  PROVE  MainInv'
<1>1. /\ inst' = inst /\ Reads("HELLO") /\ state = "WAIT_HELLO" /\ state' = "INITIALIZING" /\ inst # 0
      /\ seen = {} /\ seen' = {"HELLO"} /\ toWorker' = Append(toWorker, "INIT") /\ toDaemon # << >>
      /\ UNCHANGED << negotiated, quiesced, poolSize >> /\ ~negotiated /\ ~quiesced /\ poolSize = 0
  BY DEF ReadsHello, Reads, Stage, MainInv, Stages
<1>2. /\ phase = "WAIT_INIT" /\ events = << >> /\ ~stopping
      /\ toDaemon = << Event("HELLO", 0) >> /\ toWorker = << >>
  BY <1>1 DEF MainInv, Greets, Mail
<1>3. /\ UNCHANGED << pc, phase, events, owed, stopping, pump, nextPoint >>
      /\ toDaemon' = << >> /\ toWorker' = << "INIT" >> /\ Coming' = << >>
  <2>1. UNCHANGED << pc, phase, events, owed, stopping, pump, nextPoint >> /\ toDaemon' = Tail(toDaemon)
    BY <1>1, ReadsOne
  <2>2. toDaemon' = << >> /\ toWorker' = << "INIT" >>
    BY <1>1, <1>2, <2>1
  <2> QED BY <1>2, <2>1, <2>2 DEF Coming
<1>4. Sound'
  BY <1>1, <1>3 DEF MainInv, Sound, Ordered, PointsTo, Has
<1>5. /\ \A x : Asks(toWorker', x) <=> x = "INIT"
      /\ Len(toWorker') = 1
  BY <1>3 DEF Asks
<1>6. Greets' /\ Prepares'
  BY <1>1, <1>2, <1>3 DEF MainInv, Greets, Prepares
<1>7. Fits'
  BY <1>2, <1>3, <1>5 DEF MainInv, Fits, Open
<1>8. Bounds'
  BY <1>1, <1>3, <1>5, OneWorker DEF MainInv, Bounds
<1>9. ~Served /\ ~Served'
  BY <1>1 DEF Served
<1>10. Serves'
  BY <1>1, <1>2, <1>3, <1>5, <1>9, HasNone DEF MainInv, Serves
<1>11. Parts'
  BY <1>1, <1>2, <1>3, HasNone DEF MainInv, Parts
<1> QED BY <1>4, <1>6, <1>7, <1>8, <1>10, <1>11 DEF MainInv

LEMMA ReadsReplyStep ==
  ASSUME MainInv, HostKept, ReadsReply, Mail', Stages'
  PROVE  MainInv'
<1>1. PICK x \in InitReplies \ seen :
        /\ Reads(x) /\ seen' = seen \cup {x}
        /\ IF seen' = OnceOnly
           THEN Stage("NEGOTIATING") /\ toWorker' = Append(toWorker, "SET_RUNTIME")
           ELSE Stage(state) /\ toWorker' = toWorker
  BY DEF ReadsReply
<1>2. /\ inst' = inst /\ ipc' = ipc /\ state = "INITIALIZING" /\ "HELLO" \in seen /\ seen # OnceOnly
      /\ state' \in {"INITIALIZING", "NEGOTIATING"}
      /\ UNCHANGED << negotiated, quiesced, poolSize >> /\ ~negotiated /\ ~quiesced /\ poolSize = 0
      /\ inst # 0
  BY <1>1 DEF ReadsReply, Stage, MainInv, Stages
<1>3. /\ UNCHANGED << pc, phase, events, owed, stopping, pump, nextPoint >>
      /\ toDaemon # << >> /\ Coming \in Seq(Messages) /\ Coming # << >>
      /\ Coming' = Tail(Coming) /\ Head(Coming).op = x
      /\ \A o : Has(Coming, o) <=> x = o \/ Has(Coming', o)
      /\ Ordered(Coming', Got \cup {x}) /\ PointsTo(Coming', nextPoint)
  BY <1>1, <1>2, ReadsOne DEF InitReplies
<1>4. phase \notin {"BOOT", "WAIT_INIT"} /\ toWorker = << >>
  BY <1>2, <1>3 DEF MainInv, Greets, Fits
<1>5. phase \in {"BACKEND_INIT"} \cup Open
  BY <1>2, <1>4 DEF MainInv, Mail, Parts, Open
<1>6. Got' = Got \cup {x}
  BY <1>1, <1>2 DEF Got
<1>7. Sound'
  BY <1>2, <1>3, <1>6 DEF MainInv, Sound
<1>8. Greets'
  BY <1>1, <1>2, <1>3, <1>4 DEF MainInv, Greets
<1>9. Prepares'
  BY <1>1, <1>3, AnswersTail DEF MainInv, Prepares
<1>10. toWorker' = << >> \/ (toWorker' = << "SET_RUNTIME" >> /\ seen' = OnceOnly)
  BY <1>1, <1>4
<1>11. /\ \A y : Asks(toWorker', y) => y = "SET_RUNTIME"
       /\ Len(toWorker') \in 0 .. 1
  BY <1>10 DEF Asks
<1>12. Ordinary(toWorker')
  BY <1>10 DEF Ordinary
<1>13. Fits'
  BY <1>3, <1>5, <1>10, <1>11, <1>12 DEF MainInv, Fits, Open
<1>14. Bounds'
  <2>1. MaxCommands # 0 /\ MaxCommands \in Nat
    BY <1>2, OneWorker DEF MainInv, Bounds
  <2>2. PICK n \in 0 .. 1 : n = Len(toWorker')
    BY <1>11
  <2>3. n <= MaxCommands /\ n <= MaxCommands + 1
    BY <2>1
  <2> QED BY <2>1, <2>2, <2>3 DEF Bounds
<1>15. ~Served /\ ~Served'
  BY <1>2 DEF Served
<1>16. Serves'
  BY <1>2, <1>3, <1>5, <1>11, <1>15 DEF MainInv, Serves, InitReplies
<1>17. Parts'
  BY <1>2, <1>3, <1>5 DEF MainInv, Parts, Open
<1> QED BY <1>7, <1>8, <1>9, <1>13, <1>14, <1>16, <1>17 DEF MainInv

LEMMA ReadsPoolStep ==
  ASSUME MainInv, HostKept, ReadsPool, Mail', Stages'
  PROVE  MainInv'
<1>1. /\ inst' = inst /\ ipc' = ipc /\ Reads("BIND_BUFFERS") /\ state' = state /\ toWorker' = toWorker
      /\ UNCHANGED << seen, negotiated, quiesced >> /\ negotiated /\ poolSize = 0 /\ seen = OnceOnly
      /\ poolSize' = Head(toDaemon).arg /\ inst # 0 /\ seen # {} /\ state \in StoresPool
  BY DEF ReadsPool, Stage, MainInv, Stages, OnceOnly
<1>2. /\ UNCHANGED << pc, phase, events, owed, stopping, pump, nextPoint >>
      /\ toDaemon # << >> /\ Head(toDaemon) \in Messages /\ Head(toDaemon).op = "BIND_BUFFERS"
      /\ Coming \in Seq(Messages) /\ Coming # << >> /\ Coming' = Tail(Coming)
      /\ \A o : Has(Coming, o) <=> "BIND_BUFFERS" = o \/ Has(Coming', o)
      /\ Ordered(Coming', Got \cup {"BIND_BUFFERS"}) /\ PointsTo(Coming', nextPoint)
  BY <1>1, ReadsOne
<1>3. poolSize' = MaxPool /\ MaxPool # 0
  BY <1>1, <1>2, MessageKinds, PoolAssumption
<1>4. Got' = Got \cup {"BIND_BUFFERS"}
  BY <1>1, <1>3 DEF Got
<1>5. Sound'
  BY <1>1, <1>2, <1>3, <1>4 DEF MainInv, Sound
<1>6. phase \notin {"BOOT", "WAIT_INIT"}
  BY <1>1, <1>2 DEF MainInv, Greets, OnceOnly
<1>7. Greets' /\ Fits' /\ Bounds'
  BY <1>1, <1>2, <1>6 DEF MainInv, Greets, Fits, Bounds
<1>8. Prepares'
  BY <1>1, <1>2, AnswersTail DEF MainInv, Prepares
<1>9. Served /\ Served'
  BY <1>1, <1>2 DEF MainInv, Serves, Served
<1>10. Serves'
  BY <1>1, <1>2, <1>3, <1>9 DEF MainInv, Serves
<1>11. Parts'
  BY <1>1, <1>2 DEF MainInv, Parts, StoresPool
<1> QED BY <1>5, <1>7, <1>8, <1>10, <1>11 DEF MainInv

LEMMA ReadsFrameStep ==
  ASSUME MainInv, HostKept, ReadsFrame, Mail', Stages'
  PROVE  MainInv'
<1>1. /\ inst' = inst /\ ipc' = ipc /\ Reads("FRAME_READY") /\ toWorker' = toWorker
      /\ UNCHANGED << seen, negotiated, quiesced, poolSize >> /\ poolSize # 0 /\ seen = OnceOnly
      /\ inst # 0 /\ state \in StoresPool /\ (state' = state \/ state' = "ACTIVE")
      /\ seen # {} /\ negotiated
  BY DEF ReadsFrame, StoreFrame, Stage, MainInv, Stages, OnceOnly
<1>2. /\ UNCHANGED << pc, phase, events, owed, stopping, pump, nextPoint >>
      /\ toDaemon # << >>
      /\ Coming \in Seq(Messages) /\ Coming # << >> /\ Coming' = Tail(Coming)
      /\ \A o : Has(Coming, o) <=> "FRAME_READY" = o \/ Has(Coming', o)
      /\ Ordered(Coming', Got) /\ PointsTo(Coming', nextPoint)
  BY <1>1, ReadsOne
<1>4. Got' = Got
  BY <1>1 DEF Got
<1>5. Sound'
  BY <1>1, <1>2, <1>4 DEF MainInv, Sound
<1>6. phase \notin {"BOOT", "WAIT_INIT", "EXIT"} /\ ~Asks(toWorker, "SHUTDOWN")
  BY <1>1, <1>2 DEF MainInv, Greets, Fits, StoresPool, Ended, Broken
<1>7. Greets' /\ Fits' /\ Bounds'
  BY <1>1, <1>2, <1>6 DEF MainInv, Greets, Fits, Bounds
<1>8. Prepares'
  BY <1>1, <1>2, AnswersTail DEF MainInv, Prepares
<1>9. Served' = Served
  BY <1>1, <1>2 DEF Served
<1>10. Serves'
  BY <1>1, <1>2, <1>9 DEF MainInv, Serves
<1>11. Parts'
  BY <1>1, <1>2 DEF MainInv, Parts, StoresPool
<1> QED BY <1>5, <1>7, <1>8, <1>10, <1>11 DEF MainInv

LEMMA ReadsQuiescedStep ==
  ASSUME MainInv, HostKept, ReadsQuiesced, Mail', Stages'
  PROVE  MainInv'
<1>1. /\ inst' = inst /\ ipc' = ipc /\ Reads("QUIESCED") /\ toWorker' = toWorker
      /\ UNCHANGED << seen, negotiated, quiesced, poolSize >> /\ quiesced /\ seen = OnceOnly
      /\ inst # 0 /\ state = "QUIESCING" /\ state' = "UNBINDING" /\ seen # {}
  BY DEF ReadsQuiesced, Stage, MainInv, Stages, OnceOnly, Leaving
<1>2. /\ UNCHANGED << pc, phase, events, owed, stopping, pump, nextPoint >>
      /\ toDaemon # << >> /\ Len(Coming) = 1 /\ Len(Coming) = Len(toDaemon) + Len(events)
      /\ Coming \in Seq(Messages) /\ Coming # << >> /\ Coming' = << >>
      /\ Has(Coming, "QUIESCED") /\ \A o : ~Has(Coming', o)
      /\ Ordered(Coming', Got) /\ PointsTo(Coming', nextPoint)
      /\ Has(Coming, "BIND_BUFFERS") => Has(Coming', "BIND_BUFFERS")
  BY <1>1, ReadsOne, HasNone
<1>3. Len(events) = 0
  <2>1. toDaemon \in Seq(Messages) /\ events \in Seq(Messages)
    BY DEF MainInv, Mail
  <2>2. Len(toDaemon) \in Nat /\ 1 \in 1 .. Len(toDaemon) /\ Len(events) \in Nat
    BY <1>2, <2>1, TailIs
  <2> QED BY <1>2, <2>2
<1>4. pump = "off" /\ toWorker = << >> /\ phase = "QUIESCED" /\ events = << >>
  BY <1>2, <1>3 DEF MainInv, Parts
<1>5. Got' = Got
  BY <1>1 DEF Got
<1>6. Sound'
  BY <1>1, <1>2, <1>5 DEF MainInv, Sound
<1>7. Greets' /\ Prepares' /\ Bounds'
  BY <1>1, <1>2, <1>4 DEF MainInv, Greets, Prepares, Bounds
<1>8. Fits'
  BY <1>1, <1>2, <1>4, AsksNone DEF MainInv, Fits, Open
<1>9. Served' = Served
  BY <1>1, <1>2 DEF Served
<1>10. Serves'
  BY <1>1, <1>2, <1>9 DEF MainInv, Serves
<1>11. Parts'
  BY <1>1, <1>2, <1>4 DEF MainInv, Parts
<1> QED BY <1>6, <1>7, <1>8, <1>10, <1>11 DEF MainInv

LEMMA NegotiatesStep ==
  ASSUME MainInv, HostKept, Negotiates, Mail', Stages'
  PROVE  MainInv'
<1>1. /\ Coming' = Coming /\ pc' = pc /\ Got' = Got
      /\ UNCHANGED << inst, ipc, seen, quiesced, poolSize, toDaemon >>
      /\ UNCHANGED << phase, events, owed, stopping, pump, nextPoint >>
      /\ state = "NEGOTIATING" /\ state' = "WAIT_FIRST_FRAME" /\ ~negotiated /\ negotiated'
  BY DEF HostKept, Negotiates, Stage, Sends, Coming, Got, frameVars
<1>2. /\ toWorker' = Append(toWorker, "NEGOTIATE_BUFFERS") /\ toWorker \in Seq(Orders)
      /\ "NEGOTIATE_BUFFERS" \in Orders /\ Len(toWorker) \in Nat
  BY DEF Negotiates, Sends, MainInv, Mail, Orders
<1>3. /\ seen = OnceOnly /\ ~quiesced /\ seen # {} /\ seen # {"HELLO"}
  BY <1>1 DEF MainInv, Stages, OnceOnly, InitReplies, Running
<1>4. /\ \A x : Asks(toWorker', x) <=> Asks(toWorker, x) \/ x = "NEGOTIATE_BUFFERS"
      /\ Len(toWorker') = Len(toWorker) + 1
  BY <1>2, AsksAppend
<1>5. ~Served /\ ~Served'
  BY <1>1, <1>4 DEF Served
<1>6. /\ phase \in {"BACKEND_INIT", "WAIT_NEGOTIATION"} /\ phase \in {"BACKEND_INIT"} \cup Open
      /\ ~Asks(toWorker, "QUIESCE") /\ ~Asks(toWorker, "NEGOTIATE_BUFFERS")
  <2>1. phase \notin {"BOOT", "WAIT_INIT"}
    BY <1>3 DEF MainInv, Greets
  <2>2. phase \notin {"QUIESCING", "QUIESCED", "EXIT"}
    BY <1>3 DEF MainInv, Parts
  <2>3. ~Asks(toWorker, "QUIESCE")
    BY <1>3 DEF MainInv, Fits
  <2>4. ~Asks(toWorker, "NEGOTIATE_BUFFERS") /\ phase # "RUNNING"
    BY <1>1, <1>5 DEF MainInv, Serves
  <2> QED BY <2>1, <2>2, <2>3, <2>4 DEF MainInv, Mail, Open
<1>7. Sound' /\ Greets' /\ Prepares'
  BY <1>1, <1>6 DEF MainInv, Sound, Greets, Prepares
<1>8. Ordinary(toWorker')
  BY <1>2, <1>6, OrdinaryAppend DEF MainInv, Fits
<1>9. Fits'
  BY <1>1, <1>3, <1>4, <1>6, <1>8 DEF MainInv, Fits, Open, Ended, Broken, Running
<1>10. Bounds'
  <2>1. Len(toWorker) <= MaxCommands
    BY <1>6 DEF MainInv, Bounds
  <2>2. Len(toWorker') <= MaxCommands + 1
    BY <1>2, <1>4, <2>1, OneWorker
  <2>3. Asks(toWorker', "NEGOTIATE_BUFFERS")
    BY <1>4
  <2> QED BY <1>1, <2>2, <2>3 DEF MainInv, Bounds
<1>11. Serves'
  BY <1>1, <1>4, <1>5, <1>6 DEF MainInv, Serves
<1>12. Parts'
  BY <1>1, <1>3, <1>6 DEF MainInv, Parts
<1> QED BY <1>7, <1>9, <1>10, <1>11, <1>12 DEF MainInv

LEMMA QuiescesStep ==
  ASSUME MainInv, HoldInv, HostKept, Quiesces, Mail', Stages'
  PROVE  MainInv'
<1>1. /\ Coming' = Coming /\ pc' = pc /\ Got' = Got
      /\ UNCHANGED << inst, ipc, seen, negotiated, poolSize, toDaemon >>
      /\ UNCHANGED << phase, events, owed, stopping, pump, nextPoint >>
      /\ state \in Running /\ state' = "QUIESCING" /\ quiesced'
  BY DEF HostKept, Quiesces, Stage, Sends, Coming, Got, frameVars
<1>2. /\ toWorker' = Append(toWorker, "QUIESCE") /\ toWorker \in Seq(Orders)
      /\ "QUIESCE" \in Orders /\ Len(toWorker) \in Nat
  BY DEF Quiesces, Sends, MainInv, Mail, Orders
<1>3. /\ seen = OnceOnly /\ ~quiesced /\ seen # {} /\ seen # {"HELLO"}
  BY <1>1 DEF MainInv, Stages, OnceOnly, InitReplies
<1>4. /\ \A x : Asks(toWorker', x) <=> Asks(toWorker, x) \/ x = "QUIESCE"
      /\ Len(toWorker') = Len(toWorker) + 1
  BY <1>2, AsksAppend
<1>5. Served' = Served
  BY <1>1, <1>4 DEF Served
<1>6. phase \in {"BACKEND_INIT"} \cup Open /\ ~Asks(toWorker, "QUIESCE")
  <2>1. phase \notin {"BOOT", "WAIT_INIT"}
    BY <1>3 DEF MainInv, Greets
  <2>2. phase \notin {"QUIESCING", "QUIESCED", "EXIT"}
    BY <1>3 DEF MainInv, Parts
  <2>3. ~Asks(toWorker, "QUIESCE")
    BY <1>3 DEF MainInv, Fits
  <2> QED BY <2>1, <2>2, <2>3 DEF MainInv, Mail, Open
<1>7. Sound' /\ Greets' /\ Prepares'
  BY <1>1, <1>6 DEF MainInv, Sound, Greets, Prepares, Open
<1>8. Ordinary(toWorker')
  BY <1>2, <1>6, OrdinaryAppend DEF MainInv, Fits
<1>9. Fits'
  BY <1>1, <1>3, <1>4, <1>6, <1>8 DEF MainInv, Fits, Open, Ended, Broken, Running
<1>10. Bounds'
  <2>1. Len(toWorker) <= MaxCommands
    <3>1. CASE Len(toWorker) < MaxCommands
      BY <1>2, <3>1, OneWorker
    <3>2. CASE \E o \in Outputs : boundTo[o] # 0 /\ ~waiting
      <4>1. poolSize # 0
        BY <3>2 DEF HoldInv
      <4>2. ~Asks(toWorker, "NEGOTIATE_BUFFERS")
        BY <4>1 DEF MainInv, Serves, Served
      <4> QED BY <1>6, <4>2 DEF MainInv, Bounds
    <3> QED BY <3>1, <3>2 DEF Quiesces
  <2>2. Len(toWorker') <= MaxCommands + 1
    BY <1>2, <1>4, <2>1, OneWorker
  <2>3. Asks(toWorker', "QUIESCE")
    BY <1>4
  <2> QED BY <1>1, <2>2, <2>3 DEF MainInv, Bounds
<1>11. Serves'
  BY <1>1, <1>4, <1>5, <1>6 DEF MainInv, Serves
<1>12. Parts'
  <2>1. state \notin {"QUIESCING", "UNBINDING", "SHUTTING_DOWN"} /\ phase \notin {"QUIESCING", "QUIESCED", "EXIT"}
    BY <1>1, <1>6 DEF Running, Open
  <2> QED BY <1>1, <1>3, <2>1 DEF MainInv, Parts
<1> QED BY <1>7, <1>9, <1>10, <1>11, <1>12 DEF MainInv

LEMMA ShutsDownStep ==
  ASSUME MainInv, HostKept, ShutsDown, Mail', Stages'
  PROVE  MainInv'
<1>1. /\ Coming' = Coming /\ pc' = pc /\ Got' = Got
      /\ UNCHANGED << inst, ipc, seen, negotiated, quiesced, poolSize, toDaemon >>
      /\ UNCHANGED << phase, events, owed, stopping, pump, nextPoint >>
      /\ state = "UNBINDING" /\ state' = "SHUTTING_DOWN" /\ quiesced /\ seen = OnceOnly /\ inst # 0
  BY DEF HostKept, ShutsDown, Sends, Coming, Got, frameVars, MainInv, Stages, Leaving
<1>2. phase = "QUIESCED" /\ toWorker = << >> /\ Coming = << >>
  BY <1>1 DEF MainInv, Parts
<1>3. toWorker' = << "SHUTDOWN" >>
  BY <1>2 DEF ShutsDown, Sends
<1>4. /\ \A x : Asks(toWorker', x) <=> x = "SHUTDOWN"
      /\ Len(toWorker') = 1
  BY <1>3 DEF Asks
<1>5. Served' = Served /\ ~Asks(toWorker, "NEGOTIATE_BUFFERS")
  BY <1>1, <1>2, <1>4, AsksNone DEF Served
<1>6. Sound' /\ Greets' /\ Prepares'
  BY <1>1, <1>2 DEF MainInv, Sound, Greets, Prepares
<1>7. Fits'
  BY <1>1, <1>2, <1>3, <1>4 DEF MainInv, Fits, Open
<1>8. Bounds'
  <2>1. MaxCommands # 0 /\ MaxCommands \in Nat
    BY <1>1, OneWorker DEF MainInv, Bounds
  <2>2. Len(toWorker') <= MaxCommands /\ Len(toWorker') <= MaxCommands + 1
    BY <1>4, <2>1
  <2> QED BY <2>1, <2>2 DEF Bounds
<1>9. Serves'
  BY <1>1, <1>4, <1>5 DEF MainInv, Serves
<1>10. Parts'
  BY <1>1, <1>2, <1>3, HasNone DEF MainInv, Parts
<1> QED BY <1>6, <1>7, <1>8, <1>9, <1>10 DEF MainInv

\* Every step of the daemon keeps the invariant.
LEMMA DaemonMain ==
  ASSUME TypeOK, HoldInv, MainInv, DaemonStep
  PROVE  MainInv'
<1>1. Mail /\ Stages
  BY DEF MainInv
<1>2. HostKept /\ Shape
  BY <1>1, DaemonShape
<1>3. Mail' /\ Stages'
  BY <1>1, <1>2, ShapeMail, StagesStep
<1>4. CASE Rests \/ Takes \/ HangsUp
  <2>1. Still
    BY <1>4 DEF Rests, Takes, HangsUp, Rest, Quietly, Still
  <2> QED BY <1>2, <1>3, <2>1, StillStep
<1>5. CASE Fails \/ Reaps
  <2>1. inst # 0
    BY <1>1, <1>5 DEF Fails, Reaps, Stages
  <2>2. Halts
    BY <1>5, <2>1, BrokenIn DEF Fails, Reaps, Halts, Ended, Quietly
  <2> QED BY <1>2, <1>3, <2>2, HaltsStep
<1>6. CASE Tells
  BY <1>2, <1>3, <1>6, TellsStep
<1>7. CASE Spawns
  BY <1>2, <1>3, <1>7, SpawnsStep
<1>8. CASE ReadsHello
  BY <1>2, <1>3, <1>8, ReadsHelloStep
<1>9. CASE ReadsReply
  BY <1>2, <1>3, <1>9, ReadsReplyStep
<1>10. CASE ReadsPool
  BY <1>2, <1>3, <1>10, ReadsPoolStep
<1>11. CASE ReadsFrame
  BY <1>2, <1>3, <1>11, ReadsFrameStep
<1>12. CASE ReadsQuiesced
  BY <1>2, <1>3, <1>12, ReadsQuiescedStep
<1>13. CASE Negotiates
  BY <1>2, <1>3, <1>13, NegotiatesStep
<1>14. CASE Quiesces
  BY <1>2, <1>3, <1>14, QuiescesStep
<1>15. CASE ShutsDown
  BY <1>2, <1>3, <1>15, ShutsDownStep
<1> QED
  BY <1>2, <1>4, <1>5, <1>6, <1>7, <1>8, <1>9, <1>10, <1>11, <1>12, <1>13, <1>14, <1>15 DEF Shape, Orderly

-----------------------------------------------------------------------------
(* The worker's steps keep the invariant.                                  *)

\* A step of the worker: the daemon's view of the process stays.
DaemonKept ==
  /\ inst # 0
  /\ UNCHANGED << inst, state, ipc, seen, negotiated, quiesced, poolSize, owned, waiting, termSent >>

\* A worker that paints in the frame thread does so while the thread is there.
Painting ==
  /\ pump = "paint" => ~aside
  /\ ~aside => (painting # NoSlot <=> pump = "paint") /\ ~ring.fresh

LEMMA StagesKept == ASSUME MainInv, DaemonKept PROVE Stages' /\ Got' = Got
BY DEF MainInv, DaemonKept, Stages, Got

\* Only the loop's place changes.
LoopMoves ==
  /\ UNCHANGED << phase, toWorker, toDaemon, events, owed, stopping, pump, nextPoint >>
  /\ pc \notin {"unborn", "boot"} /\ pc' \notin {"unborn", "boot", "join"}
  /\ phase = "BACKEND_INIT" /\ events = << >> => pc' = "flush" \/ (stopping /\ pc' = "gone")

LEMMA LoopMovesStep ==
  ASSUME MainInv, DaemonKept, LoopMoves
  PROVE  MainInv'
<1>1. Stages' /\ Got' = Got
  BY StagesKept
<1>2. Coming' = Coming /\ Served' = Served
  BY DEF LoopMoves, DaemonKept, Coming, Served
<1>3. Mail' /\ Sound'
  BY <1>1, <1>2 DEF MainInv, Mail, Sound, LoopMoves, DaemonKept
<1>4. Greets'
  BY DEF MainInv, Greets, LoopMoves, DaemonKept
<1>5. Prepares'
  BY <1>2 DEF MainInv, Prepares, LoopMoves, DaemonKept
<1>6. Fits' /\ Bounds'
  BY DEF MainInv, Fits, Bounds, LoopMoves, DaemonKept
<1>7. Serves' /\ Parts'
  BY <1>2 DEF MainInv, Serves, Parts, LoopMoves, DaemonKept
<1> QED BY <1>1, <1>3, <1>4, <1>5, <1>6, <1>7 DEF MainInv

\* The worker sends an event or several: Coming grows by q.
LEMMA BootStep ==
  ASSUME MainInv, DaemonKept, Boot
  PROVE  MainInv'
<1>1. Stages' /\ Got' = Got
  BY StagesKept
<1>2. /\ pc = "boot" /\ phase = "BOOT" /\ toWorker = << >> /\ toDaemon = << >> /\ events = << >>
      /\ ~stopping /\ seen = {} /\ poolSize = 0
  BY DEF Boot, MainInv, Greets, Stages, OnceOnly
<1>3. /\ toDaemon' = << Event("HELLO", 0) >> /\ phase' = "WAIT_INIT" /\ pc' = "flush"
      /\ UNCHANGED << toWorker, events, owed, stopping, pump, nextPoint >>
  BY <1>2 DEF Boot, frameVars
<1>4. Coming' = << Event("HELLO", 0) >>
  <2>1. << Event("HELLO", 0) >> \o << >> = << Event("HELLO", 0) >>
    OBVIOUS
  <2> QED BY <1>2, <1>3, <2>1 DEF Coming
<1>5. Event("HELLO", 0) \in Messages /\ Event("HELLO", 0).op = "HELLO"
  BY DEF Messages, OnceOnly, Event
<1>6. Mail'
  BY <1>3, <1>5 DEF MainInv, Mail
<1>7. \A x : Has(Coming', x) <=> x = "HELLO"
  BY <1>4, <1>5 DEF Has
<1>8. Ordered(Coming', Got) /\ PointsTo(Coming', nextPoint)
  BY <1>2, <1>4, <1>5 DEF Ordered, PointsTo, Got
<1>9. Sound'
  BY <1>1, <1>3, <1>7, <1>8 DEF MainInv, Sound, DaemonKept
<1>10. Greets' /\ Prepares'
  BY <1>2, <1>3 DEF MainInv, Greets, Prepares, DaemonKept
<1>11. Fits' /\ Bounds'
  BY <1>2, <1>3, AsksNone DEF MainInv, Fits, Bounds, DaemonKept, Open
<1>12. Served' = Served
  BY <1>3 DEF DaemonKept, Served
<1>13. Serves' /\ Parts'
  BY <1>2, <1>3, <1>7, <1>12 DEF MainInv, Serves, Parts, DaemonKept
<1> QED BY <1>1, <1>6, <1>9, <1>10, <1>11, <1>13 DEF MainInv

\* An event goes to the socket.
LEMMA FlushStep ==
  ASSUME MainInv, DaemonKept, pc = "flush", events # << >>, pc' = pc,
         toDaemon' = Append(toDaemon, Head(events)), events' = Tail(events),
         phase' = IF Head(events).op = "QUIESCED" THEN "QUIESCED" ELSE phase,
         UNCHANGED << toWorker, owed, stopping, pump, nextPoint >>
  PROVE  MainInv'
<1>1. Stages' /\ Got' = Got /\ Served' = Served
  BY StagesKept DEF DaemonKept, Served
<1>2. toDaemon \in Seq(Messages) /\ events \in Seq(Messages)
  BY DEF MainInv, Mail
<1>3. Coming' = Coming
  BY <1>2, JoinSeq DEF Coming
<1>4. Head(events) \in Messages /\ events' \in Seq(Messages) /\ toDaemon' \in Seq(Messages)
  BY <1>2, TailIs, AppendProperties
<1>5. Mail'
  BY <1>4 DEF MainInv, Mail
<1>6. Sound'
  BY <1>1, <1>3 DEF MainInv, Sound, DaemonKept
<1>7. phase \notin {"BOOT", "WAIT_INIT", "QUIESCED", "EXIT"}
  BY DEF MainInv, Greets, Parts
<1>8. Head(events).op = "QUIESCED" =>
        Has(Coming, "QUIESCED") /\ events = << Event("QUIESCED", 0) >> /\ phase = "QUIESCING" /\ events' = << >>
  <2> SUFFICES ASSUME Head(events).op = "QUIESCED"
               PROVE  Has(Coming, "QUIESCED") /\ events = << Event("QUIESCED", 0) >> /\ phase = "QUIESCING"
                        /\ events' = << >>
    OBVIOUS
  <2>1. Len(Coming) = Len(toDaemon) + Len(events) /\ Len(toDaemon) \in Nat /\ Len(events) \in Nat \ {0}
        /\ Coming[Len(toDaemon) + 1] = events[1]
    BY <1>2 DEF Coming
  <2>2. Coming[Len(toDaemon) + 1].op = "QUIESCED" /\ Len(toDaemon) + 1 \in 1 .. Len(Coming)
    BY <1>2, <2>1
  <2>3. Has(Coming, "QUIESCED")
    BY <2>2 DEF Has
  <2>4. phase = "QUIESCING" /\ events = << Event("QUIESCED", 0) >>
    BY <1>7, <2>3 DEF MainInv, Parts
  <2> QED BY <2>3, <2>4
<1>9. Head(events).op # "QUIESCED" => phase' = phase /\ ~Has(Coming, "QUIESCED")
  BY <1>7 DEF MainInv, Parts, Event
<1>10. Greets' /\ Prepares'
  BY <1>3, <1>7 DEF MainInv, Greets, Prepares, DaemonKept
<1>11. Fits' /\ Bounds'
  BY <1>7, <1>8, <1>9, AsksNone DEF MainInv, Fits, Bounds, DaemonKept, Open
<1>12. Serves'
  BY <1>1, <1>3, <1>7, <1>8, <1>9, AsksNone DEF MainInv, Serves, Fits, DaemonKept
<1>13. Parts'
  BY <1>1, <1>3, <1>7, <1>8, <1>9 DEF MainInv, Parts, DaemonKept
<1> QED BY <1>1, <1>5, <1>6, <1>10, <1>11, <1>12, <1>13 DEF MainInv

\* The loop turns: it finishes the handshake or owes nothing more.
LEMMA TurnStep ==
  ASSUME MainInv, DaemonKept, pc = "flush", pc' = "poll", FinishInit, OweQuiesced,
         UNCHANGED << toWorker, toDaemon, stopping, pump, nextPoint >>
  PROVE  MainInv'
<1>1. Stages' /\ Got' = Got /\ Served' = Served
  BY StagesKept DEF DaemonKept, Served
<1>2. toDaemon \in Seq(Messages) /\ events \in Seq(Messages) /\ Coming \in Seq(Messages)
  BY ComingSeq DEF MainInv, Mail
<1>3. CASE owed /\ events = << >>
  <2> DEFINE x == Event("QUIESCED", 0)
  <2>1. phase = "QUIESCING" /\ phase' = phase /\ events' = << x >> /\ ~owed' /\ pump = "off"
        /\ ~Has(Coming, "QUIESCED") /\ toWorker = << >> /\ state \notin {"UNBINDING", "SHUTTING_DOWN"}
    <3>1. phase = "QUIESCING" /\ pump = "off" /\ ~Has(Coming, "QUIESCED")
      BY <1>3 DEF MainInv, Parts
    <3>2. toWorker = << >> /\ state \notin {"UNBINDING", "SHUTTING_DOWN"}
      BY <3>1 DEF MainInv, Fits, Parts
    <3>3. << >> \o << x >> = << x >>
      OBVIOUS
    <3> QED BY <1>3, <3>1, <3>2, <3>3 DEF FinishInit, OweQuiesced, Enqueue
  <2>2. x \in Messages /\ x.op = "QUIESCED"
    BY DEF Messages, Event
  <2>3. Coming' = Append(Coming, x)
    <3>1. toDaemon \o Append(events, x) = Append(Coming, x) /\ Append(events, x) = << x >>
      BY <1>2, <1>3, <2>2, JoinSeq DEF Coming
    <3> QED BY <2>1, <3>1 DEF Coming
  <2>4. Mail'
    <3>1. events' \in Seq(Messages)
      BY <2>1, <2>2
    <3> QED BY <2>1, <3>1 DEF MainInv, Mail
  <2>5. \A op : Has(Coming', op) <=> Has(Coming, op) \/ op = "QUIESCED"
    BY <1>2, <2>2, <2>3, HasAppend
  <2>6. "QUIESCED" \notin Got
    <3>1. seen \subseteq OnceOnly
      BY <2>1 DEF MainInv, Parts, Stages, OnceOnly
    <3> QED BY <3>1 DEF Got, OnceOnly, InitReplies
  <2>7. Ordered(Coming', Got)
    BY <1>2, <2>1, <2>2, <2>3, <2>6, OrderedAppend DEF MainInv, Sound
  <2>8. PointsTo(Coming', nextPoint)
    BY <1>2, <2>2, <2>3, ComingSeq, PointsAppend DEF MainInv, Sound
  <2>9. Sound'
    BY <1>1, <2>5, <2>7, <2>8 DEF MainInv, Sound, DaemonKept
  <2>10. Greets' /\ Prepares' /\ Fits' /\ Bounds'
    BY <2>1 DEF MainInv, Greets, Prepares, Fits, Bounds, DaemonKept
  <2>11. Serves'
    BY <1>1, <2>1, <2>5 DEF MainInv, Serves, DaemonKept
  <2>12. Parts'
    BY <1>1, <2>1, <2>5 DEF MainInv, Parts, DaemonKept
  <2> QED BY <1>1, <2>4, <2>9, <2>10, <2>11, <2>12 DEF MainInv
<1>4. CASE ~(owed /\ events = << >>)
  <2>1. UNCHANGED << events, owed >> /\ Coming' = Coming
    BY <1>4 DEF OweQuiesced, Coming
  <2>2. \/ phase' = phase /\ (phase = "BACKEND_INIT" => events # << >>)
        \/ phase = "BACKEND_INIT" /\ phase' = "WAIT_NEGOTIATION"
    BY DEF FinishInit
  <2>3. Mail' /\ Sound'
    BY <1>1, <2>1, <2>2 DEF MainInv, Mail, Sound, DaemonKept
  <2>4. Greets' /\ Prepares'
    BY <2>1, <2>2 DEF MainInv, Greets, Prepares, DaemonKept
  <2>5. Fits' /\ Bounds'
    BY <2>1, <2>2 DEF MainInv, Fits, Bounds, DaemonKept, Open
  <2>6. Serves' /\ Parts'
    BY <1>1, <2>1, <2>2 DEF MainInv, Serves, Parts, DaemonKept
  <2> QED BY <1>1, <2>3, <2>4, <2>5, <2>6 DEF MainInv
<1> QED BY <1>3, <1>4

-----------------------------------------------------------------------------
(* The commands.                                                           *)

\* A command arrives in a phase that takes it.
LEMMA CommandFits ==
  ASSUME MainInv, pc = "drain", toWorker # << >>
  PROVE  /\ Accepts(Head(toWorker)) /\ toWorker \in Seq(Orders) /\ Tail(toWorker) \in Seq(Orders)
         /\ phase \in {"WAIT_INIT", "QUIESCED"} \cup Open
         /\ phase = "WAIT_INIT" => toWorker = << "INIT" >> /\ toDaemon = << >> /\ seen = {"HELLO"}
         /\ phase = "QUIESCED" => toWorker = << "SHUTDOWN" >>
         /\ phase \in Open => Ordinary(toWorker)
<1>1. toWorker \in Seq(Orders) /\ Tail(toWorker) \in Seq(Orders)
  BY TailIs DEF MainInv, Mail
<1>2. phase \notin {"BOOT", "QUIESCING", "EXIT"}
  BY DEF MainInv, Greets, Fits
<1>3. phase # "BACKEND_INIT"
  <2> SUFFICES ASSUME phase = "BACKEND_INIT" PROVE FALSE
    OBVIOUS
  <2>1. seen = OnceOnly /\ "RELEASE_TIMELINE" \in seen /\ ~stopping /\ events # << >>
    BY DEF MainInv, Fits, Prepares, OnceOnly, InitReplies
  <2>2. Coming \in Seq(Messages) /\ Len(Coming) \in Nat /\ Coming # << >> /\ Len(Coming) # 0
    <3>1. toDaemon \in Seq(Messages) /\ events \in Seq(Messages)
      BY DEF MainInv, Mail
    <3>2. Len(events) \in Nat \ {0} /\ Len(toDaemon) \in Nat
      BY <2>1, <3>1
    <3> QED BY <3>1, <3>2, JoinSeq DEF Coming
  <2>3. Coming[Len(Coming)].op \in {"RELEASE_TIMELINE", "ERROR"} /\ Len(Coming) \in 1 .. Len(Coming)
    BY <2>2 DEF MainInv, Prepares, Answers
  <2>4. ~Has(Coming, "ERROR")
    BY <2>1 DEF MainInv, Sound
  <2>5. Coming[Len(Coming)].op \in Got
    BY <2>1, <2>3, <2>4 DEF Has, Got
  <2> QED BY <2>3, <2>5 DEF MainInv, Sound, Ordered
<1>4. phase \in {"WAIT_INIT", "QUIESCED"} \cup Open
  BY <1>2, <1>3 DEF MainInv, Mail, Open
<1>5. CASE phase = "WAIT_INIT"
  BY <1>1, <1>4, <1>5 DEF MainInv, Greets, Accepts, Open
<1>6. CASE phase = "QUIESCED"
  BY <1>1, <1>4, <1>6 DEF MainInv, Fits, Accepts, Open
<1>7. CASE phase \in Open
  <2>1. Ordinary(toWorker)
    BY <1>7 DEF MainInv, Fits
  <2>2. Head(toWorker) \in {"SET_RUNTIME", "NEGOTIATE_BUFFERS", "QUIESCE"}
    BY <1>1, <2>1, OrdinaryTail
  <2> QED BY <1>1, <1>4, <1>7, <2>1, <2>2 DEF Accepts, Open
<1> QED BY <1>4, <1>5, <1>6, <1>7

\* The replies to INIT.
LEMMA Replies ==
  /\ HandshakeReplies \in Seq(Messages) /\ Len(HandshakeReplies) = 3
  /\ HandshakeReplies[1] = Event("READY", 0) /\ HandshakeReplies[2] = Event("FORMAT_CAPS", 0)
  /\ HandshakeReplies[3] = Event("RELEASE_TIMELINE", 0)
<1>1. {Event("READY", 0), Event("FORMAT_CAPS", 0), Event("RELEASE_TIMELINE", 0)} \subseteq Messages
  BY DEF Messages, OnceOnly, InitReplies
<1> QED BY <1>1 DEF HandshakeReplies

\* What handle_init publishes.
InitAnswer(q) ==
  /\ q \in Seq(Messages) /\ q # << >>
  /\ Ordered(q, {"HELLO"}) /\ Answers(q) /\ PointsTo(q, 0)
  /\ ~Has(q, "BIND_BUFFERS") /\ ~Has(q, "QUIESCED") /\ ~Has(q, "FRAME_READY")
  /\ ~Has(q, "RELEASE_TIMELINE") \/ ~Has(q, "ERROR")

LEMMA InitAnswers ==
  /\ InitAnswer(HandshakeReplies) /\ ~Has(HandshakeReplies, "ERROR")
  /\ \A n \in 0 .. 2 :
       LET q == Append(SubSeq(HandshakeReplies, 1, n), Event("ERROR", 0))
       IN  InitAnswer(q) /\ ~Has(q, "RELEASE_TIMELINE")
<1> DEFINE h == HandshakeReplies
<1>1. /\ h \in Seq(Messages) /\ Len(h) = 3
      /\ h[1].op = "READY" /\ h[2].op = "FORMAT_CAPS" /\ h[3].op = "RELEASE_TIMELINE"
  BY Replies DEF Event
<1> HIDE DEF h
<1>2. h # << >> /\ \A i \in 1 .. Len(h) : i = 1 \/ i = 2 \/ i = 3
  BY <1>1
<1>3. InitAnswer(h) /\ ~Has(h, "ERROR")
  <2>1. Ordered(h, {"HELLO"})
    BY <1>1, <1>2 DEF Ordered
  <2>2. Answers(h) /\ PointsTo(h, 0)
    BY <1>1, <1>2 DEF Answers, PointsTo
  <2>3. \A op \in {"BIND_BUFFERS", "QUIESCED", "FRAME_READY", "ERROR"} : ~Has(h, op)
    BY <1>1, <1>2 DEF Has
  <2> QED BY <1>1, <1>2, <2>1, <2>2, <2>3 DEF InitAnswer
<1>4. ASSUME NEW n \in 0 .. 2
      PROVE  LET q == Append(SubSeq(h, 1, n), Event("ERROR", 0))
             IN  InitAnswer(q) /\ ~Has(q, "RELEASE_TIMELINE")
  <2> DEFINE q == Append(SubSeq(h, 1, n), Event("ERROR", 0))
  <2>1. /\ SubSeq(h, 1, n) \in Seq(Messages) /\ Len(SubSeq(h, 1, n)) = n
        /\ \A i \in 1 .. n : SubSeq(h, 1, n)[i] = h[i]
    BY <1>1
  <2>2. Event("ERROR", 0) \in Messages /\ Event("ERROR", 0).op = "ERROR"
    BY DEF Messages, Event
  <2>3. /\ q \in Seq(Messages) /\ Len(q) = n + 1 /\ q # << >> /\ q[n + 1].op = "ERROR"
        /\ \A i \in 1 .. n : q[i] = h[i]
    BY <2>1, <2>2
  <2> HIDE DEF q
  <2>4. /\ \A i \in 1 .. Len(q) : i \in 1 .. n \/ i = n + 1
        /\ \A i \in 1 .. n : (i = 1 /\ q[i].op = "READY") \/ (i = 2 /\ q[i].op = "FORMAT_CAPS")
        /\ \A i \in 1 .. n : i # n + 1
        /\ n \in Nat
    BY <1>1, <2>3
  <2>5. Ordered(q, {"HELLO"})
    BY <2>3, <2>4 DEF Ordered
  <2>6. Answers(q) /\ PointsTo(q, 0)
    BY <2>3, <2>4 DEF Answers, PointsTo
  <2>7. \A op \in {"BIND_BUFFERS", "QUIESCED", "FRAME_READY", "RELEASE_TIMELINE"} : ~Has(q, op)
    BY <2>3, <2>4 DEF Has
  <2>8. InitAnswer(q) /\ ~Has(q, "RELEASE_TIMELINE")
    BY <2>3, <2>5, <2>6, <2>7 DEF InitAnswer
  <2> QED BY <2>8 DEF q
<1> QED BY <1>3, <1>4 DEF h

LEMMA InitStep ==
  ASSUME MainInv, DaemonKept, pc = "drain", toWorker # << >>, toWorker' = Tail(toWorker),
         toDaemon' = toDaemon, phase = "WAIT_INIT", HandleInit, pc' \in {"flush", "drain"}
  PROVE  MainInv'
<1>1. Stages' /\ Got' = Got
  BY StagesKept
<1>2. /\ toWorker = << "INIT" >> /\ toDaemon = << >> /\ seen = {"HELLO"} /\ events = << >> /\ ~stopping
      /\ ~negotiated /\ ~quiesced /\ poolSize = 0 /\ ~owed /\ pump = "off" /\ nextPoint = 0
  <2>1. toWorker = << "INIT" >> /\ toDaemon = << >> /\ seen = {"HELLO"} /\ events = << >> /\ ~stopping
    BY CommandFits DEF MainInv, Greets
  <2>2. {"HELLO"} # {"HELLO", "READY", "FORMAT_CAPS", "RELEASE_TIMELINE"}
    <3>1. "READY" \in {"HELLO", "READY", "FORMAT_CAPS", "RELEASE_TIMELINE"} /\ "READY" \notin {"HELLO"}
      OBVIOUS
    <3> QED BY <3>1
  <2>3. ~negotiated /\ ~quiesced /\ poolSize = 0 /\ ~owed
    BY <2>1, <2>2 DEF MainInv, Stages, Parts, OnceOnly, InitReplies
  <2>4. pump = "off" /\ nextPoint = 0
    BY <2>3 DEF MainInv, Serves, Served
  <2> QED BY <2>1, <2>3, <2>4
<1>3. /\ phase' = "BACKEND_INIT" /\ toWorker' = << >>
      /\ UNCHANGED << owed, pump, nextPoint >>
  BY <1>2 DEF HandleInit, frameVars
<1>4. InitAnswer(events') /\ (stopping' \/ ~Has(events', "ERROR")) /\ (~Has(events', "RELEASE_TIMELINE") \/ ~stopping')
  <2>1. \A q : InitAnswer(q) => << >> \o q = q
    BY ConcatEmptySeq DEF InitAnswer
  <2>2. CASE Enqueue(HandshakeReplies) /\ UNCHANGED stopping
    <3>1. events' = HandshakeReplies
      BY <1>2, <2>1, <2>2, InitAnswers DEF Enqueue
    <3> QED BY <1>2, <2>2, <3>1, InitAnswers
  <2>3. CASE \E n \in 0 .. 2 : EnqueueError(SubSeq(HandshakeReplies, 1, n))
    <3>1. PICK n \in 0 .. 2 : EnqueueError(SubSeq(HandshakeReplies, 1, n))
      BY <2>3
    <3>2. events' = Append(SubSeq(HandshakeReplies, 1, n), Event("ERROR", 0)) /\ stopping'
      BY <1>2, <2>1, <3>1, InitAnswers DEF EnqueueError, Enqueue
    <3> QED BY <3>2, InitAnswers
  <2> QED BY <2>2, <2>3 DEF HandleInit
<1>5. Coming' = events'
  BY <1>2, <1>4, ConcatEmptySeq DEF Coming, InitAnswer
<1>6. Got = {"HELLO"}
  BY <1>2 DEF Got
<1>7. Mail'
  BY <1>2, <1>3, <1>4 DEF MainInv, Mail, InitAnswer
<1>8. Sound'
  BY <1>1, <1>2, <1>3, <1>4, <1>5, <1>6 DEF MainInv, Sound, InitAnswer, DaemonKept
<1>9. Greets' /\ Prepares'
  BY <1>1, <1>2, <1>3, <1>4, <1>5 DEF MainInv, Greets, Prepares, InitAnswer, DaemonKept
<1>10. Fits'
  BY <1>2, <1>3, AsksNone DEF Fits, Ordinary, DaemonKept, Open
<1>11. Bounds'
  BY <1>3, OneWorker DEF MainInv, Bounds, DaemonKept
<1>12. ~Served'
  BY <1>2 DEF Served, DaemonKept
<1>13. Serves'
  BY <1>2, <1>3, <1>4, <1>5, <1>12, AsksNone DEF Serves, DaemonKept, InitAnswer
<1>14. Parts'
  <2>1. state \notin {"UNBINDING", "SHUTTING_DOWN"}
    BY <1>2 DEF MainInv, Stages, Leaving
  <2> QED BY <1>2, <1>3, <1>4, <1>5, <2>1 DEF Parts, DaemonKept, InitAnswer
<1> QED BY <1>1, <1>7, <1>8, <1>9, <1>10, <1>11, <1>13, <1>14 DEF MainInv

\* A command of a worker in service leaves the loop in the drain, or fails it.
LEMMA NegotiateStep ==
  ASSUME MainInv, DaemonKept, pc = "drain", toWorker # << >>, toWorker' = Tail(toWorker),
         toDaemon' = toDaemon, phase \in Open, Head(toWorker) = "NEGOTIATE_BUFFERS", HandleNegotiate,
         pc' = pc
  PROVE  MainInv'
<1>1. Stages' /\ Got' = Got
  BY StagesKept
<1>2. /\ toWorker \in Seq(Orders) /\ Tail(toWorker) \in Seq(Orders) /\ Ordinary(toWorker)
      /\ \A x : Asks(toWorker, x) <=> x = "NEGOTIATE_BUFFERS" \/ Asks(toWorker', x)
      /\ Ordinary(toWorker') /\ ~Asks(toWorker', "NEGOTIATE_BUFFERS") /\ ~Asks(toWorker, "SHUTDOWN")
      /\ Len(toWorker') = Len(toWorker) - 1 /\ Len(toWorker) \in Nat
  BY CommandFits, AsksTail, OrdinaryTail, TailIs
<1>3. /\ negotiated /\ ~Served /\ Served' /\ phase = "WAIT_NEGOTIATION"
  <2>1. Asks(toWorker, "NEGOTIATE_BUFFERS")
    BY <1>2
  <2> QED BY <1>2, <2>1 DEF MainInv, Serves, Served, DaemonKept, Open
<1>4. /\ pump = "off" /\ nextPoint = 0 /\ poolSize = 0 /\ ~Has(Coming, "BIND_BUFFERS")
      /\ ~owed /\ ~Has(Coming, "QUIESCED")
      /\ PointsTo(Coming, 0) /\ Ordered(Coming, Got) /\ "BIND_BUFFERS" \notin Got
      /\ "HELLO" \in seen /\ seen = OnceOnly
  BY <1>3 DEF MainInv, Serves, Parts, Sound, Got, Stages, OnceOnly, InitReplies
<1>5. ~Has(Coming, "FRAME_READY")
  BY <1>4 DEF PointsTo, Has
<1>6. /\ phase' = "RUNNING" /\ nextPoint' = 0 /\ ~owed'
      /\ \/ /\ events' = Append(events, Event("BIND_BUFFERS", Cardinality(Slots)))
            /\ pump' = "wait" /\ stopping' = stopping
         \/ events' = Append(events, Event("ERROR", 0)) /\ stopping' /\ pump' = pump
  <2>0. events \in Seq(Messages)
    BY DEF MainInv, Mail
  <2>1. \A x : events \o << x >> = Append(events, x) /\ Append(<< >>, x) = << x >>
    BY <2>0
  <2> QED BY <1>4, <2>1 DEF HandleNegotiate, EnqueueError, Enqueue
<1>7. PICK y \in Messages :
        /\ y.op \in {"BIND_BUFFERS", "ERROR"} /\ events' = Append(events, y)
        /\ y.op = "BIND_BUFFERS" => stopping' = stopping
        /\ y.op = "ERROR" => stopping' /\ pump' = "off"
  <2>1. Event("BIND_BUFFERS", Cardinality(Slots)) \in Messages /\ Event("BIND_BUFFERS", Cardinality(Slots)).op = "BIND_BUFFERS"
    BY SessionAssumption DEF Messages, Event
  <2>2. Event("ERROR", 0) \in Messages /\ Event("ERROR", 0).op = "ERROR"
    BY DEF Messages, Event
  <2> QED BY <1>4, <1>6, <2>1, <2>2
<1>8. Coming' = Append(Coming, y) /\ events' \in Seq(Messages) /\ Coming \in Seq(Messages)
  <2>1. toDaemon \in Seq(Messages) /\ events \in Seq(Messages)
    BY DEF MainInv, Mail
  <2>2. toDaemon \o Append(events, y) = Append(Coming, y) /\ Append(events, y) \in Seq(Messages)
    BY <2>1, JoinSeq, AppendProperties DEF Coming
  <2> QED BY <1>7, <2>2, ComingSeq DEF Coming, MainInv
<1>9. \A op : Has(Coming', op) <=> Has(Coming, op) \/ y.op = op
  BY <1>8, HasAppend
<1>10. "ERROR" \notin Got
  BY <1>4 DEF Got, OnceOnly, InitReplies
<1>11. Ordered(Coming', Got)
  BY <1>4, <1>5, <1>7, <1>8, <1>10, OrderedAppend
<1>12. PointsTo(Coming', 0)
  BY <1>4, <1>7, <1>8, PointsAppend
<1>13. Mail'
  BY <1>2, <1>4, <1>6, <1>8 DEF MainInv, Mail
<1>14. Sound'
  BY <1>1, <1>4, <1>6, <1>7, <1>9, <1>11, <1>12 DEF MainInv, Sound, DaemonKept
<1>15. Greets' /\ Prepares'
  BY <1>3, <1>4, <1>6 DEF MainInv, Greets, Prepares, DaemonKept
<1>16. Fits'
  BY <1>2, <1>3, <1>4, <1>6 DEF MainInv, Fits, DaemonKept, Open
<1>17. Bounds'
  <2>1. Len(toWorker') <= MaxCommands /\ Len(toWorker') <= MaxCommands + 1
    BY <1>2, OneWorker DEF MainInv, Bounds
  <2> QED BY <2>1 DEF MainInv, Bounds, DaemonKept
<1>18. Serves'
  BY <1>2, <1>3, <1>4, <1>6, <1>7, <1>9 DEF MainInv, Serves, DaemonKept
<1>19. Parts'
  BY <1>3, <1>4, <1>6, <1>7, <1>9 DEF MainInv, Parts, DaemonKept
<1> QED BY <1>1, <1>13, <1>14, <1>15, <1>16, <1>17, <1>18, <1>19 DEF MainInv

LEMMA RuntimeStep ==
  ASSUME MainInv, DaemonKept, pc = "drain", toWorker # << >>, toWorker' = Tail(toWorker),
         toDaemon' = toDaemon, phase \in Open, Head(toWorker) = "SET_RUNTIME", HandleRuntime,
         pc' = pc
  PROVE  MainInv'
<1>1. Stages' /\ Got' = Got
  BY StagesKept
<1>2. /\ toWorker \in Seq(Orders) /\ Tail(toWorker) \in Seq(Orders) /\ Ordinary(toWorker)
      /\ \A x : Asks(toWorker, x) <=> x = "SET_RUNTIME" \/ Asks(toWorker', x)
      /\ Ordinary(toWorker') /\ ~Asks(toWorker, "SHUTDOWN")
      /\ Len(toWorker') = Len(toWorker) - 1 /\ Len(toWorker) \in Nat
  BY CommandFits, AsksTail, OrdinaryTail, TailIs
<1>3. Served' = Served
  BY <1>2 DEF Served, DaemonKept
<1>4. ~owed /\ ~Has(Coming, "QUIESCED") /\ "HELLO" \in seen /\ seen = OnceOnly
  BY DEF MainInv, Parts, Fits, Greets, Open
<1>5. /\ UNCHANGED << phase, owed, pump, nextPoint >>
      /\ \/ UNCHANGED << events, stopping >>
         \/ events' = Append(events, Event("ERROR", 0)) /\ stopping'
  <2>0. events \in Seq(Messages)
    BY DEF MainInv, Mail
  <2>1. \A x : events \o << x >> = Append(events, x) /\ Append(<< >>, x) = << x >>
    BY <2>0
  <2> QED BY <2>1 DEF HandleRuntime, EnqueueError, Enqueue, frameVars
<1>6. /\ Coming' \in Seq(Messages) /\ events' \in Seq(Messages)
      /\ Ordered(Coming', Got) /\ PointsTo(Coming', nextPoint)
      /\ \A op : Has(Coming', op) <=> Has(Coming, op) \/ (op = "ERROR" /\ Has(Coming', "ERROR"))
      /\ Has(Coming', "ERROR") => stopping'
  <2>1. CASE UNCHANGED << events, stopping >>
    <3>1. Coming' = Coming
      BY <2>1 DEF Coming
    <3> QED BY <2>1, <3>1, ComingSeq DEF MainInv, Sound, Mail
  <2>2. CASE events' = Append(events, Event("ERROR", 0)) /\ stopping'
    <3>1. Event("ERROR", 0) \in Messages /\ Event("ERROR", 0).op = "ERROR"
      BY DEF Messages, Event
    <3>2. toDaemon \in Seq(Messages) /\ events \in Seq(Messages) /\ Coming \in Seq(Messages) /\ nextPoint \in Nat
      BY ComingSeq DEF MainInv, Mail
    <3>3. toDaemon \o Append(events, Event("ERROR", 0)) = Append(Coming, Event("ERROR", 0))
      BY <3>1, <3>2, JoinSeq DEF Coming
    <3>4. Coming' = Append(Coming, Event("ERROR", 0)) /\ events' \in Seq(Messages) /\ Coming' \in Seq(Messages)
      BY <2>2, <3>1, <3>2, <3>3, AppendProperties DEF Coming
    <3>5. \A op : Has(Coming', op) <=> Has(Coming, op) \/ op = "ERROR"
      BY <3>1, <3>2, <3>4, HasAppend
    <3>6. "ERROR" \notin Got
      BY <1>4 DEF Got, OnceOnly, InitReplies
    <3>7. Ordered(Coming', Got)
      BY <1>4, <3>1, <3>2, <3>4, <3>6, OrderedAppend DEF MainInv, Sound
    <3>8. PointsTo(Coming', nextPoint)
      BY <3>1, <3>2, <3>4, PointsAppend DEF MainInv, Sound
    <3> QED BY <2>2, <3>4, <3>5, <3>7, <3>8
  <2> QED BY <1>5, <2>1, <2>2
<1>7. Mail'
  BY <1>2, <1>5, <1>6 DEF MainInv, Mail
<1>8. Sound'
  BY <1>1, <1>5, <1>6 DEF MainInv, Sound, DaemonKept
<1>9. Greets' /\ Prepares'
  BY <1>4, <1>5 DEF MainInv, Greets, Prepares, DaemonKept, Open
<1>10. Fits'
  BY <1>2, <1>4, <1>5 DEF MainInv, Fits, DaemonKept, Open
<1>11. Bounds'
  <2>1. Len(toWorker') <= MaxCommands /\ Len(toWorker') <= MaxCommands + 1
    BY <1>2, OneWorker DEF MainInv, Bounds
  <2> QED BY <2>1 DEF MainInv, Bounds, DaemonKept
<1>12. Serves'
  BY <1>2, <1>3, <1>5, <1>6 DEF MainInv, Serves, DaemonKept
<1>13. Parts'
  BY <1>4, <1>5, <1>6 DEF MainInv, Parts, DaemonKept, Open
<1> QED BY <1>1, <1>7, <1>8, <1>9, <1>10, <1>11, <1>12, <1>13 DEF MainInv

LEMMA QuiesceStep ==
  ASSUME MainInv, DaemonKept, pc = "drain", toWorker # << >>, toWorker' = Tail(toWorker),
         toDaemon' = toDaemon, phase \in Open, Head(toWorker) = "QUIESCE", HandleQuiesce,
         pc' = "join"
  PROVE  MainInv'
<1>1. Stages' /\ Got' = Got
  BY StagesKept
<1>2. /\ toWorker \in Seq(Orders) /\ Ordinary(toWorker) /\ Asks(toWorker, "QUIESCE")
      /\ \A x : Asks(toWorker, x) <=> x = "QUIESCE" \/ Asks(toWorker', x)
      /\ toWorker' = << >>
  BY CommandFits, AsksTail, OrdinaryTail
<1>3. Served' = Served
  BY <1>2 DEF Served, DaemonKept
<1>4. ~owed /\ ~Has(Coming, "QUIESCED") /\ "HELLO" \in seen /\ seen = OnceOnly /\ quiesced
  BY <1>2 DEF MainInv, Parts, Fits, Greets, Open
<1>5. phase' = "QUIESCING" /\ UNCHANGED << events, owed, stopping, pump, nextPoint >> /\ Coming' = Coming
  BY DEF HandleQuiesce, Coming
<1>6. Mail' /\ Sound'
  BY <1>1, <1>2, <1>5 DEF MainInv, Mail, Sound, DaemonKept
<1>7. Greets' /\ Prepares'
  BY <1>4, <1>5 DEF MainInv, Greets, Prepares, DaemonKept
<1>8. Fits'
  BY <1>2, <1>5, AsksNone DEF MainInv, Fits, DaemonKept, Open
<1>9. Bounds'
  <2>1. Len(toWorker') = 0
    BY <1>2, EmptySeq
  <2> QED BY <2>1, OneWorker DEF MainInv, Bounds, DaemonKept
<1>10. Serves'
  BY <1>2, <1>3, <1>5, AsksNone DEF MainInv, Serves, DaemonKept
<1>11. Parts'
  BY <1>2, <1>4, <1>5 DEF MainInv, Parts, DaemonKept, Open
<1> QED BY <1>1, <1>6, <1>7, <1>8, <1>9, <1>10, <1>11 DEF MainInv

LEMMA ShutdownStep ==
  ASSUME MainInv, DaemonKept, pc = "drain", toWorker = << "SHUTDOWN" >>, toWorker' = Tail(toWorker),
         toDaemon' = toDaemon, phase = "QUIESCED", HandleShutdown, pc' = "gone"
  PROVE  MainInv'
<1>1. Stages' /\ Got' = Got
  BY StagesKept
<1>2. /\ toWorker' = << >> /\ Asks(toWorker, "SHUTDOWN") /\ ~Asks(toWorker, "NEGOTIATE_BUFFERS")
  <2>1. toWorker' = << >> /\ Len(toWorker) = 1 /\ toWorker[1] = "SHUTDOWN"
    OBVIOUS
  <2> QED BY <2>1 DEF Asks
<1>3. Served' = Served
  BY <1>2, AsksNone DEF Served, DaemonKept
<1>4. state \in {"SHUTTING_DOWN"} \cup Ended /\ state # "UNBINDING" /\ quiesced /\ "HELLO" \in seen
  BY <1>2 DEF MainInv, Fits, Parts, Greets, Ended, Broken
<1>5. phase' = "EXIT" /\ UNCHANGED << events, owed, stopping, pump, nextPoint >> /\ Coming' = Coming
  BY DEF HandleShutdown, Coming, frameVars
<1>6. Mail' /\ Sound'
  BY <1>1, <1>2, <1>5 DEF MainInv, Mail, Sound, DaemonKept
<1>7. Greets' /\ Prepares'
  BY <1>4, <1>5 DEF MainInv, Greets, Prepares, DaemonKept
<1>8. Fits'
  BY <1>2, <1>4, <1>5, AsksNone DEF MainInv, Fits, DaemonKept, Open
<1>9. Bounds'
  <2>1. Len(toWorker') = 0
    BY <1>2, EmptySeq
  <2> QED BY <2>1, OneWorker DEF MainInv, Bounds, DaemonKept
<1>10. Serves'
  BY <1>2, <1>3, <1>5, AsksNone DEF MainInv, Serves, DaemonKept
<1>11. Parts'
  <2>1. ~Has(Coming, "QUIESCED") \/ state \in Ended
    BY <1>4 DEF MainInv, Parts
  <2>2. Has(Coming, "QUIESCED") => toWorker = << >>
    BY DEF MainInv, Parts
  <2> QED BY <1>2, <1>4, <1>5, <2>1, <2>2 DEF MainInv, Parts, DaemonKept
<1> QED BY <1>1, <1>6, <1>7, <1>8, <1>9, <1>10, <1>11 DEF MainInv

LEMMA JoinedStep ==
  ASSUME MainInv, DaemonKept, Joined
  PROVE  MainInv'
<1>1. Stages' /\ Got' = Got
  BY StagesKept
<1>2. /\ pc' = "drain" /\ owed' = TRUE /\ pc = "join" /\ phase = "QUIESCING" /\ pump = "off"
      /\ ~Has(Coming, "QUIESCED")
      /\ UNCHANGED << phase, toWorker, toDaemon, events, stopping, pump, nextPoint >>
      /\ Coming' = Coming /\ Served' = Served
  BY DEF Joined, MainInv, Parts, Coming, Served, DaemonKept
<1>3. Mail' /\ Sound'
  BY <1>1, <1>2 DEF MainInv, Mail, Sound, DaemonKept
<1>4. Greets' /\ Prepares' /\ Fits' /\ Bounds'
  BY <1>2 DEF MainInv, Greets, Prepares, Fits, Bounds, DaemonKept
<1>5. Serves' /\ Parts'
  BY <1>2 DEF MainInv, Serves, Parts, DaemonKept
<1> QED BY <1>1, <1>3, <1>4, <1>5 DEF MainInv

\* The loop keeps the invariant.
LEMMA LoopMain ==
  ASSUME MainInv, DaemonKept, NEW hangup \in BOOLEAN, Loop(hangup)
  PROVE  MainInv'
<1>1. CASE Boot
  BY <1>1, BootStep
<1>2. CASE Flush(hangup)
  <2>1. CASE hangup
    <3>1. LoopMoves
      BY <1>2, <2>1 DEF Flush, LoopMoves, frameVars
    <3> QED BY <3>1, LoopMovesStep
  <2>2. CASE ~hangup
    BY <1>2, <2>2, FlushStep DEF Flush, frameVars
  <2> QED BY <2>1, <2>2
<1>3. CASE Turn
  <2>1. CASE stopping /\ events = << >>
    <3>1. LoopMoves
      BY <1>3, <2>1 DEF Turn, LoopMoves, frameVars
    <3> QED BY <3>1, LoopMovesStep
  <2>2. CASE ~(stopping /\ events = << >>)
    BY <1>3, <2>2, TurnStep DEF Turn, frameVars
  <2> QED BY <2>1, <2>2
<1>4. CASE Poll(hangup) \/ Drained(hangup)
  <2>1. phase = "BACKEND_INIT" => events # << >>
    BY <1>4 DEF Poll, Drained, MainInv, Prepares
  <2>2. LoopMoves
    BY <1>4, <2>1 DEF Poll, Drained, LoopMoves, frameVars
  <2> QED BY <2>2, LoopMovesStep
<1>5. CASE Drain
  <2>1. /\ pc = "drain" /\ toWorker # << >> /\ toWorker' = Tail(toWorker) /\ toDaemon' = toDaemon
        /\ pc' = After(Head(toWorker))
    BY <1>5 DEF Drain
  <2>2. Accepts(Head(toWorker))
    BY <2>1, CommandFits
  <2>3. CASE phase = "WAIT_INIT"
    <3>1. Head(toWorker) = "INIT"
      BY <2>1, <2>3, CommandFits
    <3>2. HandleInit /\ pc' = "drain"
      BY <1>5, <2>1, <2>2, <3>1 DEF Drain, After
    <3> QED BY <2>1, <2>3, <3>2, InitStep
  <2>4. CASE phase = "QUIESCED"
    <3>1. toWorker = << "SHUTDOWN" >> /\ Head(toWorker) = "SHUTDOWN"
      BY <2>1, <2>4, CommandFits
    <3>2. HandleShutdown /\ pc' = "gone"
      BY <1>5, <2>1, <2>2, <3>1 DEF Drain, After
    <3> QED BY <2>1, <2>4, <3>1, <3>2, ShutdownStep
  <2>5. CASE phase \in Open
    <3>1. Head(toWorker) \in {"SET_RUNTIME", "NEGOTIATE_BUFFERS", "QUIESCE"}
      BY <2>1, <2>5, CommandFits, OrdinaryTail
    <3>2. CASE Head(toWorker) = "SET_RUNTIME"
      <4>1. HandleRuntime /\ pc' = "drain"
        BY <1>5, <2>1, <2>2, <3>2 DEF Drain, After
      <4> QED BY <2>1, <2>5, <3>2, <4>1, RuntimeStep
    <3>3. CASE Head(toWorker) = "NEGOTIATE_BUFFERS"
      <4>1. HandleNegotiate /\ pc' = "drain"
        BY <1>5, <2>1, <2>2, <3>3 DEF Drain, After
      <4> QED BY <2>1, <2>5, <3>3, <4>1, NegotiateStep
    <3>4. CASE Head(toWorker) = "QUIESCE"
      <4>1. HandleQuiesce /\ pc' = "join"
        BY <1>5, <2>1, <2>2, <3>4 DEF Drain, After
      <4> QED BY <2>1, <2>5, <3>4, <4>1, QuiesceStep
    <3> QED BY <3>1, <3>2, <3>3, <3>4
  <2> QED BY <2>1, <2>3, <2>4, <2>5, CommandFits
<1>6. CASE Joined
  BY <1>6, JoinedStep
<1> QED BY <1>1, <1>2, <1>3, <1>4, <1>5, <1>6 DEF Loop

\* Only the place of the frame thread changes.
PumpMoves ==
  /\ UNCHANGED << phase, pc, toWorker, toDaemon, events, owed, stopping, nextPoint >>
  /\ pump' # "off" => pump # "off"
  /\ pump' = "publish" => nextPoint < PointLimit

LEMMA PumpMovesStep ==
  ASSUME MainInv, DaemonKept, PumpMoves
  PROVE  MainInv'
<1>1. Stages' /\ Got' = Got
  BY StagesKept
<1>2. Coming' = Coming /\ Served' = Served
  BY DEF PumpMoves, DaemonKept, Coming, Served
<1>3. Mail' /\ Sound'
  BY <1>1, <1>2 DEF MainInv, Mail, Sound, PumpMoves, DaemonKept
<1>4. Greets' /\ Prepares' /\ Fits' /\ Bounds'
  BY <1>2 DEF MainInv, Greets, Prepares, Fits, Bounds, PumpMoves, DaemonKept
<1>5. Serves' /\ Parts'
  BY <1>2 DEF MainInv, Serves, Parts, PumpMoves, DaemonKept
<1> QED BY <1>1, <1>3, <1>4, <1>5 DEF MainInv

\* A frame is published or completed by the worker itself.
LEMMA PublishStep ==
  ASSUME MainInv, DaemonKept, PublishFrame
  PROVE  MainInv'
<1> DEFINE x == Event("FRAME_READY", nextPoint + 1)
<1>1. Stages' /\ Got' = Got
  BY StagesKept
<1>2. /\ pump = "publish" /\ nextPoint' = nextPoint + 1 /\ nextPoint \in Nat /\ nextPoint + 1 \in 1 .. PointLimit
      /\ UNCHANGED << phase, pc, toWorker, toDaemon, owed, stopping >> /\ Served' = Served
      /\ \/ events' = Append(events, x) /\ pump' = "record"
         \/ events' = events /\ pump' = "off"
  <2>1. pump = "publish" /\ nextPoint < PointLimit /\ nextPoint \in 0 .. PointLimit /\ events \in Seq(Messages)
    BY DEF PublishFrame, MainInv, Mail
  <2>2. events \o << x >> = Append(events, x)
    BY <2>1
  <2>3. nextPoint \in Nat /\ nextPoint + 1 \in 1 .. PointLimit
    BY <2>1, PointLimitAssumption
  <2> QED BY <2>1, <2>2, <2>3 DEF PublishFrame, Enqueue, Served, DaemonKept
<1>3. /\ Served /\ ~Has(Coming, "QUIESCED") /\ ~owed
      /\ phase \notin {"BOOT", "WAIT_INIT", "BACKEND_INIT", "QUIESCED", "EXIT"}
      /\ state \notin {"UNBINDING", "SHUTTING_DOWN"}
      /\ ipc /\ poolSize = 0 => Has(Coming, "BIND_BUFFERS")
  BY <1>2 DEF MainInv, Serves, Parts
<1>4. /\ Coming' \in Seq(Messages) /\ events' \in Seq(Messages)
      /\ Ordered(Coming', Got) /\ PointsTo(Coming', nextPoint')
      /\ \A op : op # "FRAME_READY" => (Has(Coming', op) <=> Has(Coming, op))
  <2>0. toDaemon \in Seq(Messages) /\ events \in Seq(Messages) /\ Coming \in Seq(Messages)
    BY ComingSeq DEF MainInv, Mail
  <2>1. CASE events' = events
    <3>1. Coming' = Coming
      BY <1>2, <2>1 DEF Coming
    <3>2. PointsTo(Coming, nextPoint')
      BY <1>2 DEF PointsTo, MainInv, Sound
    <3> QED BY <2>0, <2>1, <3>1, <3>2 DEF MainInv, Sound
  <2>2. CASE events' = Append(events, x)
    <3>1. x \in Messages /\ x.op = "FRAME_READY" /\ x.arg = nextPoint + 1
      BY <1>2 DEF Messages, Event
    <3>2. toDaemon \o Append(events, x) = Append(Coming, x)
      BY <2>0, <3>1, JoinSeq DEF Coming
    <3>3. Coming' = Append(Coming, x) /\ events' \in Seq(Messages) /\ Coming' \in Seq(Messages)
      BY <1>2, <2>0, <2>2, <3>1, <3>2, AppendProperties DEF Coming
    <3>4. \A op : Has(Coming', op) <=> Has(Coming, op) \/ op = "FRAME_READY"
      BY <2>0, <3>1, <3>3, HasAppend
    <3>5. "FRAME_READY" \notin Got
      <4>1. seen = OnceOnly
        BY <1>3 DEF Served, MainInv, Stages
      <4> QED BY <4>1 DEF Got, OnceOnly, InitReplies
    <3>6. Ordered(Coming', Got)
      BY <1>3, <2>0, <3>1, <3>3, <3>5, OrderedAppend DEF MainInv, Sound
    <3>7. PointsTo(Coming', nextPoint + 1)
      <4>1. nextPoint <= nextPoint + 1 /\ nextPoint + 1 \in Nat /\ x.arg \in 1 .. nextPoint + 1
        BY <1>2, <3>1
      <4> HIDE DEF x
      <4> QED BY <1>2, <2>0, <3>3, <3>1, <4>1, PointsAppend DEF MainInv, Sound
    <3> QED BY <1>2, <3>3, <3>4, <3>6, <3>7
  <2> QED BY <1>2, <2>1, <2>2
<1>5. Mail'
  BY <1>2, <1>4 DEF MainInv, Mail
<1>6. Sound'
  BY <1>1, <1>2, <1>4 DEF MainInv, Sound, DaemonKept
<1>7. Greets' /\ Prepares' /\ Fits' /\ Bounds'
  BY <1>2, <1>3 DEF MainInv, Greets, Prepares, Fits, Bounds, DaemonKept
<1>8. Serves'
  BY <1>2, <1>3, <1>4 DEF MainInv, Serves, DaemonKept
<1>9. Parts'
  BY <1>2, <1>3, <1>4 DEF MainInv, Parts, DaemonKept
<1> QED BY <1>1, <1>5, <1>6, <1>7, <1>8, <1>9 DEF MainInv

\* The painter and the frame thread keep it.
LEMMA FrameMain ==
  ASSUME MainInv, Painting, DaemonKept, Painter \/ FrameThread
  PROVE  MainInv'
<1>1. CASE PublishFrame
  BY <1>1, PublishStep
<1>2. CASE StartPaint \/ RecordPoint \/ PumpWaits \/ NoFrame \/ TakeImage
  <2>1. PumpMoves
    BY <1>2 DEF StartPaint, RecordPoint, PumpWaits, NoFrame, TakeImage, PumpMoves, loopVars, MainInv, Mail
  <2> QED BY <2>1, PumpMovesStep
<1>3. CASE FinishPaint
  <2>1. PumpMoves
    BY <1>3 DEF FinishPaint, EndPaint, PaintFails, PumpMoves, loopVars, Painting, MainInv, Mail
  <2> QED BY <2>1, PumpMovesStep
<1> QED BY <1>1, <1>2, <1>3 DEF Painter, FrameThread

\* What MainInv speaks of.
mainVars ==
  << inst, state, ipc, seen, negotiated, quiesced, poolSize, owned, waiting, termSent,
     phase, pc, toWorker, toDaemon, events, owed, stopping, pump, nextPoint >>

LEMMA MainKept == ASSUME MainInv, UNCHANGED mainVars PROVE MainInv'
<1>1. Coming' = Coming /\ Served' = Served /\ Got' = Got
  BY DEF mainVars, Coming, Served, Got
<1>2. Stages'
  BY DEF mainVars, MainInv, Stages
<1>3. Mail' /\ Sound'
  BY <1>1 DEF mainVars, MainInv, Mail, Sound
<1>4. Greets' /\ Prepares' /\ Fits' /\ Bounds'
  BY <1>1 DEF mainVars, MainInv, Greets, Prepares, Fits, Bounds
<1>5. Serves' /\ Parts'
  BY <1>1 DEF mainVars, MainInv, Serves, Parts
<1> QED BY <1>2, <1>3, <1>4, <1>5 DEF MainInv

-----------------------------------------------------------------------------
(* A session is a behaviour of RendererOwner: the daemon and its process   *)
(* keep what is proved of them there.                                      *)

LEMMA MessagePackets == Messages \subseteq Packets
<1> SUFFICES ASSUME NEW x \in Messages PROVE x \in Packets
  OBVIOUS
<1>1. CASE \E op \in OnceOnly \cup {"ERROR", "QUIESCED"} : x = Event(op, 0)
  <2>1. PICK op \in OnceOnly \cup {"ERROR", "QUIESCED"} : x = Event(op, 0)
    BY <1>1
  <2>2. op \in Opcodes \ {"BIND_BUFFERS", "FRAME_READY"} /\ x = Packet(op, 0)
    BY <2>1 DEF Opcodes, OnceOnly, InitReplies, Event, Packet
  <2> QED BY <2>2 DEF Packets
<1>2. CASE x = Event("BIND_BUFFERS", MaxPool)
  <2>1. MaxPool \in 1 .. MaxPool /\ x = Packet("BIND_BUFFERS", MaxPool)
    BY <1>2, PoolAssumption DEF Event, Packet
  <2> QED BY <2>1 DEF Packets
<1>3. CASE \E p \in 1 .. PointLimit : x = Event("FRAME_READY", p)
  <2>1. PICK p \in 1 .. PointLimit : x = Event("FRAME_READY", p)
    BY <1>3
  <2>2. p \in Points /\ x = Packet("FRAME_READY", p)
    BY <2>1, OneWorker DEF Points, Event, Packet
  <2> QED BY <2>2 DEF Packets
<1> QED BY <1>1, <1>2, <1>3 DEF Messages

\* A step of a session is a step of the owner and its process, or leaves them.
LEMMA StepOfOwner ==
  ASSUME Mail, [Calm \/ Disturbance]_sessionVars
  PROVE  [Next]_vars
<1>1. CASE Configure
  <2>1. (\E id \in Identities \cup {NoIdentity} : ApplyConfig(id, FALSE)) \/ RuntimeCommand
    BY <1>1 DEF Configure, Daemon
  <2> QED BY <2>1 DEF Config, Next
<1>2. CASE ReceiveEvent
  <2>1. Head(toDaemon) \in Packets /\ Receive(Head(toDaemon))
    BY <1>2, MessagePackets DEF ReceiveEvent, Daemon, Mail
  <2> QED BY <2>1 DEF Sources, Next
<1>3. CASE ReadEof \/ Reset \/ Quiet(Reap) \/ Quiet(Deadline)
  BY <1>3 DEF ReadEof, Reset, Quiet, Daemon, Sources, Next
<1>4. CASE Calls \/ Forward \/ Unbound
  BY <1>4 DEF Calls, Forward, Unbound, Quiet, Daemon, Route, Next
<1>5. CASE Closes \/ Ends \/ Crash
  BY <1>5 DEF Closes, Ends, Crash, Worker, Next
<1>6. CASE \/ \E p \in held : ReleasePoint(p)
           \/ WorkerStep(peer /\ Loop(~ipc)) \/ WorkerStep(Painter) \/ WorkerStep(FrameThread)
  BY <1>6 DEF ReleasePoint, WorkerStep
<1>7. CASE UNCHANGED sessionVars
  BY <1>7 DEF sessionVars
<1> QED BY <1>1, <1>2, <1>3, <1>4, <1>5, <1>6, <1>7 DEF Calm, Disturbance, Dispatch

LEMMA MainStart == SessionInit => MainInv
<1> SUFFICES ASSUME SessionInit PROVE MainInv
  OBVIOUS
<1>1. toDaemon = << >> /\ events = << >> /\ toWorker = << >> /\ Coming = << >>
  BY DEF SessionInit, HostInit, Coming
<1>2. /\ inst = 0 /\ state = "EMPTY" /\ ~ipc /\ ~termSent /\ seen = {} /\ ~negotiated /\ ~quiesced
      /\ poolSize = 0 /\ ~owned /\ ~waiting
      /\ phase = "BOOT" /\ pc = "unborn" /\ ~owed /\ ~stopping /\ pump = "off" /\ nextPoint = 0
  BY DEF SessionInit, Init, ProcessInit, HostInit
<1>3. \A op : ~Has(Coming, op)
  BY <1>1, HasNone
<1>4. \A x : ~Asks(toWorker, x)
  BY <1>1, AsksNone
<1>5. Stages
  BY <1>2 DEF Stages, Running, Leaving, Broken, Ended
<1>6. Mail
  BY <1>1, <1>2, PointLimitAssumption DEF Mail
<1>7. Len(Coming) = 0 /\ Len(toWorker) = 0
  BY <1>1
<1>8. Sound
  BY <1>2, <1>3, <1>7 DEF Sound, Ordered, PointsTo
<1>9. Greets /\ Prepares
  BY <1>1, <1>2 DEF Greets, Prepares
<1>10. Fits /\ Bounds
  BY <1>1, <1>2, <1>4, <1>7, OneWorker DEF Fits, Bounds, Open
<1>11. Serves /\ Parts
  BY <1>2, <1>3, <1>4 DEF Serves, Parts, Served
<1> QED BY <1>5, <1>6, <1>8, <1>9, <1>10, <1>11 DEF MainInv

\* Every step of a session keeps the invariant.
LEMMA MainStep ==
  ASSUME TypeOK, HoldInv, MainInv, Painting, [Calm \/ Disturbance]_sessionVars
  PROVE  MainInv'
<1>1. CASE DaemonStep
  BY <1>1, DaemonMain
<1>2. CASE \E p \in held : ReleasePoint(p)
  <2>1. UNCHANGED mainVars
    BY <1>2 DEF ReleasePoint, mainVars, vars, procVars, opVars, ownerVars, workerVars, loopVars, frameVars
  <2> QED BY <2>1, MainKept
<1>3. CASE Closes \/ Ends \/ Crash
  <2>1. UNCHANGED mainVars
    BY <1>3 DEF Closes, Ends, Crash, PeerCloses, LeaderExits, mainVars, opVars, ownerVars, hostVars,
                workerVars, loopVars, frameVars
  <2> QED BY <2>1, MainKept
<1>4. CASE WorkerStep(peer /\ Loop(~ipc)) \/ WorkerStep(Painter) \/ WorkerStep(FrameThread)
  <2>1. DaemonKept
    BY <1>4 DEF WorkerStep, LeaderAlive, DaemonKept, vars, procVars, opVars, ownerVars
  <2>2. CASE WorkerStep(peer /\ Loop(~ipc))
    <3>1. (~ipc) \in BOOLEAN /\ Loop(~ipc)
      BY <2>2 DEF WorkerStep
    <3> QED BY <2>1, <3>1, LoopMain
  <2>3. CASE WorkerStep(Painter) \/ WorkerStep(FrameThread)
    BY <2>1, <2>3, FrameMain DEF WorkerStep
  <2> QED BY <1>4, <2>2, <2>3
<1>5. CASE UNCHANGED sessionVars
  <2>1. UNCHANGED mainVars
    BY <1>5 DEF sessionVars, mainVars, vars, procVars, opVars, ownerVars, hostVars, workerVars, loopVars, frameVars
  <2> QED BY <2>1, MainKept
<1> QED BY <1>1, <1>2, <1>3, <1>4, <1>5 DEF Calm, Disturbance, DaemonStep, CalmStep

-----------------------------------------------------------------------------
(* Types of the worker and of the release points.                          *)

Flags ==
  /\ aside \in Asides
  /\ pc \in {"unborn", "boot", "flush", "poll", "drain", "join", "gone"}
  /\ wake \in BOOLEAN /\ wantOut \in BOOLEAN /\ accepting \in BOOLEAN /\ owed \in BOOLEAN
  /\ stopping \in BOOLEAN /\ pumpStop \in BOOLEAN /\ playing \in BOOLEAN
  /\ Len(toDaemon) <= MaxPackets

\* The three images have one place each in the ring.
Turned(r) ==
  /\ r \in [presented : Slots, ready : Slots, inProgress : Slots, fresh : BOOLEAN]
  /\ {r.presented, r.ready, r.inProgress} = Slots

\* The images and the points they were used for.
Images ==
  /\ pump \in {"off", "wait", "due", "paint", "publish", "record"}
  /\ Turned(ring)
  /\ painting \in {NoSlot, ring.inProgress}
  /\ slotOf \in [1 .. PointLimit -> Slots \cup {NoSlot}]
  /\ slotPoint \in [Slots -> 0 .. nextPoint]
  /\ Painting

\* Nothing counts a point that was not allocated.
Counts ==
  /\ nextPoint \in 0 .. PointLimit /\ timeline \in 0 .. nextPoint
  /\ signaled \in 0 .. timeline /\ lastPoint \in 0 .. nextPoint
  /\ frames \in Seq(1 .. nextPoint)
  /\ held \subseteq 1 .. nextPoint /\ completed \subseteq 1 .. nextPoint

LEMMA HostTypes == Flags /\ Images /\ Counts /\ Mail => HostTypeOK
BY DEF Flags, Images, Turned, Counts, Mail, HostTypeOK

\* Max of FiniteSetsExt is that of two numbers.
LEMMA MaxOfTwo ==
  ASSUME NEW m \in Int, NEW n \in Int
  PROVE  Max({m, n}) = IF m >= n THEN m ELSE n
<1> DEFINE top == IF m >= n THEN m ELSE n
<1>1. top \in {m, n} /\ \A y \in {m, n} : top >= y
  OBVIOUS
<1>2. \A x \in {m, n} : (\A y \in {m, n} : x >= y) => x = top
  OBVIOUS
<1> QED BY <1>1, <1>2 DEF Max

LEMMA FlagsStart == SessionInit => Flags /\ Images /\ Counts
<1> SUFFICES ASSUME SessionInit PROVE Flags /\ Images /\ Counts
  OBVIOUS
<1>1. Flags
  <2>1. Len(toDaemon) = 0 /\ 0 <= MaxPackets
    BY PacketsAssumption DEF SessionInit, HostInit
  <2> QED BY <2>1 DEF SessionInit, HostInit, Flags
<1>2. /\ ring = [presented |-> 0, ready |-> 1, inProgress |-> 2, fresh |-> FALSE]
      /\ pump = "off" /\ painting = NoSlot /\ nextPoint = 0 /\ slotPoint = [s \in Slots |-> 0]
      /\ slotOf = [p \in 1 .. PointLimit |-> NoSlot]
  BY DEF SessionInit, HostInit
<1>3. Images
  BY <1>2 DEF Images, Turned, Painting, Slots
<1>4. Counts
  BY PointLimitAssumption DEF SessionInit, HostInit, Init, ProcessInit, Counts
<1> QED BY <1>1, <1>3, <1>4

\* Only the frame thread and the painter change the images, and a negotiation
\* starts the thread.
LEMMA LoopImages ==
  ASSUME Flags, MainInv, Images, NEW hangup \in BOOLEAN, Loop(hangup), aside' = aside
  PROVE  Flags' /\ Images'
<1>1. CASE Boot
  <2>1. Len(toDaemon') = 1
    BY <1>1 DEF Boot, MainInv, Greets, Flags
  <2> QED
    BY <1>1, <2>1, PacketsAssumption DEF Boot, Flags, Images, Painting, frameVars
<1>2. CASE Flush(hangup)
  <2>1. Len(toDaemon') <= MaxPackets
    BY <1>2, PacketsAssumption DEF Flush, Room, Flags, MainInv, Mail
  <2> QED BY <1>2, <2>1 DEF Flush, Flags, Images, Painting, frameVars
<1>3. CASE Turn
  <2>1. wake' \in BOOLEAN /\ owed' \in BOOLEAN /\ wantOut' \in BOOLEAN /\ pc' \in {"gone", "poll"}
    BY <1>3 DEF Turn, OweQuiesced, Enqueue, Flags
  <2> QED BY <1>3, <2>1 DEF Turn, Flags, Images, Painting, frameVars
<1>4. CASE Poll(hangup) \/ Drained(hangup)
  <2>1. UNCHANGED << toDaemon, wantOut, accepting, owed, stopping, frameVars >> /\ wake' \in BOOLEAN
    BY <1>4 DEF Poll, Drained, Flags
  <2>2. pc' \in {"drain", "flush", "gone"}
    BY <1>4 DEF Poll, Drained
  <2> QED BY <2>1, <2>2 DEF Flags, Images, Painting, frameVars
<1>5. CASE Joined
  BY <1>5 DEF Joined, Flags, Images, Painting
<1>6. CASE Drain
  <2>1. UNCHANGED << toDaemon, timeline, wantOut >> /\ pc = "drain" /\ pc' = After(Head(toWorker))
        /\ toWorker # << >>
    BY <1>6 DEF Drain
  <2>2. pc' \in {"flush", "join", "gone", "drain"}
    BY <2>1 DEF After
  <2>3. Accepts(Head(toWorker))
    BY <2>1, CommandFits
  <2>4. HandleInit \/ (HandleNegotiate /\ Head(toWorker) = "NEGOTIATE_BUFFERS") \/ HandleRuntime
        \/ HandleQuiesce \/ HandleShutdown
    BY <1>6, <2>3 DEF Drain
  <2>5. /\ wake' \in BOOLEAN /\ accepting' \in BOOLEAN /\ owed' \in BOOLEAN /\ stopping' \in BOOLEAN
        /\ pumpStop' \in BOOLEAN /\ playing' = playing
    BY <2>4 DEF HandleInit, HandleNegotiate, HandleRuntime, HandleQuiesce, HandleShutdown, Enqueue,
                EnqueueError, Flags, frameVars
  <2>6. UNCHANGED << ring, painting, slotOf, slotPoint, nextPoint >>
    BY <2>4 DEF HandleInit, HandleNegotiate, HandleRuntime, HandleQuiesce, HandleShutdown, frameVars
  <2>7. pump' = pump \/ (pump' = "wait" /\ Head(toWorker) = "NEGOTIATE_BUFFERS")
    BY <2>4 DEF HandleInit, HandleNegotiate, HandleRuntime, HandleQuiesce, HandleShutdown, frameVars
  <2>8. Head(toWorker) = "NEGOTIATE_BUFFERS" => pump = "off"
    <3>1. Len(toWorker) > 0 /\ Head(toWorker) = toWorker[1]
      BY <2>1 DEF MainInv, Mail
    <3>2. Len(toWorker) \in Nat
      BY DEF MainInv, Mail
    <3>3. Head(toWorker) = "NEGOTIATE_BUFFERS" => Asks(toWorker, "NEGOTIATE_BUFFERS")
      BY <3>1, <3>2 DEF Asks
    <3> QED BY <3>3 DEF MainInv, Serves, Served
  <2>9. Images'
    BY <2>6, <2>7, <2>8 DEF Images, Painting
  <2> QED BY <2>1, <2>2, <2>5, <2>9 DEF Flags
<1> QED BY <1>1, <1>2, <1>3, <1>4, <1>5, <1>6 DEF Loop


\* Turning the images of the ring.
LEMMA RingTurns ==
  ASSUME NEW r, Turned(r)
  PROVE  /\ Turned(MarkReady(r)) /\ Turned(Eat(r))
         /\ MarkReady(r).presented = r.presented /\ MarkReady(r).ready = r.inProgress
         /\ MarkReady(r).inProgress = r.ready /\ MarkReady(r).fresh = TRUE
         /\ Eat(r).presented = r.ready /\ Eat(r).ready = r.presented
         /\ Eat(r).inProgress = r.inProgress /\ Eat(r).fresh = FALSE
         /\ r.presented \in Slots /\ r.ready \in Slots /\ r.inProgress \in Slots
         /\ r.presented # r.ready /\ r.presented # r.inProgress /\ r.ready # r.inProgress
         /\ r.fresh \in BOOLEAN
<1> USE DEF Turned
<1>1. r.presented \in Slots /\ r.ready \in Slots /\ r.inProgress \in Slots /\ r.fresh \in BOOLEAN
  OBVIOUS
<1>2. r.presented # r.ready /\ r.presented # r.inProgress /\ r.ready # r.inProgress
  <2>1. 0 \in {r.presented, r.ready, r.inProgress} /\ 1 \in {r.presented, r.ready, r.inProgress}
        /\ 2 \in {r.presented, r.ready, r.inProgress}
    BY DEF Slots
  <2> QED BY <2>1
<1> DEFINE Ring == [presented : Slots, ready : Slots, inProgress : Slots, fresh : BOOLEAN]
<1>3. /\ MarkReady(r) \in Ring
      /\ MarkReady(r).presented = r.presented /\ MarkReady(r).ready = r.inProgress
      /\ MarkReady(r).inProgress = r.ready /\ MarkReady(r).fresh = TRUE
  BY <1>1 DEF MarkReady
<1>4. /\ Eat(r) \in Ring
      /\ Eat(r).presented = r.ready /\ Eat(r).ready = r.presented
      /\ Eat(r).inProgress = r.inProgress /\ Eat(r).fresh = FALSE
  BY <1>1 DEF Eat
<1>5. {r.presented, r.ready, r.inProgress} = {r.presented, r.inProgress, r.ready}
      /\ {r.presented, r.ready, r.inProgress} = {r.ready, r.presented, r.inProgress}
  OBVIOUS
<1>6. Turned(MarkReady(r))
  BY <1>3, <1>5
<1>7. Turned(Eat(r))
  BY <1>4, <1>5
<1> HIDE DEF Turned
<1> QED BY <1>1, <1>2, <1>3, <1>4, <1>6, <1>7

LEMMA FrameImages ==
  ASSUME Flags, MainInv, Images, Counts, aside' = aside, Painter \/ FrameThread
  PROVE  Flags' /\ Images'
<1>1. Flags'
  <2>1. CASE PublishFrame
    BY <2>1 DEF PublishFrame, Enqueue, Flags
  <2>2. CASE ~PublishFrame
    <3>1. UNCHANGED << toDaemon, loopVars, playing, pumpStop >>
      BY <2>2 DEF Painter, FrameThread, StartPaint, FinishPaint, EndPaint, PaintFails, PumpWaits, NoFrame,
                  TakeImage, RecordPoint
    <3> QED BY <3>1 DEF Flags, loopVars
  <2> QED BY <2>1, <2>2
<1> SUFFICES Images'
  BY <1>1
<1>2. Turned(ring) /\ aside \in BOOLEAN /\ ring.inProgress # NoSlot
  <2>1. Turned(ring)
    BY DEF Images
  <2>2. ring.inProgress \in Slots
    BY <2>1, RingTurns
  <2> QED BY <2>1, <2>2, AsidesAssumption DEF Flags, Slots, NoSlot
<1>3. CASE StartPaint
  BY <1>2, <1>3 DEF StartPaint, Images, Painting
<1>4. CASE EndPaint
  <2>1. ring' = IF aside THEN MarkReady(ring) ELSE Eat(MarkReady(ring))
    BY <1>4 DEF EndPaint
  <2>2. Turned(MarkReady(ring)) /\ Turned(Eat(MarkReady(ring))) /\ Eat(MarkReady(ring)).fresh = FALSE
    <3>1. Turned(MarkReady(ring))
      BY <1>2, RingTurns
    <3> QED BY <3>1, RingTurns
  <2>3. Turned(ring') /\ (~aside => ~ring'.fresh)
    BY <1>2, <2>1, <2>2
  <2> QED BY <1>2, <1>4, <2>3 DEF EndPaint, Images, Painting
<1>5. CASE PaintFails
  BY <1>2, <1>5 DEF PaintFails, Images, Painting
<1>6. CASE TakeImage
  <2>1. ring' = Eat(ring) /\ aside /\ painting' = painting
    BY <1>6 DEF TakeImage
  <2>2. Turned(ring') /\ ring'.inProgress = ring.inProgress
    BY <1>2, <2>1, RingTurns
  <2> QED BY <1>2, <1>6, <2>1, <2>2 DEF TakeImage, Images, Painting
<1>7. CASE PublishFrame
  <2>1. nextPoint + 1 \in 1 .. PointLimit /\ nextPoint' = nextPoint + 1 /\ nextPoint \in Nat
    BY <1>7, PointLimitAssumption DEF PublishFrame, MainInv, Mail
  <2>2. slotOf' \in [1 .. PointLimit -> Slots \cup {NoSlot}]
    BY <1>2, <1>7, <2>1, RingTurns DEF PublishFrame, Images
  <2>3. slotPoint' \in [Slots -> 0 .. nextPoint']
    BY <1>7, <2>1 DEF PublishFrame, Images
  <2>4. pump = "publish" /\ pump' \in {"record", "off"} /\ UNCHANGED << ring, painting >>
    BY <1>7 DEF PublishFrame
  <2> QED BY <2>2, <2>3, <2>4 DEF Images, Painting
<1>8. CASE RecordPoint
  <2>1. slotPoint' \in [Slots -> 0 .. nextPoint']
    <3>1. ring.presented \in Slots
      BY <1>2, RingTurns
    <3>2. nextPoint \in 0 .. nextPoint
      BY PointLimitAssumption DEF Counts
    <3> QED BY <1>8, <3>1, <3>2 DEF RecordPoint, Images
  <2> QED BY <1>8, <2>1 DEF RecordPoint, Images, Painting
<1>9. CASE PumpWaits \/ NoFrame
  BY <1>9 DEF PumpWaits, NoFrame, Images, Painting
<1> QED BY <1>1, <1>3, <1>4, <1>5, <1>6, <1>7, <1>8, <1>9 DEF Painter, FrameThread, FinishPaint

\* The route's frames and the last of them, through a step of the daemon.
LEMMA FramesStep ==
  ASSUME MainInv, Counts, HostKept, Shape
  PROVE  frames' \in Seq(1 .. nextPoint) /\ lastPoint' \in 0 .. nextPoint
<1>1. nextPoint \in Nat /\ frames \in Seq(1 .. nextPoint) /\ lastPoint \in 0 .. nextPoint
  BY PointLimitAssumption DEF Counts
<1>2. CASE ReadsFrame
  <2>1. Head(toDaemon).arg \in 1 .. nextPoint
    <3>1. inst' = inst /\ Reads("FRAME_READY")
      BY <1>2 DEF ReadsFrame, Stage
    <3> QED BY <3>1, ReadsOne
  <2>2. frames' = Append(frames, Head(toDaemon).arg) /\ lastPoint' = Head(toDaemon).arg
    BY <1>2 DEF ReadsFrame
  <2> QED BY <1>1, <2>1, <2>2
<1>3. CASE Takes
  BY <1>1, <1>3 DEF Takes, Rest
<1>4. CASE Spawns \/ Reaps
  <2>1. frames' = << >> /\ (lastPoint' = 0 \/ lastPoint' = lastPoint)
    BY <1>4 DEF Spawns, Reaps
  <2>2. << >> \in Seq(1 .. nextPoint)
    BY EmptySeq
  <2> QED BY <1>1, <2>1, <2>2
<1>5. CASE frames' = frames /\ lastPoint' = lastPoint
  BY <1>1, <1>5
<1> QED
  BY <1>2, <1>3, <1>4, <1>5
     DEF Shape, Orderly, Rests, Rest, Tells, Fails, ReadsHello, ReadsReply, ReadsPool, ReadsQuiesced, Negotiates,
         Quiesces, ShutsDown, HangsUp

LEMMA DaemonCounts ==
  ASSUME MainInv, Counts, HostKept, Shape, DaemonStep
  PROVE  Counts'
<1>1. frames' \in Seq(1 .. nextPoint) /\ lastPoint' \in 0 .. nextPoint /\ nextPoint' = nextPoint
  BY FramesStep DEF HostKept, frameVars
<1>2. /\ nextPoint \in 0 .. PointLimit /\ timeline \in 0 .. nextPoint /\ signaled \in 0 .. timeline
      /\ lastPoint \in 0 .. nextPoint /\ nextPoint \in Nat
      /\ held \subseteq 1 .. nextPoint /\ completed \subseteq 1 .. nextPoint
  BY PointLimitAssumption DEF Counts
<1>3. CASE UNCHANGED << timeline, tableVars >>
  BY <1>1, <1>2, <1>3 DEF Counts, tableVars
<1>4. CASE Forward
  <2>1. frames # << >> /\ held' = held \cup {Head(frames)} /\ UNCHANGED << timeline, completed, signaled >>
    BY <1>4 DEF Forward, Daemon, NextFrame, TakeFrame
  <2>2. Head(frames) \in 1 .. nextPoint
    BY <2>1 DEF Counts
  <2> QED BY <1>1, <1>2, <2>1, <2>2 DEF Counts
<1>5. CASE Unbound
  <2>1. CASE timeline' = Max({timeline, lastPoint}) /\ signaled' = lastPoint /\ completed' = {} /\ held' = held
    <3>1. Max({timeline, lastPoint}) = IF timeline >= lastPoint THEN timeline ELSE lastPoint
      BY <1>2, MaxOfTwo
    <3> QED BY <1>1, <1>2, <2>1, <3>1 DEF Counts
  <2>2. CASE UNCHANGED << timeline, tableVars >>
    BY <1>3, <2>2
  <2> QED BY <1>5, <2>1, <2>2 DEF Unbound, RetireTimeline, tableVars
<1> QED
  BY <1>3, <1>4, <1>5 DEF DaemonStep, CalmStep, Configure, Dispatch, ReceiveEvent, ReadEof, Reset, Quiet, Calls, tableVars

LEMMA ReleaseCounts ==
  ASSUME Counts, NEW p, ReleasePoint(p)
  PROVE  Counts'
<1>1. /\ nextPoint \in 0 .. PointLimit /\ timeline \in 0 .. nextPoint /\ signaled \in 0 .. timeline
      /\ lastPoint \in 0 .. nextPoint /\ nextPoint \in Nat /\ p \in 1 .. nextPoint
      /\ held \subseteq 1 .. nextPoint /\ completed \subseteq 1 .. nextPoint
      /\ frames \in Seq(1 .. nextPoint)
  BY PointLimitAssumption DEF Counts, ReleasePoint
<1>2. UNCHANGED << nextPoint, lastPoint, frames >> /\ held' = held \ {p}
  BY DEF ReleasePoint, vars, procVars, dataVars, workerVars, frameVars
<1>3. CASE UNCHANGED << signaled, completed, timeline >>
  BY <1>1, <1>2, <1>3 DEF Counts
<1>4. CASE \E h \in RunEnds(completed \cup {p}) :
             /\ signaled' = h
             /\ completed' = {q \in completed \cup {p} : q > h}
             /\ timeline' = Max({timeline, h})
  <2>1. PICK h \in RunEnds(completed \cup {p}) :
             /\ signaled' = h
             /\ completed' = {q \in completed \cup {p} : q > h}
             /\ timeline' = Max({timeline, h})
    BY <1>4
  <2>2. h \in 0 .. nextPoint
    BY <1>1, <2>1 DEF RunEnds
  <2>3. Max({timeline, h}) = IF timeline >= h THEN timeline ELSE h
    BY <1>1, <2>2, MaxOfTwo
  <2>4. timeline' \in 0 .. nextPoint /\ signaled' \in 0 .. timeline'
    BY <1>1, <2>1, <2>2, <2>3
  <2>5. completed' \subseteq 1 .. nextPoint /\ held' \subseteq 1 .. nextPoint
    BY <1>1, <1>2, <2>1
  <2> QED BY <1>1, <1>2, <2>4, <2>5 DEF Counts
<1> QED BY <1>3, <1>4 DEF ReleasePoint

LEMMA WorkerCounts ==
  ASSUME Counts, UNCHANGED vars, UNCHANGED tableVars,
         \/ UNCHANGED << timeline, nextPoint >>
         \/ PublishFrame /\ nextPoint < PointLimit
  PROVE  Counts'
<1>1. /\ nextPoint \in 0 .. PointLimit /\ timeline \in 0 .. nextPoint /\ signaled \in 0 .. timeline
      /\ lastPoint \in 0 .. nextPoint /\ nextPoint \in Nat
      /\ held \subseteq 1 .. nextPoint /\ completed \subseteq 1 .. nextPoint
      /\ frames \in Seq(1 .. nextPoint)
  BY PointLimitAssumption DEF Counts
<1>2. UNCHANGED << lastPoint, frames, held, completed, signaled >>
  BY DEF vars, procVars, dataVars, tableVars
<1>3. CASE UNCHANGED << timeline, nextPoint >>
  BY <1>1, <1>2, <1>3 DEF Counts
<1>4. CASE PublishFrame /\ nextPoint < PointLimit
  <2>1. nextPoint' = nextPoint + 1 /\ (timeline' = timeline \/ timeline' = Max({timeline, nextPoint + 1}))
    BY <1>4 DEF PublishFrame
  <2>2. Max({timeline, nextPoint + 1}) = nextPoint + 1
    BY <1>1, MaxOfTwo
  <2>3. nextPoint' \in 0 .. PointLimit /\ timeline' \in 0 .. nextPoint' /\ signaled' \in 0 .. timeline'
        /\ lastPoint' \in 0 .. nextPoint'
    BY <1>1, <1>2, <1>4, <2>1, <2>2, PointLimitAssumption
  <2>4. 1 .. nextPoint \subseteq 1 .. nextPoint'
    BY <1>1, <2>1
  <2>5. frames \in Seq(1 .. nextPoint')
    BY <1>1, <2>4, SeqMonotonic
  <2> QED BY <1>1, <1>2, <2>3, <2>4, <2>5 DEF Counts
<1> QED BY <1>3, <1>4

\* Every step of a session keeps the types.
LEMMA TypesStep ==
  ASSUME TypeOK, HoldInv, MainInv, Flags, Images, Counts, [Calm \/ Disturbance]_sessionVars
  PROVE  Flags' /\ Images' /\ Counts'
<1>1. CASE DaemonStep
  <2>1. HostKept /\ Shape
    BY <1>1, DaemonShape DEF MainInv
  <2>2. Counts'
    BY <1>1, <2>1, DaemonCounts
  <2>3. Images'
    BY <2>1 DEF HostKept, frameVars, Images, Painting
  <2>4. Len(toDaemon') <= MaxPackets
    <3>1. toDaemon' = toDaemon \/ (toDaemon # << >> /\ toDaemon' = Tail(toDaemon))
      BY <1>1 DEF DaemonStep, CalmStep, Configure, Dispatch, ReceiveEvent, ReadEof, Reset, Quiet, Calls, Forward, Unbound
    <3>2. toDaemon # << >> => Len(Tail(toDaemon)) = Len(toDaemon) - 1 /\ Len(toDaemon) \in Nat
      BY TailIs DEF MainInv, Mail
    <3> QED BY <3>1, <3>2, PacketsAssumption DEF Flags
  <2> QED BY <2>1, <2>2, <2>3, <2>4 DEF HostKept, frameVars, Flags
<1>2. CASE \E p \in held : ReleasePoint(p)
  <2>1. UNCHANGED << aside, toDaemon, workerVars >>
    BY <1>2 DEF ReleasePoint
  <2>2. Flags' /\ Images'
    BY <2>1 DEF workerVars, loopVars, frameVars, Flags, Images, Painting
  <2> QED BY <1>2, <2>2, ReleaseCounts
<1>3. CASE Closes \/ Ends \/ Crash \/ UNCHANGED sessionVars
  <2>1. UNCHANGED hostVars /\ UNCHANGED tableVars /\ UNCHANGED << frames, lastPoint >>
    BY <1>3 DEF Closes, Ends, Crash, PeerCloses, LeaderExits, sessionVars, vars, procVars, dataVars
  <2> QED
    BY <2>1 DEF hostVars, tableVars, workerVars, loopVars, frameVars, Flags, Images, Painting, Counts
<1>4. CASE WorkerStep(peer /\ Loop(~ipc)) \/ WorkerStep(Painter) \/ WorkerStep(FrameThread)
  <2>1. UNCHANGED vars /\ UNCHANGED tableVars /\ aside' = aside
    BY <1>4 DEF WorkerStep
  <2>2. CASE WorkerStep(peer /\ Loop(~ipc))
    <3>1. (~ipc) \in BOOLEAN /\ Loop(~ipc)
      BY <2>2 DEF WorkerStep
    <3>2. UNCHANGED << timeline, nextPoint >>
      BY <3>1 DEF Loop, Boot, Flush, Turn, Poll, Drain, Drained, Joined, HandleInit, HandleNegotiate,
                  HandleRuntime, HandleQuiesce, HandleShutdown, Refuse, frameVars
    <3> QED BY <2>1, <3>1, <3>2, LoopImages, WorkerCounts
  <2>3. CASE WorkerStep(Painter) \/ WorkerStep(FrameThread)
    <3>1. Painter \/ FrameThread
      BY <2>3 DEF WorkerStep
    <3>2. UNCHANGED << timeline, nextPoint >> \/ (PublishFrame /\ nextPoint < PointLimit)
      BY <3>1 DEF Painter, FrameThread, FinishPaint, StartPaint, EndPaint, PaintFails, PumpWaits, NoFrame,
                  TakeImage, RecordPoint, PublishFrame, MainInv, Mail
    <3> QED BY <2>1, <3>1, <3>2, FrameImages, WorkerCounts
  <2> QED BY <1>4, <2>2, <2>3
<1> QED BY <1>1, <1>2, <1>3, <1>4 DEF Calm, Disturbance, DaemonStep, CalmStep

-----------------------------------------------------------------------------
(* The invariant of a session and what it shows.                           *)

SessionInv == TypeOK /\ GroupInv /\ HoldInv /\ MainInv /\ Flags /\ Images /\ Counts

SessionNext == Calm \/ Disturbance

LEMMA SessionStart == SessionInit => SessionInv
<1> SUFFICES ASSUME SessionInit PROVE SessionInv
  OBVIOUS
<1>1. Init
  BY DEF SessionInit
<1>2. TypeOK
  BY <1>1, TypeCorrectInit
<1>3. GroupInv /\ HoldInv
  BY <1>1 DEF Init, ProcessInit, GroupInv, HoldInv, BarrierBeforeNegotiation,
              ShutdownAfterUnbind, Instances
<1> QED BY <1>2, <1>3, MainStart, FlagsStart DEF SessionInv

LEMMA SessionStep == SessionInv /\ [SessionNext]_sessionVars => SessionInv'
<1> SUFFICES ASSUME SessionInv, [SessionNext]_sessionVars PROVE SessionInv'
  OBVIOUS
<1> USE DEF SessionNext
<1>1. TypeOK /\ GroupInv /\ HoldInv /\ MainInv /\ Flags /\ Images /\ Counts /\ Mail /\ Painting
  BY DEF SessionInv, MainInv, Images
<1>2. [Next]_vars
  BY <1>1, StepOfOwner
<1>3. TypeOK' /\ GroupInv' /\ HoldInv'
  BY <1>1, <1>2, TypeCorrectStep, GroupStep, HoldStep
<1>4. MainInv'
  BY <1>1, MainStep
<1>5. Flags' /\ Images' /\ Counts'
  BY <1>1, TypesStep
<1> QED BY <1>3, <1>4, <1>5 DEF SessionInv

\* A session is a behaviour of the owner and its worker: everything that is proved of
\* RendererOwner holds in it.
THEOREM SessionImplements == SessionSpec => Spec
<1>1. SessionInit => Init
  BY DEF SessionInit
<1>2. SessionInv /\ [SessionNext]_sessionVars => [Next]_vars
  BY StepOfOwner DEF SessionInv, MainInv, SessionNext
<1> QED BY <1>1, <1>2, SessionStart, SessionStep, PTL DEF SessionSpec, Spec, SessionNext

\* Every command arrives in a phase that takes it: in whatever order the loop, the frame
\* thread and the daemon run, and whatever breaks.
THEOREM CommandsHold == SessionSpec => []NoCommandRefused
<1>1. SessionInv => NoCommandRefused
  <2> SUFFICES ASSUME SessionInv PROVE NoCommandRefused
    OBVIOUS
  <2>1. MainInv /\ Flags /\ Images /\ Counts /\ Mail
    BY DEF SessionInv, MainInv
  <2>2. HostTypeOK
    BY <2>1, HostTypes
  <2>3. SessionTypeOK
    BY <2>1, <2>2 DEF SessionTypeOK, Counts, MainInv, Bounds
  <2>4. pc = "drain" /\ toWorker # << >> => Accepts(Head(toWorker))
    BY <2>1, CommandFits
  <2> QED BY <2>3, <2>4 DEF NoCommandRefused
<1> QED BY <1>1, SessionStart, SessionStep, PTL DEF SessionSpec, SessionNext

-----------------------------------------------------------------------------
(* The release points of a session leave the worker in order and stay in     *)
(* order on the socket, with the route and with the consumers (InOrder); the *)
(* slots of those that are out are different ones (Slotted), and a slot that *)
(* is out has its gate shut (Guarded).  So the frame thread writes no slot   *)
(* that is read, a frame that arrives always finds room with the daemon, and *)
(* a healthy worker is not taken for a broken one.                           *)

-----------------------------------------------------------------------------
(* The order of the release points.                                        *)

\* The frames of q are in the order of their points, and above n.
Rising(q)     == \A i, j \in 1 .. Len(q) :
                   i < j /\ q[i].op = "FRAME_READY" /\ q[j].op = "FRAME_READY" => q[i].arg < q[j].arg
Above(q, n)   == \A i \in 1 .. Len(q) : q[i].op = "FRAME_READY" => n < q[i].arg
Carries(q, p) == \E i \in 1 .. Len(q) : q[i].op = "FRAME_READY" /\ q[i].arg = p
Climbs(s)     == \A i, j \in 1 .. Len(s) : i < j => s[i] < s[j]
Lists(s, p)   == \E i \in 1 .. Len(s) : s[i] = p

\* A point passes from the socket to the route's frames, to the consumers and to the
\* completed ones, in the order the points were given out.
InOrder ==
  /\ Rising(Coming) /\ Above(Coming, lastPoint)
  /\ Climbs(frames) /\ \A p \in 1 .. nextPoint : Lists(frames, p) => p <= lastPoint
  /\ \A p \in held \cup completed : p <= lastPoint /\ \A q \in 1 .. nextPoint : Lists(frames, q) => p < q
  /\ held \cap completed = {}

\* The points whose slots someone may still read.
Out == {p \in 1 .. nextPoint : p \in held \/ Lists(frames, p) \/ Carries(Coming, p)}

LEMMA RisingTail ==
  ASSUME NEW q \in Seq(Messages), q # << >>
  PROVE  /\ Rising(q) => Rising(Tail(q)) /\ (Head(q).op = "FRAME_READY" => Above(Tail(q), Head(q).arg))
         /\ \A n : Above(q, n) => Above(Tail(q), n) /\ (Head(q).op = "FRAME_READY" => n < Head(q).arg)
         /\ \A p : Carries(Tail(q), p) => Carries(q, p)
         /\ Head(q).op = "FRAME_READY" => Carries(q, Head(q).arg)
<1>1. /\ 1 \in 1 .. Len(q) /\ Head(q) = q[1]
      /\ \A i \in 1 .. Len(Tail(q)) : Tail(q)[i] = q[i + 1] /\ i + 1 \in 1 .. Len(q)
  BY TailIs
<1>2. PICK r : r = Tail(q)
  OBVIOUS
<1>3. /\ \A i \in 1 .. Len(r) : r[i] = q[i + 1] /\ i + 1 \in 1 .. Len(q) /\ 1 < i + 1
      /\ \A i, j \in 1 .. Len(r) : i < j => i + 1 < j + 1
  BY <1>1, <1>2
<1>4. Rising(q) => Rising(r)
  BY <1>3 DEF Rising
<1>5. Rising(q) /\ Head(q).op = "FRAME_READY" => Above(r, Head(q).arg)
  BY <1>1, <1>3 DEF Rising, Above
<1>6. \A n : Above(q, n) => Above(r, n) /\ (Head(q).op = "FRAME_READY" => n < Head(q).arg)
  BY <1>1, <1>3 DEF Above
<1>7. \A p : Carries(r, p) => Carries(q, p)
  BY <1>3 DEF Carries
<1>8. Head(q).op = "FRAME_READY" => Carries(q, Head(q).arg)
  BY <1>1 DEF Carries
<1> QED BY <1>2, <1>4, <1>5, <1>6, <1>7, <1>8

LEMMA RisingJoin ==
  ASSUME NEW q \in Seq(Messages), NEW s \in Seq(Messages), ~Has(s, "FRAME_READY")
  PROVE  /\ Rising(q) => Rising(q \o s)
         /\ \A n : Above(q, n) => Above(q \o s, n)
         /\ \A p : Carries(q \o s, p) <=> Carries(q, p)
<1>1. PICK r : r = q \o s
  OBVIOUS
<1>2. /\ Len(q) \in Nat /\ \A i \in 1 .. Len(q) : r[i] = q[i] /\ i \in 1 .. Len(r)
      /\ \A i \in 1 .. Len(r) : i \in 1 .. Len(q) \/ r[i].op # "FRAME_READY"
  <2>1. Len(r) = Len(q) + Len(s) /\ Len(q) \in Nat /\ Len(s) \in Nat
    BY <1>1
  <2>2. \A i \in 1 .. Len(q) : r[i] = q[i] /\ i \in 1 .. Len(r)
    BY <1>1
  <2>3. ASSUME NEW i \in 1 .. Len(r), i \notin 1 .. Len(q)
        PROVE  r[i].op # "FRAME_READY"
    <3>1. r[i] = s[i - Len(q)] /\ i - Len(q) \in 1 .. Len(s)
      BY <1>1, <2>1, <2>3
    <3> QED BY <3>1 DEF Has
  <2> QED BY <2>1, <2>2, <2>3
<1>3. Rising(q) => Rising(r)
  BY <1>2 DEF Rising
<1>4. \A n : Above(q, n) => Above(r, n)
  BY <1>2 DEF Above
<1>5. \A p : Carries(r, p) <=> Carries(q, p)
  BY <1>2 DEF Carries
<1> QED BY <1>1, <1>3, <1>4, <1>5

LEMMA RisingAppend ==
  ASSUME NEW q \in Seq(Messages), NEW x \in Messages, x.op = "FRAME_READY",
         Rising(q), NEW n \in Nat, PointsTo(q, n), x.arg = n + 1
  PROVE  /\ Rising(Append(q, x))
         /\ \A k \in 0 .. n : Above(q, k) => Above(Append(q, x), k)
         /\ \A p : Carries(Append(q, x), p) <=> Carries(q, p) \/ p = n + 1
<1>1. PICK r : r = Append(q, x)
  OBVIOUS
<1>2. /\ Len(r) = Len(q) + 1 /\ Len(q) \in Nat /\ r[Len(q) + 1] = x /\ Len(q) + 1 \in 1 .. Len(r)
      /\ \A i \in 1 .. Len(q) : r[i] = q[i] /\ i \in 1 .. Len(r)
      /\ \A i \in 1 .. Len(r) : i \in 1 .. Len(q) \/ i = Len(q) + 1
      /\ \A i \in 1 .. Len(r) : ~(Len(q) + 1 < i)
  BY <1>1
<1>3. \A i \in 1 .. Len(q) : q[i].op = "FRAME_READY" => q[i].arg < n + 1
  BY DEF PointsTo
<1>4. Rising(r)
  BY <1>2, <1>3 DEF Rising
<1>5. \A k \in 0 .. n : Above(q, k) => Above(r, k)
  BY <1>2 DEF Above
<1>6. \A p : Carries(r, p) <=> Carries(q, p) \/ p = n + 1
  BY <1>2 DEF Carries
<1> QED BY <1>1, <1>4, <1>5, <1>6

\* The frames of the route.
LEMMA ClimbsTail ==
  ASSUME NEW n \in Nat, NEW s \in Seq(1 .. n), s # << >>, Climbs(s)
  PROVE  /\ Climbs(Tail(s)) /\ Head(s) \in 1 .. n /\ Lists(s, Head(s))
         /\ \A p : Lists(Tail(s), p) => Lists(s, p)
         /\ \A p \in 1 .. n : Lists(Tail(s), p) => Head(s) < p
<1>1. /\ 1 \in 1 .. Len(s) /\ Head(s) = s[1] /\ Head(s) \in 1 .. n
      /\ \A i \in 1 .. Len(Tail(s)) : Tail(s)[i] = s[i + 1] /\ i + 1 \in 1 .. Len(s)
  BY TailIs
<1>2. PICK r : r = Tail(s)
  OBVIOUS
<1>3. /\ \A i \in 1 .. Len(r) : r[i] = s[i + 1] /\ i + 1 \in 1 .. Len(s) /\ 1 < i + 1
      /\ \A i, j \in 1 .. Len(r) : i < j => i + 1 < j + 1
  BY <1>1, <1>2
<1>4. Climbs(r)
  BY <1>3 DEF Climbs
<1>5. \A p : Lists(r, p) => Lists(s, p) /\ Head(s) < p
  BY <1>1, <1>3 DEF Lists, Climbs
<1>6. Lists(s, Head(s))
  BY <1>1 DEF Lists
<1> QED BY <1>1, <1>2, <1>4, <1>5, <1>6

LEMMA ClimbsAppend ==
  ASSUME NEW n \in Nat, NEW s \in Seq(1 .. n), Climbs(s), NEW x \in 1 .. n,
         \A p \in 1 .. n : Lists(s, p) => p < x
  PROVE  /\ Climbs(Append(s, x))
         /\ \A p : Lists(Append(s, x), p) <=> Lists(s, p) \/ p = x
<1>1. PICK r : r = Append(s, x)
  OBVIOUS
<1>2. /\ Len(r) = Len(s) + 1 /\ Len(s) \in Nat /\ r[Len(s) + 1] = x /\ Len(s) + 1 \in 1 .. Len(r)
      /\ \A i \in 1 .. Len(s) : r[i] = s[i] /\ i \in 1 .. Len(r) /\ s[i] \in 1 .. n
      /\ \A i \in 1 .. Len(r) : i \in 1 .. Len(s) \/ i = Len(s) + 1
      /\ \A i \in 1 .. Len(r) : ~(Len(s) + 1 < i)
  BY <1>1
<1>3. \A i \in 1 .. Len(s) : s[i] < x
  BY <1>2 DEF Lists
<1>4. Climbs(r)
  BY <1>2, <1>3 DEF Climbs
<1>5. \A p : Lists(r, p) <=> Lists(s, p) \/ p = x
  BY <1>2 DEF Lists
<1> QED BY <1>1, <1>4, <1>5

LEMMA NoLists == Climbs(<< >>) /\ \A p : ~Lists(<< >>, p)
BY DEF Climbs, Lists

LEMMA OrderValues ==
  ASSUME MainInv, Counts
  PROVE  /\ nextPoint \in Nat /\ lastPoint \in 0 .. nextPoint /\ frames \in Seq(1 .. nextPoint)
         /\ Coming \in Seq(Messages) /\ PointsTo(Coming, nextPoint)
         /\ held \subseteq 1 .. nextPoint /\ completed \subseteq 1 .. nextPoint
         /\ signaled \in 0 .. timeline /\ timeline \in 0 .. nextPoint
         /\ \A p : Lists(frames, p) => p \in 1 .. nextPoint
         /\ \A p : Carries(Coming, p) => p \in 1 .. nextPoint
<1>1. Coming \in Seq(Messages) /\ nextPoint \in Nat /\ PointsTo(Coming, nextPoint)
  BY ComingSeq DEF MainInv, Sound
<1>2. frames \in Seq(1 .. nextPoint)
  BY DEF Counts
<1>3. \A p : Lists(frames, p) => p \in 1 .. nextPoint
  <2>1. \A i \in 1 .. Len(frames) : frames[i] \in 1 .. nextPoint
    BY <1>2, ElementOfSeq
  <2> QED BY <2>1 DEF Lists
<1>4. \A p : Carries(Coming, p) => p \in 1 .. nextPoint
  BY <1>1 DEF Carries, PointsTo
<1> QED BY <1>1, <1>2, <1>3, <1>4 DEF Counts

\* What a step of the daemon does to its frames.
LEMMA ShapeFrames ==
  ASSUME MainInv, HostKept, Shape
  PROVE  \/ UNCHANGED << frames, lastPoint >>
         \/ frames' = << >> /\ lastPoint' = lastPoint
         \/ frames' = << >> /\ lastPoint' = 0 /\ nextPoint = 0
         \/ frames # << >> /\ frames' = Tail(frames) /\ lastPoint' = lastPoint
         \/ /\ toDaemon # << >> /\ toDaemon' = Tail(toDaemon) /\ Head(toDaemon).op = "FRAME_READY"
            /\ frames' = Append(frames, Head(toDaemon).arg) /\ lastPoint' = Head(toDaemon).arg
<1>1. CASE ReadsFrame
  BY <1>1 DEF ReadsFrame, Reads
<1>2. CASE Takes
  BY <1>2 DEF Takes, Rest
<1>3. CASE Spawns
  <2>1. inst = 0
    BY <1>3 DEF Spawns
  <2>2. nextPoint = 0
    BY <2>1 DEF MainInv, Greets, Serves
  <2> QED BY <1>3, <2>2 DEF Spawns
<1>4. CASE Reaps
  BY <1>4 DEF Reaps
<1> QED
  BY <1>1, <1>2, <1>3, <1>4
     DEF Shape, Orderly, Rests, Rest, Tells, Fails, ReadsHello, ReadsReply, ReadsPool, ReadsQuiesced,
         Negotiates, Quiesces, ShutsDown, HangsUp

\* A step of the daemon that takes no frame to the consumers.
LEMMA ShapeOrder ==
  ASSUME MainInv, Counts, InOrder, HostKept, Shape, held' \subseteq held, completed' \subseteq completed
  PROVE  InOrder' /\ Out' \subseteq Out
<1>1. /\ nextPoint \in Nat /\ lastPoint \in 0 .. nextPoint /\ frames \in Seq(1 .. nextPoint)
      /\ Coming \in Seq(Messages) /\ PointsTo(Coming, nextPoint)
      /\ held \subseteq 1 .. nextPoint /\ completed \subseteq 1 .. nextPoint
      /\ \A p : Carries(Coming, p) => p \in 1 .. nextPoint
  BY OrderValues
<1>2. nextPoint' = nextPoint
  BY DEF HostKept, frameVars
<1>3. \/ toDaemon' = toDaemon /\ Coming' = Coming
      \/ /\ toDaemon # << >> /\ toDaemon' = Tail(toDaemon)
         /\ Coming # << >> /\ Head(Coming) = Head(toDaemon) /\ Coming' = Tail(Coming)
  BY ShapeMail DEF MainInv
<1>4. /\ Rising(Coming') /\ Above(Coming', lastPoint) /\ \A p : Carries(Coming', p) => Carries(Coming, p)
  BY <1>1, <1>3, RisingTail DEF InOrder
<1>5. CASE UNCHANGED << frames, lastPoint >>
  <2>1. InOrder'
    BY <1>2, <1>4, <1>5 DEF InOrder
  <2>2. Out' \subseteq Out
    BY <1>2, <1>4, <1>5 DEF Out
  <2> QED BY <2>1, <2>2
<1>6. CASE frames' = << >> /\ lastPoint' = lastPoint
  <2>1. InOrder'
    BY <1>2, <1>4, <1>6, NoLists DEF InOrder
  <2>2. Out' \subseteq Out
    BY <1>2, <1>4, <1>6, NoLists DEF Out
  <2> QED BY <2>1, <2>2
<1>7. CASE frames' = << >> /\ lastPoint' = 0 /\ nextPoint = 0
  <2>1. lastPoint = 0 /\ held' = {} /\ completed' = {} /\ ~\E p : p \in 1 .. nextPoint
    BY <1>1, <1>7
  <2>2. InOrder'
    BY <1>2, <1>4, <1>7, <2>1, NoLists DEF InOrder
  <2>3. Out' \subseteq Out
    BY <1>2, <2>1 DEF Out
  <2> QED BY <2>2, <2>3
<1>8. CASE frames # << >> /\ frames' = Tail(frames) /\ lastPoint' = lastPoint
  <2>1. Climbs(frames') /\ \A p : Lists(frames', p) => Lists(frames, p)
    BY <1>1, <1>8, ClimbsTail DEF InOrder
  <2>2. InOrder'
    BY <1>2, <1>4, <1>8, <2>1 DEF InOrder
  <2>3. Out' \subseteq Out
    BY <1>2, <1>4, <2>1 DEF Out
  <2> QED BY <2>2, <2>3
<1>9. CASE /\ toDaemon # << >> /\ toDaemon' = Tail(toDaemon) /\ Head(toDaemon).op = "FRAME_READY"
           /\ frames' = Append(frames, Head(toDaemon).arg) /\ lastPoint' = Head(toDaemon).arg
  <2>1. Head(Coming) = Head(toDaemon) /\ Coming # << >> /\ Coming' = Tail(Coming)
    <3>1. toDaemon' # toDaemon
      BY <1>9, TailIs DEF MainInv, Mail
    <3> QED BY <1>3, <3>1
  <2>2. PICK x : x = Head(toDaemon).arg
    OBVIOUS
  <2>3. x \in 1 .. nextPoint /\ lastPoint < x /\ Carries(Coming, x) /\ Above(Coming', x)
    BY <1>1, <1>9, <2>1, <2>2, RisingTail DEF InOrder
  <2>4. \A p \in 1 .. nextPoint : p <= lastPoint => p < x
    BY <1>1, <2>3
  <2>5. \A p \in 1 .. nextPoint : Lists(frames, p) => p < x
    BY <2>4 DEF InOrder
  <2>6. Climbs(frames') /\ \A p : Lists(frames', p) <=> Lists(frames, p) \/ p = x
    BY <1>1, <1>9, <2>2, <2>3, <2>5, ClimbsAppend DEF InOrder
  <2>7. lastPoint' = x
    BY <1>9, <2>2
  <2>8. \A p \in 1 .. nextPoint : p < x => p <= x
    BY <2>3
  <2>9. \A p \in 1 .. nextPoint : Lists(frames', p) => p <= x
    BY <2>3, <2>5, <2>6, <2>8
  <2>10. \A p \in held' \cup completed' : p <= x /\ \A q \in 1 .. nextPoint : Lists(frames', q) => p < q
    BY <1>1, <2>4, <2>6, <2>8 DEF InOrder
  <2>11. InOrder'
    BY <1>2, <1>4, <2>3, <2>6, <2>7, <2>9, <2>10 DEF InOrder
  <2>12. Out' \subseteq Out
    BY <1>2, <1>4, <2>3, <2>6 DEF Out
  <2> QED BY <2>11, <2>12
<1> QED BY <1>5, <1>6, <1>7, <1>8, <1>9, ShapeFrames

\* The route takes a frame to the consumers.
LEMMA ForwardOrder ==
  ASSUME MainInv, Counts, InOrder, Forward
  PROVE  InOrder' /\ Out' \subseteq Out
<1>1. /\ nextPoint \in Nat /\ lastPoint \in 0 .. nextPoint /\ frames \in Seq(1 .. nextPoint)
      /\ held \subseteq 1 .. nextPoint /\ completed \subseteq 1 .. nextPoint
  BY OrderValues
<1>2. /\ frames # << >> /\ frames' = Tail(frames) /\ lastPoint' = lastPoint
      /\ held' = held \cup {Head(frames)} /\ completed' = completed
      /\ nextPoint' = nextPoint /\ toDaemon' = toDaemon /\ events' = events
  BY DEF Forward, Daemon, NextFrame, TakeFrame, frameVars
<1>3. Coming' = Coming
  BY <1>2 DEF Coming
<1>4. PICK x : x = Head(frames)
  OBVIOUS
<1>5. /\ Climbs(frames') /\ x \in 1 .. nextPoint /\ Lists(frames, x)
      /\ \A p : Lists(frames', p) => Lists(frames, p)
      /\ \A p \in 1 .. nextPoint : Lists(frames', p) => x < p
  BY <1>1, <1>2, <1>4, ClimbsTail DEF InOrder
<1>6. x \notin completed /\ x <= lastPoint
  BY <1>1, <1>5 DEF InOrder
<1>7. \A p \in held' \cup completed' : p <= lastPoint /\ \A q \in 1 .. nextPoint : Lists(frames', q) => p < q
  BY <1>2, <1>4, <1>5, <1>6 DEF InOrder
<1>8. InOrder'
  BY <1>2, <1>3, <1>4, <1>5, <1>6, <1>7 DEF InOrder
<1>9. Out' \subseteq Out
  BY <1>2, <1>3, <1>4, <1>5 DEF Out
<1> QED BY <1>8, <1>9

\* Consumers release a frame: nobody reads a point up to the one that is signalled.
LEMMA ReleaseOrder ==
  ASSUME MainInv, Counts, InOrder, NEW p, ReleasePoint(p)
  PROVE  /\ InOrder' /\ Out' \subseteq Out
         /\ (\A q \in Out : timeline < q) => \A q \in Out' : timeline' < q
<1>1. /\ nextPoint \in Nat /\ lastPoint \in 0 .. nextPoint
      /\ held \subseteq 1 .. nextPoint /\ completed \subseteq 1 .. nextPoint
      /\ signaled \in 0 .. timeline /\ timeline \in 0 .. nextPoint /\ p \in held
  BY OrderValues DEF ReleasePoint
<1>2. UNCHANGED << frames, lastPoint, toDaemon, events, nextPoint >> /\ held' = held \ {p} /\ Coming' = Coming
  BY DEF ReleasePoint, vars, procVars, dataVars, workerVars, loopVars, frameVars, Coming
<1>3. completed' \subseteq completed \cup {p}
  BY DEF ReleasePoint
<1>4. \A q \in held' \cup completed' : q \in held \cup completed
  BY <1>1, <1>2, <1>3
<1>5. held' \cap completed' = {}
  BY <1>1, <1>2, <1>3 DEF InOrder
<1>6. InOrder'
  BY <1>2, <1>4, <1>5 DEF InOrder
<1>7. Out' \subseteq Out /\ p \notin Out'
  <2>1. ~Lists(frames, p)
    BY <1>1 DEF InOrder
  <2>2. ~Carries(Coming, p)
    <3>1. p <= lastPoint
      BY <1>1 DEF InOrder
    <3>2. ASSUME Carries(Coming, p) PROVE lastPoint < p
      BY <3>2 DEF InOrder, Carries, Above
    <3> QED BY <1>1, <3>1, <3>2
  <2> QED BY <1>2, <2>1, <2>2 DEF Out
<1>8. ASSUME NEW q \in Out, q \in completed PROVE FALSE
  <2>1. q \in 1 .. nextPoint /\ q <= lastPoint /\ ~Lists(frames, q) /\ q \notin held
    BY <1>1, <1>8 DEF InOrder
  <2>2. Carries(Coming, q)
    BY <1>8, <2>1 DEF Out
  <2>3. lastPoint < q
    BY <2>2 DEF InOrder, Carries, Above
  <2> QED BY <1>1, <2>1, <2>3
<1>9. ASSUME \A q \in Out : timeline < q, NEW q \in Out' PROVE timeline' < q
  <2>1. q \in Out /\ q # p /\ timeline < q /\ q \in 1 .. nextPoint /\ q \notin completed
    BY <1>7, <1>8, <1>9 DEF Out
  <2>2. CASE timeline' = timeline
    BY <2>1, <2>2
  <2>3. CASE \E h \in RunEnds(completed \cup {p}) : timeline' = Max({timeline, h})
    <3>1. PICK h \in RunEnds(completed \cup {p}) : timeline' = Max({timeline, h})
      BY <2>3
    <3>2. h \in Nat /\ (signaled + 1) .. h \subseteq completed \cup {p}
      BY <1>1, <3>1 DEF RunEnds
    <3>3. q \notin (signaled + 1) .. h
      BY <2>1, <3>2
    <3>4. h < q
      BY <1>1, <2>1, <3>2, <3>3
    <3>5. Max({timeline, h}) = IF timeline >= h THEN timeline ELSE h
      BY <1>1, <3>2, MaxOfTwo
    <3> QED BY <2>1, <3>1, <3>4, <3>5
  <2> QED BY <2>2, <2>3 DEF ReleasePoint
<1> QED BY <1>6, <1>7, <1>9

-----------------------------------------------------------------------------
(* The worker's steps keep the order of the points.                        *)

LEMMA JoinJoin ==
  ASSUME NEW S, NEW a \in Seq(S), NEW b \in Seq(S), NEW c \in Seq(S)
  PROVE  a \o (b \o c) = (a \o b) \o c /\ a \o << >> = a
<1>1. a \o b \in Seq(S) /\ b \o c \in Seq(S) /\ a \o (b \o c) \in Seq(S) /\ (a \o b) \o c \in Seq(S)
  BY ConcatProperties
<1>2. Len(a \o (b \o c)) = Len((a \o b) \o c)
  BY <1>1
<1>3. \A i \in 1 .. Len(a \o (b \o c)) : (a \o (b \o c))[i] = ((a \o b) \o c)[i]
  BY <1>1
<1>4. a \o (b \o c) = (a \o b) \o c
  BY <1>1, <1>2, <1>3, SeqEqual
<1>5. << >> \in Seq(S) /\ a \o << >> = a
  BY EmptySeq
<1> QED BY <1>4, <1>5

\* The loop adds to what is on its way, and no frame.
Adds == \E s \in Seq(Messages) : ~Has(s, "FRAME_READY") /\ Coming' = Coming \o s

LEMMA Queued ==
  ASSUME Mail, NEW s \in Seq(Messages), ~Has(s, "FRAME_READY"), toDaemon' = toDaemon, events' = events \o s
  PROVE  Adds
<1>1. toDaemon \o (events \o s) = Coming \o s
  BY JoinJoin DEF Mail, Coming
<1> QED BY <1>1 DEF Adds, Coming

LEMMA NoneQueued == ASSUME Mail, Coming' = Coming PROVE Adds
<1>1. << >> \in Seq(Messages) /\ Coming = Coming \o << >>
  BY ComingSeq, EmptySeq, JoinJoin
<1> QED BY <1>1, HasNone DEF Adds

\* An error, after events without a frame.
LEMMA ErrorQueued ==
  ASSUME Mail, NEW s \in Seq(Messages), ~Has(s, "FRAME_READY"), toDaemon' = toDaemon, EnqueueError(s)
  PROVE  Adds
<1>1. Event("ERROR", 0) \in Messages /\ Event("ERROR", 0).op = "ERROR"
  BY DEF Messages, Event
<1>2. Append(s, Event("ERROR", 0)) \in Seq(Messages) /\ ~Has(Append(s, Event("ERROR", 0)), "FRAME_READY")
  BY <1>1, HasAppend, AppendProperties
<1> QED BY <1>2, Queued DEF EnqueueError, Enqueue

LEMMA LoopAdds ==
  ASSUME MainInv, NEW hangup \in BOOLEAN, Loop(hangup)
  PROVE  Adds
<1>1. Mail /\ toDaemon \in Seq(Messages) /\ events \in Seq(Messages) /\ << >> \in Seq(Messages)
  BY EmptySeq DEF MainInv, Mail
<1>2. CASE Boot
  <2>1. toDaemon = << >> /\ events = << >> /\ events' = << >>
    BY <1>2 DEF Boot, MainInv, Greets
  <2>2. Event("HELLO", 0) \in Messages /\ Event("HELLO", 0).op = "HELLO"
    BY DEF Messages, Event, OnceOnly
  <2> DEFINE s == << Event("HELLO", 0) >>
  <2>3. s \in Seq(Messages) /\ ~Has(s, "FRAME_READY")
    BY <2>2 DEF Has
  <2>4. Coming = << >> /\ Coming' = s
    BY <1>2, <2>1 DEF Boot, Coming
  <2>5. << >> \o s = s
    BY <2>3
  <2> QED BY <2>3, <2>4, <2>5 DEF Adds
<1>3. CASE Flush(hangup)
  <2>1. Coming' = Coming
    <3>1. events # << >> /\ Append(toDaemon, Head(events)) \o Tail(events) = toDaemon \o events
      BY <1>1, <1>3, JoinSeq DEF Flush
    <3>2. \/ toDaemon' = toDaemon /\ events' = events
          \/ toDaemon' = Append(toDaemon, Head(events)) /\ events' = Tail(events)
      BY <1>3 DEF Flush
    <3> QED BY <3>1, <3>2 DEF Coming
  <2> QED BY <1>1, <2>1, NoneQueued
<1>4. CASE Turn
  <2>1. CASE UNCHANGED events
    BY <1>1, <1>4, <2>1, NoneQueued DEF Turn, Coming
  <2>2. CASE Enqueue(<< Event("QUIESCED", 0) >>)
    <3>1. Event("QUIESCED", 0) \in Messages /\ Event("QUIESCED", 0).op = "QUIESCED"
      BY DEF Messages, Event
    <3>2. << Event("QUIESCED", 0) >> \in Seq(Messages) /\ ~Has(<< Event("QUIESCED", 0) >>, "FRAME_READY")
      BY <3>1 DEF Has
    <3> QED BY <1>1, <1>4, <2>2, <3>2, Queued DEF Turn, Enqueue
  <2> QED BY <1>4, <2>1, <2>2 DEF Turn, OweQuiesced
<1>5. CASE Poll(hangup) \/ Drained(hangup) \/ Joined
  <2>1. Coming' = Coming
    BY <1>5 DEF Poll, Drained, Joined, Coming
  <2> QED BY <1>1, <2>1, NoneQueued
<1>6. CASE Drain
  <2>1. toDaemon' = toDaemon /\ (HandleInit \/ HandleNegotiate \/ HandleRuntime \/ HandleQuiesce \/ HandleShutdown \/ Refuse)
    BY <1>6 DEF Drain
  <2>2. CASE HandleInit
    <3>1. HandshakeReplies \in Seq(Messages) /\ ~Has(HandshakeReplies, "FRAME_READY")
      BY InitAnswers DEF InitAnswer
    <3>2. CASE Enqueue(HandshakeReplies)
      BY <1>1, <2>1, <3>1, <3>2, Queued DEF Enqueue
    <3>3. ASSUME NEW n \in 0 .. 2, EnqueueError(SubSeq(HandshakeReplies, 1, n))
          PROVE  Adds
      <4> DEFINE q == Append(SubSeq(HandshakeReplies, 1, n), Event("ERROR", 0))
      <4>1. q \in Seq(Messages) /\ ~Has(q, "FRAME_READY")
        BY InitAnswers DEF InitAnswer
      <4>2. events' = events \o q
        BY <3>3 DEF EnqueueError, Enqueue
      <4> HIDE DEF q
      <4> QED BY <1>1, <2>1, <4>1, <4>2, Queued
    <3> QED BY <2>2, <3>2, <3>3 DEF HandleInit
  <2>3. CASE HandleNegotiate
    <3>1. CASE Enqueue(<< Event("BIND_BUFFERS", Cardinality(Slots)) >>)
      <4> DEFINE x == Event("BIND_BUFFERS", Cardinality(Slots))
      <4>1. x \in Messages /\ x.op = "BIND_BUFFERS"
        BY SessionAssumption DEF Messages, Event
      <4>2. << x >> \in Seq(Messages) /\ ~Has(<< x >>, "FRAME_READY")
        BY <4>1 DEF Has
      <4> QED BY <1>1, <2>1, <3>1, <4>2, Queued DEF Enqueue
    <3>2. CASE EnqueueError(<< >>)
      BY <1>1, <2>1, <3>2, ErrorQueued, HasNone
    <3> QED BY <2>3, <3>1, <3>2 DEF HandleNegotiate
  <2>4. CASE HandleRuntime
    <3>1. CASE UNCHANGED events
      <4>1. Coming' = Coming
        BY <2>1, <3>1 DEF Coming
      <4> QED BY <1>1, <4>1, NoneQueued
    <3>2. CASE EnqueueError(<< >>)
      BY <1>1, <2>1, <3>2, ErrorQueued, HasNone
    <3> QED BY <2>4, <3>1, <3>2 DEF HandleRuntime
  <2>5. CASE HandleQuiesce \/ HandleShutdown
    <3>1. Coming' = Coming
      BY <2>1, <2>5 DEF HandleQuiesce, HandleShutdown, Coming
    <3> QED BY <1>1, <3>1, NoneQueued
  <2>6. CASE Refuse
    BY <1>1, <2>1, <2>6, ErrorQueued, HasNone DEF Refuse
  <2> QED BY <2>1, <2>2, <2>3, <2>4, <2>5, <2>6
<1> QED BY <1>2, <1>3, <1>4, <1>5, <1>6 DEF Loop

\* A step that gives out no point.
LEMMA NoPointOrder ==
  ASSUME MainInv, Counts, InOrder, Adds, UNCHANGED << frames, lastPoint, held, completed, nextPoint >>
  PROVE  InOrder' /\ Out' = Out
<1>1. Coming \in Seq(Messages)
  BY OrderValues
<1>2. PICK s \in Seq(Messages) : ~Has(s, "FRAME_READY") /\ Coming' = Coming \o s
  BY DEF Adds
<1>3. /\ Rising(Coming') /\ Above(Coming', lastPoint) /\ \A p : Carries(Coming', p) <=> Carries(Coming, p)
  BY <1>1, <1>2, RisingJoin DEF InOrder
<1>4. InOrder'
  BY <1>3 DEF InOrder
<1>5. Out' = Out
  BY <1>3 DEF Out
<1> QED BY <1>4, <1>5

\* The point of a published frame is the last of all.
LEMMA PublishOrder ==
  ASSUME MainInv, Counts, InOrder, PublishFrame, UNCHANGED << frames, lastPoint, held, completed >>
  PROVE  /\ InOrder' /\ nextPoint + 1 \notin Out
         /\ IF TakesFrame THEN Out' = Out \cup {nextPoint + 1} ELSE Out' = Out
<1> DEFINE x == Event("FRAME_READY", nextPoint + 1)
<1>1. /\ nextPoint \in Nat /\ lastPoint \in 0 .. nextPoint /\ frames \in Seq(1 .. nextPoint)
      /\ Coming \in Seq(Messages) /\ PointsTo(Coming, nextPoint)
      /\ held \subseteq 1 .. nextPoint /\ completed \subseteq 1 .. nextPoint
      /\ \A p : Lists(frames, p) => p \in 1 .. nextPoint
      /\ \A p : Carries(Coming, p) => p \in 1 .. nextPoint
  BY OrderValues
<1>2. nextPoint' = nextPoint + 1 /\ toDaemon' = toDaemon /\ nextPoint + 1 \in 1 .. PointLimit
  BY <1>1, PointLimitAssumption DEF PublishFrame, MainInv, Mail
<1>3. 1 .. nextPoint' = (1 .. nextPoint) \cup {nextPoint + 1} /\ nextPoint + 1 \notin 1 .. nextPoint
  BY <1>1, <1>2
<1>4. CASE ~TakesFrame
  <2>1. Coming' = Coming
    BY <1>2, <1>4 DEF PublishFrame, Coming
  <2>2. \A q : Lists(frames, q) => q \in 1 .. nextPoint
    BY <1>1
  <2>3. InOrder'
    BY <1>3, <2>1, <2>2 DEF InOrder
  <2>4. Out' = Out
    BY <1>1, <1>3, <2>1 DEF Out
  <2> QED BY <1>3, <1>4, <2>3, <2>4 DEF Out
<1>5. CASE TakesFrame
  <2>1. x \in Messages /\ x.op = "FRAME_READY" /\ x.arg = nextPoint + 1
    BY <1>2 DEF Messages, Event
  <2>2. events' = events \o << x >>
    BY <1>5 DEF PublishFrame, Enqueue
  <2> HIDE DEF x
  <2>3. Coming' = Append(Coming, x)
    <3>1. toDaemon \in Seq(Messages) /\ events \in Seq(Messages) /\ events \o << x >> = Append(events, x)
      BY DEF MainInv, Mail
    <3>2. toDaemon \o Append(events, x) = Append(Coming, x)
      BY <2>1, <3>1, JoinSeq DEF Coming
    <3> QED BY <1>2, <2>2, <3>1, <3>2 DEF Coming
  <2>4. /\ Rising(Coming') /\ Above(Coming', lastPoint)
        /\ \A p : Carries(Coming', p) <=> Carries(Coming, p) \/ p = nextPoint + 1
    BY <1>1, <2>1, <2>3, RisingAppend DEF InOrder
  <2>5. InOrder'
    BY <1>1, <1>3, <2>4 DEF InOrder
  <2>6. Out' = Out \cup {nextPoint + 1}
    BY <1>1, <1>3, <2>4 DEF Out
  <2> QED BY <1>3, <1>5, <2>5, <2>6 DEF Out
<1> QED BY <1>4, <1>5

-----------------------------------------------------------------------------
(* The slots of the points that are out.                                   *)

\* Nobody reads slot s.
Apart(s) == \A p \in Out : slotOf[p] # s

\* Every point has its slot, and every slot at most one point that is out.
Slotted ==
  /\ \A p \in 1 .. nextPoint : slotOf[p] \in Slots
  /\ \A p, q \in Out : slotOf[p] = slotOf[q] => p = q

\* While the frame thread runs: the gate of a slot that is read stays shut, and the
\* images it holds are not those that are read.
Guarded ==
  pump # "off" =>
    /\ \A p \in Out : timeline < p
    /\ \A p \in Out : p <= slotPoint[slotOf[p]] \/ (pump = "record" /\ slotOf[p] = ring.presented)
    /\ Apart(painting)
    /\ ring.fresh => Apart(ring.ready)
    /\ pump = "publish" => Apart(ring.presented)

PointsInv == InOrder /\ Slotted /\ Guarded

\* Points return and the worker's images stay.
LEMMA FewerOut ==
  ASSUME Slotted, Guarded, UNCHANGED frameVars, Out' \subseteq Out,
         pump # "off" => \A q \in Out' : timeline' < q
  PROVE  Slotted' /\ Guarded'
<1>1. UNCHANGED << pump, ring, painting, slotOf, slotPoint, nextPoint >>
  BY DEF frameVars
<1>2. \A s : Apart(s) => Apart(s)'
  BY <1>1 DEF Apart
<1>3. Slotted'
  BY <1>1 DEF Slotted
<1>4. Guarded'
  BY <1>1 DEF Guarded, Apart
<1> QED BY <1>3, <1>4

\* The loop starts the frame thread before any point is given out, and never again.
LEMMA LoopSlots ==
  ASSUME MainInv, Counts, PointsInv, UNCHANGED << vars, tableVars, aside >>, NEW hangup \in BOOLEAN, Loop(hangup)
  PROVE  PointsInv'
<1>1. UNCHANGED << timeline, ring, painting, slotOf, slotPoint, nextPoint >>
      /\ (pump' = pump \/ (Drain /\ HandleNegotiate /\ Head(toWorker) = "NEGOTIATE_BUFFERS"))
  <2>1. CASE Drain
    <3>1. Accepts(Head(toWorker))
      BY <2>1, CommandFits DEF Drain
    <3> QED BY <2>1, <3>1 DEF Drain, HandleInit, HandleNegotiate, HandleRuntime, HandleQuiesce, HandleShutdown, frameVars
  <2>2. CASE ~Drain
    BY <2>2 DEF Loop, Boot, Flush, Turn, Poll, Drained, Joined, frameVars
  <2> QED BY <2>1, <2>2
<1>2. UNCHANGED << frames, lastPoint, held, completed >>
  BY DEF vars, procVars, dataVars, tableVars
<1>3. InOrder' /\ Out' = Out
  BY <1>1, <1>2, LoopAdds, NoPointOrder DEF PointsInv
<1>4. CASE pump' = pump
  <2>1. Slotted'
    BY <1>1, <1>3 DEF PointsInv, Slotted
  <2>2. Guarded'
    BY <1>1, <1>3, <1>4 DEF PointsInv, Guarded, Apart
  <2> QED BY <1>3, <2>1, <2>2 DEF PointsInv
<1>5. CASE Drain /\ HandleNegotiate /\ Head(toWorker) = "NEGOTIATE_BUFFERS"
  <2>1. nextPoint = 0
    <3>1. Len(toWorker) > 0 /\ Head(toWorker) = toWorker[1] /\ Len(toWorker) \in Nat
      BY <1>5 DEF Drain, MainInv, Mail
    <3>2. Asks(toWorker, "NEGOTIATE_BUFFERS")
      BY <1>5, <3>1 DEF Asks
    <3> QED BY <3>2 DEF MainInv, Serves, Served
  <2>2. Out' = {}
    BY <1>3, <2>1 DEF Out
  <2>3. Slotted' /\ Guarded'
    BY <1>1, <2>1, <2>2 DEF Slotted, Guarded, Apart
  <2> QED BY <1>3, <2>3 DEF PointsInv
<1> QED BY <1>1, <1>4, <1>5

\* The frame thread and the painter: a slot is written when its gate has opened, and
\* is given to the readers when it is complete.
LEMMA FrameSlots ==
  ASSUME MainInv, Flags, Images, Counts, PointsInv, UNCHANGED << vars, tableVars, aside >>, Painter \/ FrameThread
  PROVE  PointsInv'
<1>1. UNCHANGED << frames, lastPoint, held, completed >>
  BY DEF vars, procVars, dataVars, tableVars
<1>2. /\ nextPoint \in Nat /\ timeline \in 0 .. nextPoint /\ Out \subseteq 1 .. nextPoint
      /\ aside \in BOOLEAN
  BY OrderValues, AsidesAssumption DEF Out, Flags
<1>3. /\ ring.presented \in Slots /\ ring.ready \in Slots /\ ring.inProgress \in Slots
      /\ ring.presented # ring.ready /\ ring.presented # ring.inProgress /\ ring.ready # ring.inProgress
      /\ painting \in {NoSlot, ring.inProgress} /\ NoSlot \notin Slots
  <2>1. Turned(ring) /\ painting \in {NoSlot, ring.inProgress}
    BY DEF Images
  <2>2. NoSlot \notin Slots
    BY DEF Slots, NoSlot
  <2> QED BY <2>1, <2>2, RingTurns
<1>4. /\ \A p \in 1 .. nextPoint : slotOf[p] \in Slots
      /\ \A p, q \in Out : slotOf[p] = slotOf[q] => p = q
      /\ Apart(NoSlot) /\ InOrder /\ Slotted /\ Guarded
  BY <1>2, <1>3 DEF PointsInv, Slotted, Apart
<1>5. \A s \in Slots : slotPoint[s] \in 0 .. nextPoint
  BY DEF Images
<1>6. ASSUME ~PublishFrame PROVE InOrder' /\ Out' = Out /\ UNCHANGED << nextPoint, slotOf, timeline >>
  <2>1. UNCHANGED << toDaemon, events, nextPoint, slotOf, timeline >>
    BY <1>6 DEF Painter, FrameThread, FinishPaint, StartPaint, EndPaint, PaintFails, PumpWaits, NoFrame,
                TakeImage, RecordPoint, loopVars
  <2>2. Adds
    <3>1. Coming' = Coming
      BY <2>1 DEF Coming
    <3> QED BY <3>1, NoneQueued DEF MainInv
  <2> QED BY <1>1, <1>4, <2>1, <2>2, NoPointOrder
<1>7. ASSUME ~PublishFrame PROVE Slotted'
  BY <1>6, <1>7 DEF PointsInv, Slotted
<1>8. CASE StartPaint
  <2>1. painting' = ring.inProgress /\ UNCHANGED << ring, slotPoint >> /\ slotPoint[ring.inProgress] <= timeline
        /\ (pump' = pump \/ (pump = "due" /\ pump' = "paint")) /\ ~PublishFrame
    BY <1>8 DEF StartPaint, Released, PublishFrame
  <2>2. ASSUME pump # "off" PROVE Apart(ring.inProgress)
    <3> SUFFICES ASSUME NEW p \in Out, slotOf[p] = ring.inProgress PROVE FALSE
      BY DEF Apart
    <3>1. p <= slotPoint[ring.inProgress] /\ timeline < p
      BY <1>3, <1>4, <2>2 DEF Guarded
    <3>2. slotPoint[ring.inProgress] \in Nat /\ p \in Nat /\ timeline \in Nat
      BY <1>2, <1>3, <1>5
    <3> QED BY <2>1, <3>1, <3>2
  <2>3. Guarded'
    BY <1>4, <1>6, <2>1, <2>2 DEF Guarded, Apart
  <2> QED BY <1>6, <1>7, <2>1, <2>3 DEF PointsInv
<1>9. CASE EndPaint
  <2>1. painting # NoSlot /\ painting' = NoSlot /\ slotPoint' = slotPoint /\ ~PublishFrame
        /\ (IF aside THEN ring' = MarkReady(ring) /\ pump' = pump
                     ELSE ring' = Eat(MarkReady(ring)) /\ pump' = "publish")
    <3>1. CASE aside
      BY <1>9, <3>1 DEF EndPaint, PublishFrame, MarkReady
    <3>2. CASE ~aside
      BY <1>9, <3>2 DEF EndPaint, PublishFrame, Images, Painting
    <3> QED BY <1>2, <3>1, <3>2
  <2>2. painting = ring.inProgress
    BY <1>3, <2>1
  <2>3. /\ Turned(MarkReady(ring)) /\ MarkReady(ring).presented = ring.presented
        /\ MarkReady(ring).ready = ring.inProgress
    BY RingTurns DEF Images
  <2>4. CASE aside
    <3>1. ring'.presented = ring.presented /\ ring'.ready = ring.inProgress /\ pump' = pump
      BY <2>1, <2>3, <2>4
    <3> QED
      BY <1>4, <1>6, <1>7, <2>1, <2>2, <3>1 DEF PointsInv, Guarded, Apart
  <2>5. CASE ~aside
    <3>1. ring'.presented = ring.inProgress /\ ring'.fresh = FALSE /\ pump' = "publish"
      <4>1. PICK m : m = MarkReady(ring)
        OBVIOUS
      <4>2. Eat(m).presented = m.ready /\ Eat(m).fresh = FALSE
        BY <2>3, <4>1, RingTurns
      <4> QED BY <2>1, <2>3, <2>5, <4>1, <4>2
    <3>2. pump = "paint"
      BY <2>1, <2>5 DEF Images, Painting
    <3> QED
      BY <1>4, <1>6, <1>7, <2>1, <2>2, <3>1, <3>2 DEF PointsInv, Guarded, Apart
  <2> QED BY <1>2, <2>4, <2>5
<1>10. CASE PaintFails
  <2>1. painting' = NoSlot /\ painting # NoSlot /\ UNCHANGED << ring, slotPoint >> /\ pump' = IF aside THEN pump ELSE "wait"
    BY <1>10 DEF PaintFails
  <2>2. ~aside => pump = "paint"
    BY <2>1 DEF Images, Painting
  <2>3. ~PublishFrame
    BY <1>10 DEF PaintFails, PublishFrame
  <2> QED BY <1>4, <1>6, <1>7, <2>1, <2>2, <2>3 DEF PointsInv, Guarded, Apart
<1>11. CASE TakeImage
  <2>1. pump = "due" /\ ring.fresh /\ ring' = Eat(ring) /\ pump' = "publish" /\ UNCHANGED << painting, slotPoint >>
        /\ ~PublishFrame
    BY <1>11 DEF TakeImage, PublishFrame
  <2>2. ring'.presented = ring.ready /\ ring'.fresh = FALSE
    BY <2>1, RingTurns DEF Images
  <2> QED BY <1>4, <1>6, <1>7, <2>1, <2>2 DEF PointsInv, Guarded, Apart
<1>12. CASE RecordPoint
  <2>1. pump = "record" /\ pump' = "wait" /\ slotPoint' = [slotPoint EXCEPT ![ring.presented] = nextPoint]
        /\ UNCHANGED << ring, painting >> /\ ~PublishFrame
    BY <1>12 DEF RecordPoint, PublishFrame
  <2>2. ASSUME NEW p \in Out PROVE p <= slotPoint'[slotOf[p]]
    <3>1. slotOf[p] \in Slots /\ p <= nextPoint
      BY <1>2, <1>4
    <3>2. CASE slotOf[p] = ring.presented
      <4>1. slotPoint'[slotOf[p]] = nextPoint
        BY <2>1, <3>1, <3>2 DEF Images
      <4> QED BY <3>1, <4>1
    <3>3. CASE slotOf[p] # ring.presented
      <4>1. slotPoint'[slotOf[p]] = slotPoint[slotOf[p]]
        BY <2>1, <3>1, <3>3 DEF Images
      <4> QED BY <1>4, <2>1, <3>3, <4>1 DEF Guarded
    <3> QED BY <3>2, <3>3
  <2> QED BY <1>4, <1>6, <1>7, <2>1, <2>2 DEF PointsInv, Guarded, Apart
<1>13. CASE PumpWaits \/ NoFrame
  <2>1. pump \in {"wait", "due"} /\ pump' \in {"off", "wait", "due"} /\ UNCHANGED << ring, painting, slotPoint >>
        /\ ~PublishFrame
    BY <1>13 DEF PumpWaits, NoFrame, PublishFrame
  <2> QED BY <1>4, <1>6, <1>7, <2>1 DEF PointsInv, Guarded, Apart
<1>14. CASE PublishFrame
  <2>1. /\ pump = "publish" /\ nextPoint' = nextPoint + 1 /\ UNCHANGED << ring, painting, slotPoint >>
        /\ slotOf' = [slotOf EXCEPT ![nextPoint + 1] = ring.presented]
        /\ nextPoint + 1 \in 1 .. PointLimit
        /\ IF TakesFrame THEN pump' = "record" /\ timeline' = timeline ELSE pump' = "off"
    BY <1>2, <1>14, PointLimitAssumption DEF PublishFrame, MainInv, Mail
  <2>2. /\ InOrder' /\ nextPoint + 1 \notin Out
        /\ IF TakesFrame THEN Out' = Out \cup {nextPoint + 1} ELSE Out' = Out
    BY <1>1, <1>4, <1>14, PublishOrder
  <2>3. /\ slotOf'[nextPoint + 1] = ring.presented
        /\ \A p \in 1 .. nextPoint : slotOf'[p] = slotOf[p]
        /\ \A p \in 1 .. nextPoint' : p \in 1 .. nextPoint \/ p = nextPoint + 1
    <3>1. \A p \in 1 .. nextPoint : p \in 1 .. PointLimit /\ p # nextPoint + 1
      BY <1>2, <2>1, PointLimitAssumption
    <3> QED BY <1>2, <2>1, <3>1 DEF Images
  <2>4. Apart(ring.presented)
    BY <1>4, <2>1 DEF Guarded
  <2>5. \A p \in Out : slotOf'[p] = slotOf[p] /\ slotOf[p] # ring.presented
    BY <1>2, <2>3, <2>4 DEF Apart
  <2>6. Slotted'
    <3>1. \A p \in 1 .. nextPoint' : slotOf'[p] \in Slots
      BY <1>3, <1>4, <2>3
    <3>2. \A p, q \in Out' : slotOf'[p] = slotOf'[q] => p = q
      BY <1>4, <2>2, <2>3, <2>5
    <3> QED BY <3>1, <3>2 DEF Slotted
  <2>7. Guarded'
    <3>1. CASE ~TakesFrame
      BY <2>1, <3>1 DEF Guarded
    <3>2. CASE TakesFrame
      <4>1. pump' = "record" /\ timeline' = timeline /\ Out' = Out \cup {nextPoint + 1}
        BY <2>1, <2>2, <3>2
      <4>2. \A p \in Out' : timeline < p
        <5>1. timeline < nextPoint + 1
          BY <1>2
        <5> QED BY <1>4, <2>1, <4>1, <5>1 DEF Guarded
      <4>3. \A p \in Out' : p <= slotPoint[slotOf'[p]] \/ slotOf'[p] = ring.presented
        BY <1>4, <2>1, <2>3, <2>5, <4>1 DEF Guarded
      <4>4. Apart(painting)'
        BY <1>3, <1>4, <2>1, <2>3, <2>5, <4>1 DEF Guarded, Apart
      <4>5. (ring.fresh => Apart(ring.ready))'
        BY <1>3, <1>4, <2>1, <2>3, <2>5, <4>1 DEF Guarded, Apart
      <4> QED BY <2>1, <4>1, <4>2, <4>3, <4>4, <4>5 DEF Guarded
    <3> QED BY <3>1, <3>2
  <2> QED BY <2>2, <2>6, <2>7 DEF PointsInv
<1> QED
  BY <1>8, <1>9, <1>10, <1>11, <1>12, <1>13, <1>14 DEF Painter, FrameThread, FinishPaint

\* The daemon, the route and the consumers: points return, and the timeline passes
\* none that is out while the worker paints.
LEMMA DaemonSlots ==
  ASSUME MainInv, Counts, PointsInv, HostKept, Shape, DaemonStep
  PROVE  PointsInv'
<1>1. InOrder /\ Slotted /\ Guarded /\ UNCHANGED frameVars
  BY DEF PointsInv, HostKept
<1>2. InOrder' /\ Out' \subseteq Out
  <2>1. CASE Forward
    BY <1>1, <2>1, ForwardOrder
  <2>2. CASE ~Forward
    <3>1. held' \subseteq held /\ completed' \subseteq completed
      BY <2>2 DEF DaemonStep, CalmStep, Configure, Dispatch, ReceiveEvent, ReadEof, Reset, Quiet, Calls,
                  Unbound, RetireTimeline, tableVars
    <3> QED BY <1>1, <3>1, ShapeOrder
  <2> QED BY <2>1, <2>2
<1>3. timeline' = timeline \/ pump = "off"
  <2>1. CASE ~Unbound
    BY <2>1 DEF DaemonStep, CalmStep, Configure, Dispatch, ReceiveEvent, ReadEof, Reset, Quiet, Calls, Forward
  <2>2. CASE Unbound /\ owned /\ state \notin Broken
    <3>1. waiting
      BY <2>2 DEF Unbound, Daemon, CompleteUnbind
    <3>2. state = "UNBINDING"
      BY <2>2, <3>1 DEF MainInv, Stages
    <3> QED BY <3>2 DEF MainInv, Parts
  <2>3. CASE Unbound /\ ~(owned /\ state \notin Broken)
    BY <2>3 DEF Unbound, RetireTimeline
  <2> QED BY <2>1, <2>2, <2>3
<1>4. pump # "off" => \A q \in Out' : timeline' < q
  BY <1>1, <1>2, <1>3 DEF Guarded
<1> QED BY <1>1, <1>2, <1>4, FewerOut DEF PointsInv

LEMMA ReleaseSlots ==
  ASSUME MainInv, Counts, PointsInv, NEW p, ReleasePoint(p)
  PROVE  PointsInv'
<1>1. InOrder' /\ Out' \subseteq Out /\ ((\A q \in Out : timeline < q) => \A q \in Out' : timeline' < q)
  BY ReleaseOrder DEF PointsInv
<1>2. UNCHANGED frameVars
  BY DEF ReleasePoint, workerVars
<1>3. Slotted /\ Guarded
  BY DEF PointsInv
<1>4. pump # "off" => \A q \in Out' : timeline' < q
  BY <1>1, <1>3 DEF Guarded
<1> QED BY <1>1, <1>2, <1>3, <1>4, FewerOut DEF PointsInv

\* What PointsInv speaks of.
pointVars == << toDaemon, events, frames, lastPoint, timeline, tableVars, frameVars >>

LEMMA PointsKept == ASSUME PointsInv, UNCHANGED pointVars PROVE PointsInv'
<1>1. Coming' = Coming /\ UNCHANGED << frames, lastPoint, timeline, tableVars, frameVars >>
  BY DEF pointVars, Coming
<1>2. Out' = Out /\ InOrder'
  BY <1>1 DEF Out, PointsInv, InOrder, tableVars, frameVars
<1>3. pump # "off" => \A q \in Out' : timeline' < q
  BY <1>1, <1>2 DEF PointsInv, Guarded
<1> QED BY <1>1, <1>2, <1>3, FewerOut DEF PointsInv

LEMMA PointsStart == SessionInit => PointsInv
<1> SUFFICES ASSUME SessionInit PROVE PointsInv
  OBVIOUS
<1>1. /\ toDaemon = << >> /\ events = << >> /\ frames = << >> /\ held = {} /\ completed = {}
      /\ nextPoint = 0 /\ pump = "off"
  BY DEF SessionInit, HostInit, Init, ProcessInit
<1>2. Coming = << >>
  BY <1>1 DEF Coming
<1>3. Out = {}
  BY <1>1 DEF Out
<1>4. InOrder
  BY <1>1, <1>2, NoLists DEF InOrder, Rising, Above
<1> QED BY <1>1, <1>3, <1>4 DEF PointsInv, Slotted, Guarded

LEMMA PointsStep ==
  ASSUME SessionInv, PointsInv, [SessionNext]_sessionVars
  PROVE  PointsInv'
<1>1. TypeOK /\ HoldInv /\ MainInv /\ Flags /\ Images /\ Counts
  BY DEF SessionInv
<1>2. CASE DaemonStep
  <2>1. HostKept /\ Shape
    BY <1>1, <1>2, DaemonShape DEF MainInv
  <2> QED BY <1>1, <1>2, <2>1, DaemonSlots
<1>3. CASE \E p \in held : ReleasePoint(p)
  BY <1>1, <1>3, ReleaseSlots
<1>4. CASE Closes \/ Ends \/ Crash \/ UNCHANGED sessionVars
  <2>1. UNCHANGED << hostVars, tableVars, frames, lastPoint >>
    BY <1>4 DEF Closes, Ends, Crash, PeerCloses, LeaderExits, sessionVars, vars, procVars, dataVars
  <2>2. UNCHANGED pointVars
    BY <2>1 DEF hostVars, workerVars, loopVars, pointVars
  <2> QED BY <2>2, PointsKept
<1>5. CASE WorkerStep(peer /\ Loop(~ipc))
  <2>1. (~ipc) \in BOOLEAN /\ Loop(~ipc) /\ UNCHANGED << vars, tableVars, aside >>
    BY <1>5 DEF WorkerStep
  <2> QED BY <1>1, <2>1, LoopSlots
<1>6. CASE WorkerStep(Painter) \/ WorkerStep(FrameThread)
  <2>1. (Painter \/ FrameThread) /\ UNCHANGED << vars, tableVars, aside >>
    BY <1>6 DEF WorkerStep
  <2> QED BY <1>1, <2>1, FrameSlots
<1> QED
  BY <1>2, <1>3, <1>4, <1>5, <1>6 DEF SessionNext, Calm, Disturbance, DaemonStep, CalmStep

\* The slots of Unreleased are those of Out.
LEMMA UnreleasedOut == ASSUME MainInv, Counts PROVE Unreleased \subseteq Out
<1>1. /\ frames \in Seq(1 .. nextPoint) /\ held \subseteq 1 .. nextPoint /\ toDaemon \in Seq(Messages)
      /\ events \in Seq(Messages) /\ \A p : Lists(frames, p) => p \in 1 .. nextPoint
      /\ \A p : Carries(Coming, p) => p \in 1 .. nextPoint
  BY OrderValues DEF MainInv, Mail
<1>2. \A i \in DOMAIN frames : Lists(frames, frames[i])
  BY <1>1 DEF Lists
<1>3. ASSUME NEW i \in DOMAIN toDaemon, toDaemon[i].op = "FRAME_READY"
      PROVE  Carries(Coming, toDaemon[i].arg)
  <2>1. i \in 1 .. Len(Coming) /\ Coming[i] = toDaemon[i]
    BY <1>1, <1>3 DEF Coming
  <2> QED BY <1>3, <2>1 DEF Carries
<1> QED BY <1>1, <1>2, <1>3 DEF Unreleased, Out

LEMMA SlotsAreApart == SessionInv /\ PointsInv => ThreadWritesReleased
<1> SUFFICES ASSUME SessionInv, PointsInv, ~aside PROVE painting \notin InUse
  BY DEF ThreadWritesReleased, WriteOnlyReleased
<1>1. MainInv /\ Counts /\ Images
  BY DEF SessionInv
<1>2. Unreleased \subseteq Out /\ Out \subseteq 1 .. nextPoint
  BY <1>1, UnreleasedOut DEF Out
<1>3. CASE painting = NoSlot
  <2>1. \A p \in Out : slotOf[p] # NoSlot
    BY <1>2 DEF PointsInv, Slotted, Slots, NoSlot
  <2> QED BY <1>2, <1>3, <2>1 DEF InUse
<1>4. CASE painting # NoSlot
  <2>1. pump = "paint"
    BY <1>1, <1>4 DEF Images, Painting
  <2>2. Apart(painting)
    BY <2>1 DEF PointsInv, Guarded
  <2> QED BY <1>2, <2>2 DEF InUse, Apart
<1> QED BY <1>3, <1>4

\* No slot that somebody still reads is written: whatever breaks, and in whatever order
\* frames are taken, released and retired, the gate of wait_release opens only for a
\* slot whose last frame is back (a backend that paints in the frame thread).
THEOREM SlotsHold == SessionSpec => []ThreadWritesReleased
<1>1. SessionInv /\ PointsInv => ThreadWritesReleased
  BY SlotsAreApart
<1>2. SessionInit => PointsInv
  BY PointsStart
<1>3. SessionInv /\ PointsInv /\ [SessionNext]_sessionVars => PointsInv'
  BY PointsStep
<1> QED BY <1>1, <1>2, <1>3, SessionStart, SessionStep, PTL DEF SessionSpec, SessionNext

-----------------------------------------------------------------------------
(* A healthy worker is not taken for a broken one.                         *)

LEMMA ThreeSlots == MaxPool = 3
<1>1. Cardinality(0 .. 2) = 3
  <2>1. Cardinality(0 .. 2) = IF 0 > 2 THEN 0 ELSE 2 - 0 + 1
    <3>1. 0 \in Int /\ 2 \in Int
      OBVIOUS
    <3> QED BY <3>1, FS_Interval, Zenon
  <2> QED BY <2>1
<1> QED BY <1>1, SessionAssumption DEF Slots

\* A frame that arrives finds room: the slots of the frames that wait, and its own,
\* are different ones.
LEMMA FrameFits ==
  ASSUME MainInv, Counts, PointsInv, toDaemon # << >>, Head(toDaemon).op = "FRAME_READY"
  PROVE  Len(frames) < MaxPool /\ lastPoint < Head(toDaemon).arg
<1>1. /\ nextPoint \in Nat /\ lastPoint \in 0 .. nextPoint /\ frames \in Seq(1 .. nextPoint)
      /\ toDaemon \in Seq(Messages) /\ Coming \in Seq(Messages)
      /\ \A p : Lists(frames, p) => p \in 1 .. nextPoint
      /\ \A p : Carries(Coming, p) => p \in 1 .. nextPoint
  BY OrderValues DEF MainInv, Mail
<1>2. PICK x : x = Head(toDaemon).arg
  OBVIOUS
<1>3. Coming # << >> /\ Head(Coming) = Head(toDaemon)
  BY JoinSeq DEF MainInv, Mail, Coming
<1>4. Carries(Coming, x) /\ lastPoint < x /\ x \in Out
  BY <1>1, <1>2, <1>3, RisingTail DEF PointsInv, InOrder, Out
<1>5. ASSUME Len(frames) >= 3 PROVE FALSE
  <2>1. 1 \in 1 .. Len(frames) /\ 2 \in 1 .. Len(frames) /\ 3 \in 1 .. Len(frames)
    BY <1>1, <1>5
  <2>2. /\ Lists(frames, frames[1]) /\ Lists(frames, frames[2]) /\ Lists(frames, frames[3])
        /\ frames[1] < frames[2] /\ frames[2] < frames[3] /\ frames[1] < frames[3]
    BY <2>1 DEF Lists, PointsInv, InOrder, Climbs
  <2>3. PICK a, b, c : a = frames[1] /\ b = frames[2] /\ c = frames[3]
    OBVIOUS
  <2>4. \A p \in {a, b, c} : p \in Out /\ p <= lastPoint /\ p \in Nat
    <3>1. \A p : Lists(frames, p) => p \in Out /\ p <= lastPoint /\ p \in Nat
      BY <1>1 DEF Out, PointsInv, InOrder
    <3> QED BY <2>2, <2>3, <3>1
  <2>5. a # b /\ b # c /\ a # c /\ a # x /\ b # x /\ c # x
    <3>1. x \in Nat /\ lastPoint \in Nat
      BY <1>1, <1>4
    <3> QED BY <1>4, <2>2, <2>3, <2>4, <3>1
  <2>6. \A p, q \in {a, b, c, x} : slotOf[p] = slotOf[q] => p = q
    BY <1>4, <2>4 DEF PointsInv, Slotted
  <2>7. \A p \in {a, b, c, x} : slotOf[p] \in {0, 1, 2}
    BY <1>4, <2>4 DEF PointsInv, Slotted, Slots, Out
  <2> QED BY <2>5, <2>6, <2>7
<1> QED BY <1>1, <1>2, <1>4, <1>5, ThreeSlots

LEMMA HeadIsFine ==
  ASSUME TypeOK, MainInv, Counts, PointsInv, ipc, toDaemon # << >>
  PROVE  Acceptable(Head(toDaemon)) /\ (Head(toDaemon).op = "ERROR" => stopping)
<1> DEFINE m == Head(toDaemon)
<1>1. /\ toDaemon \in Seq(Messages) /\ m \in Messages
      /\ Coming \in Seq(Messages) /\ Coming # << >> /\ Head(Coming) = m
      /\ Has(Coming, m.op) /\ m.op \notin Got
  <2>1. toDaemon \in Seq(Messages) /\ events \in Seq(Messages)
    BY DEF MainInv, Mail
  <2>2. Coming \in Seq(Messages) /\ Coming # << >> /\ Head(Coming) = m
    BY <2>1, JoinSeq, ComingSeq DEF MainInv, Coming
  <2>3. 1 \in 1 .. Len(Coming) /\ Coming[1] = m
    BY <2>2, TailIs
  <2>4. Has(Coming, m.op) /\ m.op \notin Got
    BY <2>3 DEF Has, MainInv, Sound, Ordered
  <2> QED BY <2>1, <2>2, <2>4, TailIs
<1>2. m.ok = TRUE /\ m.op \in OnceOnly \cup {"ERROR", "QUIESCED", "BIND_BUFFERS", "FRAME_READY"}
  BY <1>1 DEF Messages, Event
<1>3. /\ Coming # << >> /\ state \notin Ended \cup {"EMPTY"} /\ state \in States /\ seen \subseteq OnceOnly
      /\ state \notin {"UNBINDING", "SHUTTING_DOWN"}
  BY <1>1 DEF MainInv, Stages, Parts, TypeOK, ProcessTypeOK
<1> HIDE DEF m
<1>4. CASE "HELLO" \notin seen
  <2>1. phase = "WAIT_INIT" /\ toDaemon = << Event("HELLO", 0) >>
    BY <1>3, <1>4 DEF MainInv, Greets
  <2>2. m.op = "HELLO"
    BY <2>1 DEF m, Event
  <2>3. state = "WAIT_HELLO"
    BY <1>3, <1>4 DEF MainInv, Stages, States, Ended, Running, Leaving, Broken, OnceOnly
  <2> QED BY <1>2, <1>4, <2>2, <2>3 DEF Acceptable, m
<1>5. CASE "HELLO" \in seen
  <2>1. m.op # "HELLO" /\ state # "WAIT_HELLO"
    BY <1>1, <1>5 DEF Got, MainInv, Stages
  <2>2. CASE m.op \in InitReplies
    <3>1. m.op \notin seen /\ seen # OnceOnly
      BY <1>1, <2>2 DEF Got, OnceOnly
    <3>2. state = "INITIALIZING"
      BY <1>3, <2>1, <3>1 DEF MainInv, Stages, States, Ended, Running, Leaving, Broken
    <3> QED BY <1>2, <1>5, <2>2, <3>1, <3>2 DEF Acceptable, m, InitReplies
  <2>3. CASE m.op = "BIND_BUFFERS"
    <3>1. negotiated /\ poolSize = 0
      BY <1>1, <2>3 DEF Got, MainInv, Serves, Served, Sound
    <3>2. state \in StoresPool
      BY <1>3, <2>1, <3>1 DEF MainInv, Stages, States, Ended, Running, Leaving, Broken, StoresPool
    <3> QED BY <1>2, <1>5, <2>3, <3>1, <3>2 DEF Acceptable, m
  <2>4. CASE m.op = "FRAME_READY"
    <3>1. Len(frames) < MaxPool /\ lastPoint < m.arg
      BY <1>1, <2>4, FrameFits DEF m
    <3>2. poolSize = MaxPool
      <4>1. Len(Coming) \in Nat /\ 1 \in 1 .. Len(Coming) /\ Coming[1] = m
        BY <1>1, TailIs
      <4>2. ~Has(Coming, "BIND_BUFFERS")
        <5> SUFFICES ASSUME NEW i \in 1 .. Len(Coming), Coming[i].op = "BIND_BUFFERS" PROVE FALSE
          BY DEF Has
        <5>1. i < 1
          BY <2>4, <4>1 DEF MainInv, Sound, Ordered
        <5> QED BY <5>1
      <4>3. nextPoint > 0
        <5>1. m.arg \in 1 .. nextPoint
          BY <2>4, <4>1 DEF MainInv, Sound, PointsTo
        <5> QED BY <5>1, OrderValues
      <4> QED BY <4>2, <4>3 DEF MainInv, Serves, Sound
    <3>3. negotiated
      BY <3>2, ThreeSlots DEF MainInv, Stages
    <3>4. state \in StoresPool
      BY <1>3, <2>1, <3>3 DEF MainInv, Stages, States, Ended, Running, Leaving, Broken, StoresPool
    <3>5. StoreFrame(m.arg)
      BY <3>1, <3>2 DEF StoreFrame
    <3> QED BY <1>2, <1>5, <2>4, <3>4, <3>5 DEF Acceptable, m
  <2>5. CASE m.op = "QUIESCED"
    <3>1. quiesced
      BY <1>1, <2>5 DEF MainInv, Parts
    <3>2. state = "QUIESCING"
      BY <1>3, <2>1, <3>1 DEF MainInv, Stages, States, Ended, Running, Leaving, Broken
    <3> QED BY <1>2, <1>5, <2>5, <3>1, <3>2 DEF Acceptable, m
  <2>6. CASE m.op = "ERROR"
    <3>1. stopping
      BY <1>1, <2>6 DEF MainInv, Sound
    <3> QED BY <1>5, <2>6, <3>1 DEF Acceptable, m
  <2> QED BY <1>2, <2>1, <2>2, <2>3, <2>4, <2>5, <2>6 DEF OnceOnly, m
<1> QED BY <1>4, <1>5

\* The worker's loop ends when it was told to, by an error or by the end of its socket;
\* a worker that closed its end was told to go; and a failed process was asked to end
\* or reported an error.
Gone ==
  /\ pc = "gone" => stopping \/ phase = "EXIT" \/ ~ipc
  /\ inst # 0 /\ ~peer => pc = "gone" \/ termSent
  /\ HealthyIsNotBroken

LEMMA GoneStart == SessionInit => Gone
BY DEF SessionInit, HostInit, Init, ProcessInit, Gone, HealthyIsNotBroken, Broken

\* The kind of the backend stays.
LEMMA AsideStays == ASSUME SessionInv, [SessionNext]_sessionVars PROVE aside' = aside
<1>1. CASE DaemonStep
  BY <1>1, DaemonShape DEF HostKept, SessionInv, MainInv
<1>2. CASE ~DaemonStep
  BY <1>2 DEF SessionNext, Calm, Disturbance, DaemonStep, CalmStep, ReleasePoint, WorkerStep, Closes, Ends, Crash,
              sessionVars, hostVars
<1> QED BY <1>1, <1>2

\* A step of the daemon in a session where everyone is in time.
LEMMA GoneDaemon ==
  ASSUME TypeOK, MainInv, Counts, PointsInv, Gone, HostKept, CalmShape
  PROVE  Gone'
<1> USE DEF Gone, HealthyIsNotBroken
<1>1. UNCHANGED << phase, stopping >> /\ pc' = (IF inst' # inst THEN "boot" ELSE pc)
  BY DEF HostKept
<1>2. CASE Spawns
  BY <1>1, <1>2 DEF Spawns, Broken
<1>3. CASE Orderly /\ ~Spawns
  <2>1. /\ inst' = inst /\ peer' = peer /\ termSent' = termSent /\ (ipc' => ipc)
    BY <1>3 DEF Orderly, Rests, Rest, Tells, Takes, Reaps, ReadsHello, ReadsReply, ReadsPool, ReadsFrame,
                ReadsQuiesced, Negotiates, Quiesces, ShutsDown, HangsUp, Stage
  <2>2. state' \in Broken => state \in Broken /\ (stopRequested => stopRequested')
    BY <1>3 DEF Orderly, Rests, Rest, Tells, Takes, Reaps, ReadsHello, ReadsReply, ReadsPool, ReadsFrame,
                ReadsQuiesced, Negotiates, Quiesces, ShutsDown, HangsUp, Stage, Broken, MainInv, Stages
  <2> QED BY <1>1, <2>1, <2>2
<1>4. CASE Fails /\ Reason
  <2>1. inst' = inst /\ peer' = peer /\ termSent' /\ ~ipc'
    BY <1>4 DEF Fails
  <2>2. stopping \/ stopRequested'
    <3>1. CASE ~peer /\ ipc /\ (state # "SHUTTING_DOWN" \/ toWorker # << >>)
      <4>1. inst # 0 /\ ~termSent
        BY <3>1 DEF MainInv, Stages
      <4>2. stopping \/ phase = "EXIT"
        BY <3>1, <4>1
      <4>3. phase = "EXIT" => toWorker = << >> /\ state = "SHUTTING_DOWN"
        BY <3>1 DEF MainInv, Fits, Stages
      <4> QED BY <3>1, <4>2, <4>3
    <3>2. CASE ipc /\ toDaemon # << >> /\ (~Acceptable(Head(toDaemon)) \/ Head(toDaemon).op = "ERROR")
      BY <3>2, HeadIsFine
    <3> QED BY <1>4, <3>1, <3>2 DEF Reason
  <2> QED BY <1>1, <2>1, <2>2
<1> QED BY <1>2, <1>3, <1>4 DEF CalmShape

\* A step of the loop, whose worker still has its end of the socket.
LEMMA GoneLoop ==
  ASSUME MainInv, Flags, Gone, UNCHANGED vars, peer, Loop(~ipc)
  PROVE  Gone'
<1> USE DEF Gone, HealthyIsNotBroken
<1>1. UNCHANGED << inst, state, ipc, peer, termSent, stopRequested >>
  BY DEF vars, procVars, opVars, ownerVars, osVars
<1>2. stopping => stopping'
  BY DEF Loop, Boot, Flush, Turn, Poll, Drain, Drained, Joined, HandleInit, HandleNegotiate,
         HandleRuntime, HandleQuiesce, HandleShutdown, Refuse, EnqueueError, frameVars
<1>3. pc # "gone"
  BY DEF Loop, Boot, Flush, Turn, Poll, Drain, Drained, Joined
<1>4. ASSUME pc' = "gone" PROVE stopping' \/ phase' = "EXIT" \/ ~ipc
  <2>1. CASE Flush(~ipc) \/ Drained(~ipc)
    BY <1>3, <1>4, <2>1 DEF Flush, Drained
  <2>2. CASE Turn
    BY <1>4, <2>2 DEF Turn
  <2>3. CASE Drain
    <3>1. After(Head(toWorker)) = "gone" /\ Accepts(Head(toWorker))
      BY <1>4, <2>3, CommandFits DEF Drain
    <3>2. Head(toWorker) = "SHUTDOWN"
      BY <3>1 DEF After
    <3>3. HandleShutdown
      BY <2>3, <3>1, <3>2 DEF Drain
    <3> QED BY <3>3 DEF HandleShutdown
  <2>4. CASE Boot \/ Poll(~ipc) \/ Joined
    BY <1>4, <2>4 DEF Boot, Poll, Joined
  <2> QED BY <2>1, <2>2, <2>3, <2>4 DEF Loop
<1> QED BY <1>1, <1>2, <1>3, <1>4

LEMMA GoneStep ==
  ASSUME SessionInv, PointsInv, Gone, [Calm]_sessionVars
  PROVE  Gone'
<1>1. TypeOK /\ HoldInv /\ MainInv /\ Flags /\ Images /\ Counts
  BY DEF SessionInv
<1>2. CASE CalmStep
  <2>1. HostKept /\ CalmShape
    BY <1>1, <1>2, CalmDaemonShape DEF MainInv
  <2> QED BY <1>1, <2>1, GoneDaemon
<1>3. CASE (\E p \in held : ReleasePoint(p)) \/ WorkerStep(Painter) \/ WorkerStep(FrameThread) \/ UNCHANGED sessionVars
  <2>1. UNCHANGED << vars, pc, phase, stopping >>
    BY <1>3 DEF ReleasePoint, WorkerStep, Painter, FrameThread, FinishPaint, StartPaint, EndPaint, PaintFails,
                PumpWaits, NoFrame, TakeImage, RecordPoint, PublishFrame, loopVars, workerVars, sessionVars, hostVars
  <2> QED BY <2>1 DEF vars, procVars, opVars, ownerVars, osVars, Gone, HealthyIsNotBroken
<1>4. CASE Closes \/ Ends
  <2>1. UNCHANGED << ownerVars, hostVars >> /\ UNCHANGED << inst, state, ipc, termSent >> /\ (pc = "gone" \/ termSent)
    BY <1>4 DEF Closes, Ends, PeerCloses, LeaderExits, opVars
  <2> QED BY <2>1 DEF ownerVars, hostVars, workerVars, loopVars, Gone, HealthyIsNotBroken
<1>5. CASE WorkerStep(peer /\ Loop(~ipc))
  BY <1>1, <1>5, GoneLoop DEF WorkerStep
<1> QED BY <1>2, <1>3, <1>4, <1>5 DEF Calm, CalmStep

\* The daemon never takes a healthy worker for a broken one: as long as nobody crashes
\* or is late, a process fails only when the owner asked for its end or the backend
\* reported an error.
THEOREM HealthHolds == CalmSafety => []HealthyIsNotBroken
<1>1. Gone => HealthyIsNotBroken
  BY DEF Gone
<1>2. [Calm]_sessionVars => [SessionNext]_sessionVars
  BY DEF SessionNext
<1>3. SessionInv /\ PointsInv /\ [SessionNext]_sessionVars => PointsInv'
  BY PointsStep
<1>4. SessionInv /\ PointsInv /\ Gone /\ [Calm]_sessionVars => Gone'
  BY GoneStep
<1> QED
  BY <1>1, <1>2, <1>3, <1>4, SessionStart, SessionStep, PointsStart, GoneStart, PTL DEF CalmSafety

\* Both for the specification that TLC runs, with both kinds of backend: one that paints
\* in the frame thread writes no slot that is read, whatever breaks, and one that
\* paints aside is not taken for broken in a session without disturbance.
THEOREM BackendsHold == BothKinds => []BackendsBehave
<1>1. [BothNext]_sessionVars => [SessionNext]_sessionVars
  BY DEF BothNext, SessionNext
<1>2. SessionInv /\ PointsInv /\ (aside => Gone) /\ [BothNext]_sessionVars => (aside => Gone)'
  <2> SUFFICES ASSUME SessionInv, PointsInv, aside => Gone, [BothNext]_sessionVars, aside' PROVE Gone'
    OBVIOUS
  <2>1. aside' = aside
    BY <1>1, AsideStays
  <2>2. [Calm]_sessionVars
    BY <2>1 DEF BothNext
  <2> QED BY <2>1, <2>2, GoneStep
<1>3. SessionInv /\ PointsInv /\ (aside => Gone) => BackendsBehave
  BY SlotsAreApart DEF BackendsBehave, Gone
<1>4. SessionInv /\ PointsInv /\ [SessionNext]_sessionVars => PointsInv'
  BY PointsStep
<1>5. SessionInit => (aside => Gone)
  BY GoneStart
<1> QED
  BY <1>1, <1>2, <1>3, <1>4, <1>5, SessionStart, SessionStep, PointsStart, PTL DEF BothKinds
=============================================================================
