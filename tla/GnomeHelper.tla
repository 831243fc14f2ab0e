----------------------------- MODULE GnomeHelper -----------------------------
(***************************************************************************)
(* How the GNOME extension talks to the daemon: the Shell, which sees the  *)
(* pointer and the windows, writes lines to the stdin of a helper process  *)
(* that it starts again when it exits; the helper, which alone holds the   *)
(* display socket, writes frames to it and connects again when it closes.  *)
(* Both write asynchronously, one item at a time: the item is taken off    *)
(* its queue when the write has completed.                                 *)
(*                                                                         *)
(* A process dies at once when it is killed.  A line or a frame is written *)
(* at the moment its write completes.                                      *)
(***************************************************************************)
EXTENDS Lists

CONSTANTS
  MaxRuns,     \* times the extension is enabled or the monitors change
  MaxHelpers,  \* helper processes
  MaxDials,    \* connections of a helper
  MaxInputs    \* pointer events and changes of the windows

ASSUME HelperAssumption == {MaxRuns, MaxHelpers, MaxDials, MaxInputs} \subseteq Nat

VARIABLES
  crashing,    \* a helper may crash, and may fail to be started
  enabled,     \* _started
  runSerial,   \* _runSerial
  child,       \* _subprocess, or 0
  alive,       \* helper processes that run
  exits,       \* << process, serial >> whose wait_async has not called back
  retry,       \* serial the restart timer was set with, or 0
  lines,       \* _writeQueue of the service
  linePending, \* _writePending of the service
  lineWrites,  \* << process, item >> being written
  pipe,        \* stdin of the child
  report,      \* a report of the windows is scheduled
  inputs,      \* inputs so far; each has a number
  fact,        \* the last one that changed the windows
  helpers,     \* processes started
  carrier,     \* the helper's connection: "down", "dialing" or "up"
  dial,        \* its number
  redial,      \* the reconnect timer is set
  lastState,   \* _lastWindowState, or 0
  frames,      \* _writeQueue of the helper
  framePending, \* _writePending of the helper
  frameWrites, \* << connection, item >> being written
  owed,        \* what the helper has queued on the connection, motions apart, and
               \* the daemon has not received
  heard        \* the last state the daemon has received

shellVars  == << enabled, runSerial, child, alive, exits, retry, helpers >>
lineVars   == << lines, linePending, lineWrites, pipe >>
inputVars  == << report, inputs, fact >>
dialVars   == << carrier, dial, redial >>
frameVars  == << frames, framePending, frameWrites, owed >>
helperVars == << crashing, shellVars, lineVars, inputVars, dialVars, lastState, frameVars, heard >>

Item(kind, n) == [kind |-> kind, n |-> n]
NoMotions(q)  == Picked(q, {i \in DOMAIN q : q[i].kind # "motion"})

HelperInit ==
  /\ crashing \in BOOLEAN
  /\ enabled = FALSE /\ runSerial = 0 /\ child = 0 /\ alive = {} /\ exits = {} /\ retry = 0
  /\ lines = << >> /\ linePending = FALSE /\ lineWrites = {} /\ pipe = << >>
  /\ report = FALSE /\ inputs = 0 /\ fact = 0 /\ helpers = 0
  /\ carrier = "down" /\ dial = 0 /\ redial = FALSE /\ lastState = 0
  /\ frames = << >> /\ framePending = FALSE /\ frameWrites = {} /\ owed = << >> /\ heard = 0

-----------------------------------------------------------------------------
(* The service in the Shell: the process.                                  *)

\* A helper starts dialing, with nothing queued.
HelperFresh ==
  /\ carrier' = "dialing" /\ dial' = dial + 1 /\ redial' = FALSE /\ lastState' = 0
  /\ frames' = << >> /\ framePending' = FALSE /\ frameWrites' = {} /\ owed' = << >>
HelperGone ==
  /\ carrier' = "down" /\ redial' = FALSE /\ lastState' = 0
  /\ frames' = << >> /\ framePending' = FALSE /\ frameWrites' = {} /\ owed' = << >>
  /\ UNCHANGED dial

\* _spawn, by a caller that leaves the processes in `others` alive; one that cannot
\* be started is tried again.
Spawn(serial, others) ==
  \/ /\ helpers < MaxHelpers /\ helpers' = helpers + 1
     /\ child' = helpers + 1
     /\ alive' = others \cup {helpers + 1}
     /\ exits' = exits \cup {<< helpers + 1, serial >>}
     /\ retry' = 0 /\ pipe' = << >>
     /\ HelperFresh
  \/ /\ crashing \/ helpers = MaxHelpers
     /\ child' = 0 /\ alive' = others /\ retry' = serial
     /\ HelperGone
     /\ UNCHANGED << exits, helpers, pipe >>

ForgetsLines == lines' = << >> /\ linePending' = FALSE

\* enable: start, and a first report of the windows.
Enables ==
  /\ ~enabled /\ runSerial < MaxRuns
  /\ enabled' = TRUE /\ runSerial' = runSerial + 1
  /\ report' = TRUE
  /\ Spawn(runSerial + 1, {})                        \* _reapStaleHelpers
  /\ UNCHANGED << crashing, lines, linePending, lineWrites, inputs, fact, heard >>

\* disable: stop.
Disables ==
  /\ enabled
  /\ enabled' = FALSE /\ runSerial' = runSerial + 1
  /\ report' = FALSE /\ retry' = 0 /\ child' = 0 /\ alive' = {}
  /\ ForgetsLines /\ pipe' = << >> /\ HelperGone
  /\ UNCHANGED << crashing, exits, helpers, lineWrites, inputs, fact, heard >>

\* monitors-changed: _restartHelper.
MonitorsChange ==
  /\ enabled /\ runSerial < MaxRuns
  /\ runSerial' = runSerial + 1
  /\ ForgetsLines
  /\ Spawn(runSerial + 1, {})
  /\ UNCHANGED << crashing, enabled, lineWrites, inputVars, heard >>

HelperDies ==
  /\ crashing /\ child \in alive /\ helpers < MaxHelpers
  /\ alive' = alive \ {child} /\ pipe' = << >> /\ HelperGone
  /\ UNCHANGED << crashing, enabled, runSerial, child, exits, retry, helpers,
                  lines, linePending, lineWrites, inputVars, heard >>

\* A callback of an earlier run changes nothing.
Awaited(serial) == enabled /\ serial = runSerial

\* The callback of wait_async, when the process is dead or the wait cancelled.
ExitSeen(p, serial) ==
  /\ << p, serial >> \in exits /\ p \notin alive
  /\ exits' = exits \ {<< p, serial >>}
  /\ child' = IF child = p THEN 0 ELSE child
  /\ retry' = IF Awaited(serial) /\ retry = 0 THEN serial ELSE retry
  /\ UNCHANGED << crashing, enabled, runSerial, alive, helpers,
                  lineVars, inputVars, dialVars, lastState, frameVars, heard >>

RetryFires ==
  /\ retry # 0
  /\ \/ /\ enabled /\ retry = runSerial
        /\ Spawn(retry, alive)
     \/ /\ ~(enabled /\ retry = runSerial)
        /\ retry' = 0
        /\ UNCHANGED << child, alive, exits, helpers, pipe, dialVars, lastState, frameVars >>
  /\ UNCHANGED << crashing, enabled, runSerial, lines, linePending, lineWrites, inputVars, heard >>

-----------------------------------------------------------------------------
(* The service: lines to the helper.                                       *)

\* _queueMessage: a motion takes the place of the motion that is queued.
Motions(q)    == {i \in DOMAIN q : q[i].kind = "motion"}
Coalesced(q, item, at) ==
  IF item.kind = "motion" /\ at # {}
  THEN [q EXCEPT ![CHOOSE i \in at : \A j \in at : j <= i] = item]
  ELSE Append(q, item)

\* _flushWriteQueue, of q.
FlushesLines(q) ==
  /\ lines' = q
  /\ IF child # 0 /\ ~linePending /\ q # << >>
     THEN linePending' = TRUE /\ lineWrites' = lineWrites \cup {<< child, Head(q) >>}
     ELSE UNCHANGED << linePending, lineWrites >>

\* Queued only while the service has a helper's stdin.
QueuesLine(item) ==
  IF child # 0
  THEN FlushesLines(Coalesced(lines, item, Motions(lines))) /\ UNCHANGED pipe
  ELSE UNCHANGED lineVars

PointerInput(kind) ==
  /\ enabled /\ inputs < MaxInputs
  /\ inputs' = inputs + 1
  /\ QueuesLine(Item(kind, inputs + 1))
  /\ UNCHANGED << crashing, shellVars, report, fact, dialVars, lastState, frameVars, heard >>

\* A window, the power or a player changes: _scheduleReport.
FactChanges ==
  /\ enabled /\ inputs < MaxInputs
  /\ inputs' = inputs + 1 /\ fact' = inputs + 1 /\ report' = TRUE
  /\ UNCHANGED << crashing, shellVars, lineVars, dialVars, lastState, frameVars, heard >>

\* _reportNow, in an idle callback.
ReportNow ==
  /\ report /\ report' = FALSE
  /\ QueuesLine(Item("state", fact))
  /\ UNCHANGED << crashing, shellVars, inputs, fact, dialVars, lastState, frameVars, heard >>

\* The callback of write_all_async.
LineWritten(p, item) ==
  LET rest == IF p \in alive /\ lines # << >> THEN Tail(lines) ELSE << >>
      w == lineWrites \ {<< p, item >>} IN
  /\ << p, item >> \in lineWrites
  /\ IF p # child                                    \* stream !== this._stdin
     THEN lineWrites' = w /\ UNCHANGED << lines, linePending, pipe >>
     ELSE /\ lines' = rest
          /\ linePending' = (rest # << >>)
          /\ lineWrites' = IF rest # << >> THEN w \cup {<< child, Head(rest) >>} ELSE w
          /\ pipe' = IF p \in alive THEN Append(pipe, item) ELSE pipe
  /\ UNCHANGED << crashing, shellVars, inputVars, dialVars, lastState, frameVars, heard >>

-----------------------------------------------------------------------------
(* The helper: frames to the daemon.                                       *)

\* A queue to write to the connection, with what is owed for it.
FlushesFrames(q, due, pending, writes) ==
  /\ frames' = q /\ owed' = due
  /\ IF ~pending /\ q # << >>
     THEN framePending' = TRUE /\ frameWrites' = writes \cup {<< dial, Head(q) >>}
     ELSE framePending' = pending /\ frameWrites' = writes

\* _queueFrame: the newest motion, but never across a discrete event.
AfterBarrier(q) == {i \in Motions(q) : \A j \in i .. Len(q) : q[j].kind # "button"}
QueuesFrame(item) ==
  IF carrier = "up"
  THEN FlushesFrames(Coalesced(frames, item, AfterBarrier(frames)),
                     IF item.kind = "motion" THEN owed ELSE Append(owed, item),
                     framePending, frameWrites)
  ELSE UNCHANGED frameVars

\* handleControlMessage
ReadsLine ==
  LET item == Head(pipe) IN
  /\ pipe # << >> /\ child \in alive
  /\ pipe' = Tail(pipe)
  /\ lastState' = IF item.kind = "state" THEN item.n ELSE lastState
  /\ QueuesFrame(item)
  /\ UNCHANGED << crashing, shellVars, lines, linePending, lineWrites, inputVars, dialVars, heard >>

\* The mutant of Greeting leaves the state to the Shell's next report.
GreetingOnly == << Item("hello", 0) >>
\* HELLO, the capabilities and the outputs, then the last state there was.
Greeting == << Item("hello", 0) >> \o (IF lastState # 0 THEN << Item("state", lastState) >> ELSE << >>)

\* _connect: the callback of connect_async.
Dialed ==
  /\ carrier = "dialing" /\ carrier' = "up"
  /\ FlushesFrames(Greeting, Greeting, FALSE, {w \in frameWrites : w[1] # dial})
  /\ UNCHANGED << crashing, shellVars, lineVars, inputVars, dial, redial, lastState, heard >>

DialFails ==
  /\ carrier = "dialing" /\ dial < MaxDials /\ carrier' = "down" /\ redial' = TRUE
  /\ UNCHANGED << crashing, shellVars, lineVars, inputVars, dial, lastState, frameVars, heard >>

Redials ==
  /\ redial /\ redial' = FALSE /\ carrier' = "dialing" /\ dial' = dial + 1
  /\ UNCHANGED << crashing, shellVars, lineVars, inputVars, lastState, frameVars, heard >>

\* _closeConnection: the queue goes, a write in flight calls back later.
Hangup == carrier = "up" /\ dial < MaxDials
ClosesSocket ==
  /\ Hangup
  /\ carrier' = "down" /\ redial' = TRUE
  /\ frames' = << >> /\ framePending' = FALSE /\ owed' = << >>
  /\ UNCHANGED << crashing, shellVars, lineVars, inputVars, dial, lastState, frameWrites, heard >>

\* Mutant of OfConnection: a write that completes late counts for the new connection.
OfAnyConnection(d) == TRUE
\* A completion of a closed connection is ignored.
OfConnection(d) == d = dial /\ carrier = "up"

\* The callback of write_all_async on the socket.
FrameWritten(d, item) ==
  LET w == frameWrites \ {<< d, item >>}
      sent == d = dial /\ carrier = "up" IN
  /\ << d, item >> \in frameWrites
  /\ IF ~OfConnection(d) \/ frames = << >>
     THEN frameWrites' = w /\ UNCHANGED << frames, framePending, owed >>
     ELSE FlushesFrames(Tail(frames),
                        IF sent /\ item.kind # "motion" THEN Tail(owed) ELSE owed, FALSE, w)
  /\ heard' = IF sent /\ item.kind = "state" THEN item.n ELSE heard
  /\ UNCHANGED << crashing, shellVars, lineVars, inputVars, dialVars, lastState >>

-----------------------------------------------------------------------------
ServiceTurn ==
  \/ ReportNow \/ RetryFires
  \/ \E x \in exits : ExitSeen(x[1], x[2])
  \/ \E w \in lineWrites : LineWritten(w[1], w[2])
HelperTurn ==
  \/ ReadsLine \/ Dialed \/ Redials
  \/ \E w \in frameWrites : FrameWritten(w[1], w[2])

HelperNext ==
  \/ ServiceTurn \/ HelperTurn
  \/ Enables \/ Disables \/ MonitorsChange \/ FactChanges
  \/ \E kind \in {"motion", "button"} : PointerInput(kind)
  \/ HelperDies \/ DialFails \/ ClosesSocket

\* Both event loops run, and each callback is called.
HelperFairness ==
  /\ WF_helperVars(ReportNow) /\ WF_helperVars(RetryFires)
  /\ WF_helperVars(\E x \in exits : ExitSeen(x[1], x[2]))
  /\ WF_helperVars(\E w \in lineWrites : LineWritten(w[1], w[2]))
  /\ WF_helperVars(ReadsLine) /\ WF_helperVars(Dialed) /\ WF_helperVars(Redials)
  /\ WF_helperVars(\E w \in frameWrites : FrameWritten(w[1], w[2]))

HelperSpec == HelperInit /\ [][HelperNext]_helperVars /\ HelperFairness

-----------------------------------------------------------------------------
\* Types.
HelperTypeOK ==
  /\ child \in 0 .. MaxHelpers /\ alive \subseteq 1 .. MaxHelpers
  /\ retry \in 0 .. runSerial /\ carrier \in {"down", "dialing", "up"}
  /\ {fact, heard, lastState} \subseteq 0 .. MaxInputs

\* One helper at a time, whatever callbacks of earlier ones are still to come.
OneHelper == Cardinality(alive) <= 1

\* No discrete event, state or greeting that a helper has queued on a connection is
\* skipped or overtaken by another, although writes of closed connections complete
\* while this one's are pending.
FramesInOrder == NoMotions(frames) = owed

HelpersTakeTurns == HelperTypeOK /\ OneHelper /\ FramesInOrder

\* A report of the windows that is made while a helper runs reaches the daemon, over
\* lost connections and whatever else is being written, as long as the helper lives.
ReportsArrive ==
  \A n \in 0 .. MaxInputs, r \in 1 .. MaxRuns :
    (report /\ fact = n /\ runSerial = r /\ ~crashing) ~> (heard = n \/ fact # n \/ runSerial # r)
=============================================================================
