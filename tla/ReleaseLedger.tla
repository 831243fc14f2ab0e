----------------------------- MODULE ReleaseLedger -----------------------------
(***************************************************************************)
(* Release points of the frames a route hands to its displays.  The main    *)
(* loop sends one frame to every output of the route and queues a record    *)
(* per output; the reaper thread waits for the records one by one, gives up *)
(* on a consumer after a timeout, and the last record of a frame reports    *)
(* the frame's point back to the worker.  Sends fail, consumers die, and    *)
(* the coordinator is stopped with records queued.                          *)
(*                                                                         *)
(* An independent route is a group of one output.  The gate of the          *)
(* in-process renderer, which no build contains, is left out.               *)
(***************************************************************************)
EXTENDS Integers, Sequences, FiniteSets

CONSTANTS
  Screens,   \* outputs that may be linked to the route
  Buffers,   \* indices of the worker's buffers
  MaxFrames  \* frames the worker publishes

ASSUME LedgerAssumption ==
  /\ Screens # {} /\ IsFiniteSet(Screens)
  /\ Buffers # {} /\ MaxFrames \in Nat

VARIABLES
  linked,    \* outputs linked to the route
  bufferOf,  \* bufferOf[f]: the buffer of the f-th frame taken, whose point is f
  sending,   \* the frame being sent and the outputs it has still to go to
  expected, completed, \* of a frame's ReleaseGroup
  queue,     \* release_queue
  reaping,   \* the record the reaper works on
  reading,   \* << frame, screen >> a consumer has and did not release
  released,  \* << frame, screen >> the consumer released and the reaper did not see
  forced,    \* << frame, screen >> still read when the daemon signalled its syncobj
  reported,  \* frames whose point was completed at the worker
  stopping,  \* release_thread_stopping
  running    \* the reaper thread runs

mainVars   == << linked, bufferOf, sending, expected >>
reaperVars == << reaping, stopping, running >>
ledgerVars == << mainVars, completed, queue, released, reading, forced, reported, reaperVars >>

Frames  == 1 .. MaxFrames
Idle    == [frame |-> 0, left |-> {}]
NoRecord == [frame |-> 0, screen |-> "none", at |-> "none"]
Shutdown == [frame |-> 0, screen |-> "shutdown", at |-> "queued"]
Record(f, s) == [frame |-> f, screen |-> s, at |-> "queued"]

LedgerInit ==
  /\ linked \in (SUBSET Screens) \ {{}}
  /\ bufferOf = << >> /\ sending = Idle
  /\ expected = [f \in Frames |-> 0] /\ completed = [f \in Frames |-> 0]
  /\ queue = << >> /\ reaping = NoRecord
  /\ released = {} /\ reading = {} /\ forced = {} /\ reported = {}
  /\ stopping = FALSE /\ running = TRUE

\* Points are completed in order at the worker: one has come when those before it have.
AllBack(f) == 1 .. f \subseteq reported

\* release_group_complete: one completion more; the last one reports the point.
Completes(f)  == completed' = [completed EXCEPT ![f] = IF @ < expected[f] THEN @ + 1 ELSE @]
\* Mutant of LastOf: the first consumer to release speaks for all.
FirstOf(f)    == completed[f] = 0
LastOf(f)     == completed[f] + 1 >= expected[f]

-----------------------------------------------------------------------------
(* The main loop.                                                          *)

\* route_send_frame: the worker publishes a frame in a buffer it may write, and
\* the route takes it for its outputs.
LedgerTakes(b) ==
  LET f == Len(bufferOf) + 1 IN
  /\ ~stopping /\ sending = Idle /\ linked # {} /\ f \in Frames
  /\ \A g \in 1 .. (f - 1) : bufferOf[g] = b => AllBack(g)
  /\ bufferOf' = Append(bufferOf, b)
  /\ \/ /\ sending' = [frame |-> f, left |-> linked]
        /\ expected' = [expected EXCEPT ![f] = Cardinality(linked)]
        /\ UNCHANGED reported
     \/ \* route-buffer-mismatch, or no aggregate point: complete_unsent_worker_frame
        /\ reported' = reported \cup {f}
        /\ UNCHANGED << sending, expected >>
  /\ UNCHANGED << linked, completed, queue, released, reading, forced, reaperVars >>

GoesTo(s) ==
  sending' = IF sending.left = {s} THEN Idle ELSE [sending EXCEPT !.left = @ \ {s}]

\* send_frame_ready_event: the event went out, and the reaper is to wait for it.
Send(s) ==
  /\ s \in sending.left /\ s \in linked
  /\ GoesTo(s)
  /\ queue' = Append(queue, Record(sending.frame, s))
  /\ reading' = reading \cup {<< sending.frame, s >>}
  /\ UNCHANGED << linked, bufferOf, expected, completed, released, forced, reported, reaperVars >>

\* Mutant of SendFails: a failed send is forgotten.
SendForgotten(s) ==
  /\ s \in sending.left /\ GoesTo(s)
  /\ UNCHANGED << linked, bufferOf, expected, completed, queue, released, reading, forced,
                  reported, reaperVars >>

\* A blocked or broken socket, or no syncobj: the output counts as released.
SendFails(s) ==
  /\ s \in sending.left
  /\ GoesTo(s)
  /\ Completes(sending.frame)
  /\ reported' = IF LastOf(sending.frame) THEN reported \cup {sending.frame} ELSE reported
  /\ UNCHANGED << linked, bufferOf, expected, queue, released, reading, forced, reaperVars >>

\* client_free, or a new client's output (between two frames of the loop).
ScreenLeaves(s) ==
  /\ sending = Idle /\ s \in linked
  /\ linked' = linked \ {s}
  /\ UNCHANGED << bufferOf, sending, expected, completed, queue, released, reading, forced,
                  reported, reaperVars >>

\* Mutant of Stop: the reaper leaves before the records queued ahead.
StopFirst ==
  /\ ~stopping /\ sending = Idle
  /\ stopping' = TRUE /\ queue' = << Shutdown >> \o queue
  /\ UNCHANGED << mainVars, completed, released, reading, forced, reported, reaping, running >>

\* producer_release_coordinator_stop, up to the join of the thread.
Stop ==
  /\ ~stopping /\ sending = Idle
  /\ stopping' = TRUE /\ queue' = Append(queue, Shutdown)
  /\ UNCHANGED << mainVars, completed, released, reading, forced, reported, reaping, running >>

-----------------------------------------------------------------------------
(* The reaper thread.                                                      *)

Pop ==
  /\ running /\ reaping = NoRecord /\ queue # << >>
  /\ queue' = Tail(queue)
  /\ IF Head(queue) = Shutdown
     THEN running' = FALSE /\ UNCHANGED reaping
     ELSE reaping' = [Head(queue) EXCEPT !.at = IF stopping THEN "stop" ELSE "wait"]
          /\ UNCHANGED running
  /\ UNCHANGED << mainVars, completed, released, reading, forced, reported, stopping >>

Current == << reaping.frame, reaping.screen >>

\* The consumer released the buffer in time.
Observe ==
  /\ reaping.at = "wait" /\ Current \in released
  /\ reaping' = [reaping EXCEPT !.at = "count"]
  /\ UNCHANGED << mainVars, completed, queue, released, reading, forced, reported, stopping, running >>

\* RELEASE_REAPER_TIMEOUT_MSEC went by, or the coordinator stops: the daemon
\* signals the syncobj itself.
GivesUp ==
  /\ reaping.at \in {"wait", "stop"}
  /\ reaping.at = "wait" => Current \notin released
  /\ reaping' = [reaping EXCEPT !.at = "count"]
  /\ forced' = forced \cup ({Current} \cap reading)
  /\ UNCHANGED << mainVars, completed, queue, released, reading, reported, stopping, running >>

\* The count under the group's lock, and the report after it.
Count ==
  /\ reaping.at = "count"
  /\ Completes(reaping.frame)
  /\ reaping' = IF LastOf(reaping.frame) THEN [reaping EXCEPT !.at = "report"] ELSE NoRecord
  /\ released' = released \ {Current}
  /\ UNCHANGED << mainVars, queue, reading, forced, reported, stopping, running >>

Report ==
  /\ reaping.at = "report"
  /\ reported' = reported \cup {reaping.frame}
  /\ reaping' = NoRecord
  /\ UNCHANGED << mainVars, completed, queue, released, reading, forced, stopping, running >>

-----------------------------------------------------------------------------
(* The consumers.                                                          *)

Release(f, s) ==
  /\ << f, s >> \in reading
  /\ reading' = reading \ {<< f, s >>}
  /\ released' = released \cup ({<< f, s >>} \ forced)
  /\ forced' = forced \ {<< f, s >>}
  /\ UNCHANGED << mainVars, completed, queue, reported, reaperVars >>

\* A consumer that dies reads nothing any more and signals nothing.
Die(s) ==
  /\ \E f \in Frames : << f, s >> \in reading
  /\ reading' = {r \in reading : r[2] # s}
  /\ forced' = {r \in forced : r[2] # s}
  /\ UNCHANGED << mainVars, completed, queue, released, reported, reaperVars >>

MainStep   == (\E b \in Buffers : LedgerTakes(b)) \/ (\E s \in Screens : Send(s) \/ SendFails(s) \/ ScreenLeaves(s)) \/ Stop
ReaperStep == Pop \/ Observe \/ GivesUp \/ Count \/ Report
Consumer   == \E s \in Screens : Die(s) \/ \E f \in Frames : Release(f, s)

LedgerNext == MainStep \/ ReaperStep \/ Consumer

\* The main loop finishes what it sends and the reaper thread runs; its wait has
\* a timeout, so nothing is asked of the consumers.
LedgerFairness ==
  /\ WF_ledgerVars(ReaperStep)
  /\ WF_ledgerVars(\E s \in Screens : Send(s) \/ SendFails(s))

LedgerSpec == LedgerInit /\ [][LedgerNext]_ledgerVars /\ LedgerFairness

-----------------------------------------------------------------------------
(* What the worker may rely on.                                            *)

LedgerTypeOK ==
  /\ linked \subseteq Screens
  /\ bufferOf \in Seq(Buffers) /\ Len(bufferOf) <= MaxFrames
  /\ sending.frame \in 0 .. MaxFrames /\ sending.left \subseteq Screens
  /\ \A f \in Frames : completed[f] <= expected[f]
  /\ released \subseteq Frames \X Screens /\ reading \subseteq Frames \X Screens
  /\ forced \subseteq reading /\ reported \subseteq Frames

\* The worker writes a buffer again only when every consumer that got it has
\* released it or was given up on: in whatever order sends fail, consumers
\* release and die, and the reaper counts.
ReusedWhenReleased ==
  \A r \in reading \ forced : ~AllBack(r[1])

\* The point of every frame the route took comes back to the worker, whatever
\* the consumers do.
FramesReturn == \A f \in Frames : (Len(bufferOf) >= f) ~> AllBack(f)

\* A coordinator that has stopped left no point behind.
StopLeavesNothing == ~running => AllBack(Len(bufferOf)) /\ queue = << >>

\* What the reaper owes both sides: no buffer is reused early, and nothing is left
\* behind by a stop.
ReleasesKept == LedgerTypeOK /\ ReusedWhenReleased /\ StopLeavesNothing
=============================================================================
