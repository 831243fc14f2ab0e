------------------------------ MODULE ClientInbox ------------------------------
(***************************************************************************)
(* What the daemon reads from a display client.  Frames arrive in halves   *)
(* and are put together in recv_state.  While the daemon waits for an      *)
(* UNBIND acknowledgement it reads the socket itself, answers nothing else *)
(* and puts other requests aside.  Such a wait starts in a frame tick, or  *)
(* inside the handling of a request of the same client; then recv_state    *)
(* still holds that request, which the wait reads again, and clearing it   *)
(* after the handler takes away what the wait has left there.              *)
(***************************************************************************)
EXTENDS Integers, Sequences

CONSTANTS
  MaxFramesSent, \* frames the client sends
  MaxWaits     \* UNBINDs the daemon waits for

ASSUME InboxAssumption == MaxFramesSent \in Nat /\ MaxWaits \in Nat

VARIABLES
  isAck,    \* isAck[f]: the client's f-th frame is an UNBIND_DONE
  arrived,  \* halves of frames in the socket or read
  read,     \* halves read from the socket
  recv,     \* recv_state: [frame, halves]
  handling, \* request in the hands of client_fd_ready, 0 for none
  waiting,  \* client_wait_unbind_ack is running
  inner,    \* its loop reads until the socket is empty
  nested,   \* the wait was started by the request being handled
  unbinds,  \* UNBINDs not acknowledged (unbind_acks)
  waits,    \* waits started
  deferred, \* deferred_frames
  handled,  \* requests in the order of their handling
  reread,   \* history: requests put aside by a wait of their own handler
  cut,      \* history: the first half of a frame was cleared with a request
  passed    \* history: a wait left requests aside

historyVars == << reread, cut, passed >>
inboxVars   == << isAck, arrived, read, recv, handling, waiting, inner, nested, unbinds, waits,
                  deferred, handled, historyVars >>

FramesSent     == Len(isAck)
NoFrame  == [frame |-> 0, halves |-> 0]
Readable == arrived > read
Whole    == recv.halves = 2

InboxInit ==
  /\ isAck = << >> /\ arrived = 0 /\ read = 0 /\ recv = NoFrame
  /\ handling = 0 /\ waiting = FALSE /\ inner = FALSE /\ nested = FALSE
  /\ unbinds = 0 /\ waits = 0 /\ deferred = << >> /\ handled = << >>
  /\ reread = {} /\ cut = FALSE /\ passed = FALSE

-----------------------------------------------------------------------------
(* The client: requests, and an acknowledgement for an UNBIND it has got.  *)

ClientSends ==
  /\ FramesSent < MaxFramesSent
  /\ \E ack \in BOOLEAN :
       /\ ack => Len(SelectSeq(isAck, LAMBDA a : a)) < waits
       /\ isAck' = Append(isAck, ack)
  /\ UNCHANGED << arrived, read, recv, handling, waiting, inner, nested, unbinds, waits, deferred, handled,
                  historyVars >>

Arrive ==
  /\ arrived < 2 * FramesSent
  /\ arrived' = arrived + 1
  /\ UNCHANGED << isAck, read, recv, handling, waiting, inner, nested, unbinds, waits, deferred, handled, historyVars >>

-----------------------------------------------------------------------------
(* vivid_display_recv_frame_nonblocking: it takes what is there, and       *)
(* returns a frame that is already whole without reading.                  *)

ReadHalf ==
  /\ Readable /\ ~Whole
  /\ read' = read + 1
  /\ recv' = [frame |-> (read \div 2) + 1, halves |-> recv.halves + 1]

\* A frame put together of the halves of two frames is noticed here as an error of
\* the protocol (its length or contents make no sense).
Torn == Whole /\ read % 2 = 1

-----------------------------------------------------------------------------
(* client_fd_ready.                                                        *)

FdReady ==
  /\ handling = 0 /\ ~waiting
  /\ ReadHalf
  /\ UNCHANGED << isAck, arrived, handling, waiting, inner, nested, unbinds, waits, deferred, handled, historyVars >>

Acknowledge == unbinds' = IF unbinds > 0 THEN unbinds - 1 ELSE 0

\* handle_frame
Handle ==
  /\ handling = 0 /\ ~waiting /\ Whole /\ ~Torn
  /\ handling' = recv.frame
  /\ IF isAck[recv.frame]
     THEN Acknowledge /\ UNCHANGED handled
     ELSE handled' = Append(handled, recv.frame) /\ UNCHANGED unbinds
  /\ UNCHANGED << isAck, arrived, read, recv, waiting, inner, nested, waits, deferred, historyVars >>

\* The handler returns, and recv_state is cleared for the next frame.
HandlerReturns ==
  /\ handling # 0 /\ ~waiting
  /\ handling' = 0 /\ recv' = NoFrame
  /\ cut' = (cut \/ recv.halves = 1)
  /\ UNCHANGED << isAck, arrived, read, waiting, inner, nested, unbinds, waits, deferred, handled, reread, passed >>

-----------------------------------------------------------------------------
(* client_rebind_output, from a frame tick or from the handling of a       *)
(* request: UNBIND goes out, and its acknowledgement is waited for.        *)

StartWait(within) ==
  /\ ~waiting /\ waits < MaxWaits
  /\ within = (handling # 0)
  /\ within => ~isAck[handling]
  /\ waiting' = TRUE /\ inner' = FALSE /\ nested' = within
  /\ unbinds' = unbinds + 1 /\ waits' = waits + 1
  /\ UNCHANGED << isAck, arrived, read, recv, handling, deferred, handled, historyVars >>

\* poll reports bytes.
Poll ==
  /\ waiting /\ ~inner /\ unbinds > 0 /\ Readable
  /\ inner' = TRUE
  /\ UNCHANGED << isAck, arrived, read, recv, handling, waiting, nested, unbinds, waits, deferred, handled, historyVars >>

InboxReads ==
  /\ inner /\ ReadHalf
  /\ UNCHANGED << isAck, arrived, handling, waiting, inner, nested, unbinds, waits, deferred, handled, historyVars >>

\* Mutant of Keeps: an acknowledgement is put aside like any other frame.
KeepsAll(f)  == TRUE
\* An acknowledgement is handled at once, other frames are put aside.
Keeps(f)     == ~isAck[f]

WaitTakes ==
  /\ inner /\ Whole /\ ~Torn
  /\ IF Keeps(recv.frame)
     THEN deferred' = Append(deferred, recv.frame) /\ UNCHANGED unbinds
     ELSE Acknowledge /\ UNCHANGED deferred
  /\ reread' = (IF recv.frame = handling THEN reread \cup {handling} ELSE reread)
  /\ recv' = NoFrame
  /\ UNCHANGED << isAck, arrived, read, handling, waiting, inner, nested, waits, handled, cut, passed >>

Drained ==
  /\ inner /\ ~Readable /\ ~Whole
  /\ inner' = FALSE
  /\ UNCHANGED << isAck, arrived, read, recv, handling, waiting, nested, unbinds, waits, deferred, handled, historyVars >>

\* The wait ends with the acknowledgement or in vain (UNBIND_ACK_TIMEOUT_MSEC).  A
\* new generation is committed and what was put aside is handled
\* (client_process_deferred_frames); or the route waits for its worker's end, and
\* nothing is.
EndWait ==
  /\ waiting /\ ~inner
  /\ unbinds > 0 => ~Readable
  /\ waiting' = FALSE /\ nested' = FALSE
  /\ \/ handled' = handled \o deferred /\ deferred' = << >>
     \/ UNCHANGED << handled, deferred >>
  /\ passed' = (passed \/ deferred' # << >>)
  /\ UNCHANGED << isAck, arrived, read, recv, handling, inner, unbinds, waits, reread, cut >>

Client     == ClientSends \/ Arrive
Sockets    == FdReady \/ Handle \/ HandlerReturns
InboxTicks == (\E within \in BOOLEAN : StartWait(within)) \/ Poll \/ InboxReads \/ WaitTakes \/ Drained \/ EndWait

InboxNext == Client \/ Sockets \/ InboxTicks
InboxSpec == InboxInit /\ [][InboxNext]_inboxVars

-----------------------------------------------------------------------------
InboxTypeOK ==
  /\ arrived <= 2 * FramesSent /\ read <= arrived
  /\ recv.halves \in 0 .. 2 /\ unbinds \in 0 .. waits
  /\ \A i \in DOMAIN deferred : deferred[i] \in 1 .. FramesSent

\* The wait is not in vain when the acknowledgement is there: once the daemon has
\* read all that arrived, no acknowledgement is put aside for later.
AckIsSeen == \A i \in DOMAIN deferred : ~isAck[deferred[i]]

InHand(f) == (\E i \in DOMAIN handled : handled[i] = f) \/ \E i \in DOMAIN deferred : deferred[i] = f

\* The stream outlives waits, in ticks and in handlers.  Frames are put together of their own
\* halves and none is missed, until a handler's wait ends in the middle of a frame.  A request
\* is taken twice only if its own handler waited.  Requests are handled in their order, until
\* a wait leaves some aside.
StreamKept ==
  /\ ~cut => /\ ~Torn
             /\ \A f \in 1 .. (read - recv.halves) \div 2 : isAck[f] \/ InHand(f)
  /\ \A i, j \in DOMAIN handled : handled[i] = handled[j] /\ i # j => handled[i] \in reread
  /\ \A i \in DOMAIN handled, j \in DOMAIN deferred : handled[i] = deferred[j] => handled[i] \in reread
  /\ ~passed => \A i, j \in DOMAIN handled : i < j => handled[i] <= handled[j]

\* A wait sees the acknowledgement and keeps the rest.
WaitKeepsRequests == InboxTypeOK /\ AckIsSeen /\ StreamKept
=============================================================================
