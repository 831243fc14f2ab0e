----------------------------- MODULE ClientOutbox -----------------------------
(***************************************************************************)
(* What the daemon writes to a display client.  Plain frames go out at     *)
(* once when nothing is queued and wait in the outbox otherwise, where a   *)
(* frame may be half written; frames with descriptors cannot be resumed    *)
(* and go out whole or are refused.  A frame is a first and a second half, *)
(* and the socket holds SocketRoom halves until the client reads them.     *)
(***************************************************************************)
EXTENDS Integers, Sequences

CONSTANTS
  MaxSends,   \* frames the daemon sends
  SocketRoom, \* halves the socket buffer takes
  OutboxRoom  \* CLIENT_OUTBOX_MAX_BYTES, in halves

ASSUME OutboxAssumption == MaxSends \in Nat /\ SocketRoom \in Nat \ {0} /\ OutboxRoom \in Nat \ {0}

VARIABLES
  sends,  \* frames sent or refused so far; a frame is its number
  outbox, \* halves that are queued
  socket, \* halves in the socket
  seen,   \* the last half the client read
  torn,   \* the client read a half that does not follow the one before
  watch   \* write_source_id: the daemon is woken when the socket takes bytes

outboxVars == << sends, outbox, socket, seen, torn, watch >>

Halves(f)  == << [frame |-> f, half |-> 1], [frame |-> f, half |-> 2] >>
NothingYet == [frame |-> 0, half |-> 2]

OutboxInit ==
  sends = 0 /\ outbox = << >> /\ socket = << >> /\ seen = NothingYet /\ torn = FALSE /\ watch = FALSE

-----------------------------------------------------------------------------
\* What of q goes out at once, and what stays: a non-blocking send takes what fits.
Fits(q) ==
  LET room == SocketRoom - Len(socket) IN IF Len(q) < room THEN Len(q) ELSE room
Out(q)  == socket \o SubSeq(q, 1, Fits(q))
Rest(q) == SubSeq(q, Fits(q) + 1, Len(q))

\* Mutant of Watches: the watch of an emptied outbox is set up, no other is.
WatchesNothing(q) == watch /\ q # << >>
\* client_outbox_update_write_watch
Watches(q) == q # << >>

\* client_send_frame without descriptors, client_queue_frame_bytes
SendPlain ==
  LET q == outbox \o Halves(sends + 1) IN
  /\ sends < MaxSends /\ sends' = sends + 1
  /\ IF outbox # << >> /\ Len(q) > OutboxRoom
     THEN UNCHANGED << outbox, socket, watch >>
     ELSE socket' = Out(q) /\ outbox' = Rest(q) /\ watch' = Watches(Rest(q))
  /\ UNCHANGED << seen, torn >>

\* client_prepare_fd_send, and a sendmsg that takes the whole frame or nothing
MaySendFds == Rest(outbox) = << >> /\ Len(Out(outbox)) + 2 <= SocketRoom

\* Mutant of SendFds: descriptors overtake what is queued.
SendFdsFirst ==
  /\ sends < MaxSends /\ sends' = sends + 1
  /\ socket' = IF SocketRoom - Len(socket) >= 2 THEN socket \o Halves(sends + 1) ELSE socket
  /\ UNCHANGED << outbox, seen, torn, watch >>

SendFds ==
  /\ sends < MaxSends /\ sends' = sends + 1
  /\ socket' = Out(outbox) \o (IF MaySendFds THEN Halves(sends + 1) ELSE << >>)
  /\ outbox' = Rest(outbox)
  /\ UNCHANGED << seen, torn, watch >>

\* client_write_ready: the watch goes with the last queued byte.
WriteReady ==
  /\ watch /\ Len(socket) < SocketRoom
  /\ socket' = Out(outbox) /\ outbox' = Rest(outbox) /\ watch' = (Rest(outbox) # << >>)
  /\ UNCHANGED << sends, seen, torn >>

Follows(h) ==
  \/ h.half = 2 /\ seen = [h EXCEPT !.half = 1]
  \/ h.half = 1 /\ seen.half = 2 /\ h.frame > seen.frame

\* The client reads.
ClientReads ==
  /\ socket # << >>
  /\ socket' = Tail(socket)
  /\ seen' = Head(socket) /\ torn' = (torn \/ ~Follows(Head(socket)))
  /\ UNCHANGED << sends, outbox, watch >>

OutboxNext == SendPlain \/ SendFds \/ WriteReady \/ ClientReads

\* The main loop serves the watch and a live client reads.
OutboxFairness == WF_outboxVars(WriteReady) /\ WF_outboxVars(ClientReads)

OutboxSpec == OutboxInit /\ [][OutboxNext]_outboxVars /\ OutboxFairness

-----------------------------------------------------------------------------
OutboxTypeOK ==
  /\ sends \in 0 .. MaxSends /\ Len(socket) <= SocketRoom
  /\ Len(outbox) <= OutboxRoom + 2

\* The client reads whole frames in the order they were sent, whatever was
\* queued, cut, flushed early or refused.
WholeFrames == OutboxTypeOK /\ ~torn

\* What is queued is written in the end.
OutboxDrains == outbox # << >> ~> outbox = << >>
=============================================================================
