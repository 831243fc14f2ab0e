---------------------------- MODULE WaylandSurface ----------------------------
(***************************************************************************)
(* An output of the layer-shell consumer: the buffers it is bound to, the  *)
(* frame it has not drawn yet, and the layer surface it draws to.  One     *)
(* thread polls the Wayland display and the daemon's socket; a frame is    *)
(* drawn when it arrives, or when the surface is configured, and the drawn *)
(* image is posted when the compositor asks for one or a refresh period    *)
(* after the last.  A message that cannot be sent ends the connection      *)
(* inside the call that sends it, whatever the caller is about to do.      *)
(*                                                                         *)
(* The state of the program is a record, so that a call within a call is   *)
(* the composition of two functions.  A generation has one buffer here: an *)
(* import that fails retires the whole generation.                         *)
(***************************************************************************)
EXTENDS Integers, Sequences, FiniteSets

CONSTANTS
  MaxPosts,    \* frames
  MaxBounds    \* generations of a connection

ASSUME SurfaceAssumption == {MaxPosts, MaxBounds} \subseteq Nat

VARIABLES
  flawed,    \* imports, draws and fences may fail
  wl,        \* the program: see NewProgram
  drawing,   \* frames the GPU is drawing
  peerOpen,  \* the daemon has not closed its end
  mail,      \* events of the daemon not read
  posted     \* what the daemon has bound: the last generation, and the one bound or 0

surfaceVars == << flawed, wl, drawing, peerOpen, mail, posted >>

NoneBound == [id |-> 0, config |-> FALSE, image |-> FALSE, retired |-> FALSE]
NoneHeld  == [frame |-> 0, gen |-> 0]
NewLayer  == [window   |-> FALSE,   \* the EGL surface exists
              unacked  |-> FALSE,   \* pending_configure_serial
              swap     |-> FALSE,   \* swap_pending: a drawn image to post
              awaiting |-> FALSE,   \* awaiting_frame
              over     |-> FALSE,   \* next_swap_usec has passed
              callback |-> FALSE]   \* a wl_surface.frame callback is set
NewProgram ==
  [up      |-> FALSE,       \* connected, and the output accepted
   layer   |-> "none",      \* layer surface: "none", "made" or "configured"
   show    |-> NewLayer,
   bound   |-> NoneBound,   \* generations: a BIND leaves one
   held    |-> NoneHeld,    \* pending_frame with its descriptors
   fate    |-> << >>,       \* fate[f]: of the release of the f-th frame
   drawn   |-> 0]           \* frame of the last draw, 0 for the placeholder

SurfaceInit ==
  /\ flawed \in BOOLEAN
  /\ wl = NewProgram /\ drawing = {} /\ peerOpen = TRUE /\ mail = << >>
  /\ posted = [last |-> 0, now |-> 0]

-----------------------------------------------------------------------------
(* Releases and generations.                                               *)

EndsFrame(A, f, how) ==
  [A EXCEPT !.fate[f] = IF @ = "held" THEN how ELSE "twice"]

\* The frame that is held, if any, is settled; the descriptors are -1 after that.
SettlesHeld(A, how) ==
  IF A.held = NoneHeld THEN A
  ELSE [EndsFrame(A, A.held.frame, how) EXCEPT !.held = NoneHeld]

\* Mutant of RetiresOne: the held frame's descriptors are closed only.
RetiresQuietly(A, g) ==
  IF A.bound.id = g
  THEN [A EXCEPT !.bound = [@ EXCEPT !.image = FALSE, !.retired = TRUE], !.held = NoneHeld]
  ELSE A
\* vivid_wayland_output_retire_generation: the entry stays, without its buffers.
RetiresOne(A, g) ==
  LET S == IF A.held.gen = g THEN SettlesHeld(A, "signalled") ELSE A IN
  IF A.bound.id = g
  THEN [S EXCEPT !.bound = [@ EXCEPT !.image = FALSE, !.retired = TRUE]]
  ELSE S

\* vivid_wayland_output_retire_generations
RetiresAll(A) ==
  [SettlesHeld(A, IF A.bound.id = A.held.gen THEN "signalled" ELSE "closed")
     EXCEPT !.bound = NoneBound]

\* vivid_wayland_producer_disconnect
Disconnects(A) == [RetiresAll(A) EXCEPT !.up = FALSE]

\* send_json: a failed write ends the connection at once.
Sends(A) == IF peerOpen THEN A ELSE Disconnects(A)

-----------------------------------------------------------------------------
(* Drawing and posting.  The outcomes of a call are a set of programs.     *)

\* Mutant of MayPost: only the compositor's callback lets another image be posted.
MayPostCalled(w) == ~w.awaiting
\* The compositor called back, or a refresh period has passed.
MayPost(w) == ~w.awaiting \/ w.over

\* vivid_wayland_output_commit_swap: a swap that fails loses the image.
Posts(A) ==
  LET w == A.show
      w2 == [w EXCEPT !.swap = FALSE, !.unacked = FALSE, !.over = FALSE] IN
  IF w.swap /\ w.window /\ MayPost(w)
  THEN {[A EXCEPT !.show = [w2 EXCEPT !.awaiting = TRUE, !.callback = TRUE]]}
       \cup (IF flawed THEN {[A EXCEPT !.show = [w2 EXCEPT !.awaiting = FALSE, !.callback = FALSE]]}
             ELSE {})
  ELSE {A}

\* vivid_wayland_output_ensure_egl: the EGL surface, when it can be made.
Windowed(A) ==
  IF A.layer # "configured" \/ A.show.window THEN {A}
  ELSE {[A EXCEPT !.show.window = TRUE]} \cup (IF flawed THEN {A} ELSE {})

\* An image to post: a draw of frame f, or of the placeholder.
Drawn(A, f) == Posts([A EXCEPT !.show.swap = TRUE, !.drawn = f])

\* BIND_FAILED, then the frame is settled, then perhaps the generation retired.
Refuses(A, retires) ==
  LET S == SettlesHeld(Sends(A), "signalled") IN
  IF retires THEN RetiresOne(S, A.bound.id) ELSE S

\* vivid_wayland_egl_wait_acquire: the GPU cannot be made to wait for the writer.
CannotWait(A) == IF flawed THEN {SettlesHeld(A, "signalled")} ELSE {}

\* vivid_wayland_egl_import_image
CannotImport(A) == IF flawed /\ ~A.bound.image THEN {Refuses(A, TRUE)} ELSE {}

\* vivid_wayland_egl_draw_frame
CannotDraw(A) == IF flawed THEN {Refuses(A, FALSE)} ELSE {}

\* vivid_wayland_egl_export_draw_fence: with its fence the frame goes back at once,
\* without one when the GPU is idle.
Returned(A) ==
  {SettlesHeld(A, "fence")} \cup (IF flawed THEN {SettlesHeld(A, "idle")} ELSE {})

\* The draw of a held frame.
DrawsHeld(A) ==
  LET made == [A EXCEPT !.bound.image = TRUE] IN
  CannotWait(A) \cup CannotImport(A) \cup CannotDraw(made)
    \cup UNION {Drawn(R, A.held.frame) : R \in Returned(made)}

\* vivid_wayland_output_present
Presents(A) ==
  IF A.held = NoneHeld THEN {A}
  ELSE UNION {IF W.show.window THEN DrawsHeld(W) \cup (IF flawed THEN {W} ELSE {}) ELSE {W}
              : W \in Windowed(A)}

-----------------------------------------------------------------------------
(* Steps.                                                                  *)

\* The program becomes one of S; what it hands to the GPU is read until it is done.
Fate(A, f) == IF f \in DOMAIN A.fate THEN A.fate[f] ELSE "sent"
Runs(S) ==
  \E A \in S :
    /\ wl' = A
    /\ LET fenced == {f \in DOMAIN A.fate : A.fate[f] = "fence" /\ Fate(wl, f) # "fence"}
           waited == \E f \in DOMAIN A.fate : A.fate[f] = "idle" /\ Fate(wl, f) # "idle" IN
       drawing' = IF waited THEN {} ELSE drawing \cup fenced
    /\ UNCHANGED << flawed, peerOpen, posted >>

Event(ev, g, f) == [ev |-> ev, gen |-> g, frame |-> f]
PeerListens == peerOpen /\ wl.up /\ Len(mail) < 3

\* The daemon.
Mails(events) == mail' = mail \o events /\ UNCHANGED << flawed, drawing, peerOpen >>
NewFrame == Len(wl.fate) + 1

PostsBind ==
  LET n == posted.last + 1 IN
  /\ PeerListens /\ n <= MaxBounds /\ posted.now = 0
  /\ posted' = [last |-> n, now |-> n]
  /\ Mails(<< Event("bind", n, 0), Event("config", n, 0) >>) /\ UNCHANGED wl

PostsFrame ==
  /\ PeerListens /\ posted.now # 0 /\ NewFrame <= MaxPosts
  /\ wl' = [wl EXCEPT !.fate = Append(@, "sent")]
  /\ Mails(<< Event("frame", posted.now, NewFrame) >>) /\ UNCHANGED posted

\* Buffers that replace others: the old ones are unbound after the first new frame.
PostsRebind ==
  LET n == posted.last + 1 IN
  /\ PeerListens /\ posted.now # 0 /\ n <= MaxBounds /\ NewFrame <= MaxPosts
  /\ posted' = [last |-> n, now |-> n]
  /\ wl' = [wl EXCEPT !.fate = Append(@, "sent")]
  /\ Mails(<< Event("bind", n, 0), Event("config", n, 0), Event("frame", n, NewFrame),
              Event("unbind", posted.now, 0) >>)

PostsUnbind ==
  /\ PeerListens /\ posted.now # 0
  /\ posted' = [posted EXCEPT !.now = 0]
  /\ Mails(<< Event("unbind", posted.now, 0) >>) /\ UNCHANGED wl

DaemonHangsUp ==
  /\ wl.up /\ peerOpen /\ peerOpen' = FALSE
  /\ UNCHANGED << flawed, wl, drawing, mail, posted >>

\* handle_incoming of one event.
BindsOutput(A, m) ==
  {[RetiresAll(A) EXCEPT !.bound = [NoneBound EXCEPT !.id = m.gen]]}
  \cup (IF flawed THEN {Sends(A)} ELSE {})

ConfiguresFor(A, m) ==
  {IF A.bound.id = m.gen \/ ~(A.bound.retired \/ A.bound.config \/ A.bound.id = 0)
   THEN [A EXCEPT !.bound.config = TRUE] ELSE A}

\* A frame that comes before the last was drawn takes its place.
HoldsFrame(A, m) ==
  LET B == [A EXCEPT !.fate = [@ EXCEPT ![m.frame] = "held"]]
      good == A.bound.id = m.gen /\ ~A.bound.retired IN
  IF ~good THEN {EndsFrame(B, m.frame, IF A.bound.id = m.gen THEN "signalled" ELSE "closed")}
  ELSE IF ~A.bound.config THEN {EndsFrame(B, m.frame, "signalled")}
  ELSE Presents([SettlesHeld(B, "signalled") EXCEPT !.held = [frame |-> m.frame, gen |-> m.gen]])

Handled(A, m) ==
  CASE m.ev = "bind"   -> BindsOutput(A, m)
    [] m.ev = "config" -> ConfiguresFor(A, m)
    [] m.ev = "frame"  -> HoldsFrame(A, m)
    [] m.ev = "unbind" -> {Sends(RetiresOne(A, m.gen))}

\* A connection that ends takes what was not read with it.
Lost(S) == {IF A.up THEN A
            ELSE [A EXCEPT !.fate = [f \in DOMAIN @ |-> IF @[f] = "sent" THEN "closed" ELSE @[f]]]
            : A \in S}

ReadsEvent ==
  /\ wl.up /\ mail # << >>
  /\ Runs(Lost(Handled(wl, Head(mail))))
  /\ mail' = IF wl'.up THEN Tail(mail) ELSE << >>

ReadsEnd ==
  /\ wl.up /\ ~peerOpen
  /\ Runs(Lost({Disconnects(wl)})) /\ mail' = << >>

\* A connection on which the output has been accepted.
Reconnected ==
  /\ ~wl.up /\ wl.layer = "configured" /\ mail = << >> /\ posted.last < MaxBounds
  /\ wl' = [wl EXCEPT !.up = TRUE]
  /\ peerOpen' = TRUE /\ posted' = [posted EXCEPT !.now = 0]
  /\ UNCHANGED << flawed, drawing, mail >>

\* setup_layer_surface, of a new output in the slot.
LayerMade ==
  /\ wl.layer = "none" /\ Runs({[wl EXCEPT !.layer = "made"]}) /\ UNCHANGED mail

\* handle_layer_configure: the first one restarts the connection and draws a placeholder,
\* another draws the frame that is held and sends an update of the output.
LayerConfigured ==
  LET A == [wl EXCEPT !.layer = "configured", !.show.unacked = TRUE] IN
  /\ wl.layer # "none"
  /\ IF wl.layer = "made"
     THEN Runs(Lost(UNION {IF W.show.window THEN Drawn(W, 0) ELSE {W} : W \in Windowed(Disconnects(A))}))
     ELSE Runs(Lost({Sends(P) : P \in UNION {Presents(W) : W \in Windowed(A)}}))
  /\ mail' = IF wl'.up THEN mail ELSE << >>

\* handle_layer_closed, or the output is removed: the connection is restarted.
LayerClosed ==
  /\ wl.layer # "none"
  /\ Runs(Lost({[Disconnects(wl) EXCEPT !.layer = "none", !.show = NewLayer]}))
  /\ mail' = << >>

\* handle_surface_frame
FrameCallback ==
  /\ wl.show.callback
  /\ Runs(Posts([wl EXCEPT !.show.callback = FALSE, !.show.awaiting = FALSE]))
  /\ UNCHANGED mail

\* A refresh period passes.
PeriodEnds ==
  /\ wl.show.awaiting /\ ~wl.show.over
  /\ Runs({[wl EXCEPT !.show.over = TRUE]}) /\ UNCHANGED mail

\* flush_pending_swaps, in every turn of the loop.
FlushesSwap ==
  /\ wl.show.swap /\ wl.show.window /\ MayPost(wl.show)
  /\ Runs(Posts(wl)) /\ UNCHANGED mail

DrawEnds ==
  \E f \in drawing :
    /\ drawing' = drawing \ {f}
    /\ UNCHANGED << flawed, wl, peerOpen, mail, posted >>

SurfaceNext ==
  \/ PostsBind \/ PostsFrame \/ PostsRebind \/ PostsUnbind \/ DaemonHangsUp
  \/ ReadsEvent \/ ReadsEnd \/ Reconnected
  \/ LayerMade \/ LayerConfigured \/ LayerClosed
  \/ FrameCallback \/ PeriodEnds \/ FlushesSwap \/ DrawEnds

\* The loop turns and time passes; the compositor need not call back.
SurfaceFairness == WF_surfaceVars(FlushesSwap) /\ WF_surfaceVars(PeriodEnds)

SurfaceSpec == SurfaceInit /\ [][SurfaceNext]_surfaceVars /\ SurfaceFairness

-----------------------------------------------------------------------------
\* Types.
SurfaceTypeOK ==
  /\ wl.layer \in {"none", "made", "configured"} /\ wl.drawn \in 0 .. MaxPosts
  /\ \A f \in DOMAIN wl.fate : wl.fate[f] \in {"sent", "held", "closed", "signalled", "fence", "idle"}
  /\ wl.bound.id \in 0 .. MaxBounds

\* Each frame that was read is settled once, when it stops being held, although a
\* message about it may end the connection in the middle of the draw.
HeldIsPending == \A f \in DOMAIN wl.fate : wl.fate[f] = "held" <=> wl.held.frame = f

\* A frame is held only for buffers that can still be drawn from.
HeldIsBound ==
  wl.held # NoneHeld => wl.up /\ wl.bound.id = wl.held.gen /\ wl.bound.config /\ ~wl.bound.retired

\* What the GPU is still drawing went back with a fence, never by the host.
HostSignalsIdle == \A f \in drawing : wl.fate[f] = "fence"

FramesReturnOnce == SurfaceTypeOK /\ HeldIsPending /\ HeldIsBound /\ HostSignalsIdle

\* A drawn image is posted, even if the compositor never calls back.
ImagesArePosted == (wl.show.swap /\ ~flawed) ~> ~wl.show.swap
=============================================================================
