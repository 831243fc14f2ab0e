----------------------------- MODULE GnomeDisplay -----------------------------
(***************************************************************************)
(* An output of the GNOME helper: the generations it knows, and the        *)
(* paintable that imports their buffers and copies each frame into a       *)
(* shadow of its own.  All of it runs on the GTK thread; the copies run  *)
(* on the GPU, and whoever destroys a generation's images waits for them,  *)
(* up to two seconds.  A copy that takes longer keeps its images: they are *)
(* leaked on purpose.                                                      *)
(*                                                                         *)
(* A frame's number stands for its two descriptors, a generation's number  *)
(* for its buffers.  The daemon numbers generations anew on a connection.  *)
(***************************************************************************)
EXTENDS Integers, Sequences, FiniteSets

CONSTANTS
  MaxBinds,     \* generations of a connection
  MaxShown,     \* frames
  MaxSessions   \* connections

ASSUME GnomeAssumption == {MaxBinds, MaxShown, MaxSessions} \subseteq Nat

VARIABLES
  wedged,      \* copies may outlast a drain, imports and copies may fail
  session,     \* number of the connection
  accepted,    \* backendOutputId is known
  toOutput,    \* events of the daemon the helper has not read
  bindings,    \* generations the daemon has bound, and not heard to be unbound
  lastGen,     \* the last generation of the connection
  known,       \* _bufferGenerations: the generations, with their images
  configured,  \* those of them that are configured
  imageSets,      \* sets of images that exist
  leaked,      \* sets of images that nothing will destroy
  reads,       \* << frame, images >> the GPU is reading
  fate,        \* fate[f]: what became of the f-th frame's release
  replies        \* UNBIND_DONE and BIND_FAILED sent on the connection

importVars == << known, configured, imageSets, leaked >>
daemonSide == << session, accepted, bindings, lastGen >>
gnomeVars == << wedged, daemonSide, toOutput, importVars, reads, fate, replies >>

GnomeEvent(ev, g, f) == [ev |-> ev, gen |-> g, frame |-> f]
ImageIds     == 1 .. MaxBinds * MaxSessions
NewImages    == CHOOSE i \in ImageIds : i = (session - 1) * MaxBinds + lastGen + 1
Generations  == DOMAIN known

GnomeInit ==
  /\ wedged \in BOOLEAN
  /\ session = 0 /\ accepted = FALSE /\ toOutput = << >> /\ bindings = {} /\ lastGen = 0
  /\ known = << >> /\ configured = {} /\ imageSets = {} /\ leaked = {} /\ reads = {}
  /\ fate = << >> /\ replies = << >>

-----------------------------------------------------------------------------
(* The daemon and the socket.                                              *)

GnomeConnects ==
  /\ session < MaxSessions /\ ~accepted /\ toOutput = << >>
  /\ session' = session + 1 /\ bindings' = {} /\ lastGen' = 0
  /\ accepted' = TRUE
  /\ replies' = << >>
  /\ UNCHANGED << wedged, toOutput, importVars, reads, fate >>

Tells(events) ==
  /\ accepted /\ toOutput' = toOutput \o events
  /\ UNCHANGED << wedged, session, accepted, importVars, reads, replies >>

\* A first BIND, with its configuration.
DaemonBinds ==
  /\ bindings = {} /\ lastGen < MaxBinds /\ Len(toOutput) < 3
  /\ lastGen' = lastGen + 1 /\ bindings' = {lastGen + 1}
  /\ Tells(<< GnomeEvent("bind", lastGen + 1, NewImages), GnomeEvent("config", lastGen + 1, 0) >>)
  /\ UNCHANGED fate

DaemonShows(g) ==
  LET f == Len(fate) + 1 IN
  /\ g \in bindings /\ f <= MaxShown /\ Len(toOutput) < 3
  /\ fate' = Append(fate, "sent")
  /\ Tells(<< GnomeEvent("frame", g, f) >>)
  /\ UNCHANGED << bindings, lastGen >>

\* Buffers that replace others: BIND, SET_CONFIG, FRAME_READY, then UNBIND.
DaemonRebinds(g) ==
  LET n == lastGen + 1
      f == Len(fate) + 1 IN
  /\ bindings = {g} /\ lastGen < MaxBinds /\ f <= MaxShown /\ Len(toOutput) < 3
  /\ lastGen' = n /\ bindings' = {n}
  /\ fate' = Append(fate, "sent")
  /\ Tells(<< GnomeEvent("bind", n, NewImages), GnomeEvent("config", n, 0),
              GnomeEvent("frame", n, f), GnomeEvent("unbind", g, 0) >>)

DaemonUnbinds(g) ==
  /\ g \in bindings /\ Len(toOutput) < 3
  /\ bindings' = bindings \ {g}
  /\ Tells(<< GnomeEvent("unbind", g, 0) >>)
  /\ UNCHANGED << lastGen, fate >>

\* SET_CONFIG with active = FALSE.
DaemonBlanks ==
  /\ Len(toOutput) < 3 /\ \A i \in DOMAIN toOutput : toOutput[i].ev # "blank"
  /\ Tells(<< GnomeEvent("blank", 0, 0) >>)
  /\ UNCHANGED << bindings, lastGen, fate >>

-----------------------------------------------------------------------------
(* Generations and their images.                                           *)

\* drain_blitter_before_buffer_teardown: the copies that may outlast the wait.
Outlasting(busy) == IF wedged THEN SUBSET busy ELSE {{}}

\* Mutant of RemovesImages: images go when the wait ends, however it ends.
DestroysImages(S, left, lost) ==
  imageSets' = imageSets \ S /\ leaked' = leaked /\ reads' = left
\* The images S of generations that are removed, but for the `lost` ones, for which
\* the wait timed out.
RemovesImages(S, left, lost) ==
  imageSets' = imageSets \ (S \ lost) /\ leaked' = leaked \cup lost /\ reads' = left

Without(g) == [h \in Generations \ {g} |-> known[h]]

\* unbindGeneration, of one that is known.
UnbindsKnown(g, busy) ==
  /\ \E left \in Outlasting(busy) :
       RemovesImages({known[g]}, left, IF left = {} THEN {} ELSE {known[g]})
  /\ known' = Without(g) /\ configured' = configured \ {g}

\* unbindGeneration of each one in turn, then clear_state.
ClearsAll ==
  LET S == {known[g] : g \in Generations} IN
  /\ \/ S = {} /\ UNCHANGED << imageSets, leaked, reads >>
     \/ \E left \in Outlasting(reads) : left # {} /\ RemovesImages(S, left, S)
     \/ \E lost \in Outlasting(S) : lost # S /\ RemovesImages(S, {}, lost)
  /\ known' = << >> /\ configured' = {}

-----------------------------------------------------------------------------
(* Events the helper reads, one at a time.                                 *)

NextEvent(ev) == accepted /\ toOutput # << >> /\ Head(toOutput).ev = ev /\ toOutput' = Tail(toOutput)
GnomeSame == UNCHANGED << wedged, daemonSide >>

\* Every buffer imported, or none.
Imports(m) ==
  /\ known' = [h \in Generations \cup {m.gen} |-> IF h = m.gen THEN m.frame ELSE known[h]]
  /\ imageSets' = imageSets \cup {m.frame}
  /\ UNCHANGED replies

ImportFails(m) ==
  /\ wedged
  /\ replies' = Append(replies, << "failed", m.gen >>)
  /\ UNCHANGED << known, imageSets >>

\* bindBuffers
BindsBuffers ==
  /\ NextEvent("bind")
  /\ Imports(Head(toOutput)) \/ ImportFails(Head(toOutput))
  /\ UNCHANGED << configured, leaked, reads, fate >> /\ GnomeSame

\* setConfig: of a generation, or with active = FALSE.
ConfiguresOutput ==
  LET m == Head(toOutput) IN
  /\ NextEvent("config")
  /\ configured' = configured \cup ({m.gen} \cap Generations)
  /\ UNCHANGED << known, imageSets, leaked, reads, fate, replies >> /\ GnomeSame

Deactivates ==
  /\ NextEvent("blank") /\ ClearsAll
  /\ UNCHANGED << fate, replies >> /\ GnomeSame

\* showFrame.  An unknown generation's descriptors are closed; the release of a
\* frame that is not copied is signalled; that of a copy gets the copy's fence.
FrameSettles(f, how) == fate' = [fate EXCEPT ![f] = how]

NotCopied(m) ==
  /\ \/ m.gen \notin Generations /\ FrameSettles(m.frame, "closed")
     \/ m.gen \in Generations \ configured /\ FrameSettles(m.frame, "signalled")
     \/ m.gen \in configured /\ wedged /\ FrameSettles(m.frame, "signalled")    \* the ring is full
  /\ UNCHANGED << importVars, reads, replies >>

Copied(m) ==
  /\ m.gen \in configured /\ FrameSettles(m.frame, "fence")
  /\ reads' = reads \cup {<< m.frame, known[m.gen] >>}
  /\ UNCHANGED << importVars, replies >>

\* The copy fails, or its result cannot be shown: BIND_FAILED, and the generation goes.
NotShown(m) ==
  /\ m.gen \in configured /\ wedged
  /\ replies' = Append(replies, << "failed", m.gen >>)
  /\ \/ FrameSettles(m.frame, "signalled") /\ UnbindsKnown(m.gen, reads)
     \/ FrameSettles(m.frame, "fence")
        /\ UnbindsKnown(m.gen, reads \cup {<< m.frame, known[m.gen] >>})

ShowsFrame ==
  LET m == Head(toOutput) IN
  /\ NextEvent("frame")
  /\ NotCopied(m) \/ Copied(m) \/ NotShown(m)
  /\ GnomeSame

\* _handleUnbind
HandlesUnbind ==
  LET g == Head(toOutput).gen IN
  /\ NextEvent("unbind")
  /\ IF g \in Generations THEN UnbindsKnown(g, reads)
     ELSE UNCHANGED << importVars, reads >>
  /\ replies' = Append(replies, << "done", g >>)
  /\ UNCHANGED fate /\ GnomeSame

\* _closeConnection: the output is cleared; what was not read is closed.
ClosesConnection ==
  /\ accepted /\ accepted' = FALSE
  /\ toOutput' = << >> /\ replies' = << >>
  /\ fate' = [f \in DOMAIN fate |-> IF fate[f] = "sent" THEN "closed" ELSE fate[f]]
  /\ ClearsAll
  /\ UNCHANGED << wedged, session, bindings, lastGen >>

ReadDone ==
  \E c \in reads :
    /\ reads' = reads \ {c}
    /\ UNCHANGED << wedged, daemonSide, toOutput, importVars, fate, replies >>

OutputReads == BindsBuffers \/ ConfiguresOutput \/ Deactivates \/ ShowsFrame \/ HandlesUnbind

GnomeNext ==
  \/ GnomeConnects \/ DaemonBinds \/ DaemonBlanks
  \/ \E g \in bindings : DaemonShows(g) \/ DaemonRebinds(g) \/ DaemonUnbinds(g)
  \/ OutputReads \/ ReadDone \/ ClosesConnection

GnomeSpec == GnomeInit /\ [][GnomeNext]_gnomeVars

-----------------------------------------------------------------------------
\* Types.
GnomeTypeOK ==
  /\ Generations \subseteq 1 .. MaxBinds /\ configured \subseteq Generations
  /\ imageSets \subseteq ImageIds /\ leaked \subseteq imageSets
  /\ \A f \in DOMAIN fate : fate[f] \in {"sent", "closed", "signalled", "fence"}

\* No image is destroyed under a copy that reads it: through unbinds, failed
\* copies, outputs that go blank and connections that close, with a GPU that
\* may not finish within any drain.
CopiesHaveImages == \A c \in reads : c[2] \in imageSets

\* Every image belongs to a generation the output knows, or is one it had to leak.
ImagesHaveOwners == imageSets \ leaked = {known[g] : g \in Generations}

\* When the daemon has been told a generation is unbound, no copy reads its
\* buffers: it may use them for another frame, unless the GPU hangs.
UnboundIsIdle ==
  ~wedged => \A i \in DOMAIN replies : \A c \in reads :
               replies[i][1] = "done" => c[2] # (session - 1) * MaxBinds + replies[i][2]

OutputKeepsImages == GnomeTypeOK /\ CopiesHaveImages /\ ImagesHaveOwners /\ UnboundIsIdle
=============================================================================
