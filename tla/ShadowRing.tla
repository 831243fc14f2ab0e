------------------------------- MODULE ShadowRing -------------------------------
(***************************************************************************)
(* The shadow blitter of the KDE and GNOME consumers: every frame of a      *)
(* worker is copied on the GPU into one image of the consumer's own, the    *)
(* shadow, through a small ring of command buffers.  A frame goes back to   *)
(* its worker either by the host or by a fence the copy signals; a shadow   *)
(* of another size replaces the old one, whose image is destroyed two       *)
(* passes later, when the scene graph has let its view go.                  *)
(*                                                                         *)
(* The passes are those of the KDE item.  The GNOME paintable calls the     *)
(* same functions, from another copy of the file, and samples the shadow    *)
(* through a descriptor of its own instead of a view.                       *)
(***************************************************************************)
EXTENDS Integers, Sequences, FiniteSets

CONSTANTS
  Slots,      \* WW_VK_BLIT_RING_SIZE
  MaxShadows  \* images of a shadow that exist at a time

ASSUME RingAssumption == {Slots, MaxShadows} \subseteq Nat \ {0}

VARIABLES
  ring,      \* ring[i]: the frame whose copy armed the slot, 0 when it is idle
  nextSlot,  \* next_slot
  gpu,       \* copies the GPU has not finished, in order of submission: the frame,
             \* the shadow, and how the frame went back to its worker
  shadow,    \* shadow_image: its number, 0 for none, and shadow_has_content
  images,    \* shadows whose VkImage exists
  parked,    \* pending_shadow_destroy: frames_remaining of a shadow, by number
  sampled,   \* shadow the scene graph has a view of
  fading,    \* views dropped: frame boundaries before Qt releases them
  noExport,  \* sync_file_export_unavailable
  drained,   \* the last step was a drain that succeeded
  passAt     \* of a render pass

ringVars   == << ring, nextSlot, gpu >>
shadowVars == << shadow, images, parked >>
viewVars   == << sampled, fading >>
allRing    == << ringVars, shadowVars, viewVars, noExport, drained, passAt >>

NoShadow == [id |-> 0, content |-> FALSE]
FrameIds   == 1 .. 2 * Slots + 1

RingInit ==
  /\ ring = [i \in 1 .. Slots |-> 0] /\ nextSlot = 1 /\ gpu = << >>
  /\ shadow = NoShadow /\ images = {} /\ parked = << >>
  /\ sampled = 0 /\ fading = << >>
  /\ noExport = FALSE /\ drained = FALSE /\ passAt = "idle"

\* The GPU executes the copies of a queue in order: what is left after k of them.
Unfinished(q, k)   == SubSeq(q, k + 1, Len(q))
Copying(q)    == {q[i].frame : i \in DOMAIN q}
Progress      == 0 .. Len(gpu)
NewFrames         == FrameIds \ (Copying(gpu) \cup {ring[i] : i \in 1 .. Slots})

\* Mutant of Reclaimed: a drain that timed out recycles every slot.
ReclaimsAll(q) == [i \in 1 .. Slots |-> 0]
\* Slots whose fence signalled are recycled, the others stay armed.
Reclaimed(q)   == [i \in 1 .. Slots |-> IF ring[i] \in Copying(q) THEN ring[i] ELSE 0]

\* ww_vk_blitter_drain: wait for the armed slots, a bounded time.
Drains(q) ==
  /\ gpu' = q
  /\ ring' = Reclaimed(q)
RingIdle(q) == \A i \in 1 .. Slots : ring[i] \notin Copying(q)

GpuFinishes ==
  /\ gpu # << >>
  /\ gpu' = Tail(gpu) /\ drained' = FALSE
  /\ UNCHANGED << ring, nextSlot, shadowVars, viewVars, noExport, passAt >>

-----------------------------------------------------------------------------
(* A render pass.                                                          *)

\* ww_vk_blitter_tick_pending_destroys, at the start of updatePaintNode.
BeginsPass ==
  LET left == [s \in DOMAIN parked |-> parked[s] - 1]
      kept == {s \in DOMAIN parked : left[s] > 0} IN
  /\ passAt = "idle"
  /\ parked' = [s \in kept |-> left[s]]
  /\ images' = images \ (DOMAIN parked \ kept)
  /\ passAt' = "draw" /\ drained' = FALSE
  /\ UNCHANGED << ringVars, shadow, viewVars, noExport >>

\* Qt keeps the view of a dropped node until one of the next frame boundaries.
ViewDropped(views, s, n) == IF s = 0 THEN views ELSE [v \in DOMAIN views \cup {s} |-> IF v = s THEN n ELSE views[v]]

\* Mutant of Countdown: the replaced shadow goes at the next pass.
ShortCountdown == 1
Countdown      == 2

\* ww_vk_blitter_ensure_shadow for a frame of another size or format.  The node
\* was deleted before; the copies into the old shadow are waited for.  A pass takes one
\* frame, so it replaces the shadow once.
Replaces(n) ==
  \E k \in Progress :
    LET q == Unfinished(gpu, k) IN
    /\ passAt = "draw"
    /\ Drains(q)
    /\ sampled' = 0 /\ fading' = ViewDropped(fading, sampled, n)
    /\ \/ /\ ~RingIdle(q)
          /\ passAt' = "end"                    \* the frame goes back undrawn
          /\ UNCHANGED shadowVars
       \/ /\ RingIdle(q)
          /\ parked' = IF shadow.id = 0 THEN parked
                       ELSE [s \in DOMAIN parked \cup {shadow.id} |->
                              IF s = shadow.id THEN Countdown ELSE parked[s]]
          /\ \/ \E s \in 1 .. MaxShadows \ images :
                  /\ images' = images \cup {s}
                  /\ shadow' = [id |-> s, content |-> FALSE]
                  /\ passAt' = "copy"           \* the frame is drawn into it
             \/ /\ shadow' = NoShadow          \* no memory for the new one
                /\ passAt' = "end"
                /\ UNCHANGED images
    /\ drained' = FALSE
    /\ UNCHANGED << nextSlot, noExport >>

\* acquire_ring_slot: the oldest slot, recycled when its fence has signalled.
Free(i) == ring[i] \notin Copying(gpu)

\* Mutant of WaitsFor: the frame is handed back when the wait times out.
WaitsForNone(f, q) == TRUE
\* The copy is submitted: where its release goes depends on what the driver can
\* export.  finish_release_after_cpu_wait gives up after a bounded wait.
WaitsFor(f, q)    == f \notin Copying(q)

Submits(f) ==
  LET Queued(how) == Append(gpu, [frame |-> f, into |-> shadow.id, back |-> how]) IN
  /\ nextSlot' = (nextSlot % Slots) + 1
  /\ \/ /\ ~noExport                                   \* the fence is attached
        /\ gpu' = Queued("fence") /\ ring' = [ring EXCEPT ![nextSlot] = f]
        /\ shadow' = [shadow EXCEPT !.content = TRUE]
        /\ UNCHANGED noExport
     \/ \E k \in 0 .. Len(gpu) + 1, exported \in BOOLEAN : \* it is not: wait
          LET how == IF WaitsFor(f, Unfinished(Queued("none"), k)) THEN "host" ELSE "closed"
              q   == Unfinished(Queued(how), k) IN
          /\ exported => ~noExport
          /\ noExport' = (noExport \/ ~exported)
          /\ gpu' = q
          /\ ring' = [ring EXCEPT ![nextSlot] = IF WaitsFor(f, q) THEN 0 ELSE f]
          /\ shadow' = [shadow EXCEPT !.content = @ \/ exported \/ WaitsFor(f, q)]

\* ww_vk_blitter_blit for the next frame of the shadow's size.
Blits ==
  /\ passAt \in {"draw", "copy"} /\ shadow.id # 0
  /\ \/ /\ ~Free(nextSlot)                             \* WW_VK_BLIT_DROPPED
        /\ UNCHANGED << ringVars, shadow, noExport >>
     \/ /\ Free(nextSlot)                              \* nothing was submitted
        /\ ring' = [ring EXCEPT ![nextSlot] = 0]
        /\ UNCHANGED << nextSlot, gpu, shadow, noExport >>
     \/ /\ Free(nextSlot) /\ NewFrames # {}
        /\ Submits(CHOOSE f \in NewFrames : \A g \in NewFrames : f <= g)
  /\ passAt' = "end" /\ drained' = FALSE
  /\ UNCHANGED << images, parked, viewVars >>

\* The pass ends: a new texture of the shadow replaces the node's, and Qt reaches
\* a frame boundary.
EndsPass(n) ==
  LET shown == IF shadow.content THEN shadow.id ELSE 0
      views == IF sampled = shown THEN fading ELSE ViewDropped(fading, sampled, n)
      kept  == {v \in DOMAIN views : views[v] > 1} IN
  /\ passAt \in {"draw", "end"}
  /\ sampled' = shown
  /\ fading' = [v \in kept |-> views[v] - 1]
  /\ passAt' = "idle" /\ drained' = FALSE
  /\ UNCHANGED << ringVars, shadowVars, noExport >>

-----------------------------------------------------------------------------
(* Retired pools and the end of the scene graph.                           *)

\* drainPendingGenerationResources: the imports of a retired pool are destroyed
\* when the ring has drained.
DrainsRing ==
  \E k \in Progress :
    /\ passAt = "idle" /\ gpu # << >>
    /\ Drains(Unfinished(gpu, k))
    /\ drained' = RingIdle(Unfinished(gpu, k))
    /\ UNCHANGED << nextSlot, shadowVars, viewVars, noExport, passAt >>

\* ww_vk_blitter_shutdown: wait for the device, then destroy everything.  The
\* next frame initialises a new blitter.
ShutsRing ==
  /\ passAt = "idle" /\ images # {}
  /\ gpu' = << >> /\ ring' = [i \in 1 .. Slots |-> 0] /\ nextSlot' = 1
  /\ shadow' = NoShadow /\ images' = {} /\ parked' = << >>
  /\ sampled' = 0 /\ fading' = << >>
  /\ noExport' = FALSE /\ drained' = FALSE
  /\ UNCHANGED passAt

RingNext ==
  \/ GpuFinishes \/ BeginsPass \/ Blits \/ DrainsRing \/ ShutsRing
  \/ \E n \in 1 .. 2 : Replaces(n) \/ EndsPass(n)

RingSpec == RingInit /\ [][RingNext]_allRing

-----------------------------------------------------------------------------
\* Types.
RingTypeOK ==
  /\ ring \in [1 .. Slots -> FrameIds \cup {0}] /\ nextSlot \in 1 .. Slots
  /\ \A i \in DOMAIN gpu : gpu[i].frame \in FrameIds /\ gpu[i].into \in 1 .. MaxShadows
  /\ \A i \in DOMAIN gpu : gpu[i].back \in {"host", "fence", "closed"}
  /\ shadow.id \in 0 .. MaxShadows /\ images \subseteq 1 .. MaxShadows
  /\ \A s \in DOMAIN parked : parked[s] \in 1 .. 2
  /\ \A v \in DOMAIN fading : fading[v] \in 1 .. 2
  /\ passAt \in {"idle", "draw", "copy", "end"}

\* A frame the host hands back is never read again: whatever fails, drops or times
\* out in the blitter, the worker is not told to draw over a buffer a copy still
\* reads.
HandedBackUnread == \A i \in DOMAIN gpu : gpu[i].back # "host"

\* A drain that reports success left no copy on the GPU: the imports destroyed
\* after it are read by nobody, although a copy may have outlived an earlier wait.
DrainedIsIdle == drained => gpu = << >>

\* The image of a shadow outlives the copies into it and the views Qt still has of
\* it, however the passes, the size changes and Qt's release queue interleave.
ShadowsOutliveUse ==
  /\ \A i \in DOMAIN gpu : gpu[i].into \in images
  /\ DOMAIN fading \cup ({sampled} \ {0}) \subseteq images

\* pending_shadow_destroy never fills: a pass parks at most one shadow, and the one
\* parked by the pass before the last is gone by then, so that no two have as long to
\* go and enqueue_shadow_destroy never destroys one before its time to make room.
ParkingHasRoom == \A s, t \in DOMAIN parked : parked[s] = parked[t] => s = t

\* Copies in flight guard the buffers they read and the images they write.
CopiesAreGuarded ==
  RingTypeOK /\ HandedBackUnread /\ DrainedIsIdle /\ ShadowsOutliveUse /\ ParkingHasRoom
=============================================================================
