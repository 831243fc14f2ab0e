----------------------------- MODULE SceneWorker -----------------------------
(***************************************************************************)
(* The scene renderer: commands of the daemon on the host's loop, the      *)
(* render thread of the scene library, and a frame thread.  Each command   *)
(* loads the project again and hands on what differs from the last one.    *)
(* The library is external: it makes its swapchain some time after it was  *)
(* asked to, draws while it plays or when a frame is requested, and may    *)
(* not draw a requested frame while it has loaded nothing.                 *)
(***************************************************************************)
EXTENDS Integers, Sequences

CONSTANTS
  MaxOrdered,  \* commands of the daemon
  MaxRewrites, \* changes of the project and of the cover on the files
  CacheLimit   \* SCENE_MEDIA_THUMBNAIL_CACHE_LIMIT

ASSUME SceneAssumption ==
  {MaxOrdered, MaxRewrites, CacheLimit} \subseteq Nat /\ CacheLimit > 0

VARIABLES
  files,    \* whether the project can be loaded, and which cover its one file has
  desired,  \* SceneWorker: what the daemon wants
  producer, \* _VividSceneProducer: what it was configured with
  scene,    \* the SceneWallpaper
  loopAt,   \* what the host's loop has come to
  covers,   \* thumbnail cache: decoded covers by digest, and their order
  render,   \* the render thread
  ready,    \* the swapchain has a frame that was not taken
  relay,    \* the frame pump and the frame thread
  ordered, rewrites

sceneVars == << files, desired, producer, scene, loopAt, covers, render, ready, relay, ordered, rewrites >>

SceneInit ==
  /\ files = [good |-> TRUE, cover |-> 0]
  /\ desired \in [play : BOOLEAN, gfx : {0}, props : {0}, cover : {0}]
  /\ producer = [play |-> TRUE, gfx |-> 0, props |-> 0, loaded |-> FALSE, render |-> FALSE]
  /\ scene = [play |-> FALSE, gfx |-> 0, props |-> 0, cover |-> 0, chain |-> "none", asked |-> FALSE]
  /\ loopAt = "new" /\ covers = << >> /\ render = "idle" /\ ready = FALSE
  /\ relay = [stop |-> FALSE, play |-> desired.play, event |-> FALSE, at |-> "none"]
  /\ ordered = 0 /\ rewrites = 0

Unmoved(vs) == UNCHANGED vs
loopOnly == << files, render, ready, rewrites >>
threads  == << render, ready >>

-----------------------------------------------------------------------------
(* The host's loop.                                                        *)

\* vivid_scene_producer_configure: everything for a first scene, then what has changed.
HandedOn(w) ==
  IF ~producer.loaded THEN [scene EXCEPT !.gfx = w.gfx, !.props = w.props]
  ELSE [scene EXCEPT !.gfx   = IF w.gfx # producer.gfx THEN w.gfx ELSE @,
                     !.props = IF w.props # producer.props THEN w.props ELSE @]

\* load_scene_project_with_overrides
Loadable == files.good

\* configure_scene: a project that does not load fails the command, and the daemon then
\* ends the worker.  What is played follows at the end.
Configured(w, next) ==
  /\ desired' = w
  /\ IF Loadable
     THEN /\ producer' = [producer EXCEPT !.play = w.play, !.gfx = w.gfx, !.props = w.props, !.loaded = TRUE]
          /\ scene' = [HandedOn(w) EXCEPT !.play = w.play]
          /\ loopAt' = next
     ELSE UNCHANGED << producer, scene >> /\ loopAt' = "failed"

\* scene_initialize
Initializes ==
  /\ loopAt = "new" /\ Configured(desired, "configured")
  /\ Unmoved(<< loopOnly, covers, relay, ordered >>)

\* prepare_buffers_with_request starts the renderer, as the scene is to be played; there
\* is no swapchain yet, and prepare_scene_pool asks for a frame and tries again.
StartsRenderer ==
  /\ loopAt = "configured" /\ loopAt' = "polling"
  /\ producer' = [producer EXCEPT !.render = TRUE]
  /\ scene' = [scene EXCEPT !.chain = "starting", !.play = producer.play, !.asked = TRUE]
  /\ Unmoved(<< loopOnly, desired, covers, relay, ordered >>)

\* The pool is there, or the time is up.
PollEnds ==
  /\ loopAt = "polling"
  /\ \/ scene.chain = "made" /\ loopAt' = "pool"
     \/ scene.chain # "made" /\ loopAt' = "failed"
  /\ Unmoved(<< loopOnly, desired, producer, scene, covers, relay, ordered >>)

\* The end of scene_negotiate: the frame thread, and a first frame.
StartsRelay ==
  /\ loopAt = "pool" /\ loopAt' = "serving"
  /\ relay' = [relay EXCEPT !.stop = FALSE, !.event = TRUE, !.at = "wait"]
  /\ scene' = [scene EXCEPT !.asked = TRUE]
  /\ Unmoved(<< loopOnly, desired, producer, covers, ordered >>)

Serving == loopAt \in {"configured", "serving"} /\ ordered < MaxOrdered /\ ordered' = ordered + 1

\* SET_PLAYBACK in scene_runtime; the pump is told afterwards.
ScenePlayback(play) ==
  /\ Serving
  /\ Configured([desired EXCEPT !.play = play], IF loopAt = "serving" THEN "pump" ELSE loopAt)
  /\ relay' = IF loopAt = "serving" THEN relay ELSE [relay EXCEPT !.play = play]
  /\ Unmoved(<< loopOnly, covers >>)

ScenePump ==
  /\ loopAt = "pump" /\ loopAt' = "serving"
  /\ relay' = [relay EXCEPT !.play = desired.play]
  /\ Unmoved(<< loopOnly, desired, producer, scene, covers, ordered >>)

\* SET_RUNTIME in scene_runtime: of the settings or of the user properties.
SceneRuntime ==
  /\ Serving
  /\ \/ Configured([desired EXCEPT !.gfx = ordered + 1], loopAt)
     \/ Configured([desired EXCEPT !.props = ordered + 1], loopAt)
  /\ relay' = [relay EXCEPT !.event = TRUE]
  /\ Unmoved(<< loopOnly, covers >>)

\* Mutant of Digest: a cover is known by its path.
DigestOfPath(cover) == 0
\* The digest of what was read from the file.
Digest(cover) == cover

\* get_cached_scene_media_thumbnail: the decoded cover, and the cache with it.
Known(cover) == \E i \in 1 .. Len(covers) : covers[i].digest = Digest(cover)
Decoded(cover) ==
  IF Known(cover)
  THEN covers[CHOOSE i \in 1 .. Len(covers) : covers[i].digest = Digest(cover)].image
  ELSE cover
Cached(cover) ==
  LET added == IF Known(cover) THEN covers
               ELSE Append(covers, [digest |-> Digest(cover), image |-> cover]) IN
  IF Len(added) > CacheLimit THEN Tail(added) ELSE added

\* SET_MEDIA_STATE: build_scene_media_state_from_json reads the cover's file at once.
SceneMedia ==
  /\ Serving /\ UNCHANGED << loopAt, producer, relay >>
  /\ desired' = [desired EXCEPT !.cover = files.cover]
  /\ scene' = [scene EXCEPT !.cover = Decoded(files.cover)] /\ covers' = Cached(files.cover)
  /\ Unmoved(loopOnly)

\* scene_quiesce joins the frame thread, then pauses the scene.
StopsRelay ==
  /\ loopAt = "serving" /\ loopAt' = "joining"
  /\ relay' = [relay EXCEPT !.stop = TRUE]
  /\ Unmoved(<< loopOnly, desired, producer, scene, covers, ordered >>)

RelayJoined ==
  /\ loopAt = "joining" /\ relay.at = "done" /\ loopAt' = "quiet"
  /\ producer' = [producer EXCEPT !.play = FALSE] /\ scene' = [scene EXCEPT !.play = FALSE]
  /\ Unmoved(<< loopOnly, desired, covers, relay, ordered >>)

\* Somebody rewrites the project, or a player replaces the file of its cover.
Rewritten ==
  /\ rewrites < MaxRewrites /\ rewrites' = rewrites + 1
  /\ \/ files' = [files EXCEPT !.good = ~@]
     \/ files' = [files EXCEPT !.cover = rewrites + 1]
  /\ Unmoved(<< desired, producer, scene, loopAt, covers, threads, relay, ordered >>)

-----------------------------------------------------------------------------
(* The library's render thread, and the frame thread.                      *)

Library(s) == scene' = s /\ Unmoved(<< files, desired, producer, loopAt, covers, ordered, rewrites >>)

MakesSwapchain ==
  /\ scene.chain = "starting" /\ Library([scene EXCEPT !.chain = "made"])
  /\ UNCHANGED << threads, relay >>

\* A scene that plays or was asked draws; a requested frame of no scene is lost.
StartsDrawing ==
  /\ render = "idle" /\ scene.chain = "made" /\ (scene.play \/ scene.asked)
  /\ render' \in {"gate", "idle"} /\ Library([scene EXCEPT !.asked = FALSE])
  /\ UNCHANGED << ready, relay >>

\* scene_wait_release_gate lets it draw, or it skips the frame.
LeavesGate ==
  /\ render = "gate"
  /\ \/ render' = "notify" /\ ready' = TRUE
     \/ render' = "idle" /\ UNCHANGED ready
  /\ Library(scene) /\ UNCHANGED relay

\* scene_frame_event
Announces ==
  /\ render = "notify" /\ render' = "idle"
  /\ relay' = [relay EXCEPT !.event = TRUE]
  /\ Library(scene) /\ UNCHANGED ready

RelayWakes ==
  /\ relay.at = "wait"
  /\ IF relay.stop THEN relay' = [relay EXCEPT !.at = "done"]
     ELSE /\ relay.event \/ relay.play
          /\ relay' = [relay EXCEPT !.at = "next", !.event = FALSE]
  /\ Library(scene) /\ UNCHANGED threads

\* vivid_scene_producer_next_frame, and the publication.
RelayTakes ==
  /\ relay.at = "next" /\ relay' = [relay EXCEPT !.at = "wait"]
  /\ ready' = FALSE
  /\ Library(scene) /\ UNCHANGED render

SceneNext ==
  \/ Initializes \/ StartsRenderer \/ PollEnds \/ StartsRelay
  \/ \E play \in BOOLEAN : ScenePlayback(play)
  \/ ScenePump \/ SceneRuntime \/ SceneMedia \/ StopsRelay \/ RelayJoined \/ Rewritten
  \/ MakesSwapchain \/ StartsDrawing \/ LeavesGate \/ Announces \/ RelayWakes \/ RelayTakes

-----------------------------------------------------------------------------
\* Types.
SceneTypeOK ==
  /\ loopAt \in {"new", "configured", "polling", "pool", "serving", "pump", "joining", "quiet", "failed"}
  /\ render \in {"idle", "gate", "notify"} /\ relay.at \in {"none", "wait", "next", "done"}
  /\ Len(covers) <= CacheLimit

\* A worker that has not failed shows the scene as the daemon wants it.
SceneKnows ==
  loopAt \notin {"new", "failed", "quiet"}
    => scene.gfx = desired.gfx /\ scene.props = desired.props /\ scene.play = desired.play

\* "a concurrent file replacement cannot associate one revision's key with another
\* revision's pixels": a player that replaces the file of its cover does not get an earlier
\* cover from the cache.
CoversAreCurrent == scene.cover = desired.cover

\* A frame that is drawn for a paused scene wakes the frame thread.
NoSceneForgotten ==
  ready => relay.event \/ relay.stop \/ relay.play \/ render = "notify" \/ relay.at \in {"none", "next"}

SceneObeys == SceneTypeOK /\ SceneKnows /\ CoversAreCurrent /\ NoSceneForgotten
=============================================================================
