----------------------------- MODULE MCEdgeParts -----------------------------
(***************************************************************************)
(* The parts of the consumers and of the renderers that share no state,    *)
(* for TLC: a behaviour is one of one part, as in MCDaemonParts.           *)
(***************************************************************************)
EXTENDS ShadowRing, KdeDisplay, GnomeHelper, GnomeDisplay, WaylandSurface,
        WaylandOutputs, VideoPlayback, WebPage, SceneWorker, PartValues, TLC

CONSTANT Parts \* parts that are run

VARIABLE part

partVars == << part, allRing, kdeVars, helperVars, gnomeVars, surfaceVars,
               outputsVars, videoVars, webVars, sceneVars >>

-----------------------------------------------------------------------------
\* A part that is not run starts in one state, and no fair step of it is enabled.
Away(p, Canonical) == part = p \/ Canonical

PartsInit ==
  /\ part \in Parts
  /\ RingInit
  /\ KdeInit /\ Away("kde", api = "egl" /\ ~rough)
  /\ HelperInit /\ Away("helper", ~crashing)
  /\ GnomeInit /\ Away("gnome", ~wedged)
  /\ SurfaceInit /\ Away("surface", ~flawed)
  /\ OutputsInit
  /\ VideoInit /\ Away("video", wanted = [play |-> TRUE, loop |-> TRUE, mute |-> FALSE])
  /\ WebInit /\ Away("web", stored.play)
  /\ SceneInit /\ Away("scene", desired.play)

Still(p, vs) == IF part = p THEN TRUE ELSE UNCHANGED vs

\* A step of part p leaves the others alone.
Step(p, PartStep) ==
  /\ part = p /\ PartStep
  /\ UNCHANGED part
  /\ Still("ring", allRing) /\ Still("kde", kdeVars)
  /\ Still("helper", helperVars) /\ Still("gnome", gnomeVars)
  /\ Still("surface", surfaceVars) /\ Still("outputs", outputsVars)
  /\ Still("video", videoVars) /\ Still("web", webVars)
  /\ Still("scene", sceneVars)

PartsNext ==
  \/ Step("ring", RingNext)
  \/ Step("kde", KdeNext)
  \/ Step("helper", HelperNext)
  \/ Step("gnome", GnomeNext)
  \/ Step("surface", SurfaceNext)
  \/ Step("outputs", OutputsNext)
  \/ Step("video", VideoNext)
  \/ Step("web", WebNext)
  \/ Step("scene", SceneNext)

PartsSafety == PartsInit /\ [][PartsNext]_partVars

-----------------------------------------------------------------------------
\* The layer-shell consumer settles each frame once and draws from buffers it is bound
\* to, and knows the same outputs as the daemon.
LayerShellAgrees == FramesReturnOnce /\ OutputsAgree

\* In the KDE consumer and the shadow copies no image is reused or destroyed while it
\* is read, and no frame is kept.
ImagesAreKept == CopiesAreGuarded /\ FramesAndImportsKept

\* Native renderers play, pause and show as the daemon asks.
NativeWorkersObey == VideoObeys /\ SceneObeys

\* In the GNOME consumer one helper at a time speaks for the Shell, and an output keeps
\* the images it shows or copies from.
GnomeAgrees == HelpersTakeTurns /\ OutputKeepsImages
=============================================================================
