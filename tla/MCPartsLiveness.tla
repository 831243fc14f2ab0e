--------------------------- MODULE MCPartsLiveness ---------------------------
(***************************************************************************)
(* What the parts of the daemon, of the consumers and of the renderers do  *)
(* in the end, for TLC: a behaviour is one of one part, as in              *)
(* MCDaemonParts, in smaller instances and under fairness.                 *)
(***************************************************************************)
EXTENDS ReleaseLedger, ClientOutbox, ControlRequests, RouteTable, KdeDisplay,
        GnomeHelper, WaylandSurface, WaylandOutputs, VideoPlayback,
        BufferAgreement, PartValues, TLC

CONSTANT Parts \* parts that are run

VARIABLE part

partVars == << part, ledgerVars, outboxVars, controlVars, tableVars, kdeVars,
               helperVars, surfaceVars, outputsVars, videoVars, agreeVars >>

-----------------------------------------------------------------------------
\* Clients and workers of a route that nobody registers with.
Unasked == CHOOSE x \in [Windows -> Peers] \X Offers \X [Peers -> Adverts] \X [Peers -> Importable] : TRUE

\* A part that is not run starts in one state, and no fair step of it is enabled.
Away(p, Canonical) == part = p \/ Canonical

PartsInit ==
  /\ part \in Parts
  /\ LedgerInit /\ Away("ledger", linked = Screens)
  /\ OutboxInit
  /\ ControlInit /\ Away("control", connected = {})
  /\ TableInit /\ Away("table", declared = 0 /\ clone /\ papered = {} /\ primary = "none")
  /\ KdeInit /\ Away("kde", api = "egl" /\ ~rough)
  /\ HelperInit /\ Away("helper", ~crashing)
  /\ SurfaceInit /\ Away("surface", ~flawed)
  /\ OutputsInit
  /\ VideoInit /\ Away("video", wanted = [play |-> TRUE, loop |-> TRUE, mute |-> FALSE])
  /\ AgreeInit /\ Away("agree", Parties = Unasked)

Still(p, vs) == IF part = p THEN TRUE ELSE UNCHANGED vs

\* A step of part p leaves the others alone.
Step(p, PartStep) ==
  /\ part = p /\ PartStep
  /\ UNCHANGED part
  /\ Still("ledger", ledgerVars) /\ Still("outbox", outboxVars)
  /\ Still("control", controlVars) /\ Still("table", tableVars)
  /\ Still("kde", kdeVars) /\ Still("helper", helperVars)
  /\ Still("surface", surfaceVars) /\ Still("outputs", outputsVars)
  /\ Still("video", videoVars) /\ Still("agree", agreeVars)

PartsNext ==
  \/ Step("ledger", LedgerNext)
  \/ Step("outbox", OutboxNext)
  \/ Step("control", ControlNext)
  \/ Step("table", TableNext)
  \/ Step("kde", KdeNext)
  \/ Step("helper", HelperNext)
  \/ Step("surface", SurfaceNext)
  \/ Step("outputs", OutputsNext)
  \/ Step("video", VideoNext)
  \/ Step("agree", AgreeNext)

PartsSafety == PartsInit /\ [][PartsNext]_partVars

PartsLive ==
  /\ PartsSafety
  /\ LedgerFairness /\ OutboxFairness /\ Settles /\ TableFairness
  /\ KdeFairness /\ HelperFairness /\ SurfaceFairness /\ OutputsFairness
  /\ VideoFairness /\ AgreeFairness

-----------------------------------------------------------------------------
\* The layer-shell consumer posts the images it has drawn, and gets its outputs accepted.
LayerShellProceeds == ImagesArePosted /\ OutputsAreAccepted

\* Frames come back to the worker, and what is queued for a client is sent.
TrafficMoves == FramesReturn /\ OutboxDrains

\* Requests of the control client are answered, and routes nobody uses go.
RequestsSettle == SetStateSettles /\ OrphansAreReaped
=============================================================================
