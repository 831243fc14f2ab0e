---------------------------- MODULE MCDaemonParts ----------------------------
(***************************************************************************)
(* The parts of the daemon that share no state, for TLC. A behaviour is    *)
(* one of one part, chosen at the start; the others stay in an initial     *)
(* state where nothing is to be done.                                      *)
(***************************************************************************)
EXTENDS ReleaseLedger, ClientOutbox, ClientInbox, ControlRequests,
        PlaybackPolicy, RouteTable, DaemonProcess, BufferAgreement,
        WorkerTimeline, OutputLayout, ConfigStore,
        WindowRules, PartValues, TLC

CONSTANT Parts \* parts that are run

VARIABLE part

partVars == << part, ledgerVars, outboxVars, inboxVars, controlVars,
               policyVars, tableVars, daemonVars, agreeVars,
               timelineVars, layoutVars, configVars, rulesVars >>

-----------------------------------------------------------------------------
\* Clients and workers of a route that nobody registers with.
Unasked == CHOOSE x \in [Windows -> Peers] \X Offers \X [Peers -> Adverts] \X [Peers -> Importable] : TRUE

\* A part that is not run starts in one state, and no fair step of it is enabled.
Away(p, Canonical) == part = p \/ Canonical

PartsInit ==
  /\ part \in Parts
  /\ LedgerInit /\ Away("ledger", linked = Screens)
  /\ OutboxInit
  /\ InboxInit
  /\ ControlInit /\ Away("control", connected = {})
  /\ PolicyInit /\ Away("policy", shared)
  /\ TableInit /\ Away("table", declared = 0 /\ clone /\ papered = {} /\ primary = "none")
  /\ DaemonInit
  /\ AgreeInit /\ Away("agree", Parties = Unasked)
  /\ TimelineInit
  /\ LayoutInit /\ Away("layout", cloned)
  /\ ConfigInit /\ Away("config", config = Defaults)
  /\ RulesInit /\ Away("rules", rulebook = PlainBook)

Still(p, vs) == IF part = p THEN TRUE ELSE UNCHANGED vs

\* A step of part p leaves the others alone.
Step(p, PartStep) ==
  /\ part = p /\ PartStep
  /\ UNCHANGED part
  /\ Still("ledger", ledgerVars) /\ Still("outbox", outboxVars)
  /\ Still("inbox", inboxVars) /\ Still("control", controlVars)
  /\ Still("policy", policyVars) /\ Still("table", tableVars)
  /\ Still("daemon", daemonVars) /\ Still("agree", agreeVars)
  /\ Still("timeline", timelineVars) /\ Still("layout", layoutVars)
  /\ Still("config", configVars) /\ Still("rules", rulesVars)

PartsNext ==
  \/ Step("ledger", LedgerNext)
  \/ Step("outbox", OutboxNext)
  \/ Step("inbox", InboxNext)
  \/ Step("control", ControlNext)
  \/ Step("policy", PolicyNext)
  \/ Step("table", TableNext)
  \/ Step("daemon", DaemonNext)
  \/ Step("agree", AgreeNext)
  \/ Step("timeline", TimelineNext)
  \/ Step("layout", LayoutNext)
  \/ Step("config", ConfigNext)
  \/ Step("rules", RulesNext)

PartsSafety == PartsInit /\ [][PartsNext]_partVars

-----------------------------------------------------------------------------
\* A client gets whole frames, and while the daemon waits for its acknowledgement its
\* other requests are kept.
ClientServed == WholeFrames /\ WaitKeepsRequests

\* The displays are judged by the windows reported, and the renderers do what comes of it.
PlaybackFollowsWindows == PolicyFollowsReports /\ WindowsAreJudged

\* Each display is served by the right route and shows what it should.
DisplaysShowWallpapers == RoutesServeDisplays /\ LayoutObeys

\* One daemon process at a time serves, and none loses or mixes up settings.
DaemonsKeepSettings == DaemonsTakeTurns /\ SettingsObeyed
=============================================================================
