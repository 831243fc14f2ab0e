------------------------------- MODULE WebPage -------------------------------
(***************************************************************************)
(* The web renderer: commands of the daemon on the host's loop, a browser  *)
(* whose calls and callbacks all run on the UI thread of CEF, and a frame  *)
(* thread.  The loop stores a setting, and then posts a task that tells    *)
(* the page; the tasks run in the order they were posted.  A page that has *)
(* loaded is told what is stored, so what was sent to an earlier document  *)
(* is not lost.  The browser is external: it commits and loads pages and   *)
(* paints them, and its render process may die.                            *)
(***************************************************************************)
EXTENDS Integers, Sequences

CONSTANTS
  MaxSettings,  \* commands of the daemon
  MaxDeaths     \* times the render process dies

ASSUME WebAssumption == {MaxSettings, MaxDeaths} \subseteq Nat

VARIABLES
  stored,   \* _VividWebProducer: what the daemon wants of the page
  loop,     \* what the host's loop has come to
  posting,  \* tasks the loop has still to post
  tasks,    \* tasks posted to the UI thread
  browser,  \* VividWebClient and the CEF browser
  page,     \* the document of the main frame
  paint,    \* a paint of the browser: "none", "due", "gate" or "notify"
  painted,  \* WebFrameRing::dirty
  wake,     \* VividRendererFramePump
  painter,  \* the frame thread
  settings, deaths

webVars == << stored, loop, posting, tasks, browser, page, paint, painted, wake, painter,
              settings, deaths >>

NoPage == [doc |-> "none",   \* "none", "blank", "loading", "loaded" or "dead"
           paused |-> FALSE, props |-> 0, media |-> 0]

WebInit ==
  /\ \E play \in BOOLEAN :
       /\ stored = [play |-> play, props |-> 0, media |-> 0, fps |-> 0]
       /\ wake = [stop |-> FALSE, play |-> play, event |-> FALSE]
  /\ loop = "configured" /\ posting = << >> /\ tasks = << >>
  /\ browser = [state    |-> "none",  \* "none", "open", "closed"
                attached |-> TRUE,    \* producer_ is set
                hidden   |-> FALSE, frozen |-> FALSE,
                once     |-> FALSE,   \* one_shot_restore_suspended_
                fps      |-> 0]
  /\ page = NoPage
  /\ paint = "none" /\ painted = FALSE /\ painter = "none"
  /\ settings = 0 /\ deaths = 0

Task(name, value) == [name |-> name, value |-> value]
Settled(vs) == UNCHANGED vs

uiVars    == << tasks, browser, page, paint, painted, deaths >>
painterVars == << wake, painter >>

-----------------------------------------------------------------------------
(* The host's loop.                                                        *)

\* CefPostTask, outside the producer's lock.
PostsTask ==
  /\ posting # << >>
  /\ tasks' = Append(tasks, Head(posting)) /\ posting' = Tail(posting)
  /\ Settled(<< stored, loop, browser, page, paint, painted, painterVars, settings, deaths >>)

At(place) == loop = place /\ posting = << >>

\* prepare_buffers_internal has its ring and creates the deferred browser.
CreatesBrowser ==
  /\ At("configured") /\ loop' = "creating"
  /\ posting' = << Task("create", stored.fps) >>
  /\ Settled(<< stored, uiVars, painterVars, settings >>)

\* The browser is there (wait_browser_created): it is suspended as it should be.
BrowserCreated ==
  /\ At("creating") /\ browser.state = "open" /\ loop' = "prepared"
  /\ posting' = << Task("suspend", ~stored.play) >>
  /\ Settled(<< stored, uiVars, painterVars, settings >>)

\* The wait ends without a browser; one created later is nobody's.
BrowserFails ==
  /\ At("creating") /\ loop' = "failed"
  /\ browser' = [browser EXCEPT !.attached = FALSE]
  /\ Settled(<< stored, posting, tasks, page, paint, painted, painterVars, settings, deaths >>)

\* The end of web_negotiate starts the frame thread and asks for a first frame.
Negotiates ==
  /\ At("prepared") /\ loop' = "serving"
  /\ wake' = [wake EXCEPT !.stop = FALSE, !.event = TRUE] /\ painter' = "wait"
  /\ posting' = << Task("frame", ~stored.play) >>
  /\ Settled(<< stored, uiVars, settings >>)

\* Commands come before the browser and after it.
Commanded(S, toPost) ==
  /\ loop \in {"configured", "serving"} /\ posting = << >>
  /\ settings < MaxSettings /\ settings' = settings + 1
  /\ stored' = S
  /\ posting' = toPost
  /\ Settled(<< uiVars, painter >>)

\* Tasks of vivid_web_producer_configure go to a browser that was created.
IfOpen(ts) == IF browser.state = "open" THEN ts ELSE << >>

\* vivid_web_producer_set_playing: a task when it changes.
SuspendTasks(play) ==
  IF play # stored.play THEN << Task("suspend", ~play) >> ELSE << >>

\* SET_PLAYBACK in web_runtime; the pump is told when the tasks are posted.
WebPlayback(play) ==
  /\ Commanded([stored EXCEPT !.play = play], SuspendTasks(play))
  /\ loop' = IF loop = "serving" THEN "pump" ELSE loop
  /\ wake' = IF loop = "serving" THEN wake ELSE [wake EXCEPT !.play = play]

TellsPump ==
  /\ At("pump") /\ loop' = "serving"
  /\ wake' = [wake EXCEPT !.play = stored.play]
  /\ Settled(<< stored, posting, uiVars, painter, settings >>)

\* SET_RUNTIME in web_runtime: of new user properties or a new frame rate.
WebRuntime ==
  LET n == settings + 1 IN
  /\ \/ Commanded([stored EXCEPT !.props = n], IfOpen(<< Task("props", n) >>))
     \/ Commanded([stored EXCEPT !.fps = n], IfOpen(<< Task("fps", n) >>))
  /\ wake' = [wake EXCEPT !.event = TRUE] /\ UNCHANGED loop

\* SET_MEDIA_STATE: set_media_state_json
WebMedia ==
  LET n == settings + 1 IN
  /\ Commanded([stored EXCEPT !.media = n], << Task("media", n) >>)
  /\ UNCHANGED << loop, wake >>

\* web_quiesce joins the frame thread, then suspends the page.
StopsThread ==
  /\ At("serving") /\ loop' = "joining"
  /\ wake' = [wake EXCEPT !.stop = TRUE]
  /\ Settled(<< stored, posting, uiVars, painter, settings >>)

ThreadJoined ==
  /\ At("joining") /\ painter = "done" /\ loop' = "quiet"
  /\ stored' = [stored EXCEPT !.play = FALSE] /\ posting' = SuspendTasks(FALSE)
  /\ Settled(<< uiVars, painterVars, settings >>)

\* detach_producer waits for a callback that holds producer_lock_.
MayDetach == paint \in {"none", "due"}

\* close_client_browser in vivid_web_producer_free
Closes ==
  /\ At("quiet") /\ MayDetach /\ loop' = "closing"
  /\ browser' = [browser EXCEPT !.attached = FALSE]
  /\ posting' = << Task("close", FALSE) >>
  /\ Settled(<< stored, tasks, page, paint, painted, painterVars, settings, deaths >>)

\* The producer is deleted once the browser has closed, or after ten seconds.
Frees ==
  /\ At("closing") /\ loop' = "gone"
  /\ Settled(<< stored, posting, uiVars, painterVars, settings >>)

-----------------------------------------------------------------------------
(* The UI thread.                                                          *)

UiFree == paint \in {"none", "due"}

\* Mutant of Suspended: a one-shot repaint stays pending.
SuspendedOnce(B, on) == [B EXCEPT !.hidden = on, !.frozen = on]
\* DoSetSuspended for the browser ...
Suspended(B, on) == [B EXCEPT !.once = FALSE, !.hidden = on, !.frozen = on]

\* A script of Vivid does something in a document that has defined its functions; the
\* media of any document can be paused.
Scripted(p) == p.doc = "loaded"
Paused(p, on) == IF p.doc \in {"loading", "loaded"} THEN [p EXCEPT !.paused = on] ELSE p

\* One task: DoCreateBrowser, DoSetSuspended, DoRequestFrame, DoExecuteJs,
\* DoSetFrameRate or DoClose, of a browser that is there.
Does(task) ==
  CASE task.name = "create"  ->
         /\ page' = [NoPage EXCEPT !.doc = "blank"]
         /\ browser' = [browser EXCEPT !.state = "open", !.fps = task.value]
    [] task.name = "suspend" ->
         /\ browser' = Suspended(browser, task.value)
         /\ page' = Paused(page, task.value)
    [] task.name = "frame"   ->
         /\ browser' = IF task.value THEN [browser EXCEPT !.once = TRUE, !.hidden = FALSE, !.frozen = FALSE]
                       ELSE [browser EXCEPT !.once = FALSE]
         /\ UNCHANGED page
    [] task.name = "props"   ->
         /\ page' = IF Scripted(page) THEN [page EXCEPT !.props = task.value] ELSE page
         /\ UNCHANGED browser
    [] task.name = "media"   ->
         /\ page' = IF Scripted(page) THEN [page EXCEPT !.media = task.value] ELSE page
         /\ UNCHANGED browser
    [] task.name = "fps"     -> browser' = [browser EXCEPT !.fps = task.value] /\ UNCHANGED page
    [] OTHER                 -> /\ browser' = [browser EXCEPT !.state = "closed", !.once = FALSE]
                                /\ page' = NoPage

RunsTask ==
  /\ UiFree /\ tasks # << >> /\ tasks' = Tail(tasks)
  /\ IF browser.state = "open" \/ Head(tasks).name = "create" THEN Does(Head(tasks))
     ELSE UNCHANGED << browser, page >>
  /\ paint' = IF browser'.state = "closed" THEN "none" ELSE paint
  /\ Settled(<< stored, loop, posting, painted, painterVars, settings, deaths >>)

\* CEF replaces the document; the new one may start active.
Commits ==
  /\ UiFree /\ page.doc \in {"blank", "dead"}
  /\ page' = [NoPage EXCEPT !.doc = "loading"]
  /\ \E f \in {browser.frozen, FALSE} : browser' = [browser EXCEPT !.frozen = f]
  /\ Settled(<< stored, loop, posting, tasks, paint, painted, painterVars, settings, deaths >>)

\* push_initial_page_state: what is stored under the lock.
PageState(p) ==
  [p EXCEPT !.props = stored.props, !.media = stored.media, !.paused = @ \/ ~stored.play]

\* OnLoadingStateChange; with_producer does nothing for a client that is detached.
PageLoads ==
  /\ UiFree /\ page.doc = "loading"
  /\ LET p == [page EXCEPT !.doc = "loaded"] IN
     IF browser.attached
     THEN /\ page' = PageState(p)
          /\ browser' = IF stored.play THEN browser ELSE Suspended(browser, TRUE)
     ELSE page' = p /\ UNCHANGED browser
  /\ Settled(<< stored, loop, posting, tasks, paint, painted, painterVars, settings, deaths >>)

\* OnRenderProcessTerminated reloads the page.
PageDies ==
  /\ UiFree /\ page.doc \in {"loading", "loaded"}
  /\ deaths < MaxDeaths /\ deaths' = deaths + 1
  /\ page' = [NoPage EXCEPT !.doc = "dead"]
  /\ Settled(<< stored, loop, posting, tasks, browser, paint, painted, painterVars, settings >>)

\* The compositor has drawn a page that shows.
Draws ==
  /\ paint = "none" /\ page.doc \in {"blank", "loading", "loaded"} /\ ~browser.hidden
  /\ paint' = "due"
  /\ Settled(<< stored, loop, posting, tasks, browser, page, painted, painterVars, settings, deaths >>)

\* RestoreOneShotSuspendedIfNeeded after a paint.
Restored(B) == IF B.once THEN [B EXCEPT !.once = FALSE, !.hidden = TRUE, !.frozen = TRUE] ELSE B

\* OnAcceleratedPaint: to the gate of the slot, when there is a producer with a ring;
\* a software frame is refused.
BrowserPaints ==
  /\ paint = "due"
  /\ \/ paint' = "gate" /\ browser.attached /\ UNCHANGED browser
     \/ paint' = "none" /\ browser' = Restored(browser)
  /\ Settled(<< stored, loop, posting, tasks, page, painted, painterVars, settings, deaths >>)

\* The slot was released and the frame copied (mark_frame_ready), or it is dropped.
PassesGate ==
  /\ paint = "gate"
  /\ \/ paint' = "notify" /\ painted' = TRUE /\ UNCHANGED browser
     \/ paint' = "none" /\ browser' = Restored(browser) /\ UNCHANGED painted
  /\ Settled(<< stored, loop, posting, tasks, page, painterVars, settings, deaths >>)

\* The frame callback, outside the producer's lock.
Notifies ==
  /\ paint = "notify" /\ paint' = "none" /\ browser' = Restored(browser)
  /\ wake' = [wake EXCEPT !.event = TRUE]
  /\ Settled(<< stored, loop, posting, tasks, page, painted, painter, settings, deaths >>)

-----------------------------------------------------------------------------
(* The frame thread.                                                       *)

ThreadWaits ==
  /\ painter = "wait"
  /\ IF wake.stop THEN painter' = "done" /\ UNCHANGED wake
     ELSE /\ wake.event \/ wake.play
          /\ painter' = "next" /\ wake' = [wake EXCEPT !.event = FALSE]
  /\ Settled(<< stored, loop, posting, uiVars, settings >>)

\* vivid_web_producer_next_frame and the publication of what eat_frame returns.
ThreadTakes ==
  /\ painter = "next" /\ painter' = "wait" /\ painted' = FALSE
  /\ Settled(<< stored, loop, posting, tasks, browser, page, paint, deaths, wake, settings >>)

WebNext ==
  \/ PostsTask \/ CreatesBrowser \/ BrowserCreated \/ BrowserFails \/ Negotiates
  \/ \E play \in BOOLEAN : WebPlayback(play)
  \/ TellsPump \/ WebRuntime \/ WebMedia \/ StopsThread \/ ThreadJoined \/ Closes \/ Frees
  \/ RunsTask \/ Commits \/ PageLoads \/ PageDies \/ Draws \/ BrowserPaints \/ PassesGate \/ Notifies
  \/ ThreadWaits \/ ThreadTakes

-----------------------------------------------------------------------------
\* Types.
WebTypeOK ==
  /\ loop \in {"configured", "creating", "prepared", "serving", "pump", "joining", "quiet",
               "closing", "gone", "failed"}
  /\ paint \in {"none", "due", "gate", "notify"} /\ painter \in {"none", "wait", "next", "done"}
  /\ page.doc \in {"none", "blank", "loading", "loaded", "dead"}

\* Nothing is on its way to the page.
PageIsTold == tasks = << >> /\ posting = << >> /\ loop \notin {"prepared", "closing", "gone", "failed"}

\* A page that has loaded knows the newest settings, whatever document they were sent to
\* and however often its process died.
PageKnows ==
  PageIsTold /\ page.doc = "loaded"
    => /\ page.props = stored.props /\ page.media = stored.media
       /\ page.paused = ~stored.play /\ browser.fps = stored.fps

\* A paused page rests, except until the paint it was woken for; one that plays does not
\* rest, and no paint will put it to sleep.
PageRests ==
  PageIsTold /\ page.doc = "loaded"
    => IF stored.play THEN ~(browser.hidden \/ browser.frozen \/ browser.once)
       ELSE browser.once \/ (browser.hidden /\ browser.frozen)

\* A frame that is ready is published: a paused frame thread is not left asleep.
NoFrameForgotten ==
  painted => wake.event \/ wake.stop \/ paint = "notify" \/ painter \in {"none", "next"}
           \/ wake.play

\* "detach_producer() can guarantee no callback still dereferences the producer".
NoCallbackAfterFree == loop \in {"closing", "gone"} => paint \in {"none", "due"}

WebObeys == WebTypeOK /\ PageKnows /\ PageRests /\ NoFrameForgotten /\ NoCallbackAfterFree
=============================================================================
