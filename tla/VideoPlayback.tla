---------------------------- MODULE VideoPlayback ----------------------------
(***************************************************************************)
(* The video renderer: commands of the daemon on the host's loop, a frame  *)
(* thread that sleeps in the frame pump, and a GStreamer pipeline whose    *)
(* own threads decode into an appsink of one sample and call back.  Both   *)
(* the loop and the frame thread take backend_lock around a call of the    *)
(* video producer; such a call is one step.  The pipeline is external: it  *)
(* prerolls, decodes, ends, breaks, and after a resume it may stay in      *)
(* PLAYING without a sample.                                               *)
(***************************************************************************)
EXTENDS Integers

CONSTANTS
  Length,       \* samples of the video
  MaxOrders,    \* commands of the daemon
  MaxStalls,    \* times the decoder stalls
  MaxMisses     \* times the slot to be written stays unreleased too long

ASSUME VideoAssumption ==
  {Length, MaxOrders, MaxStalls, MaxMisses} \subseteq Nat /\ Length > 0

VARIABLES
  wanted,  \* VideoWorker: playing, looping and muted as the daemon wants them
  player,  \* VividVideoProducer
  stream,  \* the GStreamer pipeline
  pump,    \* VividRendererFramePump
  thread,  \* the frame thread
  reached, \* what the loop has come to
  orders, stalls, misses

videoVars == << wanted, player, stream, pump, thread, reached, orders, stalls, misses >>

VideoInit ==
  /\ wanted \in [play : BOOLEAN, loop : BOOLEAN, mute : BOOLEAN]
  /\ player = [play |-> wanted.play, loop |-> wanted.loop, mute |-> wanted.mute,
               shown   |-> FALSE,   \* uploaded_samples > 0
               starved |-> FALSE,   \* playing_sample_starved_since_usec is set
               failed  |-> FALSE]   \* pipeline_failed
  /\ stream = [state   |-> "none",  \* "none", "paused" or "playing"
               at      |-> 0,       \* samples decoded
               ready   |-> FALSE,   \* has prerolled since it was paused, started or flushed
               sample  |-> FALSE,   \* the appsink has a sample
               preroll |-> FALSE,   \* the appsink has a preroll buffer
               stuck   |-> FALSE,   \* plays, and no sample comes
               eos     |-> FALSE,   \* EOS message on the bus
               error   |-> FALSE,   \* ERROR message on the bus
               volume  |-> "none",  \* "none", "asked" or the element
               mute    |-> FALSE,   \* of the volume element, or the one it will get
               late    |-> FALSE]   \* history: told another one before it had an element
  /\ pump = [stop |-> FALSE, play |-> wanted.play, event |-> FALSE]
  /\ thread = "none" /\ reached = "new"
  /\ orders = 0 /\ stalls = 0 /\ misses = 0

-----------------------------------------------------------------------------
(* The pipeline as the producer drives it.                                 *)

\* request_pipeline_playback_state
Driven(S, play) ==
  CASE S.state = "none"             -> S
    [] play                         -> [S EXCEPT !.state = "playing"]
    [] S.state = "playing" /\ ~play -> [S EXCEPT !.state = "paused", !.ready = FALSE]
    [] OTHER                        -> S

\* A flushing seek to the key unit at or before a position.
Sought(S, position) ==
  [S EXCEPT !.at = position, !.ready = FALSE, !.sample = FALSE, !.preroll = FALSE, !.stuck = FALSE]

\* Mutant of Sounds: the element that plays is not told.
SoundsLater(S, mute) ==
  IF S.volume = "made" THEN S ELSE [S EXCEPT !.late = S.mute # mute]
\* apply_audio_state: of a volume element that exists.  One that will be made gets what
\* the pipeline was created with, whatever was asked since.
Sounds(S, mute) ==
  IF S.volume = "made" THEN [S EXCEPT !.mute = mute, !.late = FALSE]
  ELSE [S EXCEPT !.late = S.mute # mute]

Same(vs) == UNCHANGED vs
Ordered == orders < MaxOrders /\ orders' = orders + 1

-----------------------------------------------------------------------------
(* The host's loop.                                                        *)

\* prepare_video_pool: ensure_pipeline starts the pipeline; pads come later.
Prepares ==
  /\ reached = "new" /\ reached' = "prepared"
  /\ stream' = [Driven([stream EXCEPT !.state = "paused"], player.play)
                  EXCEPT !.volume = "asked", !.mute = player.mute]
  /\ Same(<< wanted, player, pump, thread, orders, stalls, misses >>)

\* vivid_renderer_frame_pump_start
PumpStarted(q) == [q EXCEPT !.stop = FALSE, !.event = TRUE]

\* The end of video_negotiate starts the frame thread.
StartsThread ==
  /\ reached = "prepared" /\ reached' = "started"
  /\ pump' = PumpStarted(pump) /\ thread' = "wait"
  /\ Same(<< wanted, player, stream, orders, stalls, misses >>)

\* Mutant of FrameRequested: the pipeline plays until it has a frame.
FrameRequestedPlaying(S, play) == Driven(S, TRUE)
\* vivid_video_producer_request_frame: the state wanted is asked for again.
FrameRequested(S, play) == Driven(S, play)

RequestsFrame ==
  /\ reached = "started" /\ reached' = "serving"
  /\ stream' = FrameRequested(stream, player.play)
  /\ Same(<< wanted, player, pump, thread, orders, stalls, misses >>)

\* vivid_video_producer_set_playing
PlayerSet(P, play) == [P EXCEPT !.play = play, !.starved = @ /\ P.play = play]

\* SET_PLAYBACK in video_runtime: the producer, then the pump.
SetsPlayback(play, mute) ==
  /\ reached = "serving" /\ Ordered
  /\ wanted' = [wanted EXCEPT !.play = play, !.mute = mute]
  /\ player' = [PlayerSet(player, play) EXCEPT !.mute = mute]
  /\ stream' = Driven(Sounds(stream, mute), play)
  /\ reached' = "pump"
  /\ Same(<< pump, thread, stalls, misses >>)

SetsPump ==
  /\ reached = "pump" /\ reached' = "serving"
  /\ pump' = [pump EXCEPT !.play = wanted.play]
  /\ Same(<< wanted, player, stream, thread, orders, stalls, misses >>)

\* SET_RUNTIME in video_runtime: vivid_video_producer_configure of the same project,
\* then looping and playing as they are wanted.
SetsRuntime(loop) ==
  LET S == Driven(Sounds(stream, wanted.mute), player.play) IN
  /\ reached = "serving" /\ Ordered
  /\ wanted' = [wanted EXCEPT !.loop = loop]
  /\ player' = [PlayerSet(player, wanted.play) EXCEPT !.loop = loop, !.mute = wanted.mute]
  /\ stream' = Driven(S, wanted.play)
  /\ pump' = [pump EXCEPT !.event = TRUE]
  /\ Same(<< thread, reached, stalls, misses >>)

\* video_quiesce joins the frame thread, then pauses.
StopsPump ==
  /\ reached = "serving" /\ Ordered /\ reached' = "joining"
  /\ pump' = [pump EXCEPT !.stop = TRUE]
  /\ Same(<< wanted, player, stream, thread, stalls, misses >>)

Joined ==
  /\ reached = "joining" /\ thread = "done" /\ reached' = "quiet"
  /\ player' = PlayerSet(player, FALSE)
  /\ stream' = Driven(stream, FALSE)
  /\ Same(<< wanted, pump, thread, orders, stalls, misses >>)

-----------------------------------------------------------------------------
(* GStreamer.  A callback follows the sample at once; it may come before   *)
(* the frame thread exists.                                                *)

Callback == pump' = [pump EXCEPT !.event = TRUE]
Gst(S) == stream' = S /\ Same(<< wanted, player, thread, reached, orders, misses >>)

\* new_preroll
Prerolls ==
  /\ stream.state # "none" /\ ~stream.ready /\ stream.at < Length
  /\ Gst([stream EXCEPT !.ready = TRUE, !.preroll = TRUE]) /\ Callback
  /\ UNCHANGED stalls

\* new_sample; the appsink keeps the newest.
Decodes ==
  /\ stream.state = "playing" /\ stream.ready /\ ~stream.stuck /\ stream.at < Length
  /\ Gst([stream EXCEPT !.at = @ + 1, !.sample = TRUE, !.preroll = FALSE]) /\ Callback
  /\ UNCHANGED stalls

\* The sink keeps time: a frame thread that is not busy takes the last sample before the end.
EndsStream ==
  /\ stream.state = "playing" /\ stream.at = Length /\ stream.ready /\ ~stream.eos
  /\ stream.sample => thread \notin {"wait", "next"}
  /\ Gst([stream EXCEPT !.eos = TRUE, !.ready = FALSE]) /\ UNCHANGED << pump, stalls >>

Stalls ==
  /\ stalls < MaxStalls /\ stalls' = stalls + 1
  /\ stream.state = "playing" /\ ~stream.stuck /\ player.shown
  /\ Gst([stream EXCEPT !.stuck = TRUE]) /\ UNCHANGED pump

Breaks ==
  /\ stalls < MaxStalls /\ stalls' = stalls + 1
  /\ stream.state # "none" /\ ~stream.error
  /\ Gst([stream EXCEPT !.error = TRUE]) /\ UNCHANGED pump

\* create_optional_audio_branch, with the state the pipeline was created with.
AudioFound ==
  /\ stream.volume = "asked"
  /\ Gst([stream EXCEPT !.volume = "made"]) /\ UNCHANGED << pump, stalls >>

-----------------------------------------------------------------------------
(* The frame thread.                                                       *)

\* vivid_renderer_frame_pump_wait
ThreadWakes ==
  /\ thread = "wait"
  /\ IF pump.stop THEN thread' = "done" /\ UNCHANGED pump
     ELSE /\ pump.event \/ pump.play
          /\ thread' = "next" /\ pump' = [pump EXCEPT !.event = FALSE]
  /\ Same(<< wanted, player, stream, reached, orders, stalls, misses >>)

\* poll_bus: at the end of the stream it starts again, or the producer stops playing.
AfterBus ==
  LET S == [stream EXCEPT !.eos = FALSE, !.error = FALSE]
      P == [player EXCEPT !.failed = @ \/ stream.error] IN
  CASE ~stream.eos  -> [p |-> P, s |-> S]
    [] ~player.loop -> [p |-> [P EXCEPT !.play = FALSE], s |-> S]
    [] OTHER        -> [p |-> P, s |-> Driven(Sought(S, 0), P.play)]

\* Mutant of Recovered: the pipeline is only told to play again.
RecoveredUnsought(S) == Driven(S, TRUE)
\* recover_playing_sample_starvation: a seek to where it is, or to the last key unit.
Recovered(S) == Driven(Sought(S, IF S.at = Length THEN Length - 1 ELSE S.at), TRUE)

\* A frame is drawn once its slot was released.  The slots of the first frames are free.
TakesSample(P, S) ==
  /\ stream' = S
  /\ \/ /\ player' = [P EXCEPT !.shown = TRUE, !.starved = FALSE]
        /\ thread' = "publish" /\ UNCHANGED misses
     \/ /\ P.shown /\ misses < MaxMisses /\ misses' = misses + 1
        /\ player' = [P EXCEPT !.starved = FALSE] /\ thread' = "wait"

\* Too long without a sample ends in a recovery; the first miss starts the time.  A
\* decoder that works has a sample before that.
Starves(P, S) ==
  /\ thread' = "wait" /\ UNCHANGED misses
  /\ \/ /\ ~(P.play /\ P.shown)
        /\ player' = P /\ stream' = S
     \/ /\ P.play /\ P.shown /\ player' = [P EXCEPT !.starved = TRUE] /\ stream' = S
        /\ P.starved => ~(S.stuck \/ S.at = Length)
     \/ /\ P.play /\ P.starved /\ (S.stuck \/ S.at = Length)
        /\ player' = [P EXCEPT !.starved = FALSE] /\ stream' = Recovered(S)

\* vivid_video_producer_next_frame
NextFrame ==
  LET P == AfterBus.p
      S == AfterBus.s IN
  /\ thread = "next"
  /\ CASE player.failed \/ P.failed -> /\ player' = P /\ stream' = S /\ thread' = "wait"
                                       /\ UNCHANGED misses
       [] S.sample                  -> TakesSample(P, [S EXCEPT !.sample = FALSE])
       [] ~P.play /\ S.preroll      -> TakesSample(P, [S EXCEPT !.preroll = FALSE])
       [] OTHER                     -> Starves(P, S)
  /\ Same(<< wanted, pump, reached, orders, stalls >>)

\* vivid_renderer_worker_common_publish_frame
Publishes ==
  /\ thread = "publish" /\ thread' = "wait"
  /\ Same(<< wanted, player, stream, pump, reached, orders, stalls, misses >>)

VideoNext ==
  \/ Prepares \/ StartsThread \/ RequestsFrame \/ SetsPump \/ StopsPump \/ Joined
  \/ \E play, mute \in BOOLEAN : SetsPlayback(play, mute)
  \/ \E loop \in BOOLEAN : SetsRuntime(loop)
  \/ Prerolls \/ Decodes \/ EndsStream \/ Stalls \/ Breaks \/ AudioFound
  \/ ThreadWakes \/ NextFrame \/ Publishes

\* A handler on the loop ends, the frame thread runs, and GStreamer decodes.
VideoFairness ==
  /\ WF_videoVars(StartsThread \/ RequestsFrame \/ SetsPump \/ Joined)
  /\ WF_videoVars(ThreadWakes \/ NextFrame \/ Publishes)
  /\ WF_videoVars(Prerolls) /\ WF_videoVars(Decodes) /\ WF_videoVars(EndsStream)

VideoSpec == VideoInit /\ [][VideoNext]_videoVars /\ VideoFairness

-----------------------------------------------------------------------------
\* Types.
VideoTypeOK ==
  /\ stream.state \in {"none", "paused", "playing"} /\ stream.at \in 0 .. Length
  /\ thread \in {"none", "wait", "next", "publish", "done"}
  /\ reached \in {"new", "prepared", "started", "serving", "pump", "joining", "quiet"}

\* "never transitions user-paused media to PLAYING": whatever is requested, recovered,
\* repeated or configured, and whichever thread does it, a paused video does not play.
PausedStaysPaused ==
  stream.state = "playing" => wanted.play /\ reached # "quiet"

\* The sound of the video is muted when it is wanted muted: unless it was wanted
\* otherwise before the audio stream was found, and no command has come since.
MutedIsSilent == stream.volume = "made" => stream.mute = wanted.mute \/ stream.late

VideoObeys == VideoTypeOK /\ PausedStaysPaused /\ MutedIsSilent

\* A worker shows a first frame, also one that starts paused; a video that is played in
\* a loop goes on, over stalls and ends, and after a time when it was not looped.
VideoKeepsShowing ==
  /\ reached = "serving" ~> (player.shown \/ player.failed \/ reached = "quiet")
  /\ <>[](reached = "serving" /\ wanted.play /\ wanted.loop /\ ~player.failed)
       => []<>(thread = "publish")
=============================================================================
