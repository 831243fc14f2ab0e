----------------------------- MODULE PlaybackPolicy -----------------------------
(***************************************************************************)
(* Automatic playback.  Every display reports its windows; the daemon makes *)
(* a contribution of each report (mute, pause its route, pause or stop      *)
(* everything), holds a stop back for a delay, merges the contributions of  *)
(* the linked outputs into a policy, and tells the routes' renderers what   *)
(* of it is new.  Displays come and go, get and lose their wallpapers, are  *)
(* rearranged between one shared route and one each, and the user pauses    *)
(* and resumes.                                                            *)
(*                                                                         *)
(* A display that is bound to new buffers gets a new Output, which has      *)
(* neither the contribution nor the delay of the old one: the timer of the  *)
(* delay runs on and, when it fires, finds the new Output.                  *)
(*                                                                         *)
(* Displays are clients of their own, and a report is taken by what it      *)
(* contributes: vivid_auto_policy_evaluate over the window facts and the    *)
(* rules is a choice of flags.                                              *)
(***************************************************************************)
EXTENDS Integers, Sequences, FiniteSets

CONSTANTS
  Monitors, Clone, \* Clone names the shared route
  Contributions,   \* what reports may contribute
  MaxDelays,       \* MaxDelays[m]: delays begun by one Output
  MaxLate          \* MaxLate[m]: timers that nobody can cancel

ASSUME PolicyAssumption ==
  /\ Clone \notin Monitors
  /\ Contributions \subseteq SUBSET {"mute", "one", "all", "stop"}
  /\ MaxDelays \in [Monitors -> Nat] /\ MaxLate \in [Monitors -> Nat]

VARIABLES
  shared,     \* clone mode: one route for all displays
  served,     \* of a display: "gone", "off" (registered, without a route), "own" or "shared"
  asks,       \* output->policy: what the display contributes
  replay,     \* output->auto_replay
  late,       \* timers whose resume_source_id is lost, oldest first, by their gen
  policy,     \* producer->policy_muted, policy_paused, policy_stopped
  routePause, \* route->policy_paused
  playing,    \* producer->user_playing
  told,       \* what the renderer of a route was last told
  wants,      \* history: what the display's last report contributed
  unheard,    \* history: displays not heard when the policy was made, or moved since
  lapsed      \* history: since the policy was made, a display in it left or moved

policyVars == << shared, served, asks, replay, late, policy, routePause, playing, told,
                 wants, unheard, lapsed >>
Flags  == {"mute", "one", "all", "stop"}
Routes == Monitors \cup {Clone}
On(L)  == {m \in Monitors : L[m] \in {"own", "shared"}}
RouteFor(m, L)  == IF L[m] = "shared" THEN Clone ELSE m
Members(r, L)   == {m \in On(L) : RouteFor(m, L) = r}

\* VividAutoAction, by rank: none, mute, pause, stop.
Rank(A) == IF "stop" \in A THEN 3 ELSE IF A \cap {"one", "all"} # {} THEN 2
           ELSE IF "mute" \in A THEN 1 ELSE 0

\* vivid_auto_replay_state_init; timer is resume_source_id # 0.
NoReplay == [raw |-> 0, requested |-> 0, timer |-> FALSE, gen |-> 0]
Effective(p) == IF p.timer THEN p.raw ELSE p.requested

PolicyInit ==
  /\ shared \in BOOLEAN /\ served = [m \in Monitors |-> "gone"]
  /\ asks = [m \in Monitors |-> {}] /\ replay = [m \in Monitors |-> NoReplay]
  /\ late = [m \in Monitors |-> << >>]
  /\ policy = [mute |-> FALSE, pause |-> FALSE, stop |-> FALSE]
  /\ routePause = [r \in Routes |-> FALSE]
  /\ playing = TRUE
  /\ told = [r \in Routes |-> [mute |-> FALSE, paused |-> TRUE, stopped |-> TRUE]]
  /\ wants = [m \in Monitors |-> {}] /\ unheard = {} /\ lapsed = FALSE

-----------------------------------------------------------------------------
(* Telling the renderers. *)

\* producer_apply_playback_policy; the mute goes with the configuration.
Playback(L, P, RP, play, T) ==
  [r \in Routes |->
     LET idle == Members(r, L) = {}
     IN [T[r] EXCEPT !.stopped = P.stop \/ idle,
                     !.paused = idle \/ P.pause \/ (r # Clone /\ RP[r]) \/ P.stop \/ ~play]]
Muted(P, T) == [r \in Routes |-> [T[r] EXCEPT !.mute = P.mute]]

-----------------------------------------------------------------------------
(* Making the policy. *)

\* producer_synthesize_policy_from_outputs.  A shared route that is asked to
\* pause pauses everything.
Merged(L, A, R) ==
  [mute  |-> \E m \in On(L) : "mute" \in A[m] \/ Effective(R[m]) = 1,
   pause |-> \E m \in On(L) : "all" \in A[m] \/ (L[m] = "shared" /\ "one" \in A[m]),
   stop  |-> \E m \in On(L) : "stop" \in A[m] \/ Effective(R[m]) = 3]
\* Mutant of PausesRoute: a paused route is not reset first.
StaysPaused(r, L, A) ==
  routePause[r] \/ \E m \in On(L) : "all" \in A[m] \/ (m \in Members(r, L) /\ "one" \in A[m])
PausesRoute(r, L, A) ==
  \E m \in On(L) : "all" \in A[m] \/ (m \in Members(r, L) /\ "one" \in A[m])

\* A paused route is first reset, which alone counts as a change.
RoutesChange(RP) == \E r \in Routes : routePause[r] \/ RP[r]

\* producer_commit_policy_state; the rebinding at its end is Rebound.
Commit(P, RP) ==
  /\ policy' = P /\ routePause' = RP
  /\ IF P = policy /\ ~RoutesChange(RP)
     THEN UNCHANGED told
     ELSE LET T == IF P.mute # policy.mute THEN Muted(P, told) ELSE told
          IN told' = Playback(served, P, RP, playing, T)

Synthesize(A, R) ==
  /\ Commit(Merged(served, A, R), [r \in Routes |-> PausesRoute(r, served, A)])
  /\ unheard' = {m \in Monitors : A[m] # wants'[m]} /\ lapsed' = FALSE

\* output_update_auto_replay: a stop that ends is kept as requested until the
\* delay is over; a newer report that differs, be it in the windows alone
\* (other), drops the delay.
Updated(p, raw, other) ==
  CASE raw = p.raw /\ ~other -> p
    [] (raw # p.raw \/ other) /\ raw < 2 /\ p.requested = 3 ->
         [raw |-> raw, requested |-> 3, timer |-> TRUE, gen |-> p.gen + 1]
    [] OTHER -> [raw |-> raw, requested |-> raw, timer |-> FALSE, gen |-> p.gen]

-----------------------------------------------------------------------------

\* handle_window_state, producer_eval_window_state_for_client; a display
\* without a route is judged too.
Reports(m, flags, other) ==
  /\ served[m] # "gone"
  /\ asks' = [asks EXCEPT ![m] = flags] /\ wants' = [wants EXCEPT ![m] = flags]
  /\ replay' = [replay EXCEPT ![m] = Updated(@, Rank(flags), other)]
  /\ replay'[m].gen <= MaxDelays[m]
  /\ Synthesize(asks', replay')
  /\ UNCHANGED << shared, served, late, playing >>

\* auto_replay_resume_timeout; the source is forgotten after the policy is made.
ResumeExpires(m) ==
  /\ replay[m].timer /\ late[m] = << >>
  /\ UNCHANGED << shared, served, asks, late, playing, wants >>
  /\ Synthesize(asks, [replay EXCEPT ![m].requested = replay[m].raw])
  /\ replay' = [replay EXCEPT ![m].requested = replay[m].raw, ![m].timer = FALSE]

\* The same by a timer whose id is lost: it may have the number of a later
\* delay, and it makes the daemon forget the id of the timer that runs.
LateResume(m) ==
  /\ late[m] # << >>
  /\ late' = [late EXCEPT ![m] = Tail(@) \o IF replay[m].timer THEN << replay[m].gen >> ELSE << >>]
  /\ UNCHANGED << shared, served, asks, playing, wants >>
  /\ IF Head(late[m]) = replay[m].gen
     THEN /\ Synthesize(asks, [replay EXCEPT ![m].requested = replay[m].raw])
          /\ replay' = [replay EXCEPT ![m].requested = replay[m].raw, ![m].timer = FALSE]
     ELSE /\ replay' = [replay EXCEPT ![m].timer = FALSE]
          /\ UNCHANGED << policy, routePause, told, unheard, lapsed >>

\* handle_control, SET_PLAYING
SetPlaying(play) ==
  /\ playing' = play
  /\ told' = Playback(served, policy, routePause, play, told)
  /\ UNCHANGED << shared, served, asks, replay, late, policy, routePause, wants, unheard, lapsed >>

-----------------------------------------------------------------------------
(* Displays and their routes. *)

\* producer_relayout_outputs in clone mode: nothing is done while the primary is
\* waited for or there is none; without a wallpaper of the primary none is linked.
LaidShared(L) == {L} \cup {[m \in Monitors |-> IF L[m] = "gone" THEN "gone" ELSE x] : x \in {"off", "shared"}}

\* What follows a relayout: unused routes may be gone by then, new ones are not paused,
\* and the configuration and the policy there is are told to all.
Relinked(L) ==
  /\ served' = L
  /\ \E gone \in SUBSET {r \in Routes : routePause[r] /\ Members(r, served) = {}} :
       routePause' = [r \in Routes |-> routePause[r] /\ r \notin gone]
  /\ told' = Playback(L, policy, routePause', playing, Muted(policy, told))
  /\ unheard' = unheard \cup {m \in Monitors : L[m] # served[m] /\ wants[m] # {}}
  /\ lapsed' = (lapsed \/ \E m \in On(served) : L[m] # served[m])
  /\ UNCHANGED << policy, playing >>

\* handle_register_output
Joins(m) ==
  /\ served[m] = "gone"
  /\ LET L == [served EXCEPT ![m] = "off"]
     IN \E laid \in IF shared THEN LaidShared(L) ELSE {L, [L EXCEPT ![m] = "own"]} : Relinked(laid)
  /\ UNCHANGED << shared, asks, replay, late, wants >>

\* handle_control, SET_STATE, and handle_update_output in the mode there is: displays get
\* and lose their wallpapers, the mode changes, and the policy is not made again.
Rearranges(sh) ==
  /\ shared' = sh
  /\ \E laid \in IF sh THEN LaidShared(served)
                ELSE {L \in [Monitors -> {"gone", "off", "own"}] :
                        \A m \in Monitors : L[m] = "gone" <=> served[m] = "gone"} : Relinked(laid)
  /\ UNCHANGED << asks, replay, late, wants >>

\* client_free: the policy is applied as it stands; timers find no output any more.
Leaves(m) ==
  /\ served[m] # "gone"
  /\ served' = [served EXCEPT ![m] = "gone"] /\ unheard' = unheard \ {m}
  /\ lapsed' = (lapsed \/ m \in On(served))
  /\ asks' = [asks EXCEPT ![m] = {}] /\ wants' = [wants EXCEPT ![m] = {}]
  /\ replay' = [replay EXCEPT ![m] = NoReplay] /\ late' = [late EXCEPT ![m] = << >>]
  /\ told' = Playback(served', policy, routePause, playing, told)
  /\ UNCHANGED << shared, policy, routePause, playing >>

\* client_rebind_output, when it commits; RouteBinding has the steps. The renderer of a
\* stopped route is not ready for that.
Rebound(m) ==
  /\ m \in On(served) /\ ~told[RouteFor(m, served)].stopped
  /\ asks' = [asks EXCEPT ![m] = {}] /\ replay' = [replay EXCEPT ![m] = NoReplay]
  /\ late' = [late EXCEPT ![m] = IF replay[m].timer THEN Append(@, replay[m].gen) ELSE @]
  /\ Len(late'[m]) <= MaxLate[m]
  /\ UNCHANGED << shared, served, policy, routePause, playing, told, wants, unheard, lapsed >>

PolicyNext ==
  \/ \E m \in Monitors :
       \/ \E flags \in Contributions, other \in BOOLEAN : Reports(m, flags, other)
       \/ ResumeExpires(m) \/ LateResume(m) \/ Joins(m) \/ Leaves(m) \/ Rebound(m)
  \/ \E play \in BOOLEAN : SetPlaying(play)
  \/ \E sh \in BOOLEAN : Rearranges(sh)

PolicySpec == PolicyInit /\ [][PolicyNext]_policyVars

-----------------------------------------------------------------------------

PolicyTypeOK ==
  /\ shared \in BOOLEAN /\ playing \in BOOLEAN /\ lapsed \in BOOLEAN /\ unheard \subseteq Monitors
  /\ served \in [Monitors -> {"gone", "off", "own", "shared"}]
  /\ asks \in [Monitors -> SUBSET Flags] /\ wants \in [Monitors -> SUBSET Flags]
  /\ \A m \in Monitors :
       /\ replay[m] \in [raw : 0 .. 3, requested : 0 .. 3, timer : BOOLEAN, gen : 0 .. MaxDelays[m]]
       /\ replay[m].raw = Rank(asks[m])
       /\ late[m] \in Seq(1 .. MaxDelays[m]) /\ Len(late[m]) <= MaxLate[m]
  /\ policy \in [mute : BOOLEAN, pause : BOOLEAN, stop : BOOLEAN]
  /\ told \in [Routes -> [mute : BOOLEAN, paused : BOOLEAN, stopped : BOOLEAN]]

Told(m) == told[RouteFor(m, served)]
Holds   == {"one", "all"}

\* What a display asked of playback with its last report is done by the renderer behind it,
\* whichever display joined, left, reported, was bound anew or delayed since. Not so when its
\* route changed and the policy was not made since (SET_STATE does not make it), and when the
\* policy was made after a new binding lost the report; a new binding alone takes nothing.
ReportsAreHeeded ==
  \A m \in On(served) \ unheard :
    /\ "stop" \in wants[m] => Told(m).stopped
    /\ wants[m] \cap Holds # {} => Told(m).paused
    /\ "mute" \in wants[m] => Told(m).mute

\* The delay of output p ended without a word: a timer lost by an earlier binding took its place.
CutShort(p) == p.requested = 3 /\ p.raw < 2 /\ ~p.timer

\* A renderer with a display is held back, stopped or muted only while the user or a linked
\* display asks for it. Not so, until the policy is made again, when a display of the policy
\* left, lost its route or changed it; and a delay that was cut short stops all by itself.
NothingHeldForNobody ==
  ~lapsed => \A m \in On(served) :
    /\ Told(m).stopped => \E n \in On(served) : "stop" \in wants[n] \/ CutShort(replay[n])
    /\ Told(m).paused => \/ ~playing \/ Told(m).stopped
                         \/ \E n \in On(served) : "all" \in wants[n]
                         \/ \E n \in On(served) : RouteFor(n, served) = RouteFor(m, served) /\ "one" \in wants[n]
    /\ Told(m).mute => \E n \in On(served) : "mute" \in wants[n]

\* The renderers do what the reports ask for, and nothing that none asks for.
PolicyFollowsReports == PolicyTypeOK /\ ReportsAreHeeded /\ NothingHeldForNobody
=============================================================================
