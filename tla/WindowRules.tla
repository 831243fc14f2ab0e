------------------------------ MODULE WindowRules ------------------------------
(***************************************************************************)
(* What a report of windows means for the displays of one client: the      *)
(* verdicts that PlaybackPolicy merges.  A report says how windows lie on  *)
(* displays, what plays, what runs and whether the machine is on battery;  *)
(* the settings have an action for each of these, for all displays or for  *)
(* one, and rules for applications.  The daemon keeps the last report and  *)
(* looks at it again when a display registers or changes its name.         *)
(*                                                                         *)
(* A display is found by its key or by its monitor index, and two displays *)
(* may have the same.                                                      *)
(***************************************************************************)
EXTENDS Integers, Sequences, FiniteSetsExt, PlaybackPolicy

CONSTANTS
  Watched,   \* outputs a client may register
  WindowReports, \* payloads of WINDOW_STATE
  RuleBooks, \* settings: what a SET_STATE leaves of them
  DisplayKeys,      \* display keys, "" for none
  Lower,     \* Lower[n]: a name stripped and in lower case, "" if nothing is left
  MaxJudged  \* reports, registrations and changes

ASSUME RulesAssumption ==
  /\ MaxJudged \in Nat /\ "" \in DisplayKeys
  /\ \A book \in RuleBooks : \A rule \in book.rules : rule.playback \in 0 .. 4
  /\ \A book \in RuleBooks : \A kind \in {"focus", "cover", "audio", "battery"} :
       /\ book.all[kind] \in 0 .. 4
       /\ \A k \in DOMAIN book.own : book.own[k][kind] \subseteq 0 .. 4

VARIABLES
  rulebook,  \* settings: all, own (of display keys) and rules
  outs,      \* client->outputs
  keyOf,     \* display_key
  indexOf,   \* monitor_index
  cached,    \* cached_window_facts_json: {} or {report}
  verdict,   \* output->policy: the flags and the action
  overlooked, \* history: displays not looked at since the settings changed, since they
              \* registered while inactive or since a new binding lost their verdict
  judged

rulesVars == << rulebook, outs, keyOf, indexOf, cached, verdict, overlooked, judged >>

OnScreen  == {outs[i] : i \in DOMAIN outs}
Unjudged == [flags |-> {}, action |-> 0]

RulesInit ==
  /\ rulebook \in RuleBooks /\ outs = << >>
  /\ keyOf = [o \in Watched |-> ""] /\ indexOf = [o \in Watched |-> 0]
  /\ cached = {} /\ verdict = [o \in Watched |-> Unjudged] /\ overlooked = {} /\ judged = 0

-----------------------------------------------------------------------------
(* vivid_window_facts.c: what the report says of which display.            *)

\* The first output with value v of f.
FirstWith(f, v, o) == \E i \in DOMAIN outs : outs[i] = o /\ f[o] = v /\ \A j \in 1 .. i - 1 : f[outs[j]] # v

\* parse_window_fact: by the key, and by the monitor only if it has none.
LiesOn(w, o) == IF w.key # "" THEN FirstWith(keyOf, w.key, o) ELSE FirstWith(indexOf, w.monitor, o)

\* parse_display_flags: minimized, focused, maximized, fullscreen.
ShownOn(report, o) ==
  IF keyOf[o] \in DOMAIN report.displays \ {""} /\ FirstWith(keyOf, keyOf[o], o)
  THEN report.displays[keyOf[o]] ELSE {}

-----------------------------------------------------------------------------
(* vivid_auto_policy.c: VividPlaybackAction 0 .. 4, keep running, mute,    *)
(* pause per monitor, pause all, stop.                                     *)

\* identifier_matches_rule_name
SameName(n, m) == Lower[n] # "" /\ Lower[n] = Lower[m]

\* vivid_producer_config_effective_auto_policy
Own(kind, k) ==
  IF k \in DOMAIN rulebook.own /\ rulebook.own[k][kind] # {}
  THEN rulebook.own[k][kind] ELSE {rulebook.all[kind]}

\* parse_session_facts: names of what runs, and players, which are audible only as Playing.
Runs(name, report)  == \E n \in report.running : SameName(n, name)
Plays(name, report) == \E p \in report.players : p.playing /\ SameName(p.name, name)

\* auto_policy_app_rule_contribute
Applies(rule, report, o) ==
  CASE rule.on = "running" -> Runs(rule.name, report)
    [] rule.on = "audio" -> Plays(rule.name, report)
    [] OTHER -> \E w \in report.windows :
                  rule.on \in w.is /\ LiesOn(w, o) /\ \E n \in w.names : SameName(n, rule.name)

\* vivid_auto_policy_evaluate: the actions that apply to output o.
Actions(report, o) ==
  LET shows == ShownOn(report, o) IN
  UNION {IF shows \cap {"maximized", "fullscreen"} # {} THEN Own("cover", keyOf[o]) ELSE {},
         IF "focused" \in shows THEN Own("focus", keyOf[o]) ELSE {},
         IF report.battery THEN Own("battery", keyOf[o]) ELSE {},
         IF report.audio THEN Own("audio", keyOf[o]) ELSE {},
         {rule.playback : rule \in {r \in rulebook.rules : Applies(r, report, o)}}}

\* vivid_playback_action_to_auto_action
AutoAction(a) == CASE a = 0 -> 0 [] a = 1 -> 1 [] a \in {2, 3} -> 2 [] a = 4 -> 3
Flag(a)       == << "mute", "one", "all", "stop" >>[a]

\* vivid_auto_policy_apply_playback_action for each of them
VerdictOf(acts) ==
  [flags |-> {Flag(a) : a \in acts \ {0}}, action |-> Max({0} \cup {AutoAction(a) : a \in acts})]

-----------------------------------------------------------------------------
(* The daemon. *)

Judging == judged < MaxJudged /\ judged' = judged + 1

\* producer_eval_window_state_for_client: all displays of the client are judged anew.
Evaluates(report) ==
  /\ verdict' = [o \in Watched |-> IF o \in OnScreen' THEN VerdictOf(Actions(report, o)') ELSE Unjudged]
  /\ overlooked' = {}

\* Mutant of Reviews: a report counts when it comes, and no more.
NeverReviews == UNCHANGED << verdict, overlooked >>
\* producer_replay_cached_window_facts_for_client
Reviews == IF cached = {} THEN UNCHANGED << verdict, overlooked >> ELSE \E r \in cached : Evaluates(r)

\* handle_window_state: a report of a client without displays is not kept.
WindowsChange(report) ==
  /\ Judging
  /\ UNCHANGED << rulebook, outs, keyOf, indexOf >>
  /\ IF outs = << >> THEN UNCHANGED << cached, verdict, overlooked >>
     ELSE cached' = {report} /\ Evaluates(report)

\* handle_register_output: one that is not active (its route has no wallpaper to show)
\* is answered before the report is looked at.
OutRegisters(o, k, i, active) ==
  /\ Judging /\ o \in Watched \ OnScreen
  /\ outs' = Append(outs, o) /\ keyOf' = [keyOf EXCEPT ![o] = k] /\ indexOf' = [indexOf EXCEPT ![o] = i]
  /\ UNCHANGED << rulebook, cached >>
  /\ IF active THEN Reviews
     ELSE verdict' = verdict /\ overlooked' = (IF cached = {} THEN overlooked ELSE overlooked \cup {o})

\* handle_update_output
OutRenamed(o, k, i) ==
  /\ Judging /\ o \in OnScreen
  /\ keyOf' = [keyOf EXCEPT ![o] = k] /\ indexOf' = [indexOf EXCEPT ![o] = i]
  /\ UNCHANGED << rulebook, outs, cached >>
  /\ Reviews

\* handle_control, SET_STATE: nothing is judged until the next report.
RulesChange(book) ==
  /\ Judging /\ rulebook' = book
  /\ overlooked' = (IF cached = {} THEN {} ELSE OnScreen)
  /\ UNCHANGED << outs, keyOf, indexOf, cached, verdict >>

\* client_rebind_output, when it commits: the new Output has no verdict, and the
\* report is not looked at for it.
OutRebound(o) ==
  /\ o \in OnScreen
  /\ verdict' = [verdict EXCEPT ![o] = Unjudged]
  /\ overlooked' = (IF cached = {} THEN overlooked ELSE overlooked \cup {o})
  /\ UNCHANGED << rulebook, outs, keyOf, indexOf, cached, judged >>

\* client_free
WatcherLeaves ==
  /\ Judging /\ outs' = << >> /\ cached' = {}
  /\ verdict' = [o \in Watched |-> Unjudged] /\ overlooked' = {}
  /\ UNCHANGED << rulebook, keyOf, indexOf >>

RulesNext ==
  \/ \E r \in WindowReports : WindowsChange(r)
  \/ \E book \in RuleBooks : RulesChange(book)
  \/ \E o \in Watched, k \in DisplayKeys, i \in 0 .. 1 :
       OutRenamed(o, k, i) \/ \E active \in BOOLEAN : OutRegisters(o, k, i, active)
  \/ \E o \in Watched : OutRebound(o)
  \/ WatcherLeaves

RulesSpec == RulesInit /\ [][RulesNext]_rulesVars

-----------------------------------------------------------------------------

\* A verdict is what PlaybackPolicy takes for a report: some flags, and the action is the
\* rank of the flags, whichever rules applied and in which order.
VerdictsAreReports ==
  \A o \in Watched : verdict[o].flags \in SUBSET Flags /\ verdict[o].action = Rank(verdict[o].flags)

\* Every display is judged by the last report and its own name, key and rules of now, although
\* displays registered, were renamed or left since the report came. Not so, until the client's
\* displays are looked at again, after a change of the settings, and for a display that
\* registered inactive or was bound to new buffers.
VerdictsAreCurrent ==
  \A o \in OnScreen \ overlooked :
    /\ cached = {} => verdict[o] = Unjudged
    /\ \A r \in cached : verdict[o] = VerdictOf(Actions(r, o))

\* Both.
WindowsAreJudged == VerdictsAreReports /\ VerdictsAreCurrent
=============================================================================
