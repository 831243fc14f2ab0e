------------------------------ MODULE ConfigStore ------------------------------
(***************************************************************************)
(* The settings: read from the file when the daemon starts, changed by     *)
(* SET_STATE, written some time later, and told to the renderers: the root *)
(* one, which renders the primary display's wallpaper for all (clone), and *)
(* in independent mode one per display that has a wallpaper.  An absent    *)
(* member of a JSON object is {}, a given one {value}.                     *)
(*                                                                         *)
(* For all settings stand a number, a flag, a playback action, the         *)
(* mode, the primary display, and the preferences of each display.         *)
(***************************************************************************)
EXTENDS Integers, Sequences, FiniteSets, SequencesExt

CONSTANTS
  Boards,   \* displays, each named by its display key
  Payloads, \* payloads of SET_STATE
  Files,    \* the file before the first start: {} or {JSON}
  MaxAsked  \* requests, reports, arrivals and restarts

\* Preferences of a display as JSON gives them. A fit is not negative: clients send 1 to 3.
Entries ==
  [path : SUBSET STRING, fit : SUBSET Nat, mute : SUBSET BOOLEAN, fill : SUBSET Int, focus : SUBSET Int,
   saved : SUBSET [path : STRING, props : STRING]]
PerDisplay(object) == \E keys \in SUBSET Boards : object \in [keys -> Entries]

ASSUME ConfigAssumption ==
  /\ MaxAsked \in Nat
  /\ \A q \in Payloads \cup UNION Files :
       q.focus \subseteq Int /\ q.fit \subseteq Int /\ \A object \in q.prefs : PerDisplay(object)

VARIABLES
  config, \* VividProducerConfig
  onDisk,   \* the configuration file
  saveDue,  \* save_source_id is set
  boards,   \* registered displays, oldest first
  tags,     \* tags[b]: consumer_output_id
  hushed,   \* policy_muted
  owned,     \* owned[b]: the own route of b, [tag, to]
  root,     \* the root renderer: [of, to]
  mixed,    \* a consumer_output_id was given twice, or changed
  answered, \* the last SET_STATE: what it changed and whether it rebinds
  asked

configVars == << config, onDisk, saveDue, boards, tags, hushed, owned, root, mixed, answered, asked >>

-----------------------------------------------------------------------------
(* vivid_producer_config.c                                                 *)

Clamped(n, lo, hi) == IF n < lo THEN lo ELSE IF n > hi THEN hi ELSE n
Given(opt, fallback) == IF opt = {} THEN fallback ELSE CHOOSE x \in opt : TRUE
\* json_get_int_clamped, json_object_get_int_alias
Within3(opt, fallback, lo, hi) == IF opt = {} THEN fallback ELSE Clamped(Given(opt, 0), lo, hi)

UnsetFill == -1  \* VIVID_DISPLAY_PREFS_UNSET
PauseAll  == 3
StopPlay  == 4

\* display_prefs_from_json_object, vivid_auto_policy_load
FromEntry(e) ==
  [e EXCEPT !.fill = Within3(e.fill, UnsetFill, 0, 3), !.focus = {Clamped(n, 0, StopPlay) : n \in e.focus}]

\* display_prefs_to_json_object, vivid_auto_policy_save
ToEntry(p) == [p EXCEPT !.fill = {p.fill} \ {UnsetFill}]

\* vivid_display_prefs_is_empty
EmptyPrefs(p) ==
  /\ p.saved = {} /\ p.path \subseteq {""} /\ p.fit = {} /\ p.mute = {}
  /\ p.fill = UnsetFill /\ p.focus = {}

\* config_replace_display_prefs_from_object
Prefs(object) ==
  LET kept == {b \in DOMAIN object : ~EmptyPrefs(FromEntry(object[b]))}
  IN [b \in kept |-> FromEntry(object[b])]

Defaults == [mute |-> FALSE, focus |-> 0, fit |-> 1, clone |-> TRUE, first |-> "", prefs |-> << >>]

\* What load and apply_set_state_payload have in common: a member that is not given
\* keeps its value, and the preferences of the displays come as a whole.
Taken(s, q) ==
  [mute |-> Given(q.mute, s.mute), focus |-> Within3(q.focus, s.focus, 0, PauseAll),
   fit |-> Within3(q.fit, s.fit, 1, 3), clone |-> Given(q.clone, s.clone),
   first |-> Given(q.first, s.first), prefs |-> IF q.prefs = {} THEN s.prefs ELSE Prefs(Given(q.prefs, << >>))]

\* vivid_producer_config_load: pause-on-focus is the name of an earlier version.
Read(file) ==
  IF file = {} THEN Defaults
  ELSE LET q == Given(file, 0) IN
       IF q.pauseOnFocus THEN [Taken(Defaults, q) EXCEPT !.focus = PauseAll] ELSE Taken(Defaults, q)

\* builder_add_config_global, builder_add_display_prefs
Json(s) ==
  LET kept == {b \in DOMAIN s.prefs : ~EmptyPrefs(s.prefs[b])} IN
  {[mute |-> {s.mute}, focus |-> {s.focus}, fit |-> {s.fit}, clone |-> {s.clone}, first |-> {s.first},
    prefs |-> {[b \in kept |-> ToEntry(s.prefs[b])]}, pauseOnFocus |-> FALSE]}

\* apply_set_state_payload
WithPayload(s, q) == IF q.reset THEN Defaults ELSE Taken(s, q)

\* vivid_producer_config_snapshot_display_prefs
Snapshot(s) == [b \in DOMAIN s.prefs |-> FromEntry(ToEntry(s.prefs[b]))]

\* display_prefs_render_contract_changed
Contract(prefs, b) ==
  IF b \in DOMAIN prefs
  THEN << Given(prefs[b].path, ""), Within3(prefs[b].fit, -1, -1, 3) >> ELSE << "", -1 >>

ContractChanged(before, s) ==
  \E b \in DOMAIN before \cup DOMAIN s.prefs : Contract(before, b) # Contract(s.prefs, b)

\* control_set_state_requires_output_rebind
NeedsRebind(s, q, next) ==
  \/ q.reset
  \/ << s.clone, s.first >> # << next.clone, next.first >>
  \/ s.fit # next.fit /\ q.fit # {}
  \/ q.prefs # {} /\ ContractChanged(Snapshot(s), next)

-----------------------------------------------------------------------------
(* What the renderers are told.                                            *)

HasPaper(s, b) == b \in DOMAIN s.prefs /\ ~(s.prefs[b].path \subseteq {""})

\* With the preferences of display b, "none" if there is none.
For(s, b, hush) ==
  IF b \notin DOMAIN s.prefs
  THEN [path |-> "", fit |-> s.fit, mute |-> s.mute \/ hush, props |-> "{}"]
  ELSE LET p == s.prefs[b]
           mine == {r \in p.saved : r.path \in p.path}
       IN [path |-> Given(p.path, ""), fit |-> Within3(p.fit, s.fit, 1, 3),
           mute |-> Given(p.mute, s.mute) \/ hush,
           props |-> IF mine = {} THEN "{}" ELSE (CHOOSE r \in mine : TRUE).props]

\* producer_primary_output
Primary(s, bs) ==
  IF s.first \in Range(bs) THEN s.first ELSE IF bs = << >> THEN "none" ELSE bs[1]

\* producer_find_consumer_output: the first display with that number, in the order of the
\* clients; that of their age stands for it, which differs when a client left two others.
Numbered(n, bs, ts) ==
  LET same == {i \in DOMAIN bs : ts[bs[i]] = n} IN IF same = {} THEN "none" ELSE bs[Min(same)]

NoRouteOf == [tag |-> 0, to |-> For(Defaults, "none", FALSE)]

\* Mutant of TellsAll: routes of their own are not told.
TellsRoot(s, bs, ts, hush) ==
  LET alone == IF s.clone THEN {} ELSE {b \in Range(bs) : HasPaper(s, b)}
      tag(b) == IF owned[b].tag # 0 THEN owned[b].tag ELSE ts[b]
  IN /\ owned' = [b \in Boards |->
                  IF b \in alone
                  THEN IF owned[b].tag # 0 THEN owned[b]
                       ELSE [tag |-> tag(b), to |-> For(s, Numbered(tag(b), bs, ts), hush)]
                  ELSE NoRouteOf]
     /\ root' = [of |-> Primary(s, bs), to |-> For(s, Primary(s, bs), hush)]

\* producer_relayout_outputs links displays to routes (a link that is there stays, with
\* the number of its day), producer_apply_config_to_renderers tells all of them. No
\* client declares displays it has not registered (RouteTable has that wait).
TellsAll(s, bs, ts, hush) ==
  LET alone == IF s.clone THEN {} ELSE {b \in Range(bs) : HasPaper(s, b)}
      tag(b) == IF owned[b].tag # 0 THEN owned[b].tag ELSE ts[b]
  IN /\ owned' = [b \in Boards |->
                  IF b \in alone THEN [tag |-> tag(b), to |-> For(s, Numbered(tag(b), bs, ts), hush)]
                  ELSE NoRouteOf]
     /\ root' = [of |-> Primary(s, bs), to |-> For(s, Primary(s, bs), hush)]

\* What a running renderer shows of it.
Look(t) == << t.path, t.fit >>

-----------------------------------------------------------------------------

\* main: the file is loaded, and written back before the first request.
Started(file) ==
  /\ config' = Read(file) /\ onDisk' = Json(Read(file)) /\ saveDue' = FALSE
  /\ boards' = << >> /\ hushed' = FALSE /\ owned' = [b \in Boards |-> NoRouteOf]
  /\ root' = [of |-> "none", to |-> For(Read(file), "none", FALSE)]
  /\ mixed' = FALSE /\ answered' = [changed |-> FALSE, rebinds |-> FALSE]

ConfigInit ==
  \E file \in Files :
    /\ config = Read(file) /\ onDisk = Json(Read(file)) /\ saveDue = FALSE
    /\ boards = << >> /\ tags = [b \in Boards |-> 1] /\ hushed = FALSE
    /\ owned = [b \in Boards |-> NoRouteOf]
    /\ root = [of |-> "none", to |-> For(Read(file), "none", FALSE)]
    /\ mixed = FALSE /\ answered = [changed |-> FALSE, rebinds |-> FALSE] /\ asked = 0

Asks == asked < MaxAsked /\ asked' = asked + 1

\* handle_control, SET_STATE; a member of the wrong type refuses the whole request.
SetsState(q) ==
  /\ Asks
  /\ IF q.wrong THEN UNCHANGED << config, saveDue, owned, root, answered >>
     ELSE LET next == WithPayload(config, q) IN
          /\ config' = next /\ saveDue' = TRUE
          /\ TellsAll(next, boards, tags, hushed)
          /\ answered' = [changed |-> \E b \in Boards : owned[b].tag # 0 /\ owned'[b].tag # 0
                                        /\ Look(owned[b].to) # Look(owned'[b].to),
                          rebinds |-> NeedsRebind(config, q, next)]
  /\ UNCHANGED << onDisk, boards, tags, hushed, mixed >>

\* SET_MUTED, SET_CONTENT_FIT
SetsMuted(m) ==
  /\ Asks /\ LET next == [config EXCEPT !.mute = m] IN
             config' = next /\ TellsAll(next, boards, tags, hushed)
  /\ saveDue' = TRUE /\ UNCHANGED << onDisk, boards, tags, hushed, mixed, answered >>
SetsFit(n) ==
  /\ Asks /\ LET next == [config EXCEPT !.fit = Clamped(n, 1, 3)] IN
             config' = next /\ TellsAll(next, boards, tags, hushed)
  /\ saveDue' = TRUE /\ UNCHANGED << onDisk, boards, tags, hushed, mixed, answered >>

\* handle_register_output
BoardRegisters(b, n) ==
  /\ Asks /\ b \notin Range(boards)
  /\ boards' = Append(boards, b) /\ tags' = [tags EXCEPT ![b] = n]
  /\ TellsAll(config, boards', tags', hushed)
  /\ mixed' = (mixed \/ \E c \in Range(boards) : tags[c] = n)
  /\ UNCHANGED << config, onDisk, saveDue, hushed, answered >>

\* handle_update_output with another number
BoardRenumbered(b, n) ==
  /\ Asks /\ b \in Range(boards) /\ n # tags[b]
  /\ tags' = [tags EXCEPT ![b] = n] /\ TellsAll(config, boards, tags', hushed) /\ mixed' = TRUE
  /\ UNCHANGED << config, onDisk, saveDue, boards, hushed, answered >>

\* client_free tells nobody anything.
BoardLeaves(b) ==
  /\ Asks /\ b \in Range(boards)
  /\ boards' = RemoveAt(boards, CHOOSE i \in DOMAIN boards : boards[i] = b)
  /\ owned' = [owned EXCEPT ![b] = NoRouteOf]
  /\ UNCHANGED << config, onDisk, saveDue, tags, hushed, root, mixed, answered >>

\* producer_synthesize_policy_from_outputs with another policy_muted
Hushes(h) ==
  /\ Asks /\ h # hushed /\ hushed' = h /\ boards # << >>
  /\ TellsAll(config, boards, tags, h)
  /\ UNCHANGED << config, onDisk, saveDue, boards, tags, mixed, answered >>

\* config_debounced_save_timeout
SaveComes ==
  /\ saveDue /\ saveDue' = FALSE /\ onDisk' = Json(config)
  /\ UNCHANGED << config, boards, tags, hushed, owned, root, mixed, answered, asked >>

\* The daemon stops (flush_save) or dies, and starts again.
StartsAgain(flushed) ==
  /\ Asks /\ Started(IF flushed THEN Json(config) ELSE onDisk) /\ UNCHANGED tags

ConfigNext ==
  \/ \E q \in Payloads : SetsState(q)
  \/ \E m \in BOOLEAN : SetsMuted(m) \/ Hushes(m) \/ StartsAgain(m)
  \/ \E n \in {0, 2} : SetsFit(n)
  \/ \E b \in Boards : BoardLeaves(b) \/ \E n \in 1 .. 2 : BoardRegisters(b, n) \/ BoardRenumbered(b, n)
  \/ SaveComes

-----------------------------------------------------------------------------

\* Types.
ConfigTypeOK ==
  /\ Range(boards) \subseteq Boards /\ DOMAIN config.prefs \subseteq Boards
  /\ config.fit \in 1 .. 3 /\ config.focus \in 0 .. PauseAll
  /\ \A b \in DOMAIN config.prefs : config.prefs[b].fill \in UnsetFill .. 3

\* A restart loses nothing that was written, and what would be written is all there is:
\* loading undoes saving for every configuration the daemon can have.
RestartKeeps == Read(Json(config)) = config /\ (~saveDue => Read(onDisk) = config)

\* Each renderer was told the settings of now, those of its own display among them, and
\* the mute of the playback policy. Two exceptions: displays are found by the consumer's
\* numbers, which may be mixed up; and when the primary display leaves, the root renderer
\* keeps its settings.
RenderersKnow ==
  /\ \A b \in Range(boards) :
       owned[b].tag # 0 /\ ~mixed => owned[b].to = For(config, b, hushed)
  /\ root.of = Primary(config, boards) => root.to = For(config, root.of, hushed)

\* A SET_STATE that changes what a display shows rebinds the displays, unless numbers were
\* mixed up: a route that was told for another display is then told for its own.
ChangesRebind == answered.changed /\ ~mixed => answered.rebinds

\* All of it.
SettingsObeyed == ConfigTypeOK /\ RestartKeeps /\ RenderersKnow /\ ChangesRebind
================================================================================
