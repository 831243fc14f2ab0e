----------------------------- MODULE OutputLayout -----------------------------
(***************************************************************************)
(* Which part of a wallpaper each panel shows, and where.  The daemon lays *)
(* all panels out again when one registers or changes, or the settings do; *)
(* it tells the consumers, which draw what they were told, and maps        *)
(* pointers back to the wallpaper with the same rectangles.  A panel whose *)
(* layout has changed is due for buffers of the new size.  Which route     *)
(* serves a panel, and whether, is in RouteTable; here all have wallpapers *)
(* and the oldest panel is the primary one.                                *)
(***************************************************************************)
EXTENDS Integers, Sequences, SequencesExt

CONSTANTS
  Panels,   \* outputs of the consumers
  Sizes,    \* physical sizes, << width, height >>
  Wishes,   \* preferences of a display: [fill, fit, place, turn]
  Mounted,  \* transforms consumers register: wl_output.transform
  MaxLaid   \* changes of panels and settings

\* Divisions are exact for such sizes.
ASSUME LayoutAssumption ==
  Sizes \subseteq {1, 2, 4, 8} \X {1, 2, 4, 8} /\ Mounted \subseteq 0 .. 7 /\ MaxLaid \in Nat

VARIABLES
  hung,    \* registered panels, oldest first
  target,  \* Output::target_width, target_height
  mounted, \* Output::register_transform
  wish,    \* display preferences
  cloned,  \* multi_display_mode
  laid,    \* RouteLink: rectangles and transform, with the size of the route
  sized,   \* size of the buffers the panel is bound to
  shows,   \* the last SET_CONFIG
  unbound, \* outputs that need a rebind
  changes,
  hangs    \* history: the transform a panel registered

layoutVars == << hung, target, mounted, wish, cloned, laid, sized, shows, unbound, changes, hangs >>

Nowhere == << 0, 0 >>
NoRect  == [x |-> 0, y |-> 0, w |-> 0, h |-> 0]
NotLaid == [size |-> Nowhere, src |-> NoRect, dst |-> NoRect, turn |-> 0]

LayoutInit ==
  /\ hung = << >> /\ cloned \in BOOLEAN
  /\ target = [p \in Panels |-> Nowhere] /\ mounted = [p \in Panels |-> 0]
  /\ hangs = mounted
  /\ wish \in [Panels -> {CHOOSE w \in Wishes : TRUE}]
  /\ laid = [p \in Panels |-> NotLaid] /\ shows = laid
  /\ sized = [p \in Panels |-> Nowhere] /\ unbound = {} /\ changes = 0

-----------------------------------------------------------------------------
(* vivid_render_layout.c, in sixteenths of a pixel.                        *)

Px == 16
WholeOf(s) == [x |-> 0, y |-> 0, w |-> Px * s[1], h |-> Px * s[2]]
Wider(s, t) == s[1] * t[2] > t[1] * s[2]
WidthAs(s, h)  == (h * s[1]) \div s[2]
HeightAs(s, w) == (w * s[2]) \div s[1]

\* vivid_render_layout_fillmode_from_content_fit
ContentFit == << "crop", "fit", "stretch" >>

\* anchor_dst_rect: places are 0, 1 or 2 halves of the way.
Anchored(place, w, h, t) ==
  [x |-> (place[1] * (Px * t[1] - w)) \div 2, y |-> (place[2] * (Px * t[2] - h)) \div 2, w |-> w, h |-> h]

\* The middle of a picture of size s with the aspect of t: the crop mode, and
\* vivid_render_layout_cover_source.
Cover(s, t) ==
  LET w == IF Wider(s, t) THEN WidthAs(t, Px * s[2]) ELSE Px * s[1]
      h == IF Wider(t, s) THEN HeightAs(t, Px * s[1]) ELSE Px * s[2]
  IN [x |-> (Px * s[1] - w) \div 2, y |-> (Px * s[2] - h) \div 2, w |-> w, h |-> h]

\* The largest rectangle of the aspect of s in a display of size t.
Inside(s, t) ==
  IF Wider(t, s) THEN << WidthAs(s, Px * t[2]), Px * t[2] >> ELSE << Px * t[1], HeightAs(s, Px * t[1]) >>

\* VIVID_FILL_MODE_CENTERED: as large as it is, or a middle part.
Centred(place, s, t) ==
  IF s[1] > t[1] \/ s[2] > t[2]
  THEN LET d == IF Wider(s, t) THEN << Px * t[1], HeightAs(s, Px * t[1]) >>
                ELSE << WidthAs(s, Px * t[2]), Px * t[2] >>
       IN [src |-> [x |-> (Px * s[1] - d[1]) \div 2, y |-> (Px * s[2] - d[2]) \div 2, w |-> d[1], h |-> d[2]],
           dst |-> Anchored(place, d[1], d[2], t)]
  ELSE [src |-> WholeOf(s), dst |-> Anchored(place, Px * s[1], Px * s[2], t)]

\* vivid_render_layout_compute
Computed(fill, place, s, t) ==
  CASE fill = "stretch" -> [src |-> WholeOf(s), dst |-> WholeOf(t)]
    [] fill = "fit"     -> [src |-> WholeOf(s), dst |-> Anchored(place, Inside(s, t)[1], Inside(s, t)[2], t)]
    [] fill = "centre"  -> Centred(place, s, t)
    [] OTHER            -> [src |-> Cover(s, t), dst |-> WholeOf(t)]

\* inverse_transform_normalized of a point about the middle
Unturned(turn, c) ==
  LET f == IF turn >= 4 THEN << -c[1], c[2] >> ELSE c
  IN << f, << -f[2], f[1] >>, << -f[1], -f[2] >>, << f[2], -f[1] >> >>[(turn % 4) + 1]

Unit == 64
Within(v) == IF v < 0 THEN 0 ELSE IF v > Unit THEN Unit ELSE v

\* vivid_render_layout_display_point_to_texture
PointToTexture(L, q) ==
  LET Size(v) == IF v < Px THEN Px ELSE v
      n == Unturned(L.turn, << Within((Unit * (q[1] - L.dst.x)) \div Size(L.dst.w)) - Unit \div 2,
                              Within((Unit * (q[2] - L.dst.y)) \div Size(L.dst.h)) - Unit \div 2 >>)
  IN << L.src.x + ((n[1] + Unit \div 2) * Size(L.src.w)) \div Unit,
        L.src.y + ((n[2] + Unit \div 2) * Size(L.src.h)) \div Unit >>

-----------------------------------------------------------------------------
(* The daemon.                                                             *)

Turned(turn, t) == IF turn % 2 = 1 THEN << t[2], t[1] >> ELSE t

\* producer_output_layout_params: -1 is an unset rotation.
FillOf(w) == IF w.fit > 0 THEN ContentFit[w.fit] ELSE w.fill
TurnOf(w) == IF w.turn < 0 THEN 0 ELSE w.turn

\* route_link_apply_clone_layout, route_link_apply_layout
Layout(s, t, w, cl) ==
  IF cl THEN [size |-> s, src |-> Cover(s, t), dst |-> WholeOf(t), turn |-> 0]
  ELSE LET fitted == Computed(FillOf(w), w.place, s, Turned(TurnOf(w), t))
       IN [size |-> s, src |-> fitted.src, dst |-> fitted.dst, turn |-> TurnOf(w)]

\* A transform of the consumer counts where no rotation is set.
Linked(L, m, w, cl) == IF ~cl /\ m # 0 /\ w.turn < 0 THEN [L EXCEPT !.turn = m] ELSE L

\* Mutant of Differs: buffers of the old size will do.
DiffersNever(L, p) == FALSE
\* An output whose layout is another one is due for new buffers.
Differs(L, p) == L # laid[p]

\* producer_relayout_outputs
LaidOut(panels, tg, m, ws, cl) ==
  LET Size(p) == IF cl THEN tg[panels[1]] ELSE tg[p] IN
  [p \in Panels |->
     IF p \in Range(panels) THEN Linked(Layout(Size(p), tg[p], ws[p], cl), m[p], ws[p], cl) ELSE laid[p]]

\* A relayout that marks outputs: what is compared is the layout before the registered
\* transform is put in.  The panels `due` need buffers, those of `done` have just got
\* theirs; producer_resync_route_set_configs tells all that have buffers.
RelaidOut(panels, tg, m, ws, cl, due, done) ==
  /\ laid' = LaidOut(panels, tg, m, ws, cl)
  /\ unbound' = (unbound \cup due
                   \cup {p \in Range(panels) : Differs(LaidOut(panels, tg, [q \in Panels |-> 0], ws, cl)[p], p)})
                \ done
  /\ sized' = [p \in Panels |-> IF p \in done THEN laid'[p].size ELSE sized[p]]
  /\ shows' = [p \in Panels |-> IF sized'[p] # Nowhere THEN laid'[p] ELSE shows[p]]

Laying == changes < MaxLaid /\ changes' = changes + 1

\* handle_register_output: with buffers at once (output_rebuild_buffers), or due for them.
PanelRegisters(p) ==
  /\ Laying /\ p \notin Range(hung)
  /\ hung' = Append(hung, p)
  /\ \E s \in Sizes, m \in Mounted, done \in {{}, {p}} :
       /\ target' = [target EXCEPT ![p] = s]
       /\ mounted' = [mounted EXCEPT ![p] = m] /\ hangs' = [hangs EXCEPT ![p] = m]
       /\ RelaidOut(hung', target', mounted', wish, cloned, {p}, done)
  /\ UNCHANGED << wish, cloned >>

\* handle_update_output: of another size, or something else is new.
PanelUpdates(p) ==
  /\ Laying /\ p \in Range(hung)
  /\ \E s \in Sizes :
       /\ target' = [target EXCEPT ![p] = s]
       /\ RelaidOut(hung, target', mounted, wish, cloned, {p}, {})
  /\ UNCHANGED << hung, mounted, wish, cloned, hangs >>

\* handle_update_output with nothing new: a relayout that marks nothing and tells nobody.
\* A route of another extent (its primary has left) gets another worker, whose pool all
\* its panels must be bound to.
PanelRepeats(p) ==
  /\ Laying /\ p \in Range(hung)
  /\ laid' = LaidOut(hung, target, mounted, wish, cloned)
  /\ unbound' = unbound \cup {q \in Range(hung) : laid'[q].size # laid[q].size}
  /\ UNCHANGED << hung, target, mounted, wish, cloned, sized, shows, hangs >>

\* handle_control with other preferences, or another mode.
Wanted(ws, cl) ==
  /\ Laying /\ hung # << >>
  /\ wish' = ws /\ cloned' = cl
  /\ RelaidOut(hung, target, mounted, ws, cl, {}, {})
  /\ UNCHANGED << hung, target, mounted, hangs >>

LayoutWanted ==
  \/ \E p \in Panels, w \in Wishes : w # wish[p] /\ Wanted([wish EXCEPT ![p] = w], cloned)
  \/ Wanted(wish, ~cloned)

\* client_rebind_output: buffers of the size of the route, and send_bind_with_config.  The
\* output becomes its candidate, which has no registered transform; the link keeps the turn.
PanelBound(p) ==
  /\ p \in unbound /\ unbound' = unbound \ {p}
  /\ sized' = [sized EXCEPT ![p] = laid[p].size] /\ shows' = [shows EXCEPT ![p] = laid[p]]
  /\ mounted' = [mounted EXCEPT ![p] = 0]
  /\ UNCHANGED << hung, target, wish, cloned, laid, changes, hangs >>

\* client_free lays nothing out.
PanelLeaves(p) ==
  /\ Laying /\ p \in Range(hung)
  /\ hung' = SelectSeq(hung, LAMBDA q : q # p) /\ unbound' = unbound \ {p}
  /\ laid' = [laid EXCEPT ![p] = NotLaid] /\ shows' = [shows EXCEPT ![p] = NotLaid]
  /\ sized' = [sized EXCEPT ![p] = Nowhere]
  /\ mounted' = [mounted EXCEPT ![p] = 0] /\ hangs' = [hangs EXCEPT ![p] = 0]
  /\ UNCHANGED << target, wish, cloned >>

LayoutNext ==
  \/ \E p \in Panels :
       PanelRegisters(p) \/ PanelUpdates(p) \/ PanelRepeats(p) \/ PanelBound(p) \/ PanelLeaves(p)
  \/ LayoutWanted

-----------------------------------------------------------------------------
(* The consumer.                                                           *)

\* Where it draws the point n of its source rectangle: the destination is turned about
\* the middle of the display.
ShownAt(L, t, n) ==
  LET pre == Turned(L.turn, t)
      v == << L.dst.x + (n[1] * L.dst.w) \div Unit - (Px * pre[1]) \div 2,
              L.dst.y + (n[2] * L.dst.h) \div Unit - (Px * pre[2]) \div 2 >>
      r == << v, << -v[2], v[1] >>, << -v[1], -v[2] >>, << v[2], -v[1] >> >>[(L.turn % 4) + 1]
  IN << (IF L.turn >= 4 THEN -r[1] ELSE r[1]) + (Px * t[1]) \div 2, r[2] + (Px * t[2]) \div 2 >>

Bound(p) == p \in Range(hung) /\ sized[p] # Nowhere

\* Types.
LayoutTypeOK ==
  /\ Range(hung) \cup unbound \subseteq Panels
  /\ \A p \in Panels : sized[p] \in Sizes \cup {Nowhere} /\ laid[p].size \in Sizes \cup {Nowhere}

\* A rebind has dropped the transform the panel registered.
TurnLost(p) == mounted[p] # hangs[p]

\* A panel draws what the daemon maps its pointers with, but for a lost turn it has not
\* been told of; or its buffers are of another size, and new ones are under way.
PanelsFollow ==
  \A p \in Panels : Bound(p) =>
    IF sized[p] = laid[p].size
    THEN shows[p] = laid[p] \/ (TurnLost(p) /\ shows[p] = [laid[p] EXCEPT !.turn = hangs[p]])
    ELSE p \in unbound

\* A panel is turned as its display prefers, or else as it hangs: that is kept from the
\* registration until the first relayout after a rebind, and then lost.
TurnsHold ==
  \A p \in Range(hung) :
    LET due == IF cloned THEN 0 ELSE IF wish[p].turn >= 0 THEN wish[p].turn ELSE hangs[p] IN
    laid[p].turn = due \/ (TurnLost(p) /\ due = hangs[p] /\ laid[p].turn = 0)

LiesIn(R, s) == R.x >= 0 /\ R.y >= 0 /\ R.x + R.w <= Px * s[1] /\ R.y + R.h <= Px * s[2]

\* What is drawn is a part of the wallpaper, on the display, and not distorted.
PicturesFit ==
  \A p \in Range(hung) :
    LET L == laid[p] IN
    /\ LiesIn(L.src, L.size)
    /\ LiesIn(L.dst, Turned(IF cloned THEN 0 ELSE TurnOf(wish[p]), target[p]))
    /\ cloned \/ FillOf(wish[p]) # "stretch" => L.src.w * L.dst.h = L.src.h * L.dst.w

Samples == {Unit \div 4, Unit \div 2, Unit - 8} \X {Unit \div 8, Unit \div 2}

\* A quarter turn is left out: its pointers are mapped with the destination before the
\* turn, and turned the wrong way.
Upright(L) == L.turn \in {0, 2}

\* The pointer is at the texel it is seen on.
PointersMeetTexels ==
  \A p \in Panels : Bound(p) /\ Upright(shows[p]) /\ shows[p] = laid[p] =>
    \A n \in Samples :
      PointToTexture(laid[p], ShownAt(shows[p], target[p], n))
        = << shows[p].src.x + (n[1] * shows[p].src.w) \div Unit,
             shows[p].src.y + (n[2] * shows[p].src.h) \div Unit >>

LayoutObeys == LayoutTypeOK /\ PanelsFollow /\ TurnsHold /\ PicturesFit /\ PointersMeetTexels
=============================================================================
