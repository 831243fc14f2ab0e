-------------------------- MODULE RouteBinding_proofs --------------------------
(***************************************************************************)
(* What a display gets of its route, and when a worker may end, for any    *)
(* number of outputs and of disturbances.                                  *)
(***************************************************************************)
EXTENDS RouteBinding, FiniteSetTheorems, TLAPS

-----------------------------------------------------------------------------
(* Types.                                                                  *)

OutRecs      == [gen : Nat, pool : Nat, seen : Nat, needs : BOOLEAN, first : BOOLEAN]
Phases       == {"starting", "capable", "negotiating", "pool", "quiescing", "waiting",
                 "crashed", "buried", "ending"}
RouteWorkers == [phase : Phases, gen : Nat \ {0}, pool : Nat, frame : BOOLEAN, fresh : BOOLEAN]
ToDisplay    == [ev : {"bind", "unbind"}, gen : Nat, pool : Nat]
ToDaemon     == [ev : {"ack", "reject"}, gen : Nat]
Holdings     == [gen : Nat, pool : Nat]
Positions    == [at : {"rest", "tick", "all"}, route : Outs \cup {NoOne}, left : SUBSET Outs,
                 idle : Nat, gated : SUBSET Outs]
WaitsFor     == [out : Outs, gen : Nat, then : {"route", "warm", "undo"}]

Placed(l) == l \in Positions /\ (l.at = "tick" => l.route \in Outs)

PlacesTyped ==
  /\ setting \in [cloned : BOOLEAN, painting : BOOLEAN, rough : BOOLEAN, unfit : SUBSET Outs]
  /\ links \in Seq(Outs)
  /\ edge \subseteq Outs /\ barrier \in Outs \cup {NoOne}
  /\ Placed(loop) /\ wait \in WaitsFor \cup {NoWait}

WiresTyped ==
  /\ stream \in [Outs -> Seq(ToDisplay)] /\ held \in [Outs -> SUBSET Holdings]
  /\ replies \in [Outs -> Seq(ToDaemon)] /\ unacked \in [Outs -> SUBSET Nat]

\* An output that is not in need has buffers of its worker, and they are the ones it
\* was last bound to.
Fine(x, g) ==
  /\ x \in OutRecs
  /\ x.pool <= g /\ x.seen <= g
  /\ x.pool # 0 => x.pool = x.seen
  /\ ~x.needs => x.pool # 0

OutsFine ==
  /\ DOMAIN out = Outs /\ out = [o \in Outs |-> out[o]]
  /\ routeWorker \in [Outs -> RouteWorkers]
  /\ \A o \in Outs : Fine(out[o], W(o).gen)

BindingInv == PlacesTyped /\ WiresTyped /\ OutsFine /\ ~wrong

LEMMA Routing ==
  /\ Primary \in Outs
  /\ \A o \in Outs : RouteOf(o) \in Outs
BY BindingAssumption DEF Primary, RouteOf

LEMMA LinkedOuts == ASSUME PlacesTyped PROVE Linked \subseteq Outs
BY DEF PlacesTyped, Linked

LEMMA DroppedTypes ==
  ASSUME NEW S, NEW s \in Seq(S), NEW i \in DOMAIN s
  PROVE  /\ Dropped(s, i) \in Seq(S) /\ Len(Dropped(s, i)) = Len(s) - 1
         /\ \A j \in DOMAIN Dropped(s, i) : \E k \in DOMAIN s : Dropped(s, i)[j] = s[k]
<1>1. Len(s) \in Nat /\ i \in 1 .. Len(s) /\ Len(s) - 1 \in Nat
  OBVIOUS
<1>2. \A j \in 1 .. (Len(s) - 1) : j \in 1 .. Len(s) /\ j + 1 \in 1 .. Len(s)
  BY <1>1
<1>3. \A j \in 1 .. (Len(s) - 1) : Dropped(s, i)[j] \in S /\ \E k \in DOMAIN s : Dropped(s, i)[j] = s[k]
  BY <1>1, <1>2 DEF Dropped
<1>4. Dropped(s, i) \in [1 .. (Len(s) - 1) -> S]
  BY <1>3 DEF Dropped
<1>5. Dropped(s, i) \in Seq(S) /\ Len(Dropped(s, i)) = Len(s) - 1
  BY <1>1, <1>4
<1> QED BY <1>3, <1>5

LEMMA AfterPlaced ==
  ASSUME Placed(loop), NEW res, NEW pending, links \in Seq(Outs)
  PROVE  Placed(After(res, pending))
<1>1. Placed(Resting)
  BY DEF Placed, Positions, Resting
<1>2. Placed([loop EXCEPT !.left = @ \ First(@)])
  BY DEF Placed, Positions
<1>3. Linked \subseteq Outs
  BY DEF Linked
<1>4. ASSUME NEW G \in SUBSET Outs PROVE Placed([loop EXCEPT !.idle = @ + 1, !.gated = G])
  <2>1. loop.idle + 1 \in Nat /\ loop \in Positions
    BY DEF Placed, Positions
  <2>2. [loop EXCEPT !.idle = @ + 1, !.gated = G] \in Positions
    BY <2>1 DEF Positions
  <2> QED BY <2>1, <2>2 DEF Placed, Positions
<1>5. loop.gated \in SUBSET Outs
  BY DEF Placed, Positions
<1> QED BY <1>1, <1>2, <1>3, <1>4, <1>5 DEF After

-----------------------------------------------------------------------------
(* What happens to an output.                                              *)

LEMMA FineGrows ==
  ASSUME NEW x, NEW g \in Nat, NEW h \in Nat, Fine(x, g), g <= h
  PROVE  Fine(x, h)
BY DEF Fine, OutRecs

LEMMA FineKinds ==
  ASSUME NEW x, NEW g \in Nat \ {0}, Fine(x, g)
  PROVE  /\ Fine([x EXCEPT !.needs = TRUE], g)
         /\ Fine([x EXCEPT !.first = FALSE], g)
         /\ Fine([x EXCEPT !.pool = 0, !.needs = TRUE, !.first = FALSE], g)
         /\ Fine([gen |-> x.gen + 1, pool |-> g, seen |-> g, needs |-> FALSE, first |-> x.pool = 0], g)
         /\ Fine(NewOut, g) /\ Fine([NewOut EXCEPT !.seen = g], g)
         /\ Fine([gen |-> 1, pool |-> g, seen |-> g, needs |-> FALSE, first |-> TRUE], g)
<1> x \in OutRecs /\ x.gen + 1 \in Nat
  BY DEF Fine, OutRecs
<1>1. Fine([x EXCEPT !.needs = TRUE], g) /\ Fine([x EXCEPT !.first = FALSE], g)
  BY DEF Fine, OutRecs
<1>2. Fine([x EXCEPT !.pool = 0, !.needs = TRUE, !.first = FALSE], g)
  <2> PICK y : y = [x EXCEPT !.pool = 0, !.needs = TRUE, !.first = FALSE]
    OBVIOUS
  <2>1. y \in OutRecs /\ y.pool = 0 /\ y.needs /\ y.seen = x.seen
    BY DEF OutRecs
  <2> QED BY <2>1 DEF Fine
<1>3. Fine([gen |-> x.gen + 1, pool |-> g, seen |-> g, needs |-> FALSE, first |-> x.pool = 0], g)
  BY DEF Fine, OutRecs
<1>4. Fine(NewOut, g) /\ Fine([NewOut EXCEPT !.seen = g], g)
  <2> PICK y : y = [NewOut EXCEPT !.seen = g]
    OBVIOUS
  <2>1. NewOut \in OutRecs /\ NewOut.pool = 0 /\ NewOut.needs /\ NewOut.seen = 0
    BY DEF OutRecs, NewOut
  <2>2. y \in OutRecs /\ y.pool = 0 /\ y.needs /\ y.seen = g
    BY DEF OutRecs, NewOut
  <2> QED BY <2>1, <2>2 DEF Fine
<1>5. Fine([gen |-> 1, pool |-> g, seen |-> g, needs |-> FALSE, first |-> TRUE], g)
  BY DEF Fine, OutRecs
<1> QED BY <1>1, <1>2, <1>3, <1>4, <1>5

\* What a step may make of the outputs.
Kinds(o) ==
  {out[o], [out[o] EXCEPT !.needs = TRUE], [out[o] EXCEPT !.first = FALSE], Released(o), Bound(o),
   NewOut, [NewOut EXCEPT !.seen = W(o).gen],
   [gen |-> 1, pool |-> W(o).gen, seen |-> W(o).gen, needs |-> FALSE, first |-> TRUE]}

\* The generations of a worker only grow.
Grown(r) == routeWorker'[r] \in RouteWorkers /\ routeWorker[r].gen <= routeWorker'[r].gen

LEMMA OutsStayFine ==
  ASSUME OutsFine, setting' = setting,
         out' = [o \in Outs |-> out'[o]], \A o \in Outs : out'[o] \in Kinds(o),
         routeWorker' = [r \in Outs |-> routeWorker'[r]], \A r \in Outs : Grown(r)
  PROVE  OutsFine'
<1>1. ASSUME NEW o \in Outs PROVE Fine(out[o], W(o).gen)'
  <2>1. RouteOf(o) \in Outs /\ RouteOf(o)' = RouteOf(o)
    BY Routing DEF RouteOf
  <2>2. W(o).gen \in Nat \ {0} /\ W(o)'.gen \in Nat /\ W(o).gen <= W(o)'.gen
    BY <2>1 DEF OutsFine, W, Grown, RouteWorkers
  <2>3. Fine(out[o], W(o).gen)
    BY DEF OutsFine
  <2> PICK x : x = out[o]
    OBVIOUS
  <2> PICK g : g = W(o).gen
    OBVIOUS
  <2>4. /\ Fine([x EXCEPT !.needs = TRUE], g)
        /\ Fine([x EXCEPT !.first = FALSE], g)
        /\ Fine([x EXCEPT !.pool = 0, !.needs = TRUE, !.first = FALSE], g)
        /\ Fine([gen |-> x.gen + 1, pool |-> g, seen |-> g, needs |-> FALSE, first |-> x.pool = 0], g)
        /\ Fine(NewOut, g) /\ Fine([NewOut EXCEPT !.seen = g], g)
        /\ Fine([gen |-> 1, pool |-> g, seen |-> g, needs |-> FALSE, first |-> TRUE], g)
    BY <2>2, <2>3, FineKinds
  <2>5. Fine(out'[o], W(o).gen)
    BY <2>3, <2>4 DEF Kinds, Released, Bound
  <2> QED BY <2>2, <2>5, FineGrows
<1>2. routeWorker' \in [Outs -> RouteWorkers]
  BY DEF Grown
<1> QED BY <1>1, <1>2 DEF OutsFine
-----------------------------------------------------------------------------
(* Steps keep the types.                                                   *)

\* Of a step: the outputs and workers become something they may.
StepKinds ==
  /\ setting' = setting
  /\ out' = [o \in Outs |-> out'[o]] /\ \A o \in Outs : out'[o] \in Kinds(o)
  /\ routeWorker' = [r \in Outs |-> routeWorker'[r]] /\ \A r \in Outs : Grown(r)

LEMMA SameOuts == ASSUME OutsFine, out' = out
                  PROVE  out' = [o \in Outs |-> out'[o]] /\ \A o \in Outs : out'[o] \in Kinds(o)
BY DEF OutsFine, Kinds

LEMMA OneOut ==
  ASSUME OutsFine, NEW o \in Outs, NEW x \in Kinds(o), out' = [out EXCEPT ![o] = x]
  PROVE  out' = [q \in Outs |-> out'[q]] /\ \A q \in Outs : out'[q] \in Kinds(q)
<1>1. \A q \in Outs : out'[q] = IF q = o THEN x ELSE out[q]
  BY DEF OutsFine
<1>2. \A q \in Outs : out[q] \in Kinds(q)
  BY DEF Kinds
<1>3. out' = [q \in Outs |-> out'[q]]
  BY DEF OutsFine
<1> QED BY <1>1, <1>2, <1>3

LEMMA SameWorkers == ASSUME OutsFine, routeWorker' = routeWorker
                     PROVE  routeWorker' = [r \in Outs |-> routeWorker'[r]] /\ \A r \in Outs : Grown(r)
BY DEF OutsFine, Grown, RouteWorkers

LEMMA OneWorker ==
  ASSUME OutsFine, NEW r \in Outs, NEW w \in RouteWorkers, routeWorker[r].gen <= w.gen,
         routeWorker' = [routeWorker EXCEPT ![r] = w]
  PROVE  routeWorker' = [q \in Outs |-> routeWorker'[q]] /\ \A q \in Outs : Grown(q)
<1>1. \A q \in Outs : routeWorker[q] \in RouteWorkers /\ routeWorker[q].gen \in Nat
  BY DEF OutsFine, RouteWorkers
<1>2. routeWorker' = [q \in Outs |-> IF q = r THEN w ELSE routeWorker[q]]
  BY DEF OutsFine
<1>3. ASSUME NEW q \in Outs PROVE Grown(q)
  <2>1. routeWorker'[q] = IF q = r THEN w ELSE routeWorker[q]
    BY <1>2
  <2> QED BY <1>1, <2>1 DEF Grown
<1>4. routeWorker' = [q \in Outs |-> routeWorker'[q]]
  BY <1>2
<1> QED BY <1>3, <1>4

LEMMA WorkerKinds ==
  ASSUME NEW w \in RouteWorkers
  PROVE  /\ \A p \in Phases : [w EXCEPT !.phase = p] \in RouteWorkers /\ [w EXCEPT !.phase = p].gen = w.gen
         /\ [w EXCEPT !.frame = FALSE] \in RouteWorkers /\ [w EXCEPT !.frame = FALSE].gen = w.gen
         /\ w.gen <= w.gen
<1>1. w.gen \in Nat
  BY DEF RouteWorkers
<1>2. \A p \in Phases : [w EXCEPT !.phase = p] \in RouteWorkers /\ [w EXCEPT !.phase = p].gen = w.gen
  <2> TAKE p \in Phases
  <2> QED BY DEF RouteWorkers
<1>3. [w EXCEPT !.frame = FALSE] \in RouteWorkers /\ [w EXCEPT !.frame = FALSE].gen = w.gen
  BY DEF RouteWorkers
<1> QED BY <1>1, <1>2, <1>3

\* A worker's phase changes, or its frame is taken.
LEMMA WorkerMoves ==
  ASSUME OutsFine, NEW r \in Outs,
         \/ routeWorker' = routeWorker
         \/ \E p \in Phases : routeWorker' = [routeWorker EXCEPT ![r].phase = p]
         \/ routeWorker' = [routeWorker EXCEPT ![r].frame = FALSE]
  PROVE  routeWorker' = [q \in Outs |-> routeWorker'[q]] /\ \A q \in Outs : Grown(q)
<1>1. routeWorker[r] \in RouteWorkers
  BY DEF OutsFine
<1>2. ASSUME NEW p \in Phases, routeWorker' = [routeWorker EXCEPT ![r].phase = p]
      PROVE  routeWorker' = [q \in Outs |-> routeWorker'[q]] /\ \A q \in Outs : Grown(q)
  <2> PICK w : w = [routeWorker[r] EXCEPT !.phase = p]
    OBVIOUS
  <2>1. w \in RouteWorkers /\ routeWorker[r].gen <= w.gen
    BY <1>1, WorkerKinds DEF RouteWorkers
  <2>2. routeWorker' = [routeWorker EXCEPT ![r] = w]
    BY <1>2
  <2> QED BY <2>1, <2>2, OneWorker
<1>3. ASSUME routeWorker' = [routeWorker EXCEPT ![r].frame = FALSE]
      PROVE  routeWorker' = [q \in Outs |-> routeWorker'[q]] /\ \A q \in Outs : Grown(q)
  <2> PICK w : w = [routeWorker[r] EXCEPT !.frame = FALSE]
    OBVIOUS
  <2>1. w \in RouteWorkers /\ routeWorker[r].gen <= w.gen
    BY <1>1, WorkerKinds DEF RouteWorkers
  <2>2. routeWorker' = [routeWorker EXCEPT ![r] = w]
    BY <1>3
  <2> QED BY <2>1, <2>2, OneWorker
<1> QED BY <1>2, <1>3, SameWorkers

LEMMA KindsHere ==
  ASSUME NEW o
  PROVE  out[o] \in Kinds(o) /\ [out[o] EXCEPT !.needs = TRUE] \in Kinds(o)
         /\ [out[o] EXCEPT !.first = FALSE] \in Kinds(o) /\ Released(o) \in Kinds(o) /\ Bound(o) \in Kinds(o)
         /\ NewOut \in Kinds(o) /\ [NewOut EXCEPT !.seen = W(o).gen] \in Kinds(o)
         /\ [gen |-> 1, pool |-> W(o).gen, seen |-> W(o).gen, needs |-> FALSE, first |-> TRUE] \in Kinds(o)
BY DEF Kinds

LEMMA OutMoves ==
  ASSUME OutsFine, NEW o \in Outs,
         \/ out' = out
         \/ out' = [out EXCEPT ![o].needs = TRUE]
         \/ out' = [out EXCEPT ![o] = Released(o)]
         \/ out' = [out EXCEPT ![o] = Bound(o)]
  PROVE  out' = [q \in Outs |-> out'[q]] /\ \A q \in Outs : out'[q] \in Kinds(q)
<1>1. CASE out' = out
  BY <1>1, SameOuts
<1>2. CASE out' = [out EXCEPT ![o].needs = TRUE]
  BY <1>2, OneOut, KindsHere
<1>3. CASE out' = [out EXCEPT ![o] = Released(o)]
  BY <1>3, OneOut, KindsHere
<1>4. CASE out' = [out EXCEPT ![o] = Bound(o)]
  BY <1>4, OneOut, KindsHere
<1> QED BY <1>1, <1>2, <1>3, <1>4

LEMMA ResumedOuts == ASSUME PlacesTyped, NEW o PROVE Resumed(o) \subseteq Outs
BY LinkedOuts, Routing DEF Resumed

\* The ways a rebind goes, in terms of what it leaves.
LEMMA RebindTyped ==
  ASSUME BindingInv, NEW o \in Outs, Rebind(o), UNCHANGED << setting, links >>
  PROVE  PlacesTyped' /\ WiresTyped' /\ StepKinds /\ wrong' = wrong
<1> USE DEF BindingInv
<1>0. RouteOf(o) \in Outs /\ out[o] \in OutRecs /\ links \in Seq(Outs) /\ Placed(loop) /\ Linked \subseteq Outs
  BY Routing, LinkedOuts DEF OutsFine, Fine, PlacesTyped
<1>1. \A res, pending : Placed(After(res, pending))
  BY <1>0, AfterPlaced
<1>2. Resumed(o) \subseteq Outs
  BY ResumedOuts
<1>3. CASE UnbindRoute(o)
  <2> PICK bound : bound = {q \in On(RouteOf(o)) : out[q].pool # 0}
    OBVIOUS
  <2>1. CASE bound # {}
    <3>1. PICK q \in First(bound) :
            /\ Unbind(q, out[q].gen, "route")
            /\ stream' = [stream EXCEPT ![q] = Post(q, "unbind", out[q].gen, 0)]
            /\ UNCHANGED << out, routeWorker, edge, loop, held, replies, barrier, wrong, events >>
      BY <1>3, <2>1 DEF UnbindRoute
    <3>2. q \in Outs /\ out[q].gen \in Nat
      BY <1>0, <3>1 DEF First, On, OutsFine, Fine, OutRecs
    <3>3. [ev |-> "unbind", gen |-> out[q].gen, pool |-> 0] \in ToDisplay
      BY <3>2 DEF ToDisplay
    <3>4. WiresTyped'
      BY <3>1, <3>2, <3>3 DEF WiresTyped, Post, Unbind
    <3>5. wait' \in WaitsFor
      BY <3>1, <3>2 DEF Unbind, WaitsFor
    <3>6. PlacesTyped'
      BY <3>1, <3>5 DEF PlacesTyped
    <3> QED BY <3>1, <3>4, <3>6, SameOuts, SameWorkers DEF StepKinds
  <2>2. CASE bound = {}
    <3>1. /\ out' = [q \in Outs |-> IF q \in On(RouteOf(o)) THEN Released(q) ELSE out[q]]
          /\ routeWorker' = [routeWorker EXCEPT ![RouteOf(o)].phase = "ending"]
          /\ edge' = edge \cup {RouteOf(o)}
          /\ loop' = After("NOT_READY", Pending(o))
          /\ UNCHANGED << stream, unacked, wait, held, replies, barrier, wrong, events >>
      BY <1>3, <2>2 DEF UnbindRoute
    <3>2. \A q \in Outs : out'[q] \in Kinds(q)
      BY <3>1, KindsHere
    <3>3. "ending" \in Phases
      BY DEF Phases
    <3>4. StepKinds
      BY <1>0, <3>1, <3>2, <3>3, WorkerMoves DEF StepKinds
    <3> QED BY <1>0, <1>1, <3>1, <3>4 DEF PlacesTyped, WiresTyped
  <2> QED BY <2>1, <2>2
<1>4. CASE NotReady(o)
  <2>1. "negotiating" \in Phases
    BY DEF Phases
  <2>2. StepKinds
    BY <1>0, <1>4, <2>1, WorkerMoves, OutMoves DEF NotReady, StepKinds
  <2> QED BY <1>1, <1>4, <2>2 DEF NotReady, PlacesTyped, WiresTyped, wires
<1>5. CASE Unusable(o)
  <2>1. StepKinds
    BY <1>0, <1>5, WorkerMoves, OutMoves DEF Unusable, StepKinds
  <2> QED BY <1>1, <1>2, <1>5, <2>1 DEF Unusable, ClearBarrier, PlacesTyped, WiresTyped, wires
<1>6. out[o].gen \in Nat /\ out[o].gen + 1 \in Nat /\ W(o).gen \in Nat
  BY <1>0 DEF W, OutsFine, RouteWorkers, OutRecs
<1>7. [ev |-> "bind", gen |-> out[o].gen + 1, pool |-> W(o).gen] \in ToDisplay
      /\ [ev |-> "unbind", gen |-> out[o].gen, pool |-> 0] \in ToDisplay
      /\ [ev |-> "unbind", gen |-> out[o].gen + 1, pool |-> 0] \in ToDisplay
  BY <1>6 DEF ToDisplay
<1>8. SendBind(o) \in Seq(ToDisplay)
  BY <1>7 DEF SendBind, Post, WiresTyped
<1>9. CASE ColdBind(o)
  <2>1. StepKinds
    BY <1>0, <1>9, WorkerMoves, OutMoves DEF ColdBind, StepKinds
  <2>2. WiresTyped'
    BY <1>8, <1>9 DEF ColdBind, WiresTyped
  <2> QED BY <1>1, <1>2, <1>9, <2>1, <2>2 DEF ColdBind, ClearBarrier, PlacesTyped
<1>10. CASE WarmBind(o)
  <2>1. StepKinds
    BY <1>0, <1>10, WorkerMoves, OutMoves DEF WarmBind, StepKinds, TakeFrame
  <2>2. WiresTyped'
    BY <1>6, <1>7, <1>8, <1>10 DEF WarmBind, WiresTyped, Unbind
  <2>3. wait' \in WaitsFor
    BY <1>6, <1>10 DEF WarmBind, Unbind, WaitsFor
  <2> QED BY <1>2, <1>10, <2>1, <2>2, <2>3 DEF WarmBind, ClearBarrier, PlacesTyped
<1>11. CASE BindFails(o)
  <2>1. StepKinds
    BY <1>0, <1>11, WorkerMoves, OutMoves DEF BindFails, StepKinds, TakeFrame
  <2> QED BY <1>1, <1>2, <1>11, <2>1 DEF BindFails, ClearBarrier, PlacesTyped, WiresTyped, wires
<1>12. CASE FrameFails(o)
  <2>1. StepKinds
    BY <1>0, <1>12, WorkerMoves, OutMoves DEF FrameFails, StepKinds, TakeFrame
  <2>2. WiresTyped'
    BY <1>6, <1>7, <1>8, <1>12 DEF FrameFails, WiresTyped, Unbind
  <2>3. wait' \in WaitsFor
    BY <1>6, <1>12 DEF FrameFails, Unbind, WaitsFor
  <2> QED BY <1>2, <1>12, <2>1, <2>2, <2>3 DEF FrameFails, ClearBarrier, PlacesTyped
<1>13. wrong' = wrong
  BY DEF Rebind, UnbindRoute, NotReady, Unusable, ColdBind, WarmBind, BindFails, FrameFails
<1> QED BY <1>3, <1>4, <1>5, <1>9, <1>10, <1>11, <1>12, <1>13 DEF Rebind

\* What every step shows: the types are kept, and no frame goes astray.
Kept == PlacesTyped' /\ WiresTyped' /\ StepKinds /\ ~wrong'

LEMMA KeptInv == ASSUME BindingInv, Kept PROVE BindingInv'
BY OutsStayFine DEF BindingInv, Kept, StepKinds

LEMMA TickTyped ==
  ASSUME BindingInv, TickRebind \/ TickNothing \/ AllNext
  PROVE  Kept
<1> USE DEF BindingInv
<1>0. Placed(loop) /\ links \in Seq(Outs) /\ Linked \subseteq Outs
  BY LinkedOuts DEF PlacesTyped
<1>1. CASE TickRebind
  <2>1. PICK o \in Attempted(loop.route) : Rebind(o)
    BY <1>1 DEF TickRebind
  <2>2. o \in Outs
    BY <1>0, <2>1 DEF Attempted, First, Wanting, On
  <2> QED BY <1>1, <2>1, <2>2, RebindTyped DEF TickRebind, Kept
<1>2. ASSUME NEW res, NEW pending, loop' = After(res, pending),
             UNCHANGED << setting, links, out, wires, routeWorker, edge, barrier, wait, wrong, events >>
      PROVE  Kept
  <2>1. Placed(loop')
    BY <1>0, <1>2, AfterPlaced
  <2> QED BY <1>2, <2>1, SameOuts, SameWorkers DEF Kept, StepKinds, PlacesTyped, WiresTyped, wires
<1>3. CASE TickNothing
  BY <1>2, <1>3 DEF TickNothing
<1>4. CASE AllNext
  <2>1. PICK o \in First(loop.left) :
          \/ Rebind(o)
          \/ /\ loop' = After("READY", FALSE)
             /\ UNCHANGED << out, wires, routeWorker, edge, barrier, wait, wrong, events >>
    BY <1>4 DEF AllNext
  <2>2. o \in Outs
    BY <1>0, <2>1 DEF First, Placed, Positions
  <2>3. UNCHANGED << setting, links >>
    BY <1>4 DEF AllNext
  <2> QED BY <1>2, <2>1, <2>2, <2>3, RebindTyped DEF Kept
<1> QED BY <1>1, <1>3, <1>4

\* A frame is forwarded only of buffers that are still the worker's: an output in need
\* may keep them, and one that is not in need has them.
LEMMA ForwardsCurrent ==
  ASSUME BindingInv, NEW r, Forwards(r), NEW o \in On(r)
  PROVE  out[o].pool = routeWorker[r].gen
<1>1. o \in Outs /\ W(o) = routeWorker[r]
  BY LinkedOuts DEF BindingInv, On, W
<1>2. Fine(out[o], W(o).gen)
  BY <1>1 DEF BindingInv, OutsFine
<1>3. CASE Needs(o)
  BY <1>1, <1>2, <1>3 DEF Forwards, Wanting, CanKeep, Fine
<1>4. CASE ~Needs(o)
  BY <1>1, <1>2, <1>4 DEF Needs, Fine
<1> QED BY <1>3, <1>4

LEMMA ForwardTyped == ASSUME BindingInv, TickForward PROVE Kept
<1> USE DEF BindingInv
<1> PICK r : r = loop.route
  OBVIOUS
<1>1. /\ loop.at = "tick" /\ Forwards(r)
      /\ routeWorker' = [routeWorker EXCEPT ![r].frame = FALSE]
      /\ wrong' = (wrong \/ \E o \in On(r) : out[o].pool # routeWorker[r].gen)
      /\ out' = [o \in Outs |-> IF o \in On(r) THEN [out[o] EXCEPT !.first = FALSE] ELSE out[o]]
      /\ loop' = Resting
      /\ UNCHANGED << setting, links, wires, edge, barrier, wait, events >>
  BY DEF TickForward, Ticks
<1>2. r \in Outs
  BY <1>1 DEF PlacesTyped, Placed
<1>3. ~wrong'
  BY <1>1, ForwardsCurrent
<1>4. \A o \in Outs : out'[o] \in Kinds(o)
  BY <1>1, KindsHere
<1>5. StepKinds
  BY <1>1, <1>2, <1>4, WorkerMoves DEF StepKinds
<1>6. Placed(Resting)
  BY DEF Placed, Positions, Resting
<1> QED BY <1>1, <1>3, <1>5, <1>6 DEF Kept, PlacesTyped, WiresTyped, wires

LEMMA RestTyped ==
  /\ Placed(Resting)
  /\ \A S \in SUBSET Outs : Placed([Resting EXCEPT !.at = "all", !.left = S])
  /\ \A r \in Outs : Placed([Resting EXCEPT !.at = "tick", !.route = r])
<1>1. Placed(Resting)
  BY DEF Placed, Positions, Resting
<1>2. ASSUME NEW S \in SUBSET Outs PROVE Placed([Resting EXCEPT !.at = "all", !.left = S])
  BY DEF Placed, Positions, Resting
<1>3. ASSUME NEW r \in Outs PROVE Placed([Resting EXCEPT !.at = "tick", !.route = r])
  BY DEF Placed, Positions, Resting
<1> QED BY <1>1, <1>2, <1>3

LEMMA DispatchTyped == ASSUME BindingInv, NEW r \in Outs, Dispatch(r) PROVE Kept
BY RestTyped, SameOuts, SameWorkers DEF BindingInv, Dispatch, Kept, StepKinds, PlacesTyped, WiresTyped, wires

LEMMA AllTyped == ASSUME BindingInv, RebindAll PROVE Kept
<1> USE DEF BindingInv
<1>1. Linked \subseteq Outs
  BY LinkedOuts
<1> PICK inNeed : inNeed = {o \in Linked : Needs(o)}
  OBVIOUS
<1>2. /\ barrier' = NoOne
      /\ out' = [o \in Outs |-> IF o \in inNeed THEN [out[o] EXCEPT !.needs = TRUE] ELSE out[o]]
      /\ edge' = edge \cup {RouteOf(o) : o \in {p \in Linked : Pending(p)}}
      /\ loop' = IF inNeed = {} THEN Resting ELSE [Resting EXCEPT !.at = "all", !.left = inNeed]
      /\ UNCHANGED << setting, links, wires, routeWorker, wait, wrong >>
  BY DEF RebindAll
<1>3. \A o \in Outs : out'[o] \in Kinds(o)
  BY <1>2, KindsHere
<1>4. StepKinds
  BY <1>2, <1>3, SameWorkers DEF StepKinds
<1>5. Placed(loop') /\ edge' \subseteq Outs
  BY <1>1, <1>2, Routing, RestTyped DEF PlacesTyped
<1> QED BY <1>2, <1>4, <1>5 DEF Kept, PlacesTyped, WiresTyped, wires

LEMMA WaitTyped == ASSUME BindingInv, WaitReads \/ WaitEnds PROVE Kept
<1> USE DEF BindingInv
<1> PICK o : o = wait.out
  OBVIOUS
<1>0. CASE wait = NoWait
  BY <1>0 DEF WaitReads, WaitEnds
<1>1. CASE wait # NoWait
  <2>1. o \in Outs /\ wait.then \in {"route", "warm", "undo"}
    BY <1>1 DEF PlacesTyped, WaitsFor
  <2>2. CASE WaitReads
    <3>1. PICK i \in FirstAcks(o) :
            /\ unacked' = [unacked EXCEPT ![o] = @ \ {replies[o][i].gen}]
            /\ replies' = [replies EXCEPT ![o] = Dropped(@, i)]
            /\ UNCHANGED << setting, links, out, stream, held, routeWorker, edge, barrier, loop, wait, wrong, events >>
      BY <2>2 DEF WaitReads
    <3>2. i \in DOMAIN replies[o] /\ replies[o] \in Seq(ToDaemon)
      BY <2>1, <3>1 DEF FirstAcks, WiresTyped
    <3>3. Dropped(replies[o], i) \in Seq(ToDaemon)
      BY <3>2, DroppedTypes
    <3>4. WiresTyped'
      BY <2>1, <3>1, <3>3 DEF WiresTyped
    <3> QED BY <3>1, <3>4, SameOuts, SameWorkers DEF Kept, StepKinds, PlacesTyped
  <2>3. CASE WaitEnds
    <3>1. /\ wait' = NoWait
          /\ \/ out' = out
             \/ out' = [out EXCEPT ![o] = Released(o)]
             \/ out' = [out EXCEPT ![o] = Bound(o)]
          /\ loop' = loop \/ \E res, pending : loop' = After(res, pending)
          /\ UNCHANGED << setting, links, wires, routeWorker, edge, barrier, wrong, events >>
      BY <2>1, <2>3 DEF WaitEnds
    <3>2. StepKinds
      BY <2>1, <3>1, OutMoves, SameWorkers DEF StepKinds
    <3>3. Placed(loop')
      BY <3>1, AfterPlaced DEF PlacesTyped
    <3> QED BY <3>1, <3>2, <3>3 DEF Kept, PlacesTyped, WiresTyped, wires
  <2> QED BY <2>2, <2>3
<1> QED BY <1>0, <1>1

\* RetireRoute, or nothing.
LEMMA Retires ==
  ASSUME OutsFine, NEW r \in Outs, RetireRoute(r) \/ routeWorker' = routeWorker
  PROVE  routeWorker' = [q \in Outs |-> routeWorker'[q]] /\ \A q \in Outs : Grown(q)
<1>1. "quiescing" \in Phases
  BY DEF Phases
<1> QED BY <1>1, WorkerMoves DEF RetireRoute

LEMMA ReadTyped == ASSUME BindingInv, NEW o \in Outs, Reads(o) PROVE Kept
<1> USE DEF BindingInv
<1>0. RouteOf(o) \in Outs /\ replies[o] \in Seq(ToDaemon)
  BY Routing DEF WiresTyped
<1>1. replies[o] # << >> => Tail(replies[o]) \in Seq(ToDaemon)
  BY <1>0
<1>2. CASE HandleAck(o)
  <2>1. WiresTyped'
    BY <1>0, <1>1, <1>2 DEF HandleAck, WiresTyped
  <2>2. /\ out' = out \/ out' = [out EXCEPT ![o] = Released(o)]
        /\ edge' = edge \/ edge' = edge \cup {RouteOf(o)}
        /\ UNCHANGED << setting, links, stream, held, routeWorker, barrier, loop, wait, wrong, events >>
    BY <1>2 DEF HandleAck
  <2>3. StepKinds
    BY <2>2, OutMoves, SameWorkers DEF StepKinds
  <2> QED BY <1>0, <2>1, <2>2, <2>3 DEF Kept, PlacesTyped
<1>3. CASE HandleReject(o)
  <2>1. WiresTyped'
    BY <1>0, <1>1, <1>3 DEF HandleReject, WiresTyped
  <2>2. /\ out' = out \/ out' = [out EXCEPT ![o].needs = TRUE]
        /\ RetireRoute(RouteOf(o)) \/ routeWorker' = routeWorker
        /\ UNCHANGED << setting, links, stream, held, unacked, edge, barrier, loop, wait, wrong, events >>
    BY <1>3 DEF HandleReject
  <2>3. StepKinds
    BY <1>0, <2>2, OutMoves, Retires DEF StepKinds
  <2> QED BY <2>1, <2>2, <2>3 DEF Kept, PlacesTyped
<1> QED BY <1>2, <1>3 DEF Reads

LEMMA UpdateTyped == ASSUME BindingInv, NEW o \in Outs, Update(o) PROVE Kept
<1> USE DEF BindingInv
<1>1. Linked \subseteq Outs
  BY LinkedOuts
<1>2. StepKinds
  BY OutMoves, SameWorkers DEF Update, StepKinds
<1>3. edge' \subseteq Outs
  BY <1>1, Routing DEF Update, PlacesTyped
<1> QED BY <1>2, <1>3 DEF Update, Kept, PlacesTyped, WiresTyped, wires

LEMMA LeaveTyped == ASSUME BindingInv, NEW o \in Outs, Leave(o) PROVE Kept
<1> USE DEF BindingInv
<1>0. RouteOf(o) \in Outs
  BY Routing
<1>1. PICK i \in DOMAIN links : links' = Dropped(links, i)
  BY DEF Leave
<1>2. links' \in Seq(Outs)
  BY <1>1, DroppedTypes DEF PlacesTyped
<1>3. WiresTyped'
  BY DEF Leave, WiresTyped
<1>4. /\ out' = [out EXCEPT ![o] = NewOut]
      /\ RetireRoute(RouteOf(o)) \/ routeWorker' = routeWorker
      /\ edge' = edge \/ edge' = edge \ {RouteOf(o)}
      /\ UNCHANGED << setting, barrier, loop, wait, wrong >>
  BY DEF Leave
<1>5. out' = [q \in Outs |-> out'[q]] /\ \A q \in Outs : out'[q] \in Kinds(q)
  BY <1>4, OneOut, KindsHere
<1>6. StepKinds
  BY <1>0, <1>4, <1>5, Retires DEF StepKinds
<1> QED BY <1>2, <1>3, <1>4, <1>6 DEF Kept, PlacesTyped

LEMMA JoinTyped == ASSUME BindingInv, NEW o \in Outs, Join(o) PROVE Kept
<1> USE DEF BindingInv
<1>0. RouteOf(o) \in Outs /\ W(o).gen \in Nat /\ "ending" \in Phases
  BY Routing DEF OutsFine, W, RouteWorkers, Phases
<1>1. /\ links' = Append(links, o)
      /\ \/ out' = [out EXCEPT ![o] = [NewOut EXCEPT !.seen = W(o).gen]]
         \/ out' = [out EXCEPT ![o] = [gen |-> 1, pool |-> W(o).gen, seen |-> W(o).gen,
                                        needs |-> FALSE, first |-> TRUE]]
      /\ stream' = stream \/ stream' = [stream EXCEPT ![o] = Post(o, "bind", 1, W(o).gen)]
      /\ barrier' \in {o, barrier, NoOne}
      /\ \/ routeWorker' = routeWorker
         \/ routeWorker' = [routeWorker EXCEPT ![RouteOf(o)].phase = "ending"]
      /\ UNCHANGED << setting, held, replies, unacked, edge, loop, wait, wrong, events >>
  BY DEF Join
<1>2. out' = [q \in Outs |-> out'[q]] /\ \A q \in Outs : out'[q] \in Kinds(q)
  BY <1>1, OneOut, KindsHere
<1>3. StepKinds
  BY <1>0, <1>1, <1>2, WorkerMoves DEF StepKinds
<1>4. [ev |-> "bind", gen |-> 1, pool |-> W(o).gen] \in ToDisplay
  BY <1>0 DEF ToDisplay
<1>5. WiresTyped'
  <2>1. Post(o, "bind", 1, W(o).gen) \in Seq(ToDisplay)
    BY <1>4 DEF WiresTyped, Post
  <2> QED BY <1>1, <2>1 DEF WiresTyped
<1> QED BY <1>1, <1>3, <1>5 DEF Kept, PlacesTyped

LEMMA WorkerTyped ==
  ASSUME BindingInv, NEW r \in Outs, Runs(r) \/ Frame(r) \/ Crash(r)
  PROVE  Kept
<1> USE DEF BindingInv
<1>0. routeWorker[r] \in RouteWorkers /\ routeWorker[r].gen \in Nat \ {0} /\ routeWorker[r].gen + 1 \in Nat \ {0}
  BY DEF OutsFine, RouteWorkers
<1>1. ASSUME NEW from, NEW w \in RouteWorkers, routeWorker[r].gen <= w.gen, WorkerTo(r, from, w)
      PROVE  Kept
  <2>1. StepKinds
    BY <1>1, OneWorker, SameOuts DEF WorkerTo, StepKinds
  <2> QED BY <1>1, <2>1 DEF WorkerTo, Kept, PlacesTyped, WiresTyped, wires
<1> PICK w : w = routeWorker[r]
  OBVIOUS
<1>2. [w EXCEPT !.phase = "capable"] \in RouteWorkers /\ [w EXCEPT !.phase = "capable"].gen = w.gen
  BY <1>0 DEF RouteWorkers, Phases
<1>3. ASSUME NEW g \in Nat \ {0}
      PROVE  Started(g) \in RouteWorkers /\ Started(g).gen = g
  BY DEF RouteWorkers, Phases, Started
<1>4. ASSUME NEW g \in Nat \ {0}, NEW p \in Phases
      PROVE  /\ Ended(r, p, g) \in RouteWorkers /\ Ended(r, p, g).gen = g
  <2> PICK q : q = IF On(r) = {} THEN "ending" ELSE p
    OBVIOUS
  <2>1. q \in Phases
    BY DEF Phases
  <2> PICK y : y = [w EXCEPT !.phase = q, !.gen = g, !.frame = FALSE]
    OBVIOUS
  <2>2. y \in RouteWorkers /\ y.gen = g
    BY <1>0, <2>1 DEF RouteWorkers
  <2> QED BY <2>2 DEF Ended
<1>5. ASSUME NEW g \in Nat \ {0}
      PROVE  /\ [w EXCEPT !.phase = "pool", !.gen = g, !.pool = g, !.fresh = TRUE] \in RouteWorkers
             /\ [w EXCEPT !.phase = "pool", !.gen = g, !.pool = g, !.fresh = TRUE].gen = g
  <2> PICK y : y = [w EXCEPT !.phase = "pool", !.gen = g, !.pool = g, !.fresh = TRUE]
    OBVIOUS
  <2>1. y \in RouteWorkers /\ y.gen = g
    BY <1>0 DEF RouteWorkers, Phases
  <2> QED BY <2>1
<1>6. [w EXCEPT !.frame = TRUE, !.fresh = FALSE] \in RouteWorkers /\ [w EXCEPT !.frame = TRUE, !.fresh = FALSE].gen = w.gen
  BY <1>0 DEF RouteWorkers
<1>7. w.gen <= w.gen /\ w.gen <= w.gen + 1
  BY <1>0
<1>8. "waiting" \in Phases /\ "crashed" \in Phases /\ "buried" \in Phases
  BY DEF Phases
<1>9. CASE Capable(r)
  BY <1>1, <1>2, <1>7, <1>9 DEF Capable
<1>10. CASE PoolReady(r)
  <2> PICK y : y = [w EXCEPT !.phase = "pool", !.gen = w.gen + 1, !.pool = w.gen + 1, !.fresh = TRUE]
    OBVIOUS
  <2>1. WorkerTo(r, {"negotiating"}, y)
    BY <1>10 DEF PoolReady
  <2>2. y \in RouteWorkers /\ w.gen <= y.gen
    BY <1>0, <1>5, <1>7
  <2> QED BY <1>1, <2>1, <2>2
<1>11. CASE Frame(r)
  BY <1>1, <1>6, <1>7, <1>11 DEF Frame
<1>12. CASE Quiesced(r) \/ Crash(r) \/ Buried(r)
  BY <1>0, <1>1, <1>4, <1>7, <1>8, <1>12 DEF Quiesced, Crash, Buried
<1>13. CASE Reaped(r)
  BY <1>0, <1>1, <1>3, <1>7, <1>13 DEF Reaped
<1> QED BY <1>9, <1>10, <1>11, <1>12, <1>13 DEF Runs

LEMMA DisplayTyped ==
  ASSUME BindingInv, NEW o \in Outs, Shows(o) \/ Rejects(o)
  PROVE  Kept
<1> USE DEF BindingInv
<1>0. stream[o] \in Seq(ToDisplay) /\ replies[o] \in Seq(ToDaemon) /\ held[o] \subseteq Holdings /\ stream[o] # << >>
  BY DEF WiresTyped, Shows, Imports, GivesBack, Rejects
<1> PICK m : m = Head(stream[o])
  OBVIOUS
<1>1. m \in ToDisplay /\ Tail(stream[o]) \in Seq(ToDisplay)
  BY <1>0
<1>2. [gen |-> m.gen, pool |-> m.pool] \in Holdings
      /\ [ev |-> "ack", gen |-> m.gen] \in ToDaemon /\ [ev |-> "reject", gen |-> m.gen] \in ToDaemon
  BY <1>1 DEF ToDisplay, Holdings, ToDaemon
<1>3. WiresTyped'
  <2>1. CASE Imports(o)
    BY <1>0, <1>1, <1>2, <2>1 DEF WiresTyped, Imports
  <2>2. CASE Rejects(o)
    BY <1>0, <1>1, <1>2, <2>2 DEF WiresTyped, Rejects, Reply
  <2>3. CASE GivesBack(o)
    BY <1>0, <1>1, <1>2, <2>3 DEF WiresTyped, GivesBack, Reply
  <2> QED BY <2>1, <2>2, <2>3 DEF Shows
<1>4. UNCHANGED << setting, links, out, routeWorker, edge, barrier, loop, wait, wrong >>
  BY DEF Shows, Imports, GivesBack, Rejects
<1> QED BY <1>3, <1>4, SameOuts, SameWorkers DEF Kept, StepKinds, PlacesTyped

LEMMA StepKept == ASSUME BindingInv, BindingNext PROVE Kept
<1>1. CASE MainLoop
  BY <1>1, TickTyped, ForwardTyped, WaitTyped DEF MainLoop
<1>2. CASE Disturbs
  BY <1>2, AllTyped, UpdateTyped, LeaveTyped, JoinTyped, DisplayTyped, WorkerTyped DEF Disturbs
<1>3. CASE \E o \in Outs : Dispatch(o) \/ Reads(o) \/ Runs(o) \/ Frame(o) \/ Shows(o)
  BY <1>3, DispatchTyped, ReadTyped, WorkerTyped, DisplayTyped
<1> QED BY <1>1, <1>2, <1>3 DEF BindingNext

LEMMA BindingInitInv == BindingInit => BindingInv
<1> SUFFICES ASSUME BindingInit PROVE BindingInv
  OBVIOUS
<1> USE DEF BindingInit
<1>1. Cardinality(Outs) \in Nat
  BY FS_CardinalityType, BindingAssumption
<1>2. links \in Seq(Outs)
  BY <1>1
<1>3. PlacesTyped
  BY <1>2, RestTyped DEF PlacesTyped
<1>4. WiresTyped
  BY DEF WiresTyped
<1>5. Started(1) \in RouteWorkers /\ Started(1).gen = 1
  BY DEF Started, RouteWorkers, Phases
<1>6. OutsFine
  <2>1. \A o \in Outs : W(o).gen = 1
    BY <1>5, Routing DEF W
  <2>2. \A o \in Outs : Fine(out[o], 1)
    BY DEF Fine, NewOut, OutRecs
  <2> QED BY <1>5, <2>1, <2>2 DEF OutsFine
<1> QED BY <1>3, <1>4, <1>6 DEF BindingInv

LEMMA BindingStep == ASSUME BindingInv, [BindingNext]_bindingVars PROVE BindingInv'
<1>1. CASE BindingNext
  BY <1>1, StepKept, KeptInv
<1>2. CASE UNCHANGED bindingVars
  BY <1>2 DEF bindingVars, wires, BindingInv, PlacesTyped, WiresTyped, OutsFine, W, RouteOf
<1> QED BY <1>1, <1>2

\* A frame reaches a display only when the buffers it was last bound to are those its
\* worker draws into now, whatever the barrier holds back and whoever crashes meanwhile:
\* forwarding while an output waits behind the barrier never shows it a frame of buffers
\* it has not been given.
THEOREM FramesHold == BindingSpec => []FramesMatch
<1>1. BindingInv => FramesMatch
  BY Routing, LinkedOuts DEF BindingInv, FramesMatch, BindingTypeOK, PlacesTyped, OutsFine, Fine, W, WaitsFor, NoWait
<1> QED BY <1>1, BindingInitInv, BindingStep, PTL DEF BindingSpec

-----------------------------------------------------------------------------
(* Who has buffers.  What follows is about one output: its stream s, what  *)
(* its display holds, the replies, the generations that were not           *)
(* acknowledged, the output x, the phase of its worker, and the wait w for *)
(* an acknowledgement.                                                     *)

Late  == {"waiting", "crashed", "buried"}
Early == {"starting", "capable", "negotiating", "ending"}

Backed(s, g) == \E j \in DOMAIN s : s[j].ev = "unbind" /\ s[j].gen = g
Clear(s, h)  == h = {} /\ \A i \in DOMAIN s : s[i].ev # "bind"
Acked(a, g)  == \E i \in DOMAIN a : a[i].ev = "ack" /\ a[i].gen = g

\* What an unbind takes back was sent before it, and nothing older after it.
InOrder(s) ==
  \A i, j \in DOMAIN s : i < j /\ s[i].ev = "unbind" =>
    IF s[j].ev = "bind" THEN s[i].gen < s[j].gen ELSE s[i].gen <= s[j].gen

\* Nothing is newer than the last binding, and all that is older is about to be taken back.
Tidy(s, h, a, g, top) ==
  /\ InOrder(s)
  /\ \A b \in h : b.gen <= top /\ (b.gen < top => Backed(s, b.gen))
  /\ \A i \in DOMAIN s : IF s[i].ev = "bind"
                         THEN s[i].gen <= top /\ (s[i].gen < top => Backed(s, s[i].gen))
                         ELSE s[i].gen <= g
  /\ \A i \in DOMAIN a : a[i].ev = "ack" => a[i].gen <= g

Last(x, w) == IF w.then = "warm" THEN x.gen + 1 ELSE x.gen

Orderly(s, h, a, un, x, ph, w) ==
  /\ Tidy(s, h, a, x.gen, Last(x, w))
  /\ w.then # "warm" => /\ Acked(a, x.gen) => Clear(s, h)
                        /\ Acked(a, x.gen) \/ Backed(s, x.gen) => x.pool = 0 \/ ph \in Late
  /\ x.pool = 0 => Clear(s, h)
  /\ x.pool # 0 => ph \notin Early
  /\ w.then # NoOne => x.pool # 0 /\ w.then \in {"route", "warm"}
  /\ w.then = "route" => w.gen = x.gen /\ ph \in Late /\ (w.gen \notin un => Clear(s, h))
  /\ w.then = "warm" => ph \in {"pool", "quiescing"}

Wired(s, h, a, x) ==
  s \in Seq(ToDisplay) /\ h \subseteq Holdings /\ a \in Seq(ToDaemon) /\ x \in OutRecs

LEMMA Threes == NoWait.then = NoOne /\ NoOne # "warm" /\ NoOne # "route"
BY DEF NoWait, NoOne

LEMMA Appended ==
  ASSUME NEW S, NEW s \in Seq(S), NEW m \in S
  PROVE  /\ Append(s, m) \in Seq(S)
         /\ DOMAIN Append(s, m) = DOMAIN s \cup {Len(s) + 1}
         /\ \A i \in DOMAIN s : Append(s, m)[i] = s[i] /\ i < Len(s) + 1
         /\ Append(s, m)[Len(s) + 1] = m /\ Len(s) \in Nat /\ Len(s) + 1 \notin DOMAIN s
OBVIOUS

LEMMA Tailed ==
  ASSUME NEW S, NEW s \in Seq(S), s # << >>
  PROVE  /\ Tail(s) \in Seq(S) /\ Head(s) = s[1] /\ 1 \in DOMAIN s /\ s[1] \in S
         /\ \A i \in DOMAIN Tail(s) : i + 1 \in DOMAIN s /\ Tail(s)[i] = s[i + 1] /\ i \in Nat /\ 1 < i + 1
         /\ \A i \in DOMAIN s : i # 1 => i - 1 \in DOMAIN Tail(s) /\ Tail(s)[i - 1] = s[i]
         /\ DOMAIN s \subseteq Nat
OBVIOUS

\* Nothing on the wires changes; the output keeps its buffers; the worker goes on.
LEMMA Calm ==
  ASSUME NEW s, NEW h, NEW a, NEW un, NEW x, NEW y, NEW ph, NEW ph2, NEW w,
         Orderly(s, h, a, un, x, ph, w), y.gen = x.gen, y.pool = x.pool,
         ph2 = ph \/ (w = NoWait /\ (x.pool # 0 => (ph \in Late => ph2 \in Late) /\ ph2 \notin Early))
  PROVE  Orderly(s, h, a, un, y, ph2, w)
BY Threes DEF Orderly, Last

LEMMA Freed ==
  ASSUME NEW s, NEW h, NEW a, NEW un, NEW vn, NEW x, NEW y, NEW ph, NEW ph2, NEW w,
         Orderly(s, h, a, un, x, ph, w), w.then # "warm", Clear(s, h), y.gen = x.gen, y.pool = 0
  PROVE  Orderly(s, h, a, vn, y, ph2, NoWait)
BY Threes DEF Orderly, Last

LEMMA GaveUp ==
  ASSUME NEW s, NEW h, NEW a, NEW un, NEW x, NEW ph, NEW w,
         Orderly(s, h, a, un, x, ph, w), w.then # "warm"
  PROVE  Orderly(s, h, a, un, x, ph, NoWait)
BY Threes DEF Orderly, Last

\* No message is new.
Among(b, a) == \A i \in DOMAIN b : \E j \in DOMAIN a : b[i] = a[j]

LEMMA FewerReplies ==
  ASSUME NEW s, NEW h, NEW a, NEW b, NEW un, NEW vn, NEW x, NEW ph, NEW w,
         Orderly(s, h, a, un, x, ph, w),
         Among(b, a),
         w.then = "route" => un = vn \/ w.gen \in vn \/ Acked(a, w.gen)
  PROVE  Orderly(s, h, b, vn, x, ph, w)
<1>1. \A g : Acked(b, g) => Acked(a, g)
  BY DEF Acked, Among
<1>2. \A g, top : Tidy(s, h, a, g, top) => Tidy(s, h, b, g, top)
  BY DEF Tidy, Among
<1> QED BY <1>1, <1>2 DEF Orderly

LEMMA Unbinding ==
  ASSUME NEW s, NEW h, NEW a, NEW un, NEW x, NEW ph, NEW q,
         Wired(s, h, a, x), Orderly(s, h, a, un, x, ph, NoWait), x.pool # 0, ph \in Late
  PROVE  Orderly(Append(s, [ev |-> "unbind", gen |-> x.gen, pool |-> 0]), h, a, un \cup {x.gen}, x, ph,
                 [out |-> q, gen |-> x.gen, then |-> "route"])
<1> PICK m : m = [ev |-> "unbind", gen |-> x.gen, pool |-> 0]
  OBVIOUS
<1> PICK t : t = Append(s, m)
  OBVIOUS
<1>1. m \in ToDisplay /\ m.ev = "unbind" /\ m.gen = x.gen /\ x.gen \in Nat
  BY DEF Wired, ToDisplay, OutRecs
<1>2. /\ DOMAIN t = DOMAIN s \cup {Len(s) + 1}
      /\ \A i \in DOMAIN s : t[i] = s[i] /\ i < Len(s) + 1
      /\ t[Len(s) + 1] = m /\ Len(s) \in Nat /\ Len(s) + 1 \notin DOMAIN s /\ DOMAIN s \subseteq Nat
  BY <1>1, Appended DEF Wired
<1>3. Tidy(s, h, a, x.gen, x.gen)
  BY Threes DEF Orderly, Last
<1>4. \A g : Backed(s, g) => Backed(t, g)
  BY <1>2 DEF Backed
<1>5. InOrder(t)
  BY <1>1, <1>2, <1>3 DEF InOrder, Tidy
<1>6. Tidy(t, h, a, x.gen, x.gen)
  BY <1>1, <1>2, <1>3, <1>4, <1>5 DEF Tidy
<1>7. Clear(s, h) => Clear(t, h)
  BY <1>1, <1>2 DEF Clear
<1> PICK w : w = [out |-> q, gen |-> x.gen, then |-> "route"]
  OBVIOUS
<1>8. w.gen = x.gen /\ w.then = "route"
  OBVIOUS
<1>9. Orderly(t, h, a, un \cup {x.gen}, x, ph, w)
  BY <1>6, <1>7, <1>8, Threes DEF Orderly, Last, Late, Early
<1> QED BY <1>9

LEMMA Binding ==
  ASSUME NEW s, NEW h, NEW a, NEW g, NEW p \in Nat,
         s \in Seq(ToDisplay), h \subseteq Holdings, a \in Seq(ToDaemon), g \in Nat, Tidy(s, h, a, g, g)
  PROVE  /\ Append(s, [ev |-> "bind", gen |-> g + 1, pool |-> p]) \in Seq(ToDisplay)
         /\ InOrder(Append(s, [ev |-> "bind", gen |-> g + 1, pool |-> p]))
         /\ ~Backed(Append(s, [ev |-> "bind", gen |-> g + 1, pool |-> p]), g + 1) /\ ~Acked(a, g + 1)
         /\ Clear(s, h) => Tidy(Append(s, [ev |-> "bind", gen |-> g + 1, pool |-> p]), h, a, g + 1, g + 1)
         /\ \A n \in Nat : Tidy(Append(Append(s, [ev |-> "bind", gen |-> g + 1, pool |-> p]),
                                       [ev |-> "unbind", gen |-> g, pool |-> n]), h, a, g, g + 1)
<1> PICK m : m = [ev |-> "bind", gen |-> g + 1, pool |-> p]
  OBVIOUS
<1> PICK t : t = Append(s, m)
  OBVIOUS
<1>1. m \in ToDisplay /\ m.ev = "bind" /\ m.gen = g + 1
  BY DEF ToDisplay
<1>2. /\ t \in Seq(ToDisplay) /\ DOMAIN t = DOMAIN s \cup {Len(s) + 1}
      /\ \A i \in DOMAIN s : t[i] = s[i] /\ i < Len(s) + 1
      /\ t[Len(s) + 1] = m /\ Len(s) \in Nat /\ Len(s) + 1 \notin DOMAIN s /\ DOMAIN s \subseteq Nat
  BY <1>1, Appended
<1>3. \A i \in DOMAIN s : s[i] \in ToDisplay /\ s[i].gen \in Nat /\ s[i].ev \in {"bind", "unbind"}
  <2> TAKE i \in DOMAIN s
  <2>1. s[i] \in ToDisplay
    OBVIOUS
  <2> QED BY <2>1 DEF ToDisplay
<1>4. \A i \in DOMAIN a : a[i].gen \in Nat
  <2> TAKE i \in DOMAIN a
  <2>1. a[i] \in ToDaemon
    OBVIOUS
  <2> QED BY <2>1 DEF ToDaemon
<1>5. \A b \in h : b.gen \in Nat
  BY DEF Holdings
<1>6. InOrder(t)
  BY <1>1, <1>2, <1>3 DEF InOrder, Tidy
<1>7. ~Backed(t, g + 1) /\ ~Acked(a, g + 1)
  <2>1. \A i \in DOMAIN s : s[i].ev = "unbind" => s[i].gen # g + 1
    BY <1>3 DEF Tidy
  <2>2. \A i \in DOMAIN t : t[i].ev = "unbind" => t[i].gen # g + 1
    BY <1>1, <1>2, <2>1
  <2>3. \A i \in DOMAIN a : a[i].ev = "ack" => a[i].gen # g + 1
    BY <1>4 DEF Tidy
  <2> QED BY <2>2, <2>3 DEF Backed, Acked
<1>8. ASSUME Clear(s, h) PROVE Tidy(t, h, a, g + 1, g + 1)
  <2>1. \A i \in DOMAIN t : IF t[i].ev = "bind" THEN t[i].gen = g + 1 ELSE t[i].gen <= g + 1
    BY <1>1, <1>2, <1>3, <1>8 DEF Clear, Tidy
  <2>2. \A i \in DOMAIN a : a[i].ev = "ack" => a[i].gen <= g + 1
    BY <1>4 DEF Tidy
  <2> QED BY <1>6, <1>8, <2>1, <2>2 DEF Clear, Tidy
<1>9. ASSUME NEW n \in Nat PROVE Tidy(Append(t, [ev |-> "unbind", gen |-> g, pool |-> n]), h, a, g, g + 1)
  <2> PICK l : l = [ev |-> "unbind", gen |-> g, pool |-> n]
    OBVIOUS
  <2> PICK u : u = Append(t, l)
    OBVIOUS
  <2>1. l \in ToDisplay /\ l.ev = "unbind" /\ l.gen = g
    BY DEF ToDisplay
  <2>2. /\ DOMAIN u = DOMAIN t \cup {Len(t) + 1}
        /\ \A i \in DOMAIN t : u[i] = t[i] /\ i < Len(t) + 1
        /\ u[Len(t) + 1] = l /\ Len(t) \in Nat /\ Len(t) + 1 \notin DOMAIN t /\ DOMAIN t \subseteq Nat
    BY <1>2, <2>1, Appended
  <2>3. \A k : Backed(s, k) => Backed(t, k)
    BY <1>2 DEF Backed
  <2>4. \A k : Backed(t, k) => Backed(u, k)
    BY <2>2 DEF Backed
  <2>5. Backed(u, g)
    BY <2>1, <2>2 DEF Backed
  <2>6. \A i \in DOMAIN t : t[i].ev = "unbind" => t[i].gen <= g
    BY <1>1, <1>2 DEF Tidy
  <2>7. InOrder(u)
    BY <1>2, <1>6, <2>1, <2>2, <2>6 DEF InOrder
  <2>8. \A b \in h : b.gen <= g + 1 /\ (b.gen < g + 1 => Backed(u, b.gen))
    <3> TAKE b \in h
    <3>1. b.gen <= g /\ (b.gen < g => Backed(s, b.gen)) /\ b.gen \in Nat
      BY <1>5 DEF Tidy
    <3> QED BY <2>3, <2>4, <2>5, <3>1
  <2>9. \A i \in DOMAIN s : IF s[i].ev = "bind"
                            THEN s[i].gen <= g + 1 /\ (s[i].gen < g + 1 => Backed(u, s[i].gen))
                            ELSE s[i].gen <= g
    <3> TAKE i \in DOMAIN s
    <3>1. s[i].gen \in Nat
      BY <1>3
    <3>2. IF s[i].ev = "bind" THEN s[i].gen <= g /\ (s[i].gen < g => Backed(s, s[i].gen)) ELSE s[i].gen <= g
      BY DEF Tidy
    <3> QED BY <2>3, <2>4, <2>5, <3>1, <3>2
  <2>10. \A i \in DOMAIN u : IF u[i].ev = "bind"
                             THEN u[i].gen <= g + 1 /\ (u[i].gen < g + 1 => Backed(u, u[i].gen))
                             ELSE u[i].gen <= g
    BY <1>1, <1>2, <2>1, <2>2, <2>9
  <2>11. Tidy(u, h, a, g, g + 1)
    BY <2>7, <2>8, <2>10 DEF Tidy
  <2> QED BY <2>11
<1> QED BY <1>2, <1>6, <1>7, <1>8, <1>9

LEMMA Bound1 ==
  ASSUME NEW s, NEW h, NEW a, NEW un, NEW x, NEW y, NEW ph, NEW p \in Nat \ {0},
         Wired(s, h, a, x), Orderly(s, h, a, un, x, ph, NoWait), x.pool = 0,
         y.gen = x.gen + 1, y.pool = p, ph \in {"pool", "quiescing"}
  PROVE  Orderly(Append(s, [ev |-> "bind", gen |-> x.gen + 1, pool |-> p]), h, a, un, y, ph, NoWait)
<1> PICK t : t = Append(s, [ev |-> "bind", gen |-> x.gen + 1, pool |-> p])
  OBVIOUS
<1>1. Tidy(s, h, a, x.gen, x.gen) /\ Clear(s, h) /\ x.gen \in Nat
  BY Threes DEF Orderly, Last, Wired, OutRecs
<1>2. ~Backed(t, x.gen + 1) /\ ~Acked(a, x.gen + 1) /\ Tidy(t, h, a, x.gen + 1, x.gen + 1)
  BY <1>1, Binding DEF Wired
<1>3. Orderly(t, h, a, un, y, ph, NoWait)
  BY <1>2, Threes DEF Orderly, Last, Early
<1> QED BY <1>3

LEMMA Warming ==
  ASSUME NEW s, NEW h, NEW a, NEW un, NEW vn, NEW x, NEW ph, NEW p \in Nat, NEW q,
         Wired(s, h, a, x), Orderly(s, h, a, un, x, ph, NoWait), x.pool # 0, ph \in {"pool", "quiescing"}
  PROVE  Orderly(Append(Append(s, [ev |-> "bind", gen |-> x.gen + 1, pool |-> p]),
                        [ev |-> "unbind", gen |-> x.gen, pool |-> 0]), h, a, vn, x, ph,
                 [out |-> q, gen |-> x.gen, then |-> "warm"])
<1> PICK u : u = Append(Append(s, [ev |-> "bind", gen |-> x.gen + 1, pool |-> p]),
                        [ev |-> "unbind", gen |-> x.gen, pool |-> 0])
  OBVIOUS
<1> PICK w : w = [out |-> q, gen |-> x.gen, then |-> "warm"]
  OBVIOUS
<1>1. Tidy(s, h, a, x.gen, x.gen) /\ x.gen \in Nat /\ w.then = "warm"
  BY Threes DEF Orderly, Last, Wired, OutRecs
<1>2. Tidy(u, h, a, x.gen, x.gen + 1)
  BY <1>1, Binding DEF Wired
<1>3. Orderly(u, h, a, vn, x, ph, w)
  BY <1>1, <1>2, Threes DEF Orderly, Last, Early
<1> QED BY <1>3

\* The new buffers are the output's: no answer is about them yet.
LEMMA Warmed ==
  ASSUME NEW s, NEW h, NEW a, NEW un, NEW x, NEW y, NEW ph, NEW w,
         Wired(s, h, a, x), Orderly(s, h, a, un, x, ph, w), w.then = "warm",
         y.gen = x.gen + 1, y.pool # 0
  PROVE  Orderly(s, h, a, un, y, ph, NoWait)
<1>1. Tidy(s, h, a, x.gen, x.gen + 1) /\ x.gen \in Nat /\ ph \in {"pool", "quiescing"}
  BY DEF Orderly, Last, Wired, OutRecs
<1>2. \A i \in DOMAIN s : s[i].gen \in Nat /\ (s[i].ev # "bind" => s[i].gen <= x.gen)
  <2> TAKE i \in DOMAIN s
  <2>1. s[i] \in ToDisplay
    BY DEF Wired
  <2> QED BY <1>1, <2>1 DEF ToDisplay, Tidy
<1>3. \A i \in DOMAIN a : a[i].gen \in Nat /\ (a[i].ev = "ack" => a[i].gen <= x.gen)
  <2> TAKE i \in DOMAIN a
  <2>1. a[i] \in ToDaemon
    BY DEF Wired
  <2> QED BY <1>1, <2>1 DEF ToDaemon, Tidy
<1>4. Tidy(s, h, a, x.gen + 1, x.gen + 1)
  <2>1. \A i \in DOMAIN s : IF s[i].ev = "bind"
                            THEN s[i].gen <= x.gen + 1 /\ (s[i].gen < x.gen + 1 => Backed(s, s[i].gen))
                            ELSE s[i].gen <= x.gen + 1
    BY <1>1, <1>2 DEF Tidy
  <2>2. \A i \in DOMAIN a : a[i].ev = "ack" => a[i].gen <= x.gen + 1
    BY <1>1, <1>3
  <2> QED BY <1>1, <2>1, <2>2 DEF Tidy
<1>5. ~Backed(s, x.gen + 1)
  <2>1. \A i \in DOMAIN s : s[i].ev = "unbind" => s[i].gen # x.gen + 1
    BY <1>1, <1>2
  <2> QED BY <2>1 DEF Backed
<1>6. ~Acked(a, x.gen + 1)
  <2>1. \A i \in DOMAIN a : a[i].ev = "ack" => a[i].gen # x.gen + 1
    BY <1>1, <1>3
  <2> QED BY <2>1 DEF Acked
<1> QED BY <1>1, <1>4, <1>5, <1>6, Threes DEF Orderly, Last, Early

\* The display imports buffers, or refuses to.
LEMMA Taken ==
  ASSUME NEW s, NEW h, NEW k, NEW a, NEW un, NEW x, NEW ph, NEW w,
         Wired(s, h, a, x), Orderly(s, h, a, un, x, ph, w), s # << >>, Head(s).ev = "bind",
         \A b \in k : b \in h \/ b.gen = Head(s).gen
  PROVE  Orderly(Tail(s), k, a, un, x, ph, w)
<1> PICK t : t = Tail(s)
  OBVIOUS
<1>1. /\ Head(s) = s[1] /\ 1 \in DOMAIN s
      /\ \A i \in DOMAIN t : i + 1 \in DOMAIN s /\ t[i] = s[i + 1] /\ i \in Nat
      /\ \A i \in DOMAIN s : i # 1 => i - 1 \in DOMAIN t /\ t[i - 1] = s[i]
      /\ DOMAIN s \subseteq Nat
  BY Tailed DEF Wired
<1>2. ~Clear(s, h)
  BY <1>1 DEF Clear
<1>3. \A g : Backed(t, g) <=> Backed(s, g)
  <2> TAKE g
  <2>1. Backed(t, g) => Backed(s, g)
    BY <1>1 DEF Backed
  <2>2. ASSUME NEW j \in DOMAIN s, s[j].ev = "unbind", s[j].gen = g PROVE Backed(t, g)
    <3>1. j - 1 \in DOMAIN t /\ t[j - 1] = s[j]
      BY <1>1, <2>2
    <3> QED BY <2>2, <3>1 DEF Backed
  <2> QED BY <2>1, <2>2 DEF Backed
<1> PICK top : top = Last(x, w)
  OBVIOUS
<1>4. Tidy(s, h, a, x.gen, top)
  BY DEF Orderly
<1>5. InOrder(t)
  <2> SUFFICES ASSUME NEW i \in DOMAIN t, NEW j \in DOMAIN t, i < j, t[i].ev = "unbind"
               PROVE  IF t[j].ev = "bind" THEN t[i].gen < t[j].gen ELSE t[i].gen <= t[j].gen
    BY DEF InOrder
  <2>1. i + 1 \in DOMAIN s /\ j + 1 \in DOMAIN s /\ i + 1 < j + 1
    BY <1>1
  <2> QED BY <1>1, <1>4, <2>1 DEF InOrder, Tidy
<1>6. \A b \in k : b.gen <= top /\ (b.gen < top => Backed(t, b.gen))
  BY <1>1, <1>3, <1>4 DEF Tidy
<1>7. \A i \in DOMAIN t : IF t[i].ev = "bind"
                          THEN t[i].gen <= top /\ (t[i].gen < top => Backed(t, t[i].gen))
                          ELSE t[i].gen <= x.gen
  BY <1>1, <1>3, <1>4 DEF Tidy
<1>8. Tidy(t, k, a, x.gen, top)
  BY <1>4, <1>5, <1>6, <1>7 DEF Tidy
<1>9. Orderly(t, k, a, un, x, ph, w)
  BY <1>2, <1>3, <1>8 DEF Orderly
<1> QED BY <1>9

\* The display gives back the buffers of the first unbind: what is older was taken back
\* before, and what is newer is bound later.
LEMMA GivenBack ==
  ASSUME NEW s, NEW h, NEW a, NEW un, NEW x, NEW ph, NEW w,
         Wired(s, h, a, x), Orderly(s, h, a, un, x, ph, w), s # << >>, Head(s).ev = "unbind"
  PROVE  Orderly(Tail(s), {b \in h : b.gen # Head(s).gen},
                 Append(a, [ev |-> "ack", gen |-> Head(s).gen]), un, x, ph, w)
<1> PICK t : t = Tail(s)
  OBVIOUS
<1> PICK m : m = Head(s)
  OBVIOUS
<1> PICK k : k = {b \in h : b.gen # m.gen}
  OBVIOUS
<1> PICK c : c = Append(a, [ev |-> "ack", gen |-> m.gen])
  OBVIOUS
<1> PICK top : top = Last(x, w)
  OBVIOUS
<1>1. /\ m = s[1] /\ 1 \in DOMAIN s
      /\ \A i \in DOMAIN t : i + 1 \in DOMAIN s /\ t[i] = s[i + 1] /\ i \in Nat /\ 1 < i + 1
      /\ \A i \in DOMAIN s : i # 1 => i - 1 \in DOMAIN t /\ t[i - 1] = s[i]
      /\ DOMAIN s \subseteq Nat
  BY Tailed DEF Wired
<1>2. \A i \in DOMAIN s : s[i].gen \in Nat /\ s[i].ev \in {"bind", "unbind"}
  <2> TAKE i \in DOMAIN s
  <2>1. s[i] \in ToDisplay
    BY DEF Wired
  <2> QED BY <2>1 DEF ToDisplay
<1>3. m.gen \in Nat /\ x.gen \in Nat /\ top \in Nat /\ x.gen <= top
  BY <1>1, <1>2 DEF Wired, OutRecs, Last
<1>4. Tidy(s, h, a, x.gen, top)
  BY DEF Orderly
<1>5. m.gen <= x.gen /\ Backed(s, m.gen)
  BY <1>1, <1>4 DEF Tidy, Backed
<1>6. \A g : Backed(t, g) => Backed(s, g)
  BY <1>1 DEF Backed
<1>7. ASSUME NEW g, Backed(s, g), g # m.gen PROVE Backed(t, g)
  <2>1. PICK j \in DOMAIN s : s[j].ev = "unbind" /\ s[j].gen = g
    BY <1>7 DEF Backed
  <2>2. j - 1 \in DOMAIN t /\ t[j - 1] = s[j]
    BY <1>1, <1>7, <2>1
  <2> QED BY <2>1, <2>2 DEF Backed
\* A binding behind the unbind is newer, and so is an unbind, or it is the same again.
<1>8. \A i \in DOMAIN t : IF t[i].ev = "bind" THEN m.gen < t[i].gen ELSE m.gen <= t[i].gen
  BY <1>1, <1>4 DEF InOrder, Tidy
<1>9. InOrder(t)
  <2> SUFFICES ASSUME NEW i \in DOMAIN t, NEW j \in DOMAIN t, i < j, t[i].ev = "unbind"
               PROVE  IF t[j].ev = "bind" THEN t[i].gen < t[j].gen ELSE t[i].gen <= t[j].gen
    BY DEF InOrder
  <2>1. i + 1 \in DOMAIN s /\ j + 1 \in DOMAIN s /\ i + 1 < j + 1
    BY <1>1
  <2> QED BY <1>1, <1>4, <2>1 DEF InOrder, Tidy
<1>10. \A b \in k : b.gen <= top /\ (b.gen < top => Backed(t, b.gen))
  BY <1>4, <1>7 DEF Tidy
<1>11. \A i \in DOMAIN t : t[i].ev = "bind" => t[i].gen # m.gen
  <2> TAKE i \in DOMAIN t
  <2>1. t[i].gen \in Nat
    BY <1>1, <1>2
  <2> QED BY <1>3, <1>8, <2>1
<1>12. \A i \in DOMAIN t : IF t[i].ev = "bind"
                           THEN t[i].gen <= top /\ (t[i].gen < top => Backed(t, t[i].gen))
                           ELSE t[i].gen <= x.gen
  <2> TAKE i \in DOMAIN t
  <2>1. IF t[i].ev = "bind" THEN t[i].gen <= top /\ (t[i].gen < top => Backed(s, t[i].gen)) ELSE t[i].gen <= x.gen
    BY <1>1, <1>4 DEF Tidy
  <2> QED BY <1>7, <1>11, <2>1
<1> PICK l : l = [ev |-> "ack", gen |-> m.gen]
  OBVIOUS
<1>13. l \in ToDaemon /\ l.ev = "ack" /\ l.gen = m.gen
  BY <1>3 DEF ToDaemon
<1>14. /\ DOMAIN c = DOMAIN a \cup {Len(a) + 1}
       /\ \A i \in DOMAIN a : c[i] = a[i]
       /\ c[Len(a) + 1] = l
  BY <1>13, Appended DEF Wired
<1>15. \A i \in DOMAIN c : c[i].ev = "ack" => c[i].gen <= x.gen
  BY <1>4, <1>5, <1>13, <1>14 DEF Tidy
<1>16. Tidy(t, k, c, x.gen, top)
  BY <1>9, <1>10, <1>12, <1>15 DEF Tidy
<1>17. \A g : Acked(c, g) => Acked(a, g) \/ g = m.gen
  BY <1>13, <1>14 DEF Acked
<1>18. Clear(s, h) => Clear(t, k)
  BY <1>1 DEF Clear
<1>19. ASSUME w.then # "warm", m.gen = x.gen PROVE Clear(t, k)
  <2>1. top = x.gen
    BY <1>19 DEF Last
  <2>2. \A i \in DOMAIN t : t[i].ev # "bind"
    <3> SUFFICES ASSUME NEW i \in DOMAIN t, t[i].ev = "bind" PROVE FALSE
      OBVIOUS
    <3>1. t[i].gen \in Nat /\ t[i].gen <= x.gen /\ m.gen < t[i].gen
      BY <1>1, <1>2, <1>8, <1>12, <2>1
    <3> QED BY <1>3, <1>19, <3>1
  <2>3. k = {}
    <3> SUFFICES ASSUME NEW b \in k PROVE FALSE
      OBVIOUS
    <3>1. b.gen \in Nat
      <4>1. b \in Holdings
        BY DEF Wired
      <4> QED BY <4>1 DEF Holdings
    <3>2. b.gen # m.gen /\ b.gen <= x.gen /\ (b.gen < x.gen => Backed(t, b.gen))
      BY <1>10, <2>1
    <3>3. PICK i \in DOMAIN t : t[i].ev = "unbind" /\ t[i].gen = b.gen
      BY <1>3, <1>19, <3>1, <3>2 DEF Backed
    <3> QED BY <1>3, <1>8, <1>19, <3>1, <3>2, <3>3
  <2> QED BY <2>2, <2>3 DEF Clear
<1>20. Orderly(t, k, c, un, x, ph, w)
  <2>1. ASSUME w.then # "warm"
        PROVE  /\ Acked(c, x.gen) => Clear(t, k)
               /\ Acked(c, x.gen) \/ Backed(t, x.gen) => x.pool = 0 \/ ph \in Late
    BY <1>5, <1>6, <1>17, <1>18, <1>19, <2>1 DEF Orderly
  <2> QED BY <1>16, <1>18, <2>1 DEF Orderly
<1> QED BY <1>20

-----------------------------------------------------------------------------
(* The same, of each output, as steps go on.                               *)

At(o)    == IF wait.out = o THEN wait ELSE NoWait
Sound(o) == Orderly(stream[o], held[o], replies[o], unacked[o], out[o], W(o).phase, At(o))
Smooth   == ~setting.rough => Linked = Outs /\ \A o \in Outs : Sound(o)

LEMMA WiredHere ==
  ASSUME BindingInv, NEW o \in Outs
  PROVE  Wired(stream[o], held[o], replies[o], out[o]) /\ W(o).gen \in Nat \ {0} /\ RouteOf(o) \in Outs
BY Routing DEF Wired, BindingInv, WiresTyped, OutsFine, Fine, W, RouteWorkers

AllSound == \A o \in Outs : Sound(o)

\* The worker of an output keeps its phase, or does not come nearer its end with buffers out.
Goes(o) ==
  \/ routeWorker'[RouteOf(o)].phase = W(o).phase
  \/ /\ wait = NoWait
     /\ out[o].pool # 0 => /\ W(o).phase \in Late => routeWorker'[RouteOf(o)].phase \in Late
                           /\ routeWorker'[RouteOf(o)].phase \in Early => W(o).phase \in Early

\* An output the step does not concern.
Alike(o) ==
  /\ stream'[o] = stream[o] /\ held'[o] = held[o] /\ replies'[o] = replies[o] /\ unacked'[o] = unacked[o]
  /\ out'[o].gen = out[o].gen /\ out'[o].pool = out[o].pool /\ At(o)' = At(o) /\ Goes(o)

\* What Sound says of an output after a step.
SoundNext(o) ==
  Orderly(stream'[o], held'[o], replies'[o], unacked'[o], out'[o], routeWorker'[RouteOf(o)].phase,
          IF wait'.out = o THEN wait' ELSE NoWait)

LEMMA SoundThen == ASSUME NEW o, setting' = setting, SoundNext(o) PROVE Sound(o)'
BY DEF SoundNext, Sound, At, W, RouteOf

LEMMA Undisturbed == ASSUME NEW o, Sound(o), setting' = setting, Alike(o) PROVE Sound(o)'
<1> PICK ph2 : ph2 = routeWorker'[RouteOf(o)].phase
  OBVIOUS
<1> PICK y : y = out'[o]
  OBVIOUS
<1>1. out[o].pool # 0 => W(o).phase \notin Early
  BY DEF Sound, Orderly
<1>2. wait = NoWait => At(o) = NoWait
  BY DEF At
<1>3. Orderly(stream[o], held[o], replies[o], unacked[o], y, ph2, At(o))
  BY <1>1, <1>2, Calm DEF Sound, Alike, Goes
<1>4. SoundNext(o)
  BY <1>3 DEF Alike, SoundNext, At
<1> QED BY <1>4, SoundThen

LEMMA NobodyDisturbed == ASSUME AllSound, setting' = setting, \A o \in Outs : Alike(o) PROVE AllSound'
BY Undisturbed DEF AllSound

LEMMA OneDisturbed ==
  ASSUME AllSound, setting' = setting, NEW o \in Outs, SoundNext(o), \A q \in Outs \ {o} : Alike(q)
  PROVE  AllSound'
BY Undisturbed, SoundThen DEF AllSound

\* Of a step without messages: when nobody is disturbed.
LEMMA Quietly ==
  ASSUME UNCHANGED << wires, wait >>, NEW o,
         out'[o].gen = out[o].gen, out'[o].pool = out[o].pool, Goes(o)
  PROVE  Alike(o)
BY DEF Alike, At, wires

LEMMA NeedsKeeps ==
  ASSUME OutsFine, NEW o \in Outs, out' = out \/ out' = [out EXCEPT ![o].needs = TRUE]
  PROVE  \A q \in Outs : out'[q].gen = out[q].gen /\ out'[q].pool = out[q].pool
<1> SUFFICES ASSUME NEW q \in Outs, out' = [out EXCEPT ![o].needs = TRUE]
             PROVE  out'[q].gen = out[q].gen /\ out'[q].pool = out[q].pool
  OBVIOUS
<1>1. out[o] \in OutRecs
  BY DEF OutsFine, Fine
<1>2. out'[q] = IF q = o THEN [out[o] EXCEPT !.needs = TRUE] ELSE out[q]
  BY DEF OutsFine
<1>3. [out[o] EXCEPT !.needs = TRUE].gen = out[o].gen /\ [out[o] EXCEPT !.needs = TRUE].pool = out[o].pool
  BY <1>1 DEF OutRecs
<1> QED BY <1>2, <1>3

\* One worker's phase changes, or nothing does.
LEMMA PhaseMoves ==
  ASSUME BindingInv, NEW r \in Outs, NEW p,
         \/ routeWorker' = routeWorker
         \/ routeWorker' = [routeWorker EXCEPT ![r].frame = FALSE]
         \/ /\ routeWorker' = [routeWorker EXCEPT ![r].phase = p] /\ wait = NoWait
            /\ routeWorker[r].phase \in Late => p \in Late
            /\ p \in Early => routeWorker[r].phase \in Early
  PROVE  \A q \in Outs : Goes(q)
<1> TAKE q \in Outs
<1>1. RouteOf(q) \in Outs /\ routeWorker[RouteOf(q)] \in RouteWorkers /\ routeWorker[r] \in RouteWorkers
  BY WiredHere DEF BindingInv, OutsFine
<1>2. routeWorker \in [Outs -> RouteWorkers]
  BY DEF BindingInv, OutsFine
<1>3. CASE routeWorker' = [routeWorker EXCEPT ![r].frame = FALSE]
  BY <1>1, <1>2, <1>3 DEF Goes, W, RouteWorkers
<1>4. CASE /\ routeWorker' = [routeWorker EXCEPT ![r].phase = p] /\ wait = NoWait
           /\ routeWorker[r].phase \in Late => p \in Late
           /\ p \in Early => routeWorker[r].phase \in Early
  <2>1. routeWorker'[RouteOf(q)].phase = IF RouteOf(q) = r THEN p ELSE routeWorker[RouteOf(q)].phase
    BY <1>1, <1>2, <1>4 DEF RouteWorkers
  <2>2. CASE RouteOf(q) = r
    BY <1>4, <2>1, <2>2 DEF Goes, W, RouteWorkers
  <2> QED BY <2>1, <2>2 DEF Goes, W
<1> QED BY <1>3, <1>4 DEF Goes, W

LEMMA RebindSound ==
  ASSUME BindingInv, AllSound, Linked = Outs, ~setting.rough, wait = NoWait, setting' = setting,
         NEW o \in Outs, Rebind(o)
  PROVE  AllSound'
<1> USE DEF BindingInv
<1>0. /\ RouteOf(o) \in Outs /\ routeWorker \in [Outs -> RouteWorkers]
      /\ stream \in [Outs -> Seq(ToDisplay)] /\ unacked \in [Outs -> SUBSET Nat]
      /\ DOMAIN out = Outs /\ W(o).gen \in Nat \ {0} /\ NoOne \notin Outs
  BY WiredHere, BindingAssumption DEF OutsFine, WiresTyped
<1>1. \A q \in Outs : At(q) = NoWait /\ wait.out # q
  BY <1>0 DEF At, NoWait
<1>2. CASE UnbindRoute(o)
  <2> PICK r : r = RouteOf(o)
    OBVIOUS
  <2> PICK bound : bound = {q \in On(r) : out[q].pool # 0}
    OBVIOUS
  <2>1. CASE bound # {}
    <3>1. PICK q \in First(bound) :
            /\ Unbind(q, out[q].gen, "route")
            /\ stream' = [stream EXCEPT ![q] = Post(q, "unbind", out[q].gen, 0)]
            /\ UNCHANGED << out, routeWorker, edge, loop, held, replies, barrier, wrong, events >>
      BY <1>2, <2>1 DEF UnbindRoute
    <3>2. q \in Outs /\ out[q].pool # 0 /\ RouteOf(q) = r
      BY <3>1 DEF First, On
    <3>3. W(q).phase \in Late
      BY <1>2, <3>2 DEF UnbindRoute, Waits, W, Late
    <3>4. Sound(q) /\ At(q) = NoWait
      BY <1>1, <3>2 DEF AllSound
    <3>5. Orderly(Post(q, "unbind", out[q].gen, 0), held[q], replies[q], unacked[q] \cup {out[q].gen}, out[q],
                  W(q).phase, [out |-> q, gen |-> out[q].gen, then |-> "route"])
      BY <3>2, <3>3, <3>4, WiredHere, Unbinding DEF Sound, Post
    <3>6. wait' = [out |-> q, gen |-> out[q].gen, then |-> "route"] /\ unacked' = [unacked EXCEPT ![q] = @ \cup {out[q].gen}]
      BY <3>1 DEF Unbind
    <3>7. SoundNext(q)
      BY <1>0, <3>1, <3>2, <3>5, <3>6 DEF SoundNext, W
    <3>8. \A z \in Outs \ {q} : Alike(z)
      BY <1>0, <1>1, <3>1, <3>2, <3>6 DEF Alike, At, Goes, W
    <3> QED BY <3>2, <3>7, <3>8, OneDisturbed
  <2>2. CASE bound = {}
    <3>1. /\ out' = [q \in Outs |-> IF q \in On(r) THEN Released(q) ELSE out[q]]
          /\ routeWorker' = [routeWorker EXCEPT ![r].phase = "ending"]
          /\ UNCHANGED << stream, unacked, wait, held, replies, barrier, wrong, events >>
      BY <1>2, <2>2 DEF UnbindRoute
    <3>2. ASSUME NEW q \in Outs PROVE Alike(q)
      <4>1. CASE RouteOf(q) = r
        <5>1. q \in On(r) /\ out[q].pool = 0 /\ out[q] \in OutRecs
          BY <2>2, <4>1 DEF On, OutsFine, Fine
        <5>2. Released(q).gen = out[q].gen /\ Released(q).pool = 0
          BY <5>1 DEF Released, OutRecs
        <5>3. out'[q].gen = out[q].gen /\ out'[q].pool = out[q].pool
          BY <3>1, <5>1, <5>2
        <5> QED BY <3>1, <5>1, <5>3, Quietly DEF Goes, wires
      <4>2. CASE RouteOf(q) # r
        <5>1. q \notin On(r)
          BY <4>2 DEF On
        <5>2. out'[q] = out[q] /\ routeWorker'[RouteOf(q)] = routeWorker[RouteOf(q)]
          BY <1>0, <3>1, <4>2, <5>1, WiredHere
        <5> QED BY <3>1, <5>2, Quietly DEF Goes, wires, W
      <4> QED BY <4>1, <4>2
    <3> QED BY <3>2, NobodyDisturbed
  <2> QED BY <2>1, <2>2
<1>3. CASE NotReady(o)
  <2>1. \A q \in Outs : out'[q].gen = out[q].gen /\ out'[q].pool = out[q].pool
    BY <1>3, NeedsKeeps DEF NotReady
  <2>2. routeWorker' = IF routeWorker[RouteOf(o)].phase = "capable"
                       THEN [routeWorker EXCEPT ![RouteOf(o)].phase = "negotiating"] ELSE routeWorker
    BY <1>3 DEF NotReady, W
  <2>3. \A q \in Outs : Goes(q)
    BY <1>0, <2>2, PhaseMoves DEF Late, Early
  <2> QED BY <1>3, <2>1, <2>3, Quietly, NobodyDisturbed DEF NotReady
<1>4. CASE Unusable(o)
  <2>1. \A q \in Outs : out'[q].gen = out[q].gen /\ out'[q].pool = out[q].pool
    BY <1>4, NeedsKeeps DEF Unusable
  <2>2. \A q \in Outs : Goes(q)
    BY <1>4 DEF Unusable, Goes, W
  <2> QED BY <1>4, <2>1, <2>2, Quietly, NobodyDisturbed DEF Unusable
<1>5. Ready(o) => W(o).phase \in {"pool", "quiescing"}
  BY DEF Ready, HasPool
<1>6. CASE ColdBind(o)
  <2>1. Sound(o) /\ out[o].pool = 0 /\ At(o) = NoWait
    BY <1>1, <1>6 DEF AllSound, ColdBind
  <2>2. Bound(o).gen = out[o].gen + 1 /\ Bound(o).pool = W(o).gen
    BY DEF Bound
  <2>3. Orderly(SendBind(o), held[o], replies[o], unacked[o], Bound(o), W(o).phase, NoWait)
    <3> PICK y : y = Bound(o)
      OBVIOUS
    <3> PICK n : n = W(o).gen
      OBVIOUS
    <3> PICK ph : ph = W(o).phase
      OBVIOUS
    <3>1. y.gen = out[o].gen + 1 /\ y.pool = n /\ n \in Nat \ {0} /\ ph \in {"pool", "quiescing"}
      BY <1>0, <1>5, <1>6, <2>2 DEF ColdBind
    <3>2. Wired(stream[o], held[o], replies[o], out[o])
          /\ Orderly(stream[o], held[o], replies[o], unacked[o], out[o], ph, NoWait)
      BY <2>1, WiredHere DEF Sound
    <3>3. Orderly(Append(stream[o], [ev |-> "bind", gen |-> out[o].gen + 1, pool |-> n]),
                  held[o], replies[o], unacked[o], y, ph, NoWait)
      BY <2>1, <3>1, <3>2, Bound1
    <3> QED BY <3>3 DEF SendBind, Post
  <2>4. SoundNext(o)
    BY <1>0, <1>1, <1>6, <2>3 DEF ColdBind, SoundNext, W
  <2>5. \A q \in Outs \ {o} : Alike(q)
    BY <1>0, <1>6 DEF ColdBind, Alike, At, Goes, W
  <2> QED BY <2>4, <2>5, OneDisturbed
<1>7. CASE WarmBind(o)
  <2>1. Sound(o) /\ out[o].pool # 0 /\ At(o) = NoWait
    BY <1>1, <1>7 DEF AllSound, WarmBind
  <2>2. /\ wait' = [out |-> o, gen |-> out[o].gen, then |-> "warm"]
        /\ unacked' = [unacked EXCEPT ![o] = @ \cup {out[o].gen}]
        /\ stream' = [stream EXCEPT ![o] =
                        Append(SendBind(o), [ev |-> "unbind", gen |-> out[o].gen, pool |-> 0])]
        /\ routeWorker' = [routeWorker EXCEPT ![RouteOf(o)].frame = FALSE]
        /\ UNCHANGED << out, held, replies >>
    BY <1>7 DEF WarmBind, Unbind, TakeFrame
  <2> PICK n : n = W(o).gen
    OBVIOUS
  <2> PICK vn : vn = unacked[o] \cup {out[o].gen}
    OBVIOUS
  <2>3. Orderly(Append(SendBind(o), [ev |-> "unbind", gen |-> out[o].gen, pool |-> 0]),
                held[o], replies[o], vn, out[o], W(o).phase,
                [out |-> o, gen |-> out[o].gen, then |-> "warm"])
    <3>1. Orderly(stream[o], held[o], replies[o], unacked[o], out[o], W(o).phase, NoWait)
          /\ Wired(stream[o], held[o], replies[o], out[o]) /\ W(o).phase \in {"pool", "quiescing"} /\ n \in Nat
      BY <1>0, <1>5, <1>7, <2>1, WiredHere DEF Sound, WarmBind
    <3>2. Orderly(Append(Append(stream[o], [ev |-> "bind", gen |-> out[o].gen + 1, pool |-> n]),
                         [ev |-> "unbind", gen |-> out[o].gen, pool |-> 0]), held[o], replies[o], vn, out[o], W(o).phase,
                  [out |-> o, gen |-> out[o].gen, then |-> "warm"])
      BY <2>1, <3>1, Warming
    <3> QED BY <3>2 DEF SendBind, Post
  <2>4. \A q \in Outs : routeWorker'[RouteOf(q)].phase = W(q).phase
    BY <1>0, <2>2, WiredHere DEF W, RouteWorkers
  <2>5. SoundNext(o)
    BY <1>0, <2>2, <2>3, <2>4 DEF SoundNext
  <2>6. \A q \in Outs \ {o} : Alike(q)
    BY <1>0, <1>1, <2>2, <2>4 DEF Alike, At, Goes
  <2> QED BY <2>5, <2>6, OneDisturbed
<1> QED BY <1>2, <1>3, <1>4, <1>6, <1>7 DEF Rebind, BindFails, FrameFails

\* The waits for an acknowledgement.
LEMMA WaitSound ==
  ASSUME BindingInv, AllSound, ~setting.rough, WaitReads \/ WaitEnds
  PROVE  AllSound'
<1> USE DEF BindingInv
<1> PICK o : o = wait.out
  OBVIOUS
<1>0. wait # NoWait /\ setting' = setting
  BY DEF WaitReads, WaitEnds
<1>1. o \in Outs /\ wait.gen \in Nat /\ wait.then \in {"route", "warm", "undo"} /\ At(o) = wait
  BY <1>0 DEF PlacesTyped, WaitsFor, At
<1>2. Sound(o) /\ wait.then \in {"route", "warm"}
  BY <1>1 DEF AllSound, Sound, Orderly, NoOne
<1>3. /\ routeWorker \in [Outs -> RouteWorkers] /\ DOMAIN out = Outs /\ NoOne \notin Outs
      /\ replies \in [Outs -> Seq(ToDaemon)] /\ unacked \in [Outs -> SUBSET Nat]
      /\ W(o).gen \in Nat \ {0} /\ \A q \in Outs \ {o} : At(q) = NoWait
  BY <1>1, WiredHere, BindingAssumption DEF OutsFine, WiresTyped, At
<1>4. CASE WaitReads
  <2>1. PICK i \in FirstAcks(o) :
          /\ unacked' = [unacked EXCEPT ![o] = @ \ {replies[o][i].gen}]
          /\ replies' = [replies EXCEPT ![o] = Dropped(@, i)]
          /\ UNCHANGED << setting, links, out, stream, held, routeWorker, edge, barrier, loop, wait, wrong, events >>
          /\ wait.gen \in unacked[o]
    BY <1>4 DEF WaitReads
  <2>2. i \in DOMAIN replies[o] /\ replies[o][i].ev = "ack"
    BY <2>1 DEF FirstAcks, IsAck
  <2> PICK b : b = Dropped(replies[o], i)
    OBVIOUS
  <2> PICK vn : vn = unacked[o] \ {replies[o][i].gen}
    OBVIOUS
  <2>3. Among(b, replies[o])
    BY <1>1, <1>3, <2>2, DroppedTypes DEF Among
  <2>4. wait.gen \in vn \/ Acked(replies[o], wait.gen)
    BY <2>1, <2>2 DEF Acked
  <2>5. Orderly(stream[o], held[o], b, vn, out[o], W(o).phase, wait)
    BY <1>1, <1>2, <2>3, <2>4, FewerReplies DEF Sound
  <2>6. SoundNext(o)
    BY <1>1, <1>3, <2>1, <2>5 DEF SoundNext, W
  <2>7. \A q \in Outs \ {o} : Alike(q)
    BY <1>1, <1>3, <2>1 DEF Alike, At, Goes, W
  <2> QED BY <1>0, <1>1, <2>6, <2>7, OneDisturbed
<1>5. CASE WaitEnds
  <2>1. wait' = NoWait /\ UNCHANGED << setting, links, wires, routeWorker, edge, barrier, wrong, events >>
    BY <1>5 DEF WaitEnds
  <2>2. \A q \in Outs \ {o} : At(q)' = At(q)
    BY <1>3, <2>1 DEF At, NoWait
  <2>3. \/ wait.then = "route" /\ wait.gen \notin unacked[o] /\ out' = [out EXCEPT ![o] = Released(o)]
        \/ wait.then = "route" /\ out' = out
        \/ wait.then = "warm" /\ out' = [out EXCEPT ![o] = Bound(o)]
    BY <1>2, <1>5 DEF WaitEnds, Answered
  <2>4. \A q \in Outs \ {o} : Alike(q)
    BY <1>1, <1>3, <2>1, <2>2, <2>3 DEF Alike, Goes, W, wires
  <2>5. out[o] \in OutRecs /\ Wired(stream[o], held[o], replies[o], out[o])
    BY <1>1, WiredHere DEF Wired
  <2> PICK ph : ph = W(o).phase
    OBVIOUS
  <2>6. Orderly(stream[o], held[o], replies[o], unacked[o], out'[o], ph, NoWait)
    <3>1. Orderly(stream[o], held[o], replies[o], unacked[o], out[o], ph, wait)
      BY <1>1, <1>2 DEF Sound
    <3>2. CASE wait.then = "route" /\ wait.gen \notin unacked[o] /\ out' = [out EXCEPT ![o] = Released(o)]
      <4> PICK y : y = Released(o)
        OBVIOUS
      <4>1. y.gen = out[o].gen /\ y.pool = 0
        BY <2>5 DEF Released, OutRecs
      <4>2. Clear(stream[o], held[o])
        BY <3>1, <3>2 DEF Orderly
      <4>3. Orderly(stream[o], held[o], replies[o], unacked[o], y, ph, NoWait)
        BY <3>1, <3>2, <4>1, <4>2, Freed
      <4> QED BY <1>1, <1>3, <3>2, <4>3
    <3>3. CASE wait.then = "route" /\ out' = out
      BY <3>1, <3>3, GaveUp
    <3>4. CASE wait.then = "warm" /\ out' = [out EXCEPT ![o] = Bound(o)]
      <4> PICK y : y = Bound(o)
        OBVIOUS
      <4>1. y.gen = out[o].gen + 1 /\ y.pool # 0
        BY <1>3 DEF Bound
      <4>2. Orderly(stream[o], held[o], replies[o], unacked[o], y, ph, NoWait)
        BY <2>5, <3>1, <3>4, <4>1, Warmed
      <4> QED BY <1>1, <1>3, <3>4, <4>2
    <3> QED BY <2>3, <3>2, <3>3, <3>4
  <2>7. SoundNext(o)
    BY <1>1, <1>3, <2>1, <2>6 DEF SoundNext, W, wires, NoWait
  <2> QED BY <1>0, <1>1, <2>4, <2>7, OneDisturbed
<1> QED BY <1>4, <1>5

\* What the displays answer.
LEMMA ReadSound ==
  ASSUME BindingInv, AllSound, ~setting.rough, NEW o \in Outs, Reads(o)
  PROVE  AllSound'
<1> USE DEF BindingInv
<1>0. wait = NoWait /\ replies[o] # << >> /\ setting' = setting
  BY DEF Reads, HandleAck, HandleReject, Resumes
<1>1. /\ routeWorker \in [Outs -> RouteWorkers] /\ DOMAIN out = Outs /\ NoOne \notin Outs
      /\ replies \in [Outs -> Seq(ToDaemon)] /\ unacked \in [Outs -> SUBSET Nat]
      /\ Sound(o) /\ At(o) = NoWait /\ RouteOf(o) \in Outs
  BY <1>0, Routing, BindingAssumption DEF OutsFine, WiresTyped, At, AllSound
<1> PICK b : b = Tail(replies[o])
  OBVIOUS
<1>2. /\ Head(replies[o]) = replies[o][1] /\ 1 \in DOMAIN replies[o]
      /\ Among(b, replies[o])
  BY <1>0, <1>1, Tailed DEF Among
<1>3. \A vn : Orderly(stream[o], held[o], b, vn, out[o], W(o).phase, NoWait)
  <2> TAKE vn
  <2>1. PICK w : w = NoWait
    OBVIOUS
  <2>2. w.then # "route"
    BY <2>1, Threes
  <2>3. Orderly(stream[o], held[o], replies[o], unacked[o], out[o], W(o).phase, w)
    BY <1>1, <2>1 DEF Sound
  <2>4. Orderly(stream[o], held[o], b, vn, out[o], W(o).phase, w)
    BY <1>2, <2>2, <2>3, FewerReplies
  <2> QED BY <2>1, <2>4
<1>4. CASE HandleAck(o)
  <2> PICK g : g = Head(replies[o]).gen
    OBVIOUS
  <2> PICK vn : vn = unacked[o] \ {g}
    OBVIOUS
  <2>0. /\ Head(replies[o]).ev = "ack" /\ replies' = [replies EXCEPT ![o] = b]
        /\ UNCHANGED << setting, links, stream, held, routeWorker, barrier, loop, wait, wrong, events >>
        /\ unacked' = [unacked EXCEPT ![o] = @ \ {g}]
        /\ \/ out' = out
           \/ g = out[o].gen /\ out' = [out EXCEPT ![o] = Released(o)]
    BY <1>4, Zenon DEF HandleAck, FreesRoute, IsAck
  <2>1. /\ Head(replies[o]).ev = "ack" /\ replies' = [replies EXCEPT ![o] = b]
        /\ unacked' = [unacked EXCEPT ![o] = vn]
        /\ \/ out' = out
           \/ g = out[o].gen /\ out' = [out EXCEPT ![o] = Released(o)]
        /\ UNCHANGED << setting, links, stream, held, routeWorker, barrier, loop, wait, wrong, events >>
    BY <2>0
  <2>2. Orderly(stream[o], held[o], b, vn, out'[o], W(o).phase, NoWait)
    <3>1. CASE out' = [out EXCEPT ![o] = Released(o)] /\ g = out[o].gen
      <4> PICK y : y = Released(o)
        OBVIOUS
      <4>1. y.gen = out[o].gen /\ y.pool = 0
        BY DEF OutsFine, Fine, Released, OutRecs
      <4>2. Acked(replies[o], out[o].gen)
        BY <1>2, <2>1, <3>1 DEF Acked
      <4>3. Clear(stream[o], held[o])
        BY <1>1, <4>2, Threes DEF Sound, Orderly
      <4>4. Orderly(stream[o], held[o], b, vn, y, W(o).phase, NoWait)
        BY <1>3, <4>1, <4>3, Threes, Freed
      <4> QED BY <1>1, <3>1, <4>4
    <3> QED BY <1>3, <2>1, <3>1
  <2>3. SoundNext(o)
    BY <1>0, <1>1, <2>1, <2>2 DEF SoundNext, W
  <2>4. \A q \in Outs \ {o} : Alike(q)
    BY <1>0, <1>1, <2>1 DEF Alike, At, Goes, W
  <2> QED BY <1>0, <2>3, <2>4, OneDisturbed
<1>5. CASE HandleReject(o)
  <2>1. /\ replies' = [replies EXCEPT ![o] = b]
        /\ out' = out \/ out' = [out EXCEPT ![o].needs = TRUE]
        /\ \/ routeWorker' = routeWorker
           \/ /\ routeWorker' = [routeWorker EXCEPT ![RouteOf(o)].phase = "quiescing"]
              /\ routeWorker[RouteOf(o)].phase \in {"negotiating", "pool"}
        /\ UNCHANGED << setting, links, stream, held, unacked, edge, barrier, loop, wait, wrong, events >>
    BY <1>5 DEF HandleReject, RetireRoute
  <2>2. \A q \in Outs : Goes(q)
    <3>1. "quiescing" \notin Early /\ "negotiating" \notin Late /\ "pool" \notin Late
      BY DEF Late, Early
    <3>2. CASE routeWorker' = routeWorker
      BY <3>2 DEF Goes, W
    <3>3. CASE /\ routeWorker' = [routeWorker EXCEPT ![RouteOf(o)].phase = "quiescing"]
               /\ routeWorker[RouteOf(o)].phase \in {"negotiating", "pool"}
      <4>1. /\ routeWorker[RouteOf(o)].phase \in Late => "quiescing" \in Late
            /\ "quiescing" \in Early => routeWorker[RouteOf(o)].phase \in Early
        BY <3>1, <3>3
      <4> QED BY <1>0, <1>1, <3>3, <4>1, PhaseMoves
    <3> QED BY <2>1, <3>2, <3>3
  <2>3. \A q \in Outs : out'[q].gen = out[q].gen /\ out'[q].pool = out[q].pool
    BY <2>1, NeedsKeeps
  <2>4. \A q \in Outs \ {o} : Alike(q)
    BY <1>0, <1>1, <2>1, <2>2, <2>3 DEF Alike, At
  <2> PICK ph2 : ph2 = routeWorker'[RouteOf(o)].phase
    OBVIOUS
  <2> PICK y : y = out'[o]
    OBVIOUS
  <2>5. out[o].pool # 0 => W(o).phase \notin Early
    BY <1>1 DEF Sound, Orderly
  <2>6. Orderly(stream[o], held[o], b, unacked[o], y, ph2, NoWait)
    BY <1>0, <1>3, <2>2, <2>3, <2>5, Calm DEF Goes
  <2>7. SoundNext(o)
    BY <1>0, <1>1, <2>1, <2>6 DEF SoundNext
  <2> QED BY <1>0, <2>4, <2>7, OneDisturbed
<1> QED BY <1>4, <1>5 DEF Reads

LEMMA DisplaySound ==
  ASSUME BindingInv, AllSound, NEW o \in Outs, Shows(o) \/ Rejects(o)
  PROVE  AllSound'
<1> USE DEF BindingInv
<1> PICK m : m = Head(stream[o])
  OBVIOUS
<1>0. /\ stream[o] # << >> /\ m.ev \in {"bind", "unbind"}
      /\ UNCHANGED << setting, links, out, unacked, routeWorker, edge, barrier, loop, wait, wrong >>
      /\ stream' = [stream EXCEPT ![o] = Tail(@)]
  BY DEF Shows, Imports, GivesBack, Rejects
<1>1. /\ stream \in [Outs -> Seq(ToDisplay)] /\ held \in [Outs -> SUBSET Holdings]
      /\ replies \in [Outs -> Seq(ToDaemon)] /\ Sound(o) /\ Wired(stream[o], held[o], replies[o], out[o])
      /\ m.gen \in Nat
  <2>1. m \in ToDisplay
    BY <1>0, Tailed DEF WiresTyped
  <2> QED BY <2>1, WiredHere DEF WiresTyped, AllSound, ToDisplay
<1> PICK w : w = At(o)
  OBVIOUS
<1>2. Orderly(stream[o], held[o], replies[o], unacked[o], out[o], W(o).phase, w)
  BY <1>1 DEF Sound
<1>3. ASSUME NEW k, NEW a, held' = [held EXCEPT ![o] = k], replies' = [replies EXCEPT ![o] = a],
             Orderly(Tail(stream[o]), k, a, unacked[o], out[o], W(o).phase, w)
      PROVE  AllSound'
  <2>1. SoundNext(o)
    BY <1>0, <1>1, <1>3 DEF SoundNext, W, At
  <2>2. \A q \in Outs \ {o} : Alike(q)
    BY <1>0, <1>1, <1>3 DEF Alike, At, Goes, W
  <2> QED BY <1>0, <2>1, <2>2, OneDisturbed
<1>4. held = [held EXCEPT ![o] = held[o]] /\ replies = [replies EXCEPT ![o] = replies[o]]
  BY <1>1
<1>5. CASE Imports(o)
  <2> PICK k : k = held[o] \cup {[gen |-> m.gen, pool |-> m.pool]}
    OBVIOUS
  <2>1. \A b \in k : b \in held[o] \/ b.gen = m.gen
    OBVIOUS
  <2>2. Orderly(Tail(stream[o]), k, replies[o], unacked[o], out[o], W(o).phase, w)
    BY <1>0, <1>1, <1>2, <1>5, <2>1, Taken DEF Imports
  <2> QED BY <1>3, <1>4, <1>5, <2>2 DEF Imports
<1>6. CASE Rejects(o)
  <2> PICK r : r = [ev |-> "reject", gen |-> m.gen]
    OBVIOUS
  <2> PICK a : a = Append(replies[o], r)
    OBVIOUS
  <2>1. r \in ToDaemon /\ r.ev = "reject"
    BY <1>1 DEF ToDaemon
  <2>2. Orderly(Tail(stream[o]), held[o], replies[o], unacked[o], out[o], W(o).phase, w)
    BY <1>0, <1>1, <1>2, <1>6, Taken DEF Rejects
  <2>3. /\ DOMAIN a = DOMAIN replies[o] \cup {Len(replies[o]) + 1}
        /\ \A i \in DOMAIN replies[o] : a[i] = replies[o][i]
        /\ a[Len(replies[o]) + 1] = r
    BY <1>1, <2>1, Appended
  <2>4. \A g : Acked(a, g) => Acked(replies[o], g)
    BY <2>1, <2>3 DEF Acked
  <2>5. \A s, h, g, top : Tidy(s, h, replies[o], g, top) => Tidy(s, h, a, g, top)
    BY <2>1, <2>3 DEF Tidy
  <2>6. Orderly(Tail(stream[o]), held[o], a, unacked[o], out[o], W(o).phase, w)
    BY <2>2, <2>4, <2>5 DEF Orderly
  <2>7. held' = held /\ replies' = [replies EXCEPT ![o] = a]
    BY <1>6 DEF Rejects, Reply
  <2> QED BY <1>3, <1>4, <2>6, <2>7
<1>7. CASE GivesBack(o)
  <2> PICK k : k = {b \in held[o] : b.gen # m.gen}
    OBVIOUS
  <2> PICK a : a = Append(replies[o], [ev |-> "ack", gen |-> m.gen])
    OBVIOUS
  <2>1. Orderly(Tail(stream[o]), k, a, unacked[o], out[o], W(o).phase, w)
    BY <1>0, <1>1, <1>2, <1>7, GivenBack DEF GivesBack
  <2>2. held' = [held EXCEPT ![o] = k] /\ replies' = [replies EXCEPT ![o] = a]
    BY <1>7 DEF GivesBack, Reply
  <2> QED BY <1>3, <2>1, <2>2
<1> QED BY <1>5, <1>6, <1>7 DEF Shows

LEMMA WorkerSound ==
  ASSUME BindingInv, AllSound, Linked = Outs, NEW r \in Outs, Runs(r) \/ Frame(r) \/ Crash(r)
  PROVE  AllSound'
<1> USE DEF BindingInv
<1>0. routeWorker \in [Outs -> RouteWorkers] /\ routeWorker[r] \in RouteWorkers
  BY DEF OutsFine
<1>1. ASSUME NEW from, NEW w, WorkerTo(r, from, w),
             w.phase = routeWorker[r].phase
               \/ (On(r) # {} => /\ routeWorker[r].phase \in Late => w.phase \in Late
                                 /\ w.phase \in Early => routeWorker[r].phase \in Early)
      PROVE  AllSound'
  <2>1. /\ routeWorker' = [routeWorker EXCEPT ![r] = w] /\ wait = NoWait
        /\ UNCHANGED << setting, links, out, wires, barrier, loop, wait, wrong >>
    BY <1>1 DEF WorkerTo, Resumes
  <2>2. ASSUME NEW o \in Outs PROVE Alike(o)
    <3>1. RouteOf(o) \in Outs
      BY WiredHere
    <3>2. CASE RouteOf(o) = r
      <4>1. On(r) # {}
        BY <3>2 DEF On
      <4>2. routeWorker'[RouteOf(o)] = w /\ W(o) = routeWorker[r]
        BY <1>0, <2>1, <3>2 DEF W
      <4> QED BY <1>1, <2>1, <4>1, <4>2, Quietly DEF Goes
    <3>3. CASE RouteOf(o) # r
      <4>1. routeWorker'[RouteOf(o)] = W(o)
        BY <1>0, <2>1, <3>1, <3>3 DEF W
      <4> QED BY <2>1, <4>1, Quietly DEF Goes
    <3> QED BY <3>2, <3>3
  <2> QED BY <2>1, <2>2, NobodyDisturbed
<1> PICK w : w = routeWorker[r]
  OBVIOUS
<1>2. [w EXCEPT !.phase = "capable"].phase = "capable" /\ [w EXCEPT !.frame = TRUE, !.fresh = FALSE].phase = w.phase
  BY <1>0 DEF RouteWorkers
<1>3. \A g, p : Ended(r, p, g).phase = IF On(r) = {} THEN "ending" ELSE p
  BY <1>0 DEF Ended, RouteWorkers
<1>4. \A g : [w EXCEPT !.phase = "pool", !.gen = g, !.pool = g, !.fresh = TRUE].phase = "pool"
  BY <1>0 DEF RouteWorkers
<1>5. \A g : Started(g).phase = "starting"
  BY DEF Started
<1>6. /\ "capable" \in Early /\ "capable" \notin Late /\ "starting" \in Early /\ "starting" \notin Late
      /\ "pool" \notin Early /\ "negotiating" \notin Late /\ "quiescing" \notin Late /\ "pool" \notin Late
      /\ "waiting" \in Late /\ "waiting" \notin Early /\ "crashed" \in Late /\ "crashed" \notin Early
      /\ "buried" \in Late /\ "buried" \notin Early /\ "ending" \in Early /\ "ending" \notin Late
  BY DEF Late, Early
<1>7. CASE Capable(r)
  <2>1. WorkerTo(r, {"starting"}, [w EXCEPT !.phase = "capable"]) /\ w.phase = "starting"
    BY <1>7 DEF Capable, WorkerTo
  <2> QED BY <1>1, <1>2, <1>6, <2>1
<1>8. CASE PoolReady(r)
  <2> PICK g : g = routeWorker[r].gen + 1
    OBVIOUS
  <2>1. WorkerTo(r, {"negotiating"}, [w EXCEPT !.phase = "pool", !.gen = g, !.pool = g, !.fresh = TRUE])
        /\ w.phase = "negotiating"
    BY <1>8 DEF PoolReady, WorkerTo
  <2> QED BY <1>1, <1>4, <1>6, <2>1
<1>9. CASE Frame(r)
  BY <1>1, <1>2, <1>9 DEF Frame
<1>10. CASE Quiesced(r)
  <2>1. WorkerTo(r, {"quiescing"}, Ended(r, "waiting", routeWorker[r].gen + 1)) /\ w.phase = "quiescing"
    BY <1>10 DEF Quiesced, WorkerTo
  <2> QED BY <1>1, <1>3, <1>6, <2>1
<1>11. CASE Crash(r)
  <2>1. WorkerTo(r, {"pool"}, Ended(r, "crashed", routeWorker[r].gen + 1)) /\ w.phase = "pool"
    BY <1>11 DEF Crash, WorkerTo
  <2> QED BY <1>1, <1>3, <1>6, <2>1
<1>12. CASE Buried(r)
  <2>1. WorkerTo(r, {"crashed"}, Ended(r, "buried", routeWorker[r].gen)) /\ w.phase = "crashed"
    BY <1>12 DEF Buried, WorkerTo
  <2> QED BY <1>1, <1>3, <1>6, <2>1
<1>13. CASE Reaped(r)
  <2>1. WorkerTo(r, {"ending"}, Started(routeWorker[r].gen)) /\ w.phase = "ending"
    BY <1>13 DEF Reaped, WorkerTo
  <2> QED BY <1>1, <1>5, <1>6, <2>1
<1> QED BY <1>7, <1>8, <1>9, <1>10, <1>11, <1>12, <1>13 DEF Runs

\* Steps of the main loop and updates that send nothing.
LEMMA LoopSound ==
  ASSUME BindingInv, AllSound,
         \/ TickForward \/ TickNothing \/ RebindAll
         \/ \E o \in Outs : Dispatch(o) \/ Update(o)
         \/ UNCHANGED << setting, out, wires, routeWorker, wait >>
  PROVE  AllSound'
<1> USE DEF BindingInv
<1>0. DOMAIN out = Outs /\ routeWorker \in [Outs -> RouteWorkers] /\ \A q \in Outs : out[q] \in OutRecs
  BY DEF OutsFine, Fine
<1>1. UNCHANGED << setting, wires, wait >>
  BY DEF TickForward, TickNothing, RebindAll, Dispatch, Update
<1>2. \A q \in Outs : out'[q].gen = out[q].gen /\ out'[q].pool = out[q].pool
  <2> TAKE q \in Outs
  <2> PICK x : x = out[q]
    OBVIOUS
  <2>1. /\ [x EXCEPT !.needs = TRUE].gen = x.gen /\ [x EXCEPT !.needs = TRUE].pool = x.pool
        /\ [x EXCEPT !.first = FALSE].gen = x.gen /\ [x EXCEPT !.first = FALSE].pool = x.pool
    BY <1>0 DEF OutRecs
  <2>2. out'[q] \in {x, [x EXCEPT !.needs = TRUE], [x EXCEPT !.first = FALSE]}
    BY <1>0 DEF TickForward, TickNothing, RebindAll, Dispatch, Update
  <2> QED BY <2>1, <2>2
<1>3. \A q \in Outs : Goes(q)
  <2>1. \/ routeWorker' = routeWorker
        \/ loop.route \in Outs /\ routeWorker' = [routeWorker EXCEPT ![loop.route].frame = FALSE]
    BY DEF TickForward, TickNothing, RebindAll, Dispatch, Update, Ticks, PlacesTyped, Placed
  <2>2. CASE routeWorker' = routeWorker
    BY <2>2 DEF Goes, W
  <2>3. CASE loop.route \in Outs /\ routeWorker' = [routeWorker EXCEPT ![loop.route].frame = FALSE]
    BY <2>3, PhaseMoves
  <2> QED BY <2>1, <2>2, <2>3
<1> QED BY <1>1, <1>2, <1>3, Quietly, NobodyDisturbed

LEMMA TicksSound ==
  ASSUME BindingInv, AllSound, Linked = Outs, ~setting.rough, TickRebind \/ AllNext
  PROVE  AllSound'
<1> USE DEF BindingInv
<1>1. wait = NoWait /\ setting' = setting
  BY DEF TickRebind, AllNext, Ticks
<1>2. (\E o \in Outs : Rebind(o)) \/ UNCHANGED << setting, out, wires, routeWorker, wait >>
  <2>1. CASE TickRebind
    <3>1. PICK o \in Attempted(loop.route) : Rebind(o)
      BY <2>1 DEF TickRebind
    <3>2. o \in Outs
      BY <3>1 DEF Attempted, First, Wanting, On
    <3> QED BY <3>1, <3>2
  <2>2. CASE AllNext
    <3>1. PICK o \in First(loop.left) : Rebind(o) \/ UNCHANGED << out, wires, routeWorker, wait >>
      BY <2>2 DEF AllNext
    <3>2. o \in Outs
      BY <3>1 DEF First, PlacesTyped, Placed, Positions
    <3> QED BY <1>1, <3>1, <3>2
  <2> QED BY <2>1, <2>2
<1> QED BY <1>1, <1>2, RebindSound, LoopSound

\* Nothing joins or leaves while the displays stay.
LEMMA LinksStay ==
  ASSUME BindingNext, ~setting.rough
  PROVE  links' = links /\ setting' = setting
BY DEF BindingNext, MainLoop, TickRebind, TickForward, TickNothing, AllNext, WaitReads, WaitEnds, Disturbs,
       RebindAll, Update, Leave, Join, Rejects, Crash, WorkerTo, Dispatch, Reads, HandleAck, HandleReject,
       Runs, Capable, PoolReady, Quiesced, Buried, Reaped, Frame, Shows, Imports, GivesBack

LEMMA StepSound ==
  ASSUME BindingInv, AllSound, Linked = Outs, ~setting.rough, BindingNext
  PROVE  AllSound'
<1>1. CASE MainLoop
  BY <1>1, TicksSound, LoopSound, WaitSound DEF MainLoop
<1>2. CASE Disturbs
  <2>1. ASSUME NEW o \in Outs PROVE ~Leave(o) /\ ~Join(o)
    BY DEF Leave, Join
  <2> QED BY <1>2, <2>1, LoopSound, DisplaySound, WorkerSound DEF Disturbs
<1>3. CASE \E o \in Outs : Dispatch(o) \/ Reads(o) \/ Runs(o) \/ Frame(o) \/ Shows(o)
  BY <1>3, LoopSound, ReadSound, WorkerSound, DisplaySound
<1> QED BY <1>1, <1>2, <1>3 DEF BindingNext

LEMMA SmoothStep == ASSUME BindingInv, Smooth, [BindingNext]_bindingVars PROVE Smooth'
<1>1. CASE UNCHANGED bindingVars
  BY <1>1 DEF bindingVars, wires, Smooth, Sound, Linked, W, RouteOf, At
<1>2. CASE BindingNext /\ ~setting.rough
  <2>1. Linked' = Linked
    BY <1>2, LinksStay DEF Linked
  <2> QED BY <1>2, <2>1, LinksStay, StepSound DEF Smooth, AllSound
<1>3. CASE BindingNext /\ setting.rough
  BY <1>3, StepKept DEF Kept, StepKinds, Smooth
<1> QED BY <1>1, <1>2, <1>3

LEMMA SmoothInit == BindingInit => Smooth
<1> SUFFICES ASSUME BindingInit PROVE Smooth
  OBVIOUS
<1> USE DEF BindingInit
<1>1. ASSUME NEW o \in Outs PROVE Sound(o)
  <2>1. At(o) = NoWait /\ out[o].gen = 1 /\ out[o].pool = 0 /\ stream[o] = << >> /\ replies[o] = << >> /\ held[o] = {}
    BY DEF At, NewOut
  <2>2. DOMAIN stream[o] = {} /\ DOMAIN replies[o] = {}
    BY <2>1
  <2> QED BY <2>1, <2>2, Threes DEF Sound, Orderly, Tidy, InOrder, Clear, Acked, Backed, Last
<1> QED BY <1>1 DEF Smooth

\* A worker is told that it may end, and its buffers go, only when no display has them
\* and none is on its way to import them.  The argument is about one output: a stream
\* takes back what it bound in order, so an acknowledgement of the last binding says
\* that everything was given back, even if it was read late or for an older one.
THEOREM EndsUnread == BindingSpec => []WorkerEndsUnread
<1>1. ASSUME BindingInv, Smooth PROVE WorkerEndsUnread
  <2>1. SUFFICES ASSUME ~setting.rough, NEW o \in Outs, W(o).phase = "ending"
                 PROVE  Clear(stream[o], held[o])
    BY <1>1 DEF WorkerEndsUnread, Smooth, Clear
  <2>2. Sound(o)
    BY <1>1, <2>1 DEF Smooth
  <2> QED BY <2>1, <2>2 DEF Sound, Orderly, Early
<1> QED BY <1>1, BindingInitInv, BindingStep, SmoothInit, SmoothStep, PTL DEF BindingSpec
=============================================================================
