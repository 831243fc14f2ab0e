----------------------------- MODULE RouteBinding -----------------------------
(***************************************************************************)
(* How the daemon binds the outputs of its displays to the buffers of the  *)
(* workers.  A route has a worker of its own per output, or one worker for *)
(* all outputs (clone mode).  Nothing polls: a route is looked at when     *)
(* something happened to its worker (an edge), and one pass over it binds, *)
(* rebinds, forwards a frame, or asks the consumers to give buffers back   *)
(* and waits a moment for their answers.  While one output waits for a     *)
(* worker to be set up, a process-wide barrier holds the others back.      *)
(*                                                                         *)
(* A worker is modelled by what a route sees of it (module RendererOwner   *)
(* models the rest); each output belongs to a display of its own.          *)
(***************************************************************************)
EXTENDS Integers, Sequences, FiniteSets

NoOne == "none"

CONSTANTS
  Outs,      \* outputs, and the routes of their own
  MaxEvents  \* updates, rejections, crashes, departures, arrivals, failed sends

ASSUME BindingAssumption ==
  Outs # {} /\ IsFiniteSet(Outs) /\ NoOne \notin Outs /\ MaxEvents \in Nat

VARIABLES
  setting,  \* cloned: all outputs share one route; painting: playback goes on;
            \* rough: displays leave and sends fail; unfit: outputs that cannot
            \* import the worker's buffers
  links,    \* route_table.links, in order
  out,      \* Output: [gen, pool, seen, needs, first]
  stream,   \* BIND_BUFFERS and UNBIND events on their way to an output's display
  held,     \* [gen, pool] the display has imported
  replies,  \* UNBIND_DONE and BIND_FAILED on their way to the daemon
  unacked,  \* unbind_acks: generations whose UNBIND was not acknowledged
  routeWorker, \* of a route: [phase, gen, pool, frame, fresh]
  edge,     \* routes whose progress source is scheduled
  barrier,  \* renderer_rebind_barrier_output_id
  loop,     \* what the main loop is at: [at, route, left, idle, gated]
  wait,     \* client_wait_unbind_ack: [out, gen, then]
  wrong,    \* a frame went to a display that was not bound to its buffers
  events

wires       == << stream, held, replies, unacked >>
bindingVars == << setting, links, out, wires, routeWorker, edge, barrier, loop, wait, wrong, events >>

Primary    == CHOOSE o \in Outs : TRUE
RouteOf(o) == IF setting.cloned THEN Primary ELSE o
Linked     == {links[i] : i \in DOMAIN links}
On(r)      == {o \in Linked : RouteOf(o) = r}
First(S)   == {o \in S : \E i \in DOMAIN links : links[i] = o /\ \A j \in 1 .. (i - 1) : links[j] \notin S}
Dropped(s, i) == [j \in 1 .. (Len(s) - 1) |-> IF j < i THEN s[j] ELSE s[j + 1]]
W(o)       == routeWorker[RouteOf(o)]

Resting == [at |-> "rest", route |-> NoOne, left |-> {}, idle |-> 0, gated |-> {}]
NoWait  == [out |-> NoOne, gen |-> 0, then |-> NoOne]
Resumes == loop.at = "rest" /\ wait = NoWait
NewOut  == [gen |-> 1, pool |-> 0, seen |-> 0, needs |-> TRUE, first |-> FALSE]
\* Mutant of Started: each worker numbers its buffers from the start.
StartedAfresh(g) == [phase |-> "starting", gen |-> 1, pool |-> 0, frame |-> FALSE, fresh |-> FALSE]
Started(g) == [phase |-> "starting", gen |-> g, pool |-> 0, frame |-> FALSE, fresh |-> FALSE]

BindingInit ==
  /\ setting \in [cloned : BOOLEAN, painting : BOOLEAN, rough : BOOLEAN, unfit : SUBSET Outs]
  /\ links \in [1 .. Cardinality(Outs) -> Outs] /\ Linked = Outs
  /\ out = [o \in Outs |-> NewOut]
  /\ stream = [o \in Outs |-> << >>] /\ replies = [o \in Outs |-> << >>]
  /\ held = [o \in Outs |-> {}] /\ unacked = [o \in Outs |-> {}]
  /\ routeWorker = [o \in Outs |-> Started(1)]
  /\ edge = {} /\ barrier = NoOne /\ loop = Resting /\ wait = NoWait
  /\ wrong = FALSE /\ events = 0

Event == events < MaxEvents /\ events' = events + 1
Post(o, ev, g, p) == Append(stream[o], [ev |-> ev, gen |-> g, pool |-> p])

-----------------------------------------------------------------------------
(* The barrier.                                                            *)

\* output_needs_renderer_rebind
Needs(o) == out[o].needs \/ out[o].seen # W(o).gen

\* producer_renderer_rebind_barrier_blocks: a holder that is gone or has been
\* bound does not count.
Blocked(o) == barrier \in Linked /\ out[barrier].needs /\ barrier # o

\* Mutant of Resumed: the edges that came to nothing are not made up for.
ResumedNot(o) == {}
\* producer_resume_outputs_blocked_by_rebind_barrier
Resumed(o) == IF barrier = o THEN {RouteOf(q) : q \in {p \in Linked \ {o} : Needs(p)}} ELSE {}

\* producer_clear_renderer_rebind_barrier
ClearBarrier(o) ==
  /\ barrier' = IF barrier = o THEN NoOne ELSE barrier
  /\ edge' = edge \cup Resumed(o)

-----------------------------------------------------------------------------
(* One pass over a route, or over all outputs, and where it goes on.       *)

\* route_worker_progress_dispatch: one tick, and more while a frame is pending until
\* two in a row take none.  producer_rebind_all_outputs: the outputs in turn, until
\* one is not ready.
After(res, pending) ==
  IF loop.at = "all"
  THEN IF res = "NOT_READY" \/ loop.left = First(loop.left) THEN Resting
       ELSE [loop EXCEPT !.left = @ \ First(@)]
  ELSE IF ~pending \/ loop.idle = 2 THEN Resting
       ELSE [loop EXCEPT !.idle = @ + 1,
                         !.gated = IF res = "NOT_READY" THEN Linked ELSE @]

Pending(o) == W(o).frame
Released(o) == [out[o] EXCEPT !.pool = 0, !.needs = TRUE, !.first = FALSE]

\* send_unbind, and the start of the wait for its acknowledgement
Unbind(o, g, then) ==
  /\ unacked' = [unacked EXCEPT ![o] = @ \cup {g}]
  /\ wait' = [out |-> o, gen |-> g, then |-> then]

\* waiting_for_unbind: the worker has quiesced, or crashed with its buffers in use
\* ("crashed" until it is reaped, "buried" after).
Waits(o) == W(o).phase \in {"waiting", "crashed", "buried"}

\* client_rebind_output at a worker that has quiesced: UNBIND to each output in turn.
UnbindRoute(o) ==
  LET r == RouteOf(o)
      bound == {q \in On(r) : out[q].pool # 0} IN
  /\ Waits(o)
  /\ IF bound # {}
     THEN /\ \E q \in First(bound) :
               /\ Unbind(q, out[q].gen, "route")
               /\ stream' = [stream EXCEPT ![q] = Post(q, "unbind", out[q].gen, 0)]
          /\ UNCHANGED << out, routeWorker, edge, loop >>
     ELSE /\ out' = [q \in Outs |-> IF q \in On(r) THEN Released(q) ELSE out[q]]
          /\ routeWorker' = [routeWorker EXCEPT ![r].phase = "ending"]
          /\ edge' = edge \cup {r}
          /\ loop' = After("NOT_READY", Pending(o))
          /\ UNCHANGED << stream, unacked, wait >>
  /\ UNCHANGED << held, replies, barrier, wrong, events >>

HasPool(o) == W(o).phase \in {"pool", "quiescing"} /\ W(o).pool # 0
\* Buffers that replace others go out together with a frame.
Ready(o)   == HasPool(o) /\ o \notin setting.unfit /\ (out[o].pool # 0 => W(o).frame)

\* client_prepare_rebind_candidate: the first attempt at a capable worker negotiates.
NotReady(o) ==
  /\ ~Waits(o) /\ ~Ready(o) /\ ~(HasPool(o) /\ o \in setting.unfit)
  /\ routeWorker' = IF W(o).phase = "capable"
               THEN [routeWorker EXCEPT ![RouteOf(o)].phase = "negotiating"] ELSE routeWorker
  /\ out' = [out EXCEPT ![o].needs = TRUE]
  /\ barrier' = o
  /\ loop' = After("NOT_READY", Pending(o))
  /\ UNCHANGED << wires, edge, wait, wrong, events >>

\* No scheme the display accepts.
Unusable(o) ==
  /\ HasPool(o) /\ o \in setting.unfit
  /\ out' = [out EXCEPT ![o].needs = TRUE]
  /\ ClearBarrier(o)
  /\ loop' = IF loop.at = "tick" THEN After("NOT_READY", Pending(o)) ELSE After("FAILED", Pending(o))
  /\ UNCHANGED << wires, routeWorker, wait, wrong, events >>

Bound(o)    == [gen |-> out[o].gen + 1, pool |-> W(o).gen, seen |-> W(o).gen,
                needs |-> FALSE, first |-> out[o].pool = 0]
SendBind(o) == Post(o, "bind", out[o].gen + 1, W(o).gen)
TakeFrame(o) == [routeWorker EXCEPT ![RouteOf(o)].frame = FALSE]

\* No buffers before: the first frame goes out in a later tick.
ColdBind(o) ==
  /\ Ready(o) /\ out[o].pool = 0
  /\ out' = [out EXCEPT ![o] = Bound(o)]
  /\ stream' = [stream EXCEPT ![o] = SendBind(o)]
  /\ ClearBarrier(o)
  /\ loop' = After("READY", Pending(o))
  /\ UNCHANGED << held, replies, unacked, routeWorker, wait, wrong, events >>

\* The new buffers with their first frame, then UNBIND of those before.
WarmBind(o) ==
  /\ Ready(o) /\ out[o].pool # 0
  /\ stream' = [stream EXCEPT ![o] =
       Append(SendBind(o), [ev |-> "unbind", gen |-> out[o].gen, pool |-> 0])]
  /\ Unbind(o, out[o].gen, "warm")
  /\ routeWorker' = TakeFrame(o)
  /\ ClearBarrier(o)
  /\ UNCHANGED << out, held, replies, loop, wrong, events >>

\* BIND_BUFFERS or SET_CONFIG did not go out.
BindFails(o) ==
  /\ Ready(o) /\ setting.rough /\ Event
  /\ out' = [out EXCEPT ![o].needs = TRUE]
  /\ routeWorker' = IF out[o].pool = 0 THEN routeWorker ELSE TakeFrame(o)
  /\ ClearBarrier(o)
  /\ loop' = After("FAILED", routeWorker'[RouteOf(o)].frame)
  /\ UNCHANGED << wires, wait, wrong >>

\* The new buffers went out but not their frame: they are taken back at once.
FrameFails(o) ==
  LET g == out[o].gen + 1 IN
  /\ Ready(o) /\ out[o].pool # 0 /\ setting.rough /\ Event
  /\ out' = [out EXCEPT ![o].needs = TRUE]
  /\ stream' = [stream EXCEPT ![o] = Append(SendBind(o), [ev |-> "unbind", gen |-> g, pool |-> 0])]
  /\ Unbind(o, g, "undo")
  /\ routeWorker' = TakeFrame(o)
  /\ ClearBarrier(o)
  /\ UNCHANGED << held, replies, loop, wrong >>

Rebind(o) ==
  UnbindRoute(o) \/ NotReady(o) \/ Unusable(o) \/ ColdBind(o) \/ WarmBind(o) \/ BindFails(o) \/ FrameFails(o)

-----------------------------------------------------------------------------
(* route_frame_tick.                                                       *)

Dispatch(r) ==
  /\ Resumes /\ r \in edge
  /\ edge' = edge \ {r}
  /\ loop' = [Resting EXCEPT !.at = "tick", !.route = r]
  /\ UNCHANGED << setting, links, out, wires, routeWorker, barrier, wait, wrong, events >>

\* In clone mode only the first output in need is looked at, whatever the barrier.
Wanting(r)   == {o \in On(r) : Needs(o)}
Attempted(r) == {o \in First(Wanting(r)) : setting.cloned \/ ~Blocked(o)}

Ticks == loop.at = "tick" /\ wait = NoWait

\* While playback is paused only an output that waits for buffers or a first frame counts.
Due(r) == setting.painting \/ \E o \in On(r) : Needs(o) \/ out[o].first

TickRebind ==
  /\ Ticks
  /\ \E o \in Attempted(loop.route) \ loop.gated : Rebind(o)
  /\ UNCHANGED << setting, links >>

\* Mutant of CanKeep: an output behind the barrier is sent whatever its worker has.
CanKeepAny(o) == TRUE
\* An output that waits behind the barrier keeps its current buffers' frames.
CanKeep(o) == out[o].pool # 0 /\ ~out[o].first /\ out[o].seen = W(o).gen
Forwards(r) ==
  /\ On(r) # {} /\ Due(r) /\ routeWorker[r].frame
  /\ Attempted(r) = {}
  /\ \A o \in Wanting(r) : CanKeep(o)
  /\ setting.cloned => \A o \in Linked : out[o].pool # 0

\* send_frame_ready, or route_send_frame to all outputs of the route
TickForward ==
  LET r == loop.route IN
  /\ Ticks /\ Forwards(r)
  /\ routeWorker' = [routeWorker EXCEPT ![r].frame = FALSE]
  /\ wrong' = (wrong \/ \E o \in On(r) : out[o].pool # routeWorker[r].gen)
  /\ out' = [o \in Outs |-> IF o \in On(r) THEN [out[o] EXCEPT !.first = FALSE] ELSE out[o]]
  /\ loop' = Resting
  /\ UNCHANGED << setting, links, wires, edge, barrier, wait, events >>

TickNothing ==
  LET r == loop.route IN
  /\ Ticks /\ ~Forwards(r)
  /\ Attempted(r) \subseteq loop.gated
  /\ loop' = After("READY", On(r) # {} /\ routeWorker[r].frame)
  /\ UNCHANGED << setting, links, out, wires, routeWorker, edge, barrier, wait, wrong, events >>

\* producer_rebind_all_outputs, after a configuration or policy change.
RebindAll ==
  LET inNeed == {o \in Linked : Needs(o)} IN
  /\ Resumes /\ Event
  /\ barrier' = NoOne
  /\ out' = [o \in Outs |-> IF o \in inNeed THEN [out[o] EXCEPT !.needs = TRUE] ELSE out[o]]
  /\ edge' = edge \cup {RouteOf(o) : o \in {p \in Linked : Pending(p)}}
  /\ loop' = IF inNeed = {} THEN Resting ELSE [Resting EXCEPT !.at = "all", !.left = inNeed]
  /\ UNCHANGED << setting, links, wires, routeWorker, wait, wrong >>

AllNext ==
  /\ loop.at = "all" /\ wait = NoWait
  /\ \E o \in First(loop.left) :
       IF Needs(o)
       THEN Rebind(o)
       ELSE /\ loop' = After("READY", FALSE)
            /\ UNCHANGED << out, wires, routeWorker, edge, barrier, wait, wrong, events >>
  /\ UNCHANGED << setting, links >>

-----------------------------------------------------------------------------
(* client_wait_unbind_ack.                                                 *)

IsAck(m) == m.ev = "ack"
FirstAcks(o) == {i \in DOMAIN replies[o] :
                   IsAck(replies[o][i]) /\ \A j \in 1 .. (i - 1) : ~IsAck(replies[o][j])}

\* An acknowledgement is read, whichever generation it is for; other requests stay.
WaitReads ==
  LET o == wait.out IN
  /\ wait # NoWait /\ wait.gen \in unacked[o]
  /\ \E i \in FirstAcks(o) :
       /\ unacked' = [unacked EXCEPT ![o] = @ \ {replies[o][i].gen}]
       /\ replies' = [replies EXCEPT ![o] = Dropped(@, i)]
  /\ UNCHANGED << setting, links, out, stream, held, routeWorker, edge, barrier, loop, wait, wrong, events >>

\* Mutant of Answered: buffers nobody gave back are taken for given back.
AnsweredOrLate(o, g) == TRUE
Answered(o, g) == g \notin unacked[o]

\* The acknowledgement was read, or UNBIND_ACK_TIMEOUT_MSEC went by.  Only a route
\* that waits for its worker's end looks at the difference.
WaitEnds ==
  LET o == wait.out IN
  /\ wait # NoWait /\ wait' = NoWait
  /\ CASE wait.then = "route" /\ Answered(o, wait.gen) ->
            out' = [out EXCEPT ![o] = Released(o)] /\ UNCHANGED loop
       [] wait.then = "route" /\ ~Answered(o, wait.gen) ->
            loop' = After("NOT_READY", Pending(o)) /\ UNCHANGED out
       [] wait.then = "warm" ->
            out' = [out EXCEPT ![o] = Bound(o)] /\ loop' = After("READY", Pending(o))
       [] wait.then = "undo" ->
            loop' = After("FAILED", Pending(o)) /\ UNCHANGED out
  /\ UNCHANGED << setting, links, wires, routeWorker, edge, barrier, wrong, events >>

-----------------------------------------------------------------------------
(* Requests of the displays, one at a time.                                *)

RetireRoute(r) ==
  routeWorker' = IF routeWorker[r].phase \in {"negotiating", "pool"}
            THEN [routeWorker EXCEPT ![r].phase = "quiescing"] ELSE routeWorker

\* The route waits for these buffers still.
FreesRoute(o, g) == g \in unacked[o] /\ g = out[o].gen /\ Waits(o)

\* handle_unbind_done: an answer that came too late for the wait sets the route going.
HandleAck(o) ==
  LET g == Head(replies[o]).gen IN
  /\ Resumes /\ replies[o] # << >> /\ IsAck(Head(replies[o]))
  /\ replies' = [replies EXCEPT ![o] = Tail(@)]
  /\ unacked' = [unacked EXCEPT ![o] = @ \ {g}]
  /\ IF FreesRoute(o, g)
     THEN out' = [out EXCEPT ![o] = Released(o)] /\ edge' = edge \cup {RouteOf(o)}
     ELSE UNCHANGED << out, edge >>
  /\ UNCHANGED << setting, links, stream, held, routeWorker, barrier, loop, wait, wrong, events >>

\* handle_bind_failed: a verdict on another generation is ignored.
HandleReject(o) ==
  /\ Resumes /\ replies[o] # << >> /\ ~IsAck(Head(replies[o]))
  /\ replies' = [replies EXCEPT ![o] = Tail(@)]
  /\ IF Head(replies[o]).gen = out[o].gen
     THEN out' = [out EXCEPT ![o].needs = TRUE] /\ RetireRoute(RouteOf(o))
     ELSE UNCHANGED << out, routeWorker >>
  /\ UNCHANGED << setting, links, stream, held, unacked, edge, barrier, loop, wait, wrong, events >>

\* handle_update_output: the buffers no longer fit the monitor.
Update(o) ==
  /\ Resumes /\ o \in Linked /\ Event
  /\ out' = [out EXCEPT ![o].needs = TRUE]
  /\ edge' = edge \cup {RouteOf(q) : q \in {p \in Linked : Pending(p)}}
  /\ UNCHANGED << setting, links, wires, routeWorker, barrier, loop, wait, wrong >>

\* client_free: the last output of a route retires its worker.
Leave(o) ==
  /\ Resumes /\ setting.rough /\ o \in Linked /\ Event
  /\ \E i \in DOMAIN links : links[i] = o /\ links' = Dropped(links, i)
  /\ out' = [out EXCEPT ![o] = NewOut]
  /\ stream' = [stream EXCEPT ![o] = << >>] /\ replies' = [replies EXCEPT ![o] = << >>]
  /\ held' = [held EXCEPT ![o] = {}] /\ unacked' = [unacked EXCEPT ![o] = {}]
  /\ IF On(RouteOf(o)) # {o}
     THEN UNCHANGED << routeWorker, edge >>
     ELSE RetireRoute(RouteOf(o)) /\ edge' = edge \ {RouteOf(o)}
  /\ UNCHANGED << setting, barrier, loop, wait, wrong >>

\* handle_register_output, as far as the buffers go.
Join(o) ==
  /\ Resumes /\ setting.rough /\ o \notin Linked
  /\ links' = Append(links, o)
  /\ IF Blocked(o) \/ ~HasPool(o) \/ o \in setting.unfit
     THEN /\ out' = [out EXCEPT ![o] = [NewOut EXCEPT !.seen = W(o).gen]]
          /\ barrier' = IF ~Blocked(o) /\ ~HasPool(o) THEN o ELSE barrier
          /\ UNCHANGED stream
     ELSE /\ out' = [out EXCEPT ![o] = [gen |-> 1, pool |-> W(o).gen, seen |-> W(o).gen,
                                        needs |-> FALSE, first |-> TRUE]]
          /\ stream' = [stream EXCEPT ![o] = Post(o, "bind", 1, W(o).gen)]
          /\ barrier' = IF Blocked(o) THEN barrier ELSE NoOne
  /\ routeWorker' = IF W(o).phase = "buried" THEN [routeWorker EXCEPT ![RouteOf(o)].phase = "ending"] ELSE routeWorker
  /\ UNCHANGED << setting, held, replies, unacked, edge, loop, wait, wrong, events >>

-----------------------------------------------------------------------------
(* The workers, as a route sees them.  What they send is read by the main  *)
(* loop; each change is an edge of the route.                              *)

WorkerTo(r, from, w) ==
  /\ Resumes /\ routeWorker[r].phase \in from
  /\ routeWorker' = [routeWorker EXCEPT ![r] = w]
  /\ edge' = IF On(r) = {} THEN edge ELSE edge \cup {r}
  /\ UNCHANGED << setting, links, out, wires, barrier, loop, wait, wrong >>

\* route_renderer_progress: at an orphan route the worker's end is not waited for.
Ended(r, phase, g) ==
  [routeWorker[r] EXCEPT !.phase = IF On(r) = {} THEN "ending" ELSE phase, !.gen = g, !.frame = FALSE]

Capable(r)  == WorkerTo(r, {"starting"}, [routeWorker[r] EXCEPT !.phase = "capable"]) /\ UNCHANGED events
PoolReady(r) ==
  LET g == routeWorker[r].gen + 1 IN
  /\ WorkerTo(r, {"negotiating"}, [routeWorker[r] EXCEPT !.phase = "pool", !.gen = g, !.pool = g, !.fresh = TRUE])
  /\ UNCHANGED events
Frame(r) ==
  /\ ~routeWorker[r].frame /\ (setting.painting \/ routeWorker[r].fresh)
  /\ WorkerTo(r, {"pool", "quiescing"}, [routeWorker[r] EXCEPT !.frame = TRUE, !.fresh = FALSE])
  /\ UNCHANGED events
Quiesced(r) == WorkerTo(r, {"quiescing"}, Ended(r, "waiting", routeWorker[r].gen + 1)) /\ UNCHANGED events
Crash(r)    == WorkerTo(r, {"pool"}, Ended(r, "crashed", routeWorker[r].gen + 1)) /\ Event
Buried(r)   == WorkerTo(r, {"crashed"}, Ended(r, "buried", routeWorker[r].gen)) /\ UNCHANGED events
\* The worker has been reaped; a route with outputs starts another.
Reaped(r) ==
  /\ On(r) # {}
  /\ WorkerTo(r, {"ending"}, Started(routeWorker[r].gen)) /\ UNCHANGED events

-----------------------------------------------------------------------------
(* The displays.                                                           *)

Reply(o, ev, g) == replies' = [replies EXCEPT ![o] = Append(@, [ev |-> ev, gen |-> g])]

Imports(o) ==
  LET m == Head(stream[o]) IN
  /\ stream[o] # << >> /\ m.ev = "bind"
  /\ stream' = [stream EXCEPT ![o] = Tail(@)]
  /\ held' = [held EXCEPT ![o] = @ \cup {[gen |-> m.gen, pool |-> m.pool]}]
  /\ UNCHANGED << setting, links, out, replies, unacked, routeWorker, edge, barrier, loop, wait, wrong, events >>

Rejects(o) ==
  LET m == Head(stream[o]) IN
  /\ stream[o] # << >> /\ m.ev = "bind" /\ Event
  /\ stream' = [stream EXCEPT ![o] = Tail(@)]
  /\ Reply(o, "reject", m.gen)
  /\ UNCHANGED << setting, links, out, held, unacked, routeWorker, edge, barrier, loop, wait, wrong >>

GivesBack(o) ==
  LET m == Head(stream[o]) IN
  /\ stream[o] # << >> /\ m.ev = "unbind"
  /\ stream' = [stream EXCEPT ![o] = Tail(@)]
  /\ held' = [held EXCEPT ![o] = {h \in @ : h.gen # m.gen}]
  /\ Reply(o, "ack", m.gen)
  /\ UNCHANGED << setting, links, out, unacked, routeWorker, edge, barrier, loop, wait, wrong, events >>

-----------------------------------------------------------------------------
MainLoop == TickRebind \/ TickForward \/ TickNothing \/ AllNext \/ WaitReads \/ WaitEnds
Reads(o) == HandleAck(o) \/ HandleReject(o)
Runs(r)  == Capable(r) \/ PoolReady(r) \/ Quiesced(r) \/ Buried(r) \/ Reaped(r)
Shows(o) == Imports(o) \/ GivesBack(o)
Disturbs == RebindAll \/ \E o \in Outs : Update(o) \/ Leave(o) \/ Join(o) \/ Rejects(o) \/ Crash(o)

BindingNext ==
  \/ MainLoop \/ Disturbs
  \/ \E o \in Outs : Dispatch(o) \/ Reads(o) \/ Runs(o) \/ Frame(o) \/ Shows(o)

\* The main loop serves its sources, workers and displays go on.
BindingFairness ==
  /\ WF_bindingVars(MainLoop)
  /\ \A o \in Outs : /\ SF_bindingVars(Dispatch(o)) /\ SF_bindingVars(Frame(o))
                     /\ SF_bindingVars(Runs(o) \/ Reads(o) \/ Shows(o))

BindingSpec == BindingInit /\ [][BindingNext]_bindingVars /\ BindingFairness

-----------------------------------------------------------------------------
BindingTypeOK ==
  /\ Linked \subseteq Outs /\ edge \subseteq Outs
  /\ barrier \in Outs \cup {NoOne} /\ wait.out \in Outs \cup {NoOne}
  /\ \A o \in Outs : out[o].pool <= routeWorker[RouteOf(o)].gen /\ out[o].seen <= routeWorker[RouteOf(o)].gen

\* A worker is ended, and its buffers with it, only when no display has them or
\* will import them from what it was sent: with late answers, rejections, updates
\* and crashes, as long as no display leaves and nothing fails to be sent.
WorkerEndsUnread ==
  ~setting.rough =>
    \A o \in Linked : W(o).phase = "ending" =>
      /\ \A h \in held[o] : h.pool # W(o).pool
      /\ \A i \in DOMAIN stream[o] : stream[o][i].ev = "bind" => stream[o][i].pool # W(o).pool

\* A display gets frames of the buffers it was bound to, however the generations
\* of its worker and its own went on meanwhile.
FramesMatch == BindingTypeOK /\ ~wrong

BoundTo(o) == ~Needs(o) /\ out[o].pool = W(o).gen /\ ~out[o].first
Settling   == setting.painting /\ ~setting.rough /\ (setting.cloned => setting.unfit = {})

\* No edge is lost for good: each output that can be shown is bound to its worker's
\* current buffers in the end, and gets a frame, whatever was in the way.
OutputsGetBound ==
  \A o \in Outs : (Settling /\ o \notin setting.unfit) ~> (Settling /\ BoundTo(o))


\* "An orphan route has no consumer that can answer UNBIND.  Once the worker reports
\* QUIESCED, complete the empty barrier immediately."
OrphanEnds ==
  \A r \in Outs : (On(r) = {} /\ routeWorker[r].phase = "waiting")
                    ~> ~(On(r) = {} /\ routeWorker[r].phase = "waiting")
=============================================================================
