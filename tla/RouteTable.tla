------------------------------- MODULE RouteTable -------------------------------
(***************************************************************************)
(* Which route serves which display.  In clone mode one route serves all    *)
(* displays that have a wallpaper to show, and waits for the configured     *)
(* primary display; otherwise every display key has a route of its own.     *)
(* Every change of the displays or of the settings lays the routes out      *)
(* again.  A route without displays is reaped after a grace period, never   *)
(* before its worker is gone, and is used again if a display returns.  The  *)
(* worker may have been waiting for UNBIND when the last display left.      *)
(***************************************************************************)
EXTENDS Integers, Sequences, FiniteSets, SequencesExt

CONSTANTS
  Outputs,   \* outputs the consumers may register
  KeyOf,     \* KeyOf[o]: the display key the output registers with
  MaxRoutes  \* routes created in a behaviour

ASSUME TableAssumption == MaxRoutes \in Nat \ {0} /\ DOMAIN KeyOf = Outputs

VARIABLES
  outputs,  \* registered outputs, oldest first
  declared, \* outputs the consumer has said it will register; 0: it did not say
  clone,    \* multi_display_mode
  papered,  \* display keys with a wallpaper
  primary,  \* primary_display_key, "none" if not set
  active,   \* outputs that are active
  link,     \* link[o]: the route the output is linked to, 0 for none
  routes,   \* routes that exist, by id
  nextRoute \* ids given

tableVars == << outputs, declared, clone, papered, primary, active, link, routes, nextRoute >>
Keys    == {KeyOf[o] : o \in Outputs}
Present == Range(outputs)
Ids     == 1 .. MaxRoutes

\* kind "none": the id is not in use.  worker: the renderer's live worker, which
\* "runs", or "waits" in UNBINDING for the displays.
NoRoute == [kind |-> "none", key |-> "none", armed |-> FALSE, worker |-> "none"]
Exists(T, r) == r # 0 /\ T.routes[r].kind # "none"
Used(r, L) == \E o \in Outputs : L[o] = r

TableInit ==
  /\ outputs = << >> /\ declared \in {0, Cardinality(Outputs)}
  /\ clone \in BOOLEAN /\ papered \in SUBSET Keys /\ primary \in Keys \cup {"none"}
  /\ active = {} /\ link = [o \in Outputs |-> 0]
  /\ routes = [r \in Ids |-> NoRoute] /\ nextRoute = 0

-----------------------------------------------------------------------------
(* The layout.  T is the table a handler works on. *)

Table == [link |-> link, routes |-> routes, nextRoute |-> nextRoute, active |-> active]

\* producer_render_route_new
Created(T, kind, key) ==
  LET r == T.nextRoute + 1
  IN [T EXCEPT !.nextRoute = r, !.routes[r] = [NoRoute EXCEPT !.kind = kind, !.key = key]]

\* route_link_attach takes the route out of the reaper's hands.
Attached(T, o, r) == [T EXCEPT !.link[o] = r, !.routes[r].armed = FALSE]
Detached(T, o)    == [T EXCEPT !.link[o] = 0]

\* producer_find_clone_route, producer_find_independent_route
CloneRoutes(T)    == {r \in Ids : T.routes[r].kind = "clone"}
KeyRoutes(T, key) == {r \in Ids : T.routes[r].kind = "own" /\ T.routes[r].key = key}
Oldest(S) == CHOOSE r \in S : \A s \in S : r <= s

\* producer_get_or_create_clone_route
WithClone(T) == IF CloneRoutes(T) # {} THEN T ELSE Created(T, "clone", "none")

\* Mutant of FindsOwn: a route that waits for the reaper is not used again.
FindsUsed(T, o) == {r \in KeyRoutes(T, KeyOf[o]) : Used(r, T.link)}
FindsOwn(T, o)  == KeyRoutes(T, KeyOf[o])

\* Mutant of KeepsLink: whatever route the output has is good enough.
KeepsAnyLink(T, o) == Exists(T, T.link[o])
KeepsLink(T, o) == Exists(T, T.link[o]) /\ T.routes[T.link[o]].kind = "own"

\* producer_route_for_output of an independent output
OwnRoute(T, o) ==
  IF KeepsLink(T, o) THEN T
  ELSE LET D == Detached(T, o)
           F == IF FindsOwn(D, o) # {} THEN D ELSE Created(D, "own", KeyOf[o])
       IN Attached(F, o, IF FindsOwn(D, o) # {} THEN Oldest(FindsOwn(D, o)) ELSE F.nextRoute)

\* producer_prune_unused_routes arms the reaper of every route without displays.
Pruned(T) ==
  [T EXCEPT !.routes = [r \in Ids |-> [@[r] EXCEPT !.armed =
                          @ \/ (Exists(T, r) /\ ~Used(r, T.link))]]]

Inactive(T, o) == Detached([T EXCEPT !.active = @ \ {o}], o)
Independent(T, Q, paper) ==
  FoldLeft(LAMBDA A, o : IF KeyOf[o] \in paper
                         THEN OwnRoute([A EXCEPT !.active = @ \cup {o}], o)
                         ELSE Inactive(A, o), T, Q)

\* producer_primary_output, producer_clone_route_waiting_for_primary
HasKey(Q, key) == \E i \in DOMAIN Q : KeyOf[Q[i]] = key
PrimaryOf(Q, key) ==
  IF HasKey(Q, key) THEN SelectSeq(Q, LAMBDA o : KeyOf[o] = key)[1] ELSE Q[1]
WaitsForPrimary(Q, cl, key) ==
  /\ cl /\ key # "none" /\ ~HasKey(Q, key)
  /\ IF declared = 0 \/ Q = << >> THEN Q = << >> ELSE Len(Q) < declared

Cloned(T, Q) ==
  LET W == WithClone(T)
      r == Oldest(CloneRoutes(W))
  IN FoldLeft(LAMBDA A, o : Attached([A EXCEPT !.active = @ \cup {o}], o, r), W, Q)

\* producer_relayout_outputs
Relayout(T, Q, cl, paper, key) ==
  IF ~cl THEN Pruned(Independent(T, Q, paper))
  ELSE IF WaitsForPrimary(Q, cl, key) \/ Q = << >> THEN T
  ELSE IF KeyOf[PrimaryOf(Q, key)] \in paper THEN Pruned(Cloned(T, Q))
  ELSE Pruned(FoldLeft(Inactive, T, Q))

Set(T) ==
  /\ T.nextRoute <= MaxRoutes
  /\ link' = T.link /\ routes' = T.routes /\ nextRoute' = T.nextRoute /\ active' = T.active

\* Room for the routes a layout may create.
Room == nextRoute + Cardinality(Outputs) <= MaxRoutes

-----------------------------------------------------------------------------

\* handle_register_output
Registers(o) ==
  /\ Room /\ o \notin Present
  /\ outputs' = Append(outputs, o)
  /\ Set(Relayout(Table, outputs', clone, papered, primary))
  /\ UNCHANGED << declared, clone, papered, primary >>

\* client_free detaches and prunes, and lays nothing out.  A consumer that
\* declared its outputs has one connection for all of them.
Leaving(o) == IF declared = 0 THEN {o} ELSE Present
Departs(o) ==
  /\ o \in Present
  /\ LET gone == Leaving(o)
         T == [Table EXCEPT !.link = [p \in Outputs |-> IF p \in gone THEN 0 ELSE link[p]],
                            !.active = @ \ gone]
     IN /\ outputs' = SelectSeq(outputs, LAMBDA p : p \notin gone)
        /\ Set(Pruned(T))
  /\ UNCHANGED << declared, clone, papered, primary >>

\* handle_control with other settings
TableConfigures(cl, paper, key) ==
  /\ Room /\ << cl, paper, key >> # << clone, papered, primary >>
  /\ clone' = cl /\ papered' = paper /\ primary' = key
  /\ Set(Relayout(Table, outputs, cl, paper, key))
  /\ UNCHANGED << outputs, declared >>

\* A route with a display has its worker spawned; one without has it stopped,
\* and either may crash (RendererOwner).
WorkerTo(r, from, to) ==
  /\ routes[r].worker \in from
  /\ routes' = [routes EXCEPT ![r].worker = to]
  /\ UNCHANGED << outputs, declared, clone, papered, primary, active, link, nextRoute >>

WorkerStarts(r) == Used(r, link) /\ WorkerTo(r, {"none"}, "runs")
\* QUIESCED.  At a route without displays the barrier is completed at once.
WorkerWaits(r)  == Used(r, link) /\ WorkerTo(r, {"runs"}, "waits")
WorkerEnds(r)   == WorkerTo(r, {"runs", "waits"}, "none")

\* Mutant of Rearmed: the reaper looks once.
LeftAlone(r) == [routes[r] EXCEPT !.armed = FALSE]
Rearmed(r) == [routes[r] EXCEPT !.armed = TRUE]

\* route_orphan_reap_timeout, producer_destroy_orphan_route
Reaps(r) ==
  /\ routes[r].armed
  /\ routes' = [routes EXCEPT ![r] = IF Used(r, link) THEN [@ EXCEPT !.armed = FALSE]
                                     ELSE IF @.worker # "none" THEN Rearmed(r) ELSE NoRoute]
  /\ UNCHANGED << outputs, declared, clone, papered, primary, active, link, nextRoute >>

TableNext ==
  \/ \E o \in Outputs : Registers(o) \/ Departs(o)
  \/ \E cl \in BOOLEAN, paper \in SUBSET Keys, key \in Keys \cup {"none"} : TableConfigures(cl, paper, key)
  \/ \E r \in Ids : WorkerStarts(r) \/ WorkerWaits(r) \/ WorkerEnds(r) \/ Reaps(r)

\* Timers fire, and a worker whose route has no display ends, unless it waits for one.
TableFairness ==
  \A r \in Ids : /\ WF_tableVars(Reaps(r))
                 /\ WF_tableVars(~Used(r, link) /\ WorkerTo(r, {"runs"}, "none"))

TableSpec == TableInit /\ [][TableNext]_tableVars /\ TableFairness

-----------------------------------------------------------------------------

TableTypeOK ==
  /\ Present \subseteq Outputs /\ active \subseteq Present /\ papered \subseteq Keys
  /\ link \in [Outputs -> Ids \cup {0}] /\ nextRoute \in 0 .. MaxRoutes
  /\ \A r \in Ids : /\ routes[r] \in [kind : {"none", "clone", "own"}, key : Keys \cup {"none"},
                                      armed : BOOLEAN, worker : {"none", "runs", "waits"}]
                    /\ r > nextRoute => routes[r] = NoRoute

\* There is never a second clone route, nor a second route for a display key: two
\* of them would be two workers that render the same wallpaper (the routes of
\* departed displays are found again by producer_find_independent_route).
OneRouteEach ==
  \A r, s \in Ids : r # s /\ routes[r].kind # "none" /\ routes[r].kind = routes[s].kind
                      => routes[r].key # routes[s].key

\* Every active display is linked to a route that exists, of the kind the mode
\* asks for, and a display that is not active is linked to none, except while the
\* clone route waits for its primary: the displays keep what they had.
DisplaysAreServed ==
  ~(clone /\ (WaitsForPrimary(outputs, clone, primary) \/ outputs = << >>)) =>
    \A o \in Outputs :
      IF o \in active
      THEN Exists(Table, link[o]) /\ routes[link[o]].kind = (IF clone THEN "clone" ELSE "own")
      ELSE link[o] = 0

\* A route whose last display leaves is given another one or is destroyed in the
\* end, however long its worker takes: no route is forgotten with the images it pins
\* (producer_prune_unused_routes, route_orphan_reap_timeout), but for one whose worker
\* waited for that display, which is not told that nobody will answer.
OrphansAreReaped ==
  \A r \in Ids : (routes[r].kind # "none" /\ ~Used(r, link) /\ routes[r].worker # "waits")
                   ~> (routes[r].kind = "none" \/ Used(r, link))

\* One route for each wallpaper, and the right one for each display.
RoutesServeDisplays == TableTypeOK /\ OneRouteEach /\ DisplaysAreServed
=============================================================================
