--------------------------- MODULE BufferAgreement ---------------------------
(***************************************************************************)
(* Which buffers the outputs of a route get.  A worker offers formats in    *)
(* its order of preference; every client advertises what its consumer can   *)
(* import and whose GPU it runs on; the daemon picks one format for the     *)
(* worker's pool, and learns from refusals: of the worker, for which an     *)
(* output shuns a format, and of a consumer (BIND_FAILED), after which the  *)
(* whole pool is retired and the next worker is asked for another.          *)
(*                                                                         *)
(* How pools are bound, shown and unbound is RouteBinding; here a route     *)
(* that retires its pool unbinds all outputs in one step.                   *)
(***************************************************************************)
EXTENDS Integers, Sequences, FiniteSets

CONSTANTS
  Windows,  \* outputs of the route
  Peers,    \* clients
  Offers,   \* formats a worker may offer, sequences of << fourcc, modifier, planes >>
  Adverts,  \* what a client may advertise
  Importable,  \* sets of formats a consumer may be able to import
  Device    \* identity of the GPU the worker renders on

VARIABLES
  owner,     \* owner[w]: the client of an output
  offered,   \* format caps of the route's workers
  advert,    \* advert[p]: CONSUMER_CAPS of a client
  able,      \* able[p]: formats the consumer can import in fact
  refused,   \* refused[p]: peer_caps.blacklist
  shunned,   \* shunned[w]: producer_blacklist
  pool,      \* [format, ready]: what the worker was asked for, and whether it published it
  retiring,  \* the worker is being retired for a refused pool
  image,     \* image[w]: [format, generation, import] of the pool an output is bound to
  verdicts   \* BIND_FAILED messages under way

agreeVars == << owner, offered, advert, able, refused, shunned, pool, retiring, image, verdicts >>

NoFormat == << "none", "none", 0 >>
NoPool   == [format |-> NoFormat, ready |-> FALSE]
Unbound(g) == [format |-> NoFormat, generation |-> g, import |-> "none"]
\* Blacklists know a format by fourcc and modifier.
Brand(f) == << f[1], f[2] >>

-----------------------------------------------------------------------------
(* CONSUMER_CAPS.                                                          *)

\* DRM_FORMAT_MOD_INVALID counts as LINEAR.
Plain(f) == IF f[2] = "invalid" THEN << f[1], "linear", f[3] >> ELSE f

\* consumer_dmabuf_caps_parse: peer_caps.formats.
Listed(A) == {Plain(f) : f \in A.modifiers} \cup {<< code, "linear", 1 >> : code \in A.implicit}
Fourccs(A) == A.fourccs \cup {f[1] : f \in A.modifiers}

Implicit(A) == A.implicit \cup {f[1] : f \in {g \in A.modifiers : g[2] \in {"linear", "invalid"}}}

Synchronizes(A) == {"explicit-sync-fd", "drm-syncobj-release"} \subseteq A.sync
Relays(A) == "shadow-copy" \in A.relay

\* Caps that are answered with CAPS_INVALID leave the client without any.
Valid(A) ==
  /\ Implicit(A) \subseteq Fourccs(A)
  /\ Listed(A) # {}
  /\ Synchronizes(A) /\ Relays(A)

\* A UUID that cannot be parsed is none, a render node that is no device is none.
Identity(A) ==
  [uuid |-> IF A.uuid = "malformed" THEN "none" ELSE A.uuid,
   node |-> IF A.node = "missing" THEN "none" ELSE A.node]

\* vivid_dmabuf_device_identity_same_device
SameDevice(d, e) ==
  IF d.uuid # "none" /\ e.uuid # "none" THEN d.uuid = e.uuid
  ELSE d.node # "none" /\ d.node = e.node

-----------------------------------------------------------------------------
(* vivid_dmabuf_negotiate_pick.                                            *)

First(S) == CHOOSE i \in S : \A j \in S : i <= j

\* pick_same_device_format: a format both know, tiled before linear, as offered.
SameFormat(A, bans) ==
  LET Common == {i \in DOMAIN offered : /\ Plain(offered[i]) \in Listed(A)
                                        /\ Brand(Plain(offered[i])) \notin bans}
      Tiled  == {i \in Common : Plain(offered[i])[2] # "linear"} IN
  IF Tiled # {} THEN offered[First(Tiled)]
  ELSE IF Common # {} THEN Plain(offered[First(Common)]) ELSE NoFormat

\* pick_cross_device_fourcc: linear memory of a fourcc both know.
CrossFormat(A, bans) ==
  LET Common == {i \in DOMAIN offered : /\ offered[i][1] \in {f[1] : f \in Listed(A)}
                                        /\ << offered[i][1], "linear" >> \notin bans} IN
  IF Common = {} THEN NoFormat ELSE << offered[First(Common)][1], "linear", 1 >>

\* Mutant of Pick: what consumers refused is forgotten.
PickUntaught(p, shun) ==
  IF SameDevice(Device, Identity(advert[p])) THEN SameFormat(advert[p], shun)
                                   ELSE CrossFormat(advert[p], shun)
Pick(p, shun) ==
  IF SameDevice(Device, Identity(advert[p])) THEN SameFormat(advert[p], shun \cup refused[p])
                                   ELSE CrossFormat(advert[p], shun \cup refused[p])

\* prepare_dmabuf_buffers_ex: a worker is asked once, for what it offers; its pool is
\* never another one.
Answer(f) ==
  CASE pool = NoPool      -> IF \E i \in DOMAIN offered : offered[i] = f THEN "asked" ELSE "unsupported"
    [] ~pool.ready        -> "pending"
    [] pool.format = f    -> "fits"
    [] OTHER              -> "unsupported"

\* output_validate_consumer_caps
Validated(f, A) ==
  /\ f[1] \in Fourccs(A)
  /\ CASE ~SameDevice(Device, Identity(A)) -> f[2] = "linear"
       [] f[2] = "linear"                 -> f[1] \in Implicit(A)
       [] OTHER                           -> Brand(f) \in {Brand(g) : g \in A.modifiers}

\* output_prepare_renderer_buffers: unsupported formats are shunned until one is not.
Prepared(w) ==
  LET Tried[shun \in SUBSET ({Brand(Plain(offered[i])) : i \in DOMAIN offered}
                      \cup {<< offered[i][1], "linear" >> : i \in DOMAIN offered})] ==
        LET f == Pick(owner[w], shun) IN
        IF f = NoFormat THEN [how |-> "failed", format |-> f, shun |-> shun]
        ELSE IF Answer(f) = "unsupported" THEN Tried[shun \cup {Brand(f)}]
        ELSE IF Answer(f) = "fits" /\ ~Validated(f, advert[owner[w]])
             THEN [how |-> "failed", format |-> f, shun |-> shun]
        ELSE [how |-> Answer(f), format |-> f, shun |-> shun]
  IN Tried[shunned[w]]

-----------------------------------------------------------------------------
AgreeInit ==
  /\ owner \in [Windows -> Peers]
  /\ offered \in Offers
  /\ advert \in [Peers -> Adverts]
  /\ able \in [Peers -> Importable]
  /\ refused = [p \in Peers |-> {}] /\ shunned = [w \in Windows |-> {}]
  /\ pool = NoPool /\ retiring = FALSE
  /\ image = [w \in Windows |-> Unbound(-1)]     \* not registered yet
  /\ verdicts = {}

Parties == << owner, offered, advert, able >>

Registered(w) == image[w].generation >= 0

\* What an attempt for output w makes of the worker and the output.
Attempt(w, P) ==
  /\ pool' = IF P.how = "asked" THEN [format |-> P.format, ready |-> FALSE] ELSE pool
  /\ image' = [image EXCEPT ![w] =
       IF P.how = "fits"
       THEN [format |-> P.format, generation |-> @.generation + 1, import |-> "new"]
       ELSE IF @.generation < 0 THEN Unbound(0) ELSE @]

\* handle_register_output: output_rebuild_buffers works on the output itself, so it
\* keeps what it shunned also when it failed.
EntersRoute(w) ==
  /\ ~Registered(w) /\ Valid(advert[owner[w]])
  /\ IF retiring THEN /\ image' = [image EXCEPT ![w] = Unbound(0)]
                      /\ UNCHANGED << pool, shunned >>
     ELSE \E P \in {Prepared(w)} :
            Attempt(w, P) /\ shunned' = [shunned EXCEPT ![w] = P.shun]
  /\ UNCHANGED << Parties, refused, retiring, verdicts >>

\* client_rebind_output works on a candidate, which replaces the output if it is bound.
Rebinds(w) ==
  /\ Registered(w) /\ image[w].format = NoFormat /\ ~retiring
  /\ \E P \in {Prepared(w)} :
       /\ P.how \in {"asked", "fits"}
       /\ Attempt(w, P)
       /\ shunned' = IF P.how = "fits" THEN [shunned EXCEPT ![w] = P.shun] ELSE shunned
  /\ UNCHANGED << Parties, refused, retiring, verdicts >>

PoolComes ==
  /\ pool # NoPool /\ ~pool.ready /\ ~retiring
  /\ pool' = [pool EXCEPT !.ready = TRUE]
  /\ UNCHANGED << Parties, refused, shunned, retiring, image, verdicts >>

\* The consumer imports the pool, or answers BIND_FAILED.
Judges(w) ==
  LET good == image[w].format \in able[owner[w]] IN
  /\ image[w].import = "new"
  /\ image' = [image EXCEPT ![w].import = IF good THEN "done" ELSE "failed"]
  /\ verdicts' = IF good THEN verdicts
                 ELSE verdicts \cup {<< w, image[w].generation, Brand(image[w].format) >>}
  /\ UNCHANGED << Parties, refused, shunned, pool, retiring >>

\* Mutant of Retired: a pool that serves another output is kept.
RetiredUnshared(w) == \A v \in Windows \ {w} : image[v].format = NoFormat
\* vivid_producer_renderer_invalidate_dmabuf_pool, for every output that uses the pool.
Retired(w) == TRUE

\* handle_bind_failed.  It may be read after the pool has gone, and while the next
\* one is prepared: generations change when an output is bound again.
HandlesBindFailed(m) ==
  LET w == m[1] IN
  /\ verdicts' = verdicts \ {m}
  /\ IF image[w].generation = m[2]
     THEN /\ refused' = [refused EXCEPT ![owner[w]] = @ \cup {m[3]}]
          /\ retiring' = (retiring \/ Retired(w))
     ELSE UNCHANGED << refused, retiring >>
  /\ UNCHANGED << Parties, shunned, pool, image >>

\* The UNBIND barrier of the route, and the next worker (RouteBinding, RendererOwner).
PoolLeaves ==
  /\ retiring /\ retiring' = FALSE
  /\ pool' = NoPool
  /\ image' = [w \in Windows |-> Unbound(image[w].generation)]
  /\ UNCHANGED << Parties, refused, shunned, verdicts >>

AgreeStep ==
  \/ PoolComes \/ PoolLeaves
  \/ \E w \in Windows : Rebinds(w) \/ Judges(w)
  \/ \E m \in verdicts : HandlesBindFailed(m)

AgreeNext == AgreeStep \/ \E w \in Windows : EntersRoute(w)

\* Outputs are tried again every RENDERER_DMABUF_RETRY_INTERVAL_USEC, and workers,
\* consumers and the route's barrier answer.  Formats run out, so every behaviour stops
\* and fairness of all these steps together is that of each.
AgreeFairness ==
  WF_agreeVars(AgreeStep)

AgreeSpec == AgreeInit /\ [][AgreeNext]_agreeVars /\ AgreeFairness

-----------------------------------------------------------------------------
\* Types.
AgreeTypeOK ==
  /\ pool.ready => pool.format # NoFormat
  /\ \A w \in Windows : image[w].generation \in -1 .. 9 /\ image[w].import \in {"none", "new", "done", "failed"}

\* What an output shows is the worker's pool, of a format the worker offers and the
\* client has listed - or linear, from another GPU; and once a consumer has refused a
\* format no output of its client stays on it or is bound to it again.
BoundAsAgreed ==
  \A w \in Windows :
    LET f == image[w].format
        A == advert[owner[w]] IN
    f # NoFormat =>
      /\ pool = [format |-> f, ready |-> TRUE]
      /\ \E i \in DOMAIN offered : offered[i] = f
      /\ IF SameDevice(Device, Identity(A)) THEN f \in Listed(A)
         ELSE f[2] = "linear" /\ f[1] \in {g[1] : g \in Listed(A)}
      /\ Brand(f) \in refused[owner[w]] => retiring

BuffersAgreed == AgreeTypeOK /\ BoundAsAgreed

\* A format that worker and client name and the consumer can import is found, whatever
\* was refused before, when one client owns the outputs of the route.
Common(p) ==
  {f \in able[p] :
     /\ \E i \in DOMAIN offered : offered[i] = f
     /\ IF SameDevice(Device, Identity(advert[p])) THEN f \in Listed(advert[p])
        ELSE /\ f[2] = "linear" /\ f[3] = 1
             /\ f[1] \in {g[1] : g \in Listed(advert[p])}}
OneClient == \A v, w \in Windows : owner[v] = owner[w]
AgreementFound ==
  (OneClient /\ \E w \in Windows : Registered(w) /\ Common(owner[w]) # {})
     ~> (\A w \in Windows : Registered(w) => image[w].import = "done")
=============================================================================
