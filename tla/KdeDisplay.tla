------------------------------- MODULE KdeDisplay -------------------------------
(***************************************************************************)
(* The KDE wallpaper item.  The GUI thread reads the socket and keeps the   *)
(* list of generations; the render thread, with the GUI thread blocked,     *)
(* copies the newest frame into the shadow and destroys the pools the GUI   *)
(* thread retired; copies run on the GPU after both have moved on; and the  *)
(* scene graph, with its device or context, can go away at any time.        *)
(*                                                                         *)
(* The blitter is ShadowRing; here a copy is in flight until the GPU        *)
(* finishes it.  A frame's number stands for its sequence and its           *)
(* descriptors; a pool's number for its imported images.  The daemon        *)
(* numbers generations from 1 again after a restart.                        *)
(***************************************************************************)
EXTENDS Lists

CONSTANTS
  MaxPools,      \* pools bound
  MaxArrivals    \* frames received

ASSUME KdeAssumption == {MaxPools, MaxArrivals} \subseteq Nat

VARIABLES
  api,         \* of the scene graph: "vulkan" or "egl"
  rough,       \* imports may fail, copies outlast a drain, fences not be exported,
               \* and a scene graph go with no context current
  graph,       \* the scene graph, its device and its contexts exist
  backend,     \* m_activeBackend
  online,      \* m_fd >= 0, after the handshake
  boundIds,    \* generations the daemon has bound on the connection
  lastId,      \* the last generation number of the daemon
  gens,        \* m_generations: id, pool, config, retired
  current,     \* m_currentGeneration
  queued,      \* m_pendingGenerations: pools retired and not destroyed
  imported,    \* pools whose images exist
  pendingVk,   \* m_pendingVulkanFrame, with its release
  pendingEgl,  \* m_pendingEglFrame
  releaseEgl,  \* m_pendingEglRelease
  failing,     \* generations whose failed copy is posted to the GUI thread
  closing,     \* closeTransport is posted to the GUI thread
  dirty,       \* update() was called, or a render job scheduled
  copies,      \* << frame, pool >> the GPU is reading
  back,        \* back[f]: what became of the f-th frame's release
  destroyed    \* the item is destroyed

linkVars    == << online, boundIds, lastId >>
graphVars   == << graph, backend, closing >>
poolVars    == << gens, queued, imported >>
pendingVars == << pendingVk, pendingEgl, releaseEgl >>
kdeVars == << api, rough, linkVars, graphVars, poolVars, current, pendingVars,
              failing, dirty, copies, back, destroyed >>

NoPending == [frame |-> 0, id |-> 0]
Arrived   == DOMAIN back
Pools     == 1 .. MaxPools

KdeInit ==
  /\ api \in {"vulkan", "egl"} /\ rough \in BOOLEAN
  /\ graph = TRUE /\ backend = "none" /\ closing = FALSE
  /\ online = FALSE /\ boundIds = {} /\ lastId = 0
  /\ gens = << >> /\ queued = {} /\ imported = {} /\ current = 0
  /\ pendingVk = NoPending /\ pendingEgl = NoPending /\ releaseEgl = NoPending
  /\ failing = {} /\ dirty = FALSE /\ copies = {} /\ back = << >> /\ destroyed = FALSE

\* findGeneration: the latest entry with the number, or 0.
Indices(id)     == {i \in DOMAIN gens : gens[i].id = id}
Latest(S)       == CHOOSE i \in S \cup {0} : \A j \in S : j <= i
Find(id)        == Latest(Indices(id))
\* latestPendingConfigGeneration, then latestLiveGeneration.
Unconfigured    == {i \in DOMAIN gens : ~gens[i].retired /\ ~gens[i].config}
Live            == {i \in DOMAIN gens : ~gens[i].retired}

SignalsAll(S)   == back' = [f \in Arrived |-> IF f \in S THEN "host" ELSE back[f]]
Pool(id)        == gens[Find(id)].pool
UsedPools       == {gens[i].pool : i \in DOMAIN gens} \cup queued \cup imported
                   \cup {c[2] : c \in copies}

Matches(pending, ids)   == pending.frame # 0 /\ pending.id \in ids
\* closeGenerationFds: the frames of these generations that are still pending are
\* handed back, and their acquire fences dropped.
Held(ids)               == {p.frame : p \in {q \in {pendingVk, releaseEgl} : Matches(q, ids)}}
Drops(pending, ids)     == IF Matches(pending, ids) THEN NoPending ELSE pending

\* queueGenerationResources for each of these entries.
FreshPools(R)      == {i \in R : ~gens[i].retired}
IdsOf(R)        == {gens[i].id : i \in R}
PoolsRetired(R)    == [i \in DOMAIN gens |-> IF i \in R THEN [gens[i] EXCEPT !.retired = TRUE] ELSE gens[i]]
\* Mutant of Queued: the list forgets a pool it retires.
QueuedNone(R) == queued
Queued(R)     == queued \cup {gens[i].pool : i \in R}

\* Mutant of PendingOf: a retired pool takes its frames with it.
PendingOfNone(R) == {}
PendingOf(R)     == Held(IdsOf(FreshPools(R)))

RetiresPending(R) ==
  LET ids == IdsOf(FreshPools(R)) IN
  /\ SignalsAll(PendingOf(R))
  /\ pendingVk' = Drops(pendingVk, ids)
  /\ pendingEgl' = Drops(pendingEgl, ids)
  /\ releaseEgl' = Drops(releaseEgl, ids)

-----------------------------------------------------------------------------
(* The GUI thread.                                                         *)

\* tryConnect and finishConnect: the backend follows the scene graph, and the
\* daemon may be another one, that numbers from the start.
KdeConnects ==
  /\ ~online /\ graph /\ ~closing /\ failing = {} /\ ~destroyed
  /\ online' = TRUE /\ boundIds' = {}
  /\ backend' = api
  /\ lastId' \in {0, lastId}
  /\ UNCHANGED << api, rough, graph, closing, poolVars, current, pendingVars,
                  failing, dirty, copies, back, destroyed >>

\* handleBindBuffers: the older pools of the output are retired before the new
\* one is imported; an import that fails is reported and leaves no entry.
BindsPool(p) ==
  LET all == DOMAIN gens
      entry == [id |-> lastId + 1, pool |-> p, config |-> FALSE, retired |-> FALSE] IN
  /\ online /\ lastId < MaxPools /\ p \in Pools \ UsedPools
  /\ lastId' = lastId + 1 /\ boundIds' = boundIds \cup {lastId + 1}
  /\ queued' = Queued(FreshPools(all))
  /\ RetiresPending(all)
  /\ \/ /\ gens' = Append(PoolsRetired(all), entry)
        /\ imported' = imported \cup (IF backend = "none" THEN {} ELSE {p})
     \/ /\ backend # "none" /\ rough                   \* BIND_FAILED
        /\ gens' = PoolsRetired(all)
        /\ UNCHANGED imported
  /\ UNCHANGED << api, rough, online, graphVars, current, failing, dirty, copies, destroyed >>

\* handleSetConfig, with the number of a generation or, for 0, the latest one.
KdeConfigures(id) ==
  LET i == IF id # 0 THEN Find(id)
           ELSE IF Unconfigured # {} THEN Latest(Unconfigured) ELSE Latest(Live) IN
  /\ online /\ id \in boundIds \cup {0}
  /\ i # 0 /\ ~gens[i].config
  /\ gens' = [gens EXCEPT ![i].config = TRUE]
  /\ dirty' = TRUE
  /\ UNCHANGED << api, rough, linkVars, graphVars, queued, imported, current, pendingVars,
                  failing, copies, back, destroyed >>

\* handleFrameReady, for a frame of a generation the daemon has bound; one that
\* carries another output's number is not the item's own.
TakesFrame(id, own) ==
  LET i == Find(id)
      f == Len(back) + 1
      new == [frame |-> f, id |-> id]
      Replaces(old, how) == back' = Append([g \in Arrived |-> IF g = old.frame THEN "host" ELSE back[g]], how) IN
  /\ online /\ id \in boundIds /\ f <= MaxArrivals
  /\ \/ /\ i = 0 \/ ~own                               \* closed, and not signalled
        /\ back' = Append(back, "closed")
        /\ UNCHANGED << current, pendingVars, dirty >>
     \/ /\ own /\ i # 0 /\ (gens[i].retired \/ ~gens[i].config)
        /\ back' = Append(back, "host")
        /\ UNCHANGED << current, pendingVars, dirty >>
     \/ /\ own /\ i # 0 /\ ~gens[i].retired /\ gens[i].config
        /\ \/ /\ backend = "vulkan"
              /\ Replaces(pendingVk, "held")
              /\ pendingVk' = new /\ current' = id /\ dirty' = TRUE
              /\ UNCHANGED << pendingEgl, releaseEgl >>
           \/ /\ backend = "egl"
              /\ Replaces(releaseEgl, "held")
              /\ pendingEgl' = new /\ releaseEgl' = new /\ dirty' = TRUE
              /\ UNCHANGED << current, pendingVk >>
           \/ /\ backend = "none"
              /\ back' = Append(back, "host")
              /\ UNCHANGED << current, pendingVars, dirty >>
  /\ UNCHANGED << api, rough, linkVars, graphVars, poolVars, failing, copies, destroyed >>

\* handleUnbind: the pool is queued, UNBIND_DONE is sent, the render thread is woken.
Unbinds(id) ==
  LET R == {i \in Indices(id) : ~gens[i].retired} IN
  /\ online /\ id \in boundIds
  /\ boundIds' = boundIds \ {id}
  /\ gens' = PoolsRetired(R) /\ queued' = Queued(R)
  /\ RetiresPending(R)
  /\ dirty' = TRUE
  /\ UNCHANGED << api, rough, online, lastId, graphVars, imported, current, failing, copies, destroyed >>

\* closeTransport wakes the render thread when there was something to present.
\* Mutant of Wakes: it leaves that to the next frame.
WakesLater == FALSE
Wakes      == gens # << >> \/ current # 0

\* closeTransport: pending frames are handed back, all pools retired.
ClosesTransport(keep) ==
  /\ online' = FALSE /\ boundIds' = {}
  /\ SignalsAll({pendingVk.frame, releaseEgl.frame})
  /\ pendingVk' = NoPending /\ pendingEgl' = NoPending /\ releaseEgl' = NoPending
  /\ gens' = IF keep THEN PoolsRetired(DOMAIN gens) ELSE << >>
  /\ queued' = Queued(FreshPools(DOMAIN gens))
  /\ current' = IF keep THEN current ELSE 0
  /\ dirty' = (dirty \/ Wakes)

\* The daemon hangs up, sends a fatal error, or a setting asks for a new connection.
KdeDisconnects ==
  /\ online
  /\ ClosesTransport(TRUE)
  /\ UNCHANGED << api, rough, lastId, graphVars, imported, failing, copies, destroyed >>

\* The posted failure of a copy: BIND_FAILED, and the pool is retired.
ReportsFailure(id) ==
  LET R == IF Find(id) = 0 \/ gens[Find(id)].retired THEN {}
           ELSE {i \in Indices(id) : ~gens[i].retired} IN
  /\ id \in failing /\ failing' = failing \ {id}
  /\ gens' = PoolsRetired(R) /\ queued' = Queued(R)
  /\ RetiresPending(R)
  /\ dirty' = (dirty \/ R # {})
  /\ UNCHANGED << api, rough, linkVars, graphVars, imported, current, copies, destroyed >>

-----------------------------------------------------------------------------
(* The render thread, with the GUI thread blocked.                         *)

\* destroyRetiredResources after a drain that took until only the copies in left
\* remain: the entries other than the current one go.
Swept(list, cur) ==
  Picked(list, {i \in DOMAIN list :
                  ~list[i].retired \/ i = Latest({j \in DOMAIN list : list[j].id = cur})})

\* Mutant of DrainDone: the pools go when the wait ends.
DrainEnds(left)  == TRUE
DrainDone(left)  == left = {}

DrainWaits(left)      == left \subseteq copies /\ (rough \/ left = {})

\* renderThreadBlitEgl, then updatePaintNode: GL destroys an image when the copies
\* that read it are done.
EglPass ==
  LET p == pendingEgl
      i == Find(p.id)
      drawable == i # 0 /\ ~gens[i].retired
      HandsBack == /\ SignalsAll({f \in {p.frame} : releaseEgl.frame = f})
                   /\ releaseEgl' = IF releaseEgl.frame = p.frame THEN NoPending ELSE releaseEgl IN
  /\ graph /\ dirty /\ backend = "egl"
  /\ pendingEgl' = NoPending
  /\ \/ /\ p.frame = 0
        /\ UNCHANGED << releaseEgl, current, failing, copies, back >>
     \/ /\ p.frame # 0                                 \* pool gone, or no acquire wait
        /\ HandsBack
        /\ UNCHANGED << current, failing, copies >>
     \/ /\ p.frame # 0 /\ drawable                     \* import or copy failed
        /\ HandsBack
        /\ failing' = failing \cup {p.id}
        /\ UNCHANGED << current, copies >>
     \/ /\ p.frame # 0 /\ drawable
        /\ copies' = copies \cup {<< p.frame, gens[i].pool >>}
        /\ current' = p.id
        /\ \/ /\ releaseEgl.frame = p.frame             \* the draw fence is attached
              /\ back' = [back EXCEPT ![p.frame] = "fence"]
              /\ releaseEgl' = NoPending
           \/ /\ rough                                   \* no fence: the next frame signals it
              /\ UNCHANGED << releaseEgl, back >>
        /\ UNCHANGED failing
  /\ gens' = Swept(gens, current')
  /\ imported' = imported \ queued /\ queued' = {}
  /\ dirty' = FALSE
  /\ UNCHANGED << api, rough, linkVars, graphVars, pendingVk, destroyed >>

\* updatePaintNode on Vulkan: drain, sweep, then take the pending frame.
VulkanPass(left) ==
  LET p == pendingVk
      done == DrainDone(left)
      list == Swept(gens, current)
      S == {i \in DOMAIN list : list[i].id = p.id}
      i == IF S = {} THEN 0 ELSE Latest(S)
      drawable == i # 0 /\ ~list[i].retired
      cur == IF p.frame # 0 THEN p.id ELSE current IN
  /\ graph /\ dirty /\ backend = "vulkan"
  /\ DrainWaits(left)
  /\ dirty' = FALSE
  /\ pendingVk' = NoPending
  /\ \/ /\ p.frame = 0
        /\ gens' = list /\ current' = cur /\ copies' = left
        /\ queued' = (IF done THEN {} ELSE queued)
        /\ imported' = (IF done THEN imported \ queued ELSE imported)
        /\ UNCHANGED back
     \/ /\ p.frame # 0                                 \* pool gone, or the ring is full
        /\ ~drawable \/ rough
        /\ SignalsAll({p.frame})
        /\ gens' = list /\ current' = cur /\ copies' = left
        /\ queued' = (IF done THEN {} ELSE queued)
        /\ imported' = (IF done THEN imported \ queued ELSE imported)
     \/ /\ p.frame # 0 /\ drawable                     \* the copy failed: BIND_FAILED
        /\ SignalsAll({p.frame})
        /\ current' = 0 /\ copies' = left
        /\ gens' = Swept([list EXCEPT ![i].retired = TRUE], 0)
        /\ queued' = (IF done THEN {} ELSE queued \cup {list[i].pool})
        /\ imported' = (IF done THEN imported \ (queued \cup {list[i].pool}) ELSE imported)
     \/ /\ p.frame # 0 /\ drawable                     \* submitted, with its fence
        /\ back' = [back EXCEPT ![p.frame] = "fence"]
        /\ copies' = left \cup {<< p.frame, list[i].pool >>}
        /\ gens' = list /\ current' = cur
        /\ queued' = (IF done THEN {} ELSE queued)
        /\ imported' = (IF done THEN imported \ queued ELSE imported)
  /\ UNCHANGED << api, rough, linkVars, graphVars, pendingEgl, releaseEgl, failing, destroyed >>

\* A pass of the item while no backend is bound: its pools have no images.
BarePass ==
  /\ graph /\ dirty /\ backend = "none"
  /\ dirty' = FALSE
  /\ queued' = {} /\ imported' = imported \ queued
  /\ gens' = Swept(gens, current)
  /\ UNCHANGED << api, rough, linkVars, graphVars, current, pendingVars,
                  failing, copies, back, destroyed >>

GpuCompletes ==
  \E c \in copies :
    /\ copies' = copies \ {c}
    /\ UNCHANGED << api, rough, linkVars, graphVars, poolVars, current, pendingVars,
                    failing, dirty, back, destroyed >>

\* releaseSceneGraphResources, from sceneGraphInvalidated: the ring is drained or
\* shut down, then everything goes; the transport is closed later.
GraphGone ==
  /\ backend' = "none" /\ current' = 0
  /\ copies' = (IF backend = "vulkan" THEN {} ELSE copies)
  /\ imported' = {} /\ queued' = {}

\* It returns early when GL objects exist and no context can delete them: the pools
\* stay queued, for the passes of the next scene graph.
NoContext ==
  /\ rough /\ backend = "egl" /\ (imported # {} \/ current # 0)
  /\ queued' = Queued(FreshPools(DOMAIN gens))
  /\ UNCHANGED << backend, current, copies, imported >>

LosesGraph ==
  /\ graph /\ ~destroyed
  /\ graph' = FALSE /\ closing' = TRUE
  /\ SignalsAll({pendingVk.frame, releaseEgl.frame})
  /\ pendingVk' = NoPending /\ pendingEgl' = NoPending /\ releaseEgl' = NoPending
  /\ GraphGone \/ NoContext
  /\ gens' = << >> /\ dirty' = FALSE
  /\ UNCHANGED << api, rough, linkVars, failing, destroyed >>

ClosesLater ==
  /\ closing /\ closing' = FALSE
  /\ ClosesTransport(FALSE)
  /\ UNCHANGED << api, rough, lastId, graph, backend, imported, failing, copies, destroyed >>

GainsGraph ==
  /\ ~graph /\ ~closing /\ graph' = TRUE
  /\ UNCHANGED << api, rough, linkVars, backend, closing, poolVars, current, pendingVars,
                  failing, dirty, copies, back, destroyed >>

\* ~VividDisplay, takeFinalGpuCleanup, and destroyFinalGpuCleanup in a render job
\* that shuts the ring down before it destroys the pools.
Destroys ==
  /\ graph /\ ~destroyed /\ ~closing /\ failing = {}
  /\ destroyed' = TRUE /\ dirty' = TRUE /\ backend' = "none"
  /\ online' = FALSE /\ boundIds' = {}
  /\ SignalsAll({pendingVk.frame, releaseEgl.frame})
  /\ pendingVk' = NoPending /\ pendingEgl' = NoPending /\ releaseEgl' = NoPending
  /\ gens' = << >> /\ current' = 0
  /\ queued' = Queued(FreshPools(DOMAIN gens))
  /\ UNCHANGED << api, rough, lastId, graph, closing, imported, failing, copies >>

FinalCleanup ==
  /\ destroyed /\ graph /\ dirty
  /\ dirty' = FALSE
  /\ copies' = (IF api = "vulkan" THEN {} ELSE copies)
  /\ queued' = {} /\ imported' = imported \ queued
  /\ UNCHANGED << api, rough, linkVars, graphVars, gens, current, pendingVars, failing, back, destroyed >>

Paints == EglPass \/ (\E left \in SUBSET copies : VulkanPass(left)) \/ (~destroyed /\ BarePass) \/ FinalCleanup

KdeNext ==
  \/ KdeConnects \/ KdeDisconnects
  \/ \E p \in Pools : BindsPool(p)
  \/ \E id \in 0 .. MaxPools :
       \/ KdeConfigures(id) \/ Unbinds(id) \/ ReportsFailure(id)
       \/ \E own \in BOOLEAN : TakesFrame(id, own)
  \/ Paints \/ GpuCompletes
  \/ LosesGraph \/ ClosesLater \/ GainsGraph \/ Destroys

\* An exposed window paints when it is dirty, the event loop runs, and the daemon
\* configures a generation it has bound.
KdeFairness ==
  /\ WF_kdeVars(Paints) /\ WF_kdeVars(ClosesLater)
  /\ WF_kdeVars(\E id \in 0 .. MaxPools : KdeConfigures(id))

KdeSpec == KdeInit /\ [][KdeNext]_kdeVars /\ KdeFairness

-----------------------------------------------------------------------------
\* Types.
KdeTypeOK ==
  /\ {queued, imported} \subseteq SUBSET Pools
  /\ boundIds \subseteq 1 .. MaxPools /\ current \in 0 .. MaxPools
  /\ \A i \in DOMAIN gens : gens[i].pool \in Pools /\ gens[i].id \in 1 .. MaxPools
  /\ \A p \in {pendingVk, pendingEgl, releaseEgl} : p.frame \in Arrived \cup {0}
  /\ \A f \in Arrived : back[f] \in {"held", "host", "fence", "closed"}
  /\ copies \subseteq Arrived \X Pools /\ failing \subseteq 1 .. MaxPools

\* No frame the item takes is kept from its worker: a release neither signalled nor
\* given to a copy is the one pending on the live connection, through supersession,
\* failed copies, retired pools, lost scene graphs and reused generation numbers.  A
\* frame of a generation the item does not list, or of another output, is not taken:
\* its descriptors are closed with the release unsignalled.
NoFrameIsKept ==
  \A f \in Arrived : back[f] = "held" => online /\ f \in {pendingVk.frame, releaseEgl.frame}

\* The images of a pool outlive the copies that read them, although the pool is
\* retired, and the daemon answered, while they run.
ImportsOutliveCopies ==
  api = "vulkan" => \A c \in copies : c[2] \in imported

\* Images exist only for a pool the item still knows: one it lists or has queued.
NoImportIsLost ==
  \A p \in imported : p \in queued \/ \E i \in Live : gens[i].pool = p

\* A retired pool is destroyed, on the render thread that may destroy it, unless
\* a copy outlasted the drain or the pool that replaces it was not imported: the
\* next pass is at nobody's request then.
RetiredPoolsGo ==
  \A p \in Pools : (~rough /\ p \in queued /\ graph) ~> (p \notin imported)

\* Each release is settled and each image is known, as long as either is in use.
FramesAndImportsKept == KdeTypeOK /\ NoFrameIsKept /\ ImportsOutliveCopies /\ NoImportIsLost
=============================================================================
