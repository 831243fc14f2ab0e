-------------------------- MODULE Consumers_proofs --------------------------
(***************************************************************************)
(* The invariants of the consumers: of the KDE item, the GNOME helper and  *)
(* its outputs, and the outputs of the layer-shell consumer.               *)
(***************************************************************************)
EXTENDS KdeDisplay, GnomeHelper, GnomeDisplay, WaylandSurface, WaylandOutputs,
        FunctionTheorems, FiniteSetTheorems, WellFoundedInduction, NaturalsInduction, TLAPS

-----------------------------------------------------------------------------
(* Lists of positions.                                                      *)

\* Positions of a list are as many as they are.
LEMMA FewPositions ==
  ASSUME NEW n \in Nat, NEW K \in SUBSET (1 .. n)
  PROVE  IsFiniteSet(K) /\ Cardinality(K) \in Nat /\ K \subseteq Nat
<1>1. IsFiniteSet(1 .. n)
  BY FS_Interval
<1>2. IsFiniteSet(K)
  BY <1>1, FS_Subset
<1> QED BY <1>2, FS_CardinalityType

\* A later position has more positions up to it.
LEMMA UpToGrows ==
  ASSUME NEW n \in Nat, NEW K \in SUBSET (1 .. n), NEW i \in K
  PROVE  /\ UpTo(K, i) \in 1 .. Cardinality(K)
         /\ \A j \in K : i < j => UpTo(K, i) < UpTo(K, j)
<1>1. IsFiniteSet(K) /\ Cardinality(K) \in Nat /\ K \subseteq Nat
  BY FewPositions
<1>2. \A j \in K : IsFiniteSet({r \in K : r <= j}) /\ UpTo(K, j) \in Nat /\ UpTo(K, j) <= Cardinality(K)
  <2> TAKE j \in K
  <2>1. {r \in K : r <= j} \in SUBSET K
    OBVIOUS
  <2>2. IsFiniteSet({r \in K : r <= j}) /\ Cardinality({r \in K : r <= j}) <= Cardinality(K)
    BY <1>1, <2>1, FS_Subset
  <2> QED BY <2>2, FS_CardinalityType DEF UpTo
<1>3. UpTo(K, i) # 0
  <2>1. i \in {r \in K : r <= i}
    BY <1>1
  <2> QED BY <1>2, <2>1, FS_EmptySet DEF UpTo
<1>4. ASSUME NEW j \in K, i < j PROVE UpTo(K, i) < UpTo(K, j)
  <2>1. {r \in K : r <= i} \in SUBSET {r \in K : r <= j}
    <3>1. \A r \in K : r \in Nat
      BY <1>1
    <3>2. \A r \in K : r <= i => r <= j
      BY <1>4, <3>1
    <3> QED BY <3>2
  <2>2. j \in {r \in K : r <= j} /\ j \notin {r \in K : r <= i}
    BY <1>1, <1>4
  <2>3. Cardinality({r \in K : r <= i}) <= Cardinality({r \in K : r <= j})
    BY <1>2, <2>1, FS_Subset
  <2>4. Cardinality({r \in K : r <= j}) # Cardinality({r \in K : r <= i})
    BY <1>2, <2>1, <2>2, FS_Subset
  <2>5. UpTo(K, i) \in Nat /\ UpTo(K, j) \in Nat /\ UpTo(K, i) <= UpTo(K, j) /\ UpTo(K, i) # UpTo(K, j)
    BY <1>2, <2>3, <2>4 DEF UpTo
  <2> HIDE DEF UpTo
  <2> QED BY <2>5
<1>5. UpTo(K, i) \in 1 .. Cardinality(K)
  <2>1. UpTo(K, i) \in Nat /\ UpTo(K, i) <= Cardinality(K) /\ UpTo(K, i) # 0 /\ Cardinality(K) \in Nat
    BY <1>1, <1>2, <1>3, Zenon
  <2> QED BY <2>1
<1> QED BY <1>4, <1>5

LEMMA UpToLater ==
  ASSUME NEW n \in Nat, NEW K \in SUBSET (1 .. n), NEW i \in K, NEW j \in K, i < j
  PROVE  UpTo(K, i) < UpTo(K, j)
BY UpToGrows

\* Counting up to a position numbers the positions.
LEMMA UpToNumbers ==
  ASSUME NEW n \in Nat, NEW K \in SUBSET (1 .. n)
  PROVE  [i \in K |-> UpTo(K, i)] \in Bijection(K, 1 .. Cardinality(K))
<1> DEFINE f == [i \in K |-> UpTo(K, i)]
           card == Cardinality(K)
<1>1. IsFiniteSet(K) /\ card \in Nat /\ K \subseteq Nat
  BY FewPositions
<1>2. f \in [K -> 1 .. card]
  BY UpToGrows
<1>3. ASSUME NEW i \in K, NEW j \in K, f[i] = f[j] PROVE i = j
  <2>1. UpTo(K, i) \in 1 .. card /\ UpTo(K, j) \in 1 .. card /\ UpTo(K, i) = UpTo(K, j)
    BY <1>3, UpToGrows
  <2>2. ~(UpTo(K, i) < UpTo(K, j)) /\ ~(UpTo(K, j) < UpTo(K, i))
    BY <1>1, <2>1
  <2>3. ~(i < j) /\ ~(j < i)
    BY <2>2, UpToLater, Zenon
  <2> QED BY <1>1, <2>3
<1>4. f \in Injection(K, 1 .. card)
  BY <1>2, <1>3 DEF Injection, IsInjective
<1>5. IsFiniteSet(1 .. card) /\ Cardinality(1 .. card) = card
  BY <1>1, FS_Interval
<1>6. f \in Surjection(K, 1 .. card)
  BY <1>4, <1>5, FS_Injection
<1> QED BY <1>4, <1>6 DEF Bijection

\* The list of the positions: each one, with as many before it as its place says.
LEMMA InOrderCounts ==
  ASSUME NEW n \in Nat, NEW K \in SUBSET (1 .. n), NEW k \in 1 .. Cardinality(K)
  PROVE  InOrder(K)[k] \in K /\ UpTo(K, InOrder(K)[k]) = k
<1>1. \E s \in K : UpTo(K, s) = k
  BY UpToNumbers DEF Bijection, Surjection
<1> QED BY <1>1 DEF InOrder

LEMMA InOrderLists ==
  ASSUME NEW n \in Nat, NEW K \in SUBSET (1 .. n)
  PROVE  /\ \A i \in K : UpTo(K, i) \in 1 .. Cardinality(K) /\ InOrder(K)[UpTo(K, i)] = i
         /\ \A k, l \in 1 .. Cardinality(K) : k < l => InOrder(K)[k] < InOrder(K)[l]
<1>0. IsFiniteSet(K) /\ Cardinality(K) \in Nat /\ K \subseteq Nat
  BY FewPositions
<1>1. ASSUME NEW i \in K PROVE UpTo(K, i) \in 1 .. Cardinality(K) /\ InOrder(K)[UpTo(K, i)] = i
  <2>1. UpTo(K, i) \in 1 .. Cardinality(K)
    BY UpToGrows
  <2> DEFINE j == InOrder(K)[UpTo(K, i)]
  <2>2. j \in K /\ UpTo(K, j) = UpTo(K, i)
    BY <2>1, InOrderCounts
  <2> HIDE DEF j
  <2>3. ~(UpTo(K, i) < UpTo(K, j)) /\ ~(UpTo(K, j) < UpTo(K, i))
    BY <1>0, <2>1, <2>2
  <2>4. ~(i < j) /\ ~(j < i)
    BY <2>2, <2>3, UpToLater, Zenon
  <2>5. i = j
    BY <1>0, <2>2, <2>4
  <2> QED BY <2>1, <2>5 DEF j
<1>2. ASSUME NEW k \in 1 .. Cardinality(K), NEW l \in 1 .. Cardinality(K), k < l
      PROVE  InOrder(K)[k] < InOrder(K)[l]
  <2> DEFINE i == InOrder(K)[k]
             j == InOrder(K)[l]
  <2>1. i \in K /\ UpTo(K, i) = k /\ j \in K /\ UpTo(K, j) = l
    BY InOrderCounts
  <2> HIDE DEF i, j
  <2>2. ~(j < i)
    BY <1>0, <1>2, <2>1, UpToLater
  <2>3. i # j
    BY <1>0, <1>2, <2>1
  <2>4. i < j
    BY <1>0, <2>1, <2>2, <2>3
  <2> QED BY <2>4 DEF i, j
<1> QED BY <1>1, <1>2

\* What is picked of a list is a list of some of its elements.
LEMMA PickedIsList ==
  ASSUME NEW T, NEW list \in Seq(T), NEW K \in SUBSET (DOMAIN list)
  PROVE  /\ Picked(list, K) \in Seq(T) /\ Len(Picked(list, K)) = Cardinality(K)
         /\ DOMAIN Picked(list, K) = 1 .. Cardinality(K)
         /\ \A k \in 1 .. Cardinality(K) :
              InOrder(K)[k] \in K /\ Picked(list, K)[k] = list[InOrder(K)[k]]
<1>1. K \in SUBSET (1 .. Len(list)) /\ Len(list) \in Nat
  OBVIOUS
<1>2. Cardinality(K) \in Nat
  BY <1>1, FewPositions
<1>3. ASSUME NEW k \in 1 .. Cardinality(K) PROVE InOrder(K)[k] \in K /\ Picked(list, K)[k] = list[InOrder(K)[k]]
  BY <1>1, InOrderCounts DEF Picked
<1>4. \A k \in 1 .. Cardinality(K) : list[InOrder(K)[k]] \in T
  BY <1>3
<1>5. Picked(list, K) = [k \in 1 .. Cardinality(K) |-> list[InOrder(K)[k]]]
  BY DEF Picked
<1> QED BY <1>2, <1>3, <1>4, <1>5

\* A set of positions has a last one.
LEMMA LastPosition ==
  ASSUME NEW n \in Nat, NEW S \in SUBSET (1 .. n), S # {}
  PROVE  \E i \in S : \A j \in S : j <= i
<1> DEFINE T == {n - i : i \in S}
<1>1. T \subseteq Nat /\ T # {}
  <2>1. \A i \in S : n - i \in Nat
    OBVIOUS
  <2> QED BY <2>1
<1>2. IsWellFoundedOn(OpToRel(<, Nat), Nat)
  BY NatLessThanWellFounded
<1>3. PICK t \in T : \A u \in T : << u, t >> \notin OpToRel(<, Nat)
  <2> HIDE DEF T
  <2> QED BY <1>1, <1>2, WFMin
<1>4. \A u \in T : ~(u < t)
  BY <1>1, <1>3 DEF OpToRel
<1>5. PICK i \in S : t = n - i
  BY <1>3
<1>6. \A j \in S : ~(n - j < n - i)
  BY <1>4, <1>5
<1>7. ASSUME NEW j \in S PROVE j <= i
  <2>1. ~(n - j < n - i)
    BY <1>6
  <2>2. i \in Nat /\ j \in Nat
    BY FewPositions
  <2> QED BY <2>1, <2>2
<1> QED BY <1>7

-----------------------------------------------------------------------------
(* The KDE wallpaper item.                                                  *)

Entries  == [id : 1 .. MaxPools, pool : Pools, config : BOOLEAN, retired : BOOLEAN]
Fates    == {"held", "host", "fence", "closed"}
PendingFrames == {p \in [frame : Arrived \cup {0}, id : 0 .. MaxPools] : p.frame # 0 => p.id # 0}

\* The entries of a list that are not retired, and their pools.
LiveIn(list)    == {i \in DOMAIN list : ~list[i].retired}
LivePools(list) == {list[i].pool : i \in LiveIn(list)}
OneLive(list)   == list \in Seq(Entries) /\ \A i, j \in LiveIn(list) : i = j

\* A release that is not settled is pending on the live connection.
FramesInv ==
  /\ online \in BOOLEAN
  /\ back \in Seq(Fates)
  /\ {pendingVk, pendingEgl, releaseEgl} \subseteq PendingFrames
  /\ NoFrameIsKept

\* One pool at most is live, on a live connection, and has its images once a backend
\* is bound; every other pool with images is queued; what the GPU reads has images.
PoolsInv ==
  /\ api \in {"vulkan", "egl"} /\ backend \in {"none", api}
  /\ queued \subseteq Pools /\ imported \subseteq Pools
  /\ OneLive(gens)
  /\ ~online => LivePools(gens) = {}
  /\ LivePools(gens) \cap queued = {}
  /\ backend # "none" => LivePools(gens) \subseteq imported
  /\ imported \subseteq queued \cup LivePools(gens)
  /\ copies \subseteq Arrived \X Pools
  /\ ImportsOutliveCopies
  /\ api = "vulkan" /\ backend = "none" /\ ~destroyed => copies = {}
  /\ destroyed => backend = "none"

NumbersInv ==
  /\ lastId \in 0 .. MaxPools /\ boundIds \subseteq 1 .. MaxPools
  /\ current \in 0 .. MaxPools /\ failing \subseteq 1 .. MaxPools

KdeInv == FramesInv /\ PoolsInv /\ NumbersInv

-----------------------------------------------------------------------------
\* Latest picks one of the positions, or 0.
LEMMA LatestIsOne ==
  ASSUME NEW n \in Nat, NEW S \in SUBSET (1 .. n)
  PROVE  Latest(S) \in S \cup {0} /\ Latest(S) \in Nat
<1>1. \E i \in S \cup {0} : \A j \in S : j <= i
  <2>1. CASE S = {}
    BY <2>1
  <2>2. CASE S # {}
    BY <2>2, LastPosition
  <2> QED BY <2>1, <2>2
<1>2. Latest(S) \in S \cup {0}
  BY <1>1 DEF Latest
<1>3. \A s \in S \cup {0} : s \in Nat
  OBVIOUS
<1> HIDE DEF Latest
<1> QED BY <1>2, <1>3

LEMMA FindIsEntry ==
  ASSUME gens \in Seq(Entries), NEW id
  PROVE  Find(id) # 0 => Find(id) \in DOMAIN gens /\ gens[Find(id)].id = id
<1>1. Len(gens) \in Nat /\ Indices(id) \in SUBSET (1 .. Len(gens)) /\ DOMAIN gens = 1 .. Len(gens)
  BY DEF Indices
<1>2. Find(id) \in Indices(id) \cup {0}
  BY <1>1, LatestIsOne DEF Find
<1> QED BY <1>2 DEF Indices

\* Sweeping keeps what is live.
LEMMA SweptKeeps ==
  ASSUME NEW list \in Seq(Entries), NEW cur, OneLive(list)
  PROVE  OneLive(Swept(list, cur)) /\ LivePools(Swept(list, cur)) = LivePools(list)
<1> DEFINE K == {i \in DOMAIN list : ~list[i].retired \/ i = Latest({j \in DOMAIN list : list[j].id = cur})}
           q == Picked(list, K)
           card == Cardinality(K)
<1>1. Swept(list, cur) = q /\ K \in SUBSET (DOMAIN list)
  BY DEF Swept
<1>2. \A i \in LiveIn(list) : i \in K
  BY DEF LiveIn
<1>n. Len(list) \in Nat /\ DOMAIN list = 1 .. Len(list)
  OBVIOUS
<1> HIDE DEF K
<1>3. /\ q \in Seq(Entries) /\ DOMAIN q = 1 .. card
      /\ \A k \in 1 .. card : InOrder(K)[k] \in K /\ q[k] = list[InOrder(K)[k]]
  BY <1>1, PickedIsList
<1>4. K \in SUBSET (1 .. Len(list))
  BY <1>1, <1>n
<1>5. \A i \in K : UpTo(K, i) \in 1 .. card /\ InOrder(K)[UpTo(K, i)] = i
  BY <1>4, <1>n, InOrderLists
<1>6. \A k \in 1 .. card : UpTo(K, InOrder(K)[k]) = k
  BY <1>4, <1>n, InOrderCounts
<1> HIDE DEF q
<1>7. \A k \in LiveIn(q) : k \in 1 .. card /\ InOrder(K)[k] \in LiveIn(list) /\ q[k] = list[InOrder(K)[k]]
  BY <1>1, <1>3 DEF LiveIn
<1>8. \A i \in LiveIn(list) : UpTo(K, i) \in LiveIn(q) /\ q[UpTo(K, i)] = list[i]
  BY <1>2, <1>3, <1>5 DEF LiveIn
<1>9. \A k, l \in LiveIn(q) : k = l
  <2> TAKE k \in LiveIn(q), l \in LiveIn(q)
  <2>1. InOrder(K)[k] = InOrder(K)[l]
    BY <1>7 DEF OneLive
  <2> QED BY <1>6, <1>7, <2>1
<1>10. LivePools(q) = LivePools(list)
  BY <1>7, <1>8 DEF LivePools
<1> QED BY <1>1, <1>3, <1>9, <1>10 DEF OneLive

\* Retiring entries leaves the pools of the others live.
LEMMA RetiringKeeps ==
  ASSUME OneLive(gens), NEW R \in SUBSET (DOMAIN gens)
  PROVE  /\ OneLive(PoolsRetired(R))
         /\ LivePools(PoolsRetired(R)) \subseteq LivePools(gens)
         /\ LivePools(gens) \subseteq LivePools(PoolsRetired(R)) \cup {gens[i].pool : i \in FreshPools(R)}
         /\ LivePools(PoolsRetired(R)) \cap {gens[i].pool : i \in FreshPools(R)} = {}
         /\ {gens[i].pool : i \in FreshPools(R)} \subseteq Pools
         /\ FreshPools(DOMAIN gens) = LiveIn(gens)
         /\ LivePools(PoolsRetired(DOMAIN gens)) = {}
<1> DEFINE q == PoolsRetired(R)
<1>1. gens \in Seq(Entries) /\ \A i, j \in LiveIn(gens) : i = j
  BY DEF OneLive
<1>2. \A i \in DOMAIN gens : gens[i] \in Entries
  BY <1>1
<1>3. \A i \in DOMAIN gens : [gens[i] EXCEPT !.retired = TRUE] \in Entries
                             /\ [gens[i] EXCEPT !.retired = TRUE].retired
                             /\ [gens[i] EXCEPT !.retired = TRUE].pool = gens[i].pool
  BY <1>2 DEF Entries
<1>4. DOMAIN q = DOMAIN gens /\ \A i \in DOMAIN gens : q[i] = IF i \in R THEN [gens[i] EXCEPT !.retired = TRUE] ELSE gens[i]
  BY DEF PoolsRetired
<1>5. q \in Seq(Entries)
  <2>1. Len(gens) \in Nat /\ DOMAIN gens = 1 .. Len(gens)
    BY <1>1
  <2>2. \A i \in 1 .. Len(gens) : (IF i \in R THEN [gens[i] EXCEPT !.retired = TRUE] ELSE gens[i]) \in Entries
    BY <1>2, <1>3, <2>1
  <2>3. q = [i \in 1 .. Len(gens) |-> IF i \in R THEN [gens[i] EXCEPT !.retired = TRUE] ELSE gens[i]]
    BY <2>1 DEF PoolsRetired
  <2> QED BY <2>1, <2>2, <2>3
<1> HIDE DEF q
<1>6. LiveIn(q) = LiveIn(gens) \ R /\ \A i \in LiveIn(q) : q[i] = gens[i]
  BY <1>3, <1>4 DEF LiveIn
<1>7. FreshPools(R) = LiveIn(gens) \cap R /\ FreshPools(DOMAIN gens) = LiveIn(gens)
  BY DEF FreshPools, LiveIn
<1>8. LiveIn(PoolsRetired(DOMAIN gens)) = {}
  BY <1>3 DEF PoolsRetired, LiveIn
<1>9. {gens[i].pool : i \in FreshPools(R)} \subseteq Pools
  BY <1>2, <1>7 DEF LiveIn, Entries
<1>10. OneLive(q) /\ LivePools(q) \subseteq LivePools(gens)
       /\ LivePools(gens) \subseteq LivePools(q) \cup {gens[i].pool : i \in FreshPools(R)}
  BY <1>1, <1>5, <1>6, <1>7 DEF OneLive, LivePools
<1>11. LivePools(q) \cap {gens[i].pool : i \in FreshPools(R)} = {}
  BY <1>1, <1>6, <1>7 DEF LivePools
<1>12. LivePools(PoolsRetired(DOMAIN gens)) = {}
  BY <1>8 DEF LivePools
<1> QED BY <1>7, <1>9, <1>10, <1>11, <1>12 DEF q

-----------------------------------------------------------------------------
\* Frames that are settled leave the pending ones; every other one stays pending on
\* the connection.
LEMMA SettlingKeeps ==
  ASSUME FramesInv, NEW S,
         back' \in Seq(Fates), DOMAIN back' = DOMAIN back,
         \A f \in Arrived : back'[f] = "held" => back[f] = "held" /\ f \notin S,
         pendingVk' \in {pendingVk, NoPending}, pendingEgl' \in {pendingEgl, NoPending},
         releaseEgl' \in {releaseEgl, NoPending}, online' \in BOOLEAN,
         \A f \in {pendingVk.frame, releaseEgl.frame} \ S :
           f # 0 /\ online => online' /\ f \in {pendingVk'.frame, releaseEgl'.frame}
  PROVE  FramesInv'
<1>1. NoPending \in PendingFrames
  BY KdeAssumption DEF NoPending, PendingFrames
<1>2. {pendingVk', pendingEgl', releaseEgl'} \subseteq PendingFrames
  BY <1>1 DEF FramesInv
<1>3. PendingFrames' = PendingFrames
  BY DEF PendingFrames, Arrived
<1>4. ASSUME NEW f \in DOMAIN back', back'[f] = "held"
      PROVE  online' /\ f \in {pendingVk'.frame, releaseEgl'.frame}
  <2>1. f \in Arrived /\ back[f] = "held" /\ f \notin S
    BY <1>4 DEF Arrived
  <2>2. online /\ f \in {pendingVk.frame, releaseEgl.frame}
    BY <2>1 DEF FramesInv, NoFrameIsKept
  <2>3. f # 0
    BY <2>1 DEF FramesInv, Arrived
  <2> QED BY <2>1, <2>2, <2>3
<1> QED BY <1>2, <1>3, <1>4 DEF FramesInv, NoFrameIsKept, Arrived

\* SignalsAll settles frames by the host.
LEMMA SignalsSettles ==
  ASSUME back \in Seq(Fates), NEW S, SignalsAll(S)
  PROVE  /\ back' \in Seq(Fates) /\ DOMAIN back' = DOMAIN back
         /\ \A f \in Arrived : back'[f] = "held" => back[f] = "held" /\ f \notin S
<1>1. Len(back) \in Nat /\ DOMAIN back = 1 .. Len(back) /\ \A f \in DOMAIN back : back[f] \in Fates
  OBVIOUS
<1>2. back' = [f \in 1 .. Len(back) |-> IF f \in S THEN "host" ELSE back[f]]
  BY <1>1 DEF SignalsAll, Arrived
<1>3. \A f \in 1 .. Len(back) : (IF f \in S THEN "host" ELSE back[f]) \in Fates
  BY <1>1 DEF Fates
<1>4. back' \in Seq(Fates) /\ DOMAIN back' = 1 .. Len(back)
  BY <1>1, <1>2, <1>3
<1>5. ASSUME NEW f \in Arrived, back'[f] = "held" PROVE back[f] = "held" /\ f \notin S
  BY <1>1, <1>2, <1>5 DEF Arrived
<1> QED BY <1>1, <1>4, <1>5

LEMMA RetiresPendingKeeps ==
  ASSUME FramesInv, NEW R, RetiresPending(R), UNCHANGED online
  PROVE  FramesInv' /\ Arrived' = Arrived
<1> DEFINE ids == IdsOf(FreshPools(R))
<1>0. SignalsAll(PendingOf(R)) /\ pendingVk' = Drops(pendingVk, ids)
      /\ pendingEgl' = Drops(pendingEgl, ids) /\ releaseEgl' = Drops(releaseEgl, ids)
  BY DEF RetiresPending
<1>d. PendingOf(R) = Held(ids)
  BY DEF PendingOf
<1> HIDE DEF ids
<1>1. back' \in Seq(Fates) /\ DOMAIN back' = DOMAIN back
      /\ \A f \in Arrived : back'[f] = "held" => back[f] = "held" /\ f \notin PendingOf(R)
  BY <1>0, SignalsSettles DEF FramesInv
<1>2. pendingVk' \in {pendingVk, NoPending} /\ pendingEgl' \in {pendingEgl, NoPending}
      /\ releaseEgl' \in {releaseEgl, NoPending}
  BY <1>0 DEF Drops
<1>3. ASSUME NEW f \in {pendingVk.frame, releaseEgl.frame} \ PendingOf(R), f # 0, online
      PROVE  online' /\ f \in {pendingVk'.frame, releaseEgl'.frame}
  <2>1. CASE f = pendingVk.frame
    <3>1. ~Matches(pendingVk, ids)
      BY <1>3, <1>d, <2>1 DEF Held
    <3> QED BY <1>0, <1>3, <2>1, <3>1 DEF Drops
  <2>2. CASE f = releaseEgl.frame
    <3>1. ~Matches(releaseEgl, ids)
      BY <1>3, <1>d, <2>2 DEF Held
    <3> QED BY <1>0, <1>3, <2>2, <3>1 DEF Drops
  <2> QED BY <1>3, <2>1, <2>2
<1>4. online' \in BOOLEAN
  BY DEF FramesInv
<1> QED BY <1>1, <1>2, <1>3, <1>4, SettlingKeeps DEF Arrived

\* Everything that is pending is handed back, whatever becomes of the connection.
LEMMA AllHandedBack ==
  ASSUME FramesInv, SignalsAll({pendingVk.frame, releaseEgl.frame}), online' \in BOOLEAN,
         pendingVk' = NoPending, pendingEgl' = NoPending, releaseEgl' = NoPending
  PROVE  FramesInv' /\ Arrived' = Arrived
<1>1. back' \in Seq(Fates) /\ DOMAIN back' = DOMAIN back
      /\ \A f \in Arrived : back'[f] = "held" => back[f] = "held" /\ f \notin {pendingVk.frame, releaseEgl.frame}
  BY SignalsSettles DEF FramesInv
<1>2. {pendingVk.frame, releaseEgl.frame} \ {pendingVk.frame, releaseEgl.frame} = {}
  OBVIOUS
<1> QED BY <1>1, <1>2, SettlingKeeps DEF Arrived

LEMMA FramesSame ==
  ASSUME FramesInv, UNCHANGED << online, back, pendingVars >>
  PROVE  FramesInv' /\ Arrived' = Arrived
BY DEF FramesInv, pendingVars, NoFrameIsKept, Arrived, PendingFrames

\* Retiring the live entries and queueing their pools.
LEMMA QueueingKeeps ==
  ASSUME PoolsInv, NEW R \in SUBSET (DOMAIN gens), FreshPools(R) \subseteq R,
         gens' = PoolsRetired(R), queued' = Queued(R), R = FreshPools(R),
         Arrived' = Arrived,
         UNCHANGED << api, backend, online, imported, copies, destroyed >>
  PROVE  PoolsInv'
<1> DEFINE P == {gens[i].pool : i \in FreshPools(R)}
<1>1. /\ OneLive(gens') /\ LivePools(gens') \subseteq LivePools(gens)
      /\ LivePools(gens) \subseteq LivePools(gens') \cup P
      /\ LivePools(gens') \cap P = {} /\ P \subseteq Pools
  BY RetiringKeeps DEF PoolsInv
<1>2. queued' = queued \cup P
  BY DEF Queued
<1> HIDE DEF P
<1>3. ImportsOutliveCopies'
  BY DEF PoolsInv, ImportsOutliveCopies
<1> QED BY <1>1, <1>2, <1>3 DEF PoolsInv

LEMMA KdeInitInv == KdeInit => KdeInv
<1> SUFFICES ASSUME KdeInit PROVE KdeInv
  OBVIOUS
<1>1. MaxPools \in Nat
  BY KdeAssumption
<1>2. NoPending \in PendingFrames
  BY <1>1 DEF NoPending, PendingFrames
<1>3. FramesInv
  <2>1. back = << >> /\ online = FALSE
    BY DEF KdeInit
  <2>3. back \in Seq(Fates) /\ DOMAIN back = {}
    BY <2>1
  <2>2. {pendingVk, pendingEgl, releaseEgl} \subseteq PendingFrames
    BY <1>2 DEF KdeInit
  <2> QED BY <2>1, <2>2, <2>3 DEF FramesInv, NoFrameIsKept, Arrived
<1>4. LiveIn(gens) = {} /\ gens \in Seq(Entries)
  BY DEF KdeInit, LiveIn
<1>5. PoolsInv
  BY <1>4 DEF KdeInit, PoolsInv, OneLive, LivePools, ImportsOutliveCopies
<1> QED BY <1>1, <1>3, <1>5 DEF KdeInit, KdeInv, NumbersInv

LEMMA KdeInvShows == KdeInv => FramesAndImportsKept
<1> SUFFICES ASSUME KdeInv PROVE FramesAndImportsKept
  OBVIOUS
<1>1. FramesInv /\ PoolsInv /\ NumbersInv
  BY DEF KdeInv
<1>2. \A i \in DOMAIN gens : gens[i] \in Entries
  BY <1>1 DEF PoolsInv, OneLive
<1>3. \A i \in DOMAIN gens : gens[i].pool \in Pools /\ gens[i].id \in 1 .. MaxPools
  BY <1>2 DEF Entries
<1>4. \A f \in Arrived : back[f] \in {"held", "host", "fence", "closed"}
  BY <1>1 DEF FramesInv, Arrived, Fates
<1>5. \A p \in {pendingVk, pendingEgl, releaseEgl} : p.frame \in Arrived \cup {0}
  BY <1>1 DEF FramesInv, PendingFrames
<1>6. KdeTypeOK
  BY <1>1, <1>3, <1>4, <1>5 DEF KdeTypeOK, PoolsInv, NumbersInv
<1>7. NoImportIsLost
  <2> SUFFICES ASSUME NEW p \in imported, p \notin queued PROVE \E i \in Live : gens[i].pool = p
    BY DEF NoImportIsLost
  <2>1. p \in LivePools(gens)
    BY <1>1 DEF PoolsInv
  <2> QED BY <2>1 DEF LivePools, LiveIn, Live
<1> QED BY <1>1, <1>6, <1>7 DEF FramesAndImportsKept, FramesInv, PoolsInv

-----------------------------------------------------------------------------
(* The actions.                                                             *)

LEMMA PoolsSame ==
  ASSUME PoolsInv, Arrived' = Arrived,
         UNCHANGED << api, backend, gens, queued, imported, destroyed >>,
         online => online', copies' \subseteq copies
  PROVE  PoolsInv'
<1>1. ImportsOutliveCopies'
  BY DEF PoolsInv, ImportsOutliveCopies
<1>2. LivePools(gens') = LivePools(gens) /\ OneLive(gens')
  BY DEF PoolsInv
<1> QED BY <1>1, <1>2 DEF PoolsInv

LEMMA KdeConnectsKeeps == KdeInv /\ KdeConnects => KdeInv'
<1> SUFFICES ASSUME KdeInv, KdeConnects PROVE KdeInv'
  OBVIOUS
<1>1. /\ ~online /\ graph /\ ~closing /\ ~destroyed /\ online' = TRUE /\ boundIds' = {}
      /\ backend' = api /\ lastId' \in {0, lastId}
      /\ UNCHANGED << api, gens, queued, imported, current, pendingVars, failing, copies, back, destroyed >>
  BY DEF KdeConnects, poolVars
<1>2. FramesInv /\ PoolsInv /\ NumbersInv
  BY DEF KdeInv
<1>3. FramesInv' /\ Arrived' = Arrived
  BY <1>1, <1>2 DEF FramesInv, pendingVars, NoFrameIsKept, Arrived, PendingFrames
<1>4. ImportsOutliveCopies'
  BY <1>1, <1>2 DEF PoolsInv, ImportsOutliveCopies
<1>5. LivePools(gens') = {} /\ OneLive(gens') /\ LivePools(gens) = {}
  BY <1>1, <1>2 DEF PoolsInv
<1>6. api \in {"vulkan", "egl"} /\ api # "none"
  BY <1>2 DEF PoolsInv
<1>7. PoolsInv'
  BY <1>1, <1>2, <1>3, <1>4, <1>5, <1>6 DEF PoolsInv
<1>8. NumbersInv'
  BY <1>1, <1>2, KdeAssumption DEF NumbersInv
<1> QED BY <1>3, <1>7, <1>8 DEF KdeInv

LEMMA BindsPoolKeeps == ASSUME KdeInv, NEW p \in Pools, BindsPool(p) PROVE KdeInv'
<1> DEFINE n == lastId + 1
           entry == [id |-> n, pool |-> p, config |-> FALSE, retired |-> FALSE]
           old == PoolsRetired(DOMAIN gens)
<1>0. FramesInv /\ PoolsInv /\ NumbersInv
  BY DEF KdeInv
<1>1. /\ online /\ lastId < MaxPools /\ p \in Pools \ UsedPools
      /\ lastId' = n /\ boundIds' = boundIds \cup {n}
      /\ queued' = Queued(FreshPools(DOMAIN gens))
      /\ RetiresPending(DOMAIN gens)
      /\ UNCHANGED << api, online, backend, current, failing, copies, destroyed >>
  BY DEF BindsPool, graphVars
<1>2. \/ gens' = Append(old, entry) /\ imported' = imported \cup (IF backend = "none" THEN {} ELSE {p})
      \/ backend # "none" /\ gens' = old /\ imported' = imported
  BY DEF BindsPool
<1>3. FramesInv' /\ Arrived' = Arrived
  BY <1>0, <1>1, RetiresPendingKeeps
<1>4. /\ OneLive(old) /\ LivePools(old) = {} /\ FreshPools(DOMAIN gens) = LiveIn(gens)
  BY <1>0, RetiringKeeps DEF PoolsInv
<1>5. queued' = queued \cup LivePools(gens) /\ LivePools(gens) \subseteq Pools
  <2>1. queued' = queued \cup {gens[i].pool : i \in LiveIn(gens)}
    BY <1>1, <1>4 DEF Queued
  <2>2. \A i \in DOMAIN gens : gens[i] \in Entries
    BY <1>0 DEF PoolsInv, OneLive
  <2>3. \A i \in DOMAIN gens : gens[i].pool \in Pools
    BY <2>2 DEF Entries
  <2> QED BY <2>1, <2>3 DEF LivePools, LiveIn
<1>6. p \notin queued'
  BY <1>1, <1>5 DEF UsedPools, LivePools, LiveIn
<1>7. n \in 1 .. MaxPools
  BY <1>0, <1>1, KdeAssumption DEF NumbersInv
<1> HIDE DEF n
<1>8. entry \in Entries /\ entry.pool = p /\ ~entry.retired
  BY <1>7 DEF Entries
<1> HIDE DEF old, entry
<1>9. OneLive(Append(old, entry)) /\ LivePools(Append(old, entry)) = {p}
  <2>1. old \in Seq(Entries) /\ LiveIn(old) = {}
    BY <1>4 DEF OneLive, LivePools
  <2>2. Append(old, entry) \in Seq(Entries) /\ Len(old) \in Nat
        /\ DOMAIN Append(old, entry) = 1 .. Len(old) + 1
        /\ Append(old, entry)[Len(old) + 1] = entry
        /\ \A i \in 1 .. Len(old) : Append(old, entry)[i] = old[i]
    BY <1>8, <2>1
  <2>3. LiveIn(Append(old, entry)) = {Len(old) + 1}
    BY <1>8, <2>1, <2>2 DEF LiveIn
  <2> QED BY <1>8, <2>2, <2>3 DEF OneLive, LivePools
<1>10. imported' \subseteq Pools /\ imported \subseteq imported'
  BY <1>0, <1>2 DEF PoolsInv
<1>11. ImportsOutliveCopies'
  BY <1>0, <1>1, <1>10 DEF PoolsInv, ImportsOutliveCopies
<1>12. imported \subseteq queued'
  BY <1>0, <1>5 DEF PoolsInv
<1>13. PoolsInv'
  <2>1. CASE gens' = Append(old, entry) /\ imported' = imported \cup (IF backend = "none" THEN {} ELSE {p})
    BY <1>0, <1>1, <1>3, <1>5, <1>6, <1>9, <1>10, <1>11, <1>12, <2>1 DEF PoolsInv
  <2>2. CASE gens' = old /\ imported' = imported
    BY <1>0, <1>1, <1>3, <1>4, <1>5, <1>10, <1>11, <1>12, <2>2 DEF PoolsInv
  <2> QED BY <1>2, <2>1, <2>2
<1>14. NumbersInv'
  <2>1. n \in 0 .. MaxPools
    BY <1>7
  <2> QED BY <1>0, <1>1, <1>7, <2>1 DEF NumbersInv
<1> QED BY <1>3, <1>13, <1>14 DEF KdeInv

LEMMA KdeConfiguresKeeps == ASSUME KdeInv, NEW id \in 0 .. MaxPools, KdeConfigures(id) PROVE KdeInv'
<1>0. FramesInv /\ PoolsInv /\ NumbersInv
  BY DEF KdeInv
<1>1. PICK i : gens' = [gens EXCEPT ![i].config = TRUE]
  BY DEF KdeConfigures
<1>2. UNCHANGED << api, online, boundIds, lastId, backend, queued, imported, current, pendingVars,
                   failing, copies, back, destroyed >>
  BY DEF KdeConfigures, graphVars, linkVars
<1>3. FramesInv' /\ Arrived' = Arrived
  BY <1>0, <1>2, FramesSame
<1>4. gens \in Seq(Entries) /\ \A j \in DOMAIN gens : gens[j] \in Entries
  BY <1>0 DEF PoolsInv, OneLive
<1>5. \A j \in DOMAIN gens : /\ [gens[j] EXCEPT !.config = TRUE] \in Entries
                             /\ [gens[j] EXCEPT !.config = TRUE].retired = gens[j].retired
                             /\ [gens[j] EXCEPT !.config = TRUE].pool = gens[j].pool
  BY <1>4 DEF Entries
<1>6. DOMAIN gens' = DOMAIN gens
      /\ \A j \in DOMAIN gens : gens'[j] = IF j = i THEN [gens[j] EXCEPT !.config = TRUE] ELSE gens[j]
  BY <1>1
<1>7. gens' \in Seq(Entries)
  <2>1. Len(gens) \in Nat /\ DOMAIN gens = 1 .. Len(gens)
    BY <1>4
  <2>2. \A j \in 1 .. Len(gens) : (IF j = i THEN [gens[j] EXCEPT !.config = TRUE] ELSE gens[j]) \in Entries
    BY <1>4, <1>5, <2>1
  <2>3. gens' = [j \in 1 .. Len(gens) |-> IF j = i THEN [gens[j] EXCEPT !.config = TRUE] ELSE gens[j]]
    BY <1>1, <2>1
  <2> QED BY <2>1, <2>2, <2>3
<1>8. LiveIn(gens') = LiveIn(gens) /\ \A j \in LiveIn(gens) : gens'[j].pool = gens[j].pool
  BY <1>5, <1>6, ZenonT(40) DEF LiveIn
<1>9. OneLive(gens') /\ LivePools(gens') = LivePools(gens)
  BY <1>0, <1>7, <1>8 DEF PoolsInv, OneLive, LivePools
<1>10. ImportsOutliveCopies'
  BY <1>0, <1>2 DEF PoolsInv, ImportsOutliveCopies
<1>11. PoolsInv'
  BY <1>0, <1>2, <1>3, <1>9, <1>10 DEF PoolsInv
<1> QED BY <1>0, <1>2, <1>3, <1>11 DEF KdeInv, NumbersInv

LEMMA TakesFrameKeeps ==
  ASSUME KdeInv, NEW id \in 0 .. MaxPools, NEW own \in BOOLEAN, TakesFrame(id, own)
  PROVE  KdeInv'
<1> DEFINE i == Find(id)
           f == Len(back) + 1
           new == [frame |-> f, id |-> id]
<1>0. FramesInv /\ PoolsInv /\ NumbersInv /\ back \in Seq(Fates) /\ Len(back) \in Nat /\ Arrived = 1 .. Len(back)
  BY DEF KdeInv, FramesInv, Arrived
<1>1. /\ online /\ id \in boundIds
      /\ UNCHANGED << api, online, boundIds, lastId, graph, backend, gens, queued, imported,
                      failing, copies, destroyed >>
      /\ current' \in {current, id}
  BY DEF TakesFrame, linkVars, graphVars, poolVars
<1>f. f \in Nat /\ f # 0 /\ f \notin Arrived
  BY <1>0
<1>2. /\ \E how \in {"closed", "host"} : back' = Append(back, how) /\ UNCHANGED pendingVars
      \/ \E old \in {pendingVk, releaseEgl} :
           /\ back' = Append([g \in Arrived |-> IF g = old.frame THEN "host" ELSE back[g]], "held")
           /\ \/ old = pendingVk /\ pendingVk' = new /\ UNCHANGED << pendingEgl, releaseEgl >>
              \/ old = releaseEgl /\ pendingEgl' = new /\ releaseEgl' = new /\ UNCHANGED pendingVk
  <2> HIDE DEF new
  <2> QED BY DEF TakesFrame, pendingVars, new
<1>3. new \in [frame : Arrived \cup {f}, id : 1 .. MaxPools] /\ new.frame = f
  BY <1>0, <1>1 DEF NumbersInv
<1> HIDE DEF f, new
<1>4. /\ back' \in Seq(Fates) /\ Arrived' = Arrived \cup {f}
      /\ \A g \in Arrived : back'[g] = "held" => back[g] = "held"
      /\ {pendingVk', pendingEgl', releaseEgl'} \subseteq {pendingVk, pendingEgl, releaseEgl, new}
      /\ NoFrameIsKept'
  <2>1. CASE \E how \in {"closed", "host"} : back' = Append(back, how) /\ UNCHANGED pendingVars
    <3>1. PICK how \in {"closed", "host"} : back' = Append(back, how)
      BY <2>1
    <3>2. back' \in Seq(Fates) /\ DOMAIN back' = 1 .. f /\ Len(back) \in Nat /\ f = Len(back) + 1
          /\ (\A g \in 1 .. Len(back) : back'[g] = back[g]) /\ back'[f] = how
      BY <1>0, <3>1 DEF Fates, f
    <3>3. how # "held"
      OBVIOUS
    <3>4. Arrived' = Arrived \cup {f} /\ \A g \in Arrived : back'[g] = back[g]
      BY <1>0, <3>2 DEF Arrived
    <3>5. NoFrameIsKept'
      BY <1>0, <1>1, <2>1, <3>2, <3>3, <3>4 DEF FramesInv, NoFrameIsKept, pendingVars
    <3> QED BY <2>1, <3>2, <3>4, <3>5 DEF pendingVars
  <2>2. ASSUME NEW old \in {pendingVk, releaseEgl},
               back' = Append([g \in Arrived |-> IF g = old.frame THEN "host" ELSE back[g]], "held"),
               \/ old = pendingVk /\ pendingVk' = new /\ UNCHANGED << pendingEgl, releaseEgl >>
               \/ old = releaseEgl /\ pendingEgl' = new /\ releaseEgl' = new /\ UNCHANGED pendingVk
        PROVE  /\ back' \in Seq(Fates) /\ Arrived' = Arrived \cup {f}
               /\ \A g \in Arrived : back'[g] = "held" => back[g] = "held"
               /\ {pendingVk', pendingEgl', releaseEgl'} \subseteq {pendingVk, pendingEgl, releaseEgl, new}
               /\ NoFrameIsKept'
    <3> DEFINE q == [g \in 1 .. Len(back) |-> IF g = old.frame THEN "host" ELSE back[g]]
    <3>1. q \in Seq(Fates) /\ Len(q) = Len(back) /\ back' = Append(q, "held")
      <4>1. \A g \in 1 .. Len(back) : (IF g = old.frame THEN "host" ELSE back[g]) \in Fates
        BY <1>0 DEF Fates
      <4> QED BY <1>0, <2>2, <4>1
    <3>2. \A g \in 1 .. Len(back) : q[g] = IF g = old.frame THEN "host" ELSE back[g]
      OBVIOUS
    <3> HIDE DEF q
    <3>3. back' \in Seq(Fates) /\ DOMAIN back' = 1 .. f /\ f = Len(back) + 1
          /\ (\A g \in 1 .. Len(back) : back'[g] = q[g])
      BY <1>0, <3>1 DEF Fates, f
    <3>4. Arrived' = Arrived \cup {f}
          /\ \A g \in Arrived : back'[g] = IF g = old.frame THEN "host" ELSE back[g]
      BY <1>0, <3>2, <3>3 DEF Arrived
    <3>5. \A g \in Arrived : back'[g] = "held" => back[g] = "held" /\ g # old.frame
      BY <3>4
    <3>6. ASSUME NEW g \in Arrived', back'[g] = "held" PROVE g \in {pendingVk'.frame, releaseEgl'.frame}
      <4>1. CASE g = f
        BY <1>3, <2>2, <4>1
      <4>2. CASE g \in Arrived
        <5>1. g \in {pendingVk.frame, releaseEgl.frame} /\ g # old.frame
          BY <1>0, <3>5, <3>6, <4>2 DEF FramesInv, NoFrameIsKept
        <5> QED BY <2>2, <5>1
      <4> QED BY <3>4, <3>6, <4>1, <4>2
    <3> QED BY <1>1, <2>2, <3>3, <3>4, <3>5, <3>6 DEF NoFrameIsKept
  <2> QED BY <1>2, <2>1, <2>2
<1>5. PendingFrames \subseteq PendingFrames' /\ new \in PendingFrames'
  BY <1>3, <1>4, <1>f, KdeAssumption DEF PendingFrames
<1>6. FramesInv'
  BY <1>0, <1>1, <1>4, <1>5 DEF FramesInv
<1>7. ImportsOutliveCopies'
  BY <1>0, <1>1 DEF PoolsInv, ImportsOutliveCopies
<1>8. copies' \subseteq Arrived' \X Pools
  BY <1>0, <1>1, <1>4 DEF PoolsInv
<1>9. LivePools(gens') = LivePools(gens) /\ OneLive(gens')
  BY <1>0, <1>1 DEF PoolsInv
<1>10. PoolsInv'
  BY <1>0, <1>1, <1>7, <1>8, <1>9 DEF PoolsInv
<1> QED BY <1>0, <1>1, <1>6, <1>10 DEF KdeInv, NumbersInv

LEMMA UnbindsKeeps ==
  ASSUME KdeInv, NEW id \in 0 .. MaxPools, Unbinds(id) \/ ReportsFailure(id)
  PROVE  KdeInv'
<1>0. FramesInv /\ PoolsInv /\ NumbersInv
  BY DEF KdeInv
<1>1. PICK R \in SUBSET LiveIn(gens) : gens' = PoolsRetired(R) /\ queued' = Queued(R) /\ RetiresPending(R)
  <2>1. {i \in Indices(id) : ~gens[i].retired} \in SUBSET LiveIn(gens) /\ {} \in SUBSET LiveIn(gens)
    BY DEF Indices, LiveIn
  <2> QED BY <2>1 DEF Unbinds, ReportsFailure
<1>2. UNCHANGED << api, online, backend, imported, current, copies, destroyed, lastId >>
      /\ boundIds' \subseteq boundIds /\ failing' \subseteq failing
  BY DEF Unbinds, ReportsFailure, graphVars, linkVars
<1>3. FramesInv' /\ Arrived' = Arrived
  BY <1>0, <1>1, <1>2, RetiresPendingKeeps
<1>4. FreshPools(R) = R /\ R \in SUBSET (DOMAIN gens)
  BY <1>1 DEF FreshPools, LiveIn
<1>5. PoolsInv'
  BY <1>0, <1>1, <1>2, <1>3, <1>4, QueueingKeeps
<1> QED BY <1>0, <1>2, <1>3, <1>5 DEF KdeInv, NumbersInv

\* The live pool of a list that is dropped or retired is queued.
LEMMA ClosingKeeps ==
  ASSUME PoolsInv, Arrived' = Arrived,
         gens' \in {PoolsRetired(DOMAIN gens), << >>}, queued' = Queued(FreshPools(DOMAIN gens)),
         backend' \in {backend, "none"}, backend' # backend => destroyed', destroyed => destroyed',
         destroyed' => backend' = "none",
         UNCHANGED << api, imported, copies >>
  PROVE  PoolsInv'
<1>1. OneLive(PoolsRetired(DOMAIN gens)) /\ LivePools(PoolsRetired(DOMAIN gens)) = {}
      /\ FreshPools(DOMAIN gens) = LiveIn(gens)
  BY RetiringKeeps DEF PoolsInv
<1>2. OneLive(<< >>) /\ LivePools(<< >>) = {}
  <2>1. << >> \in Seq(Entries) /\ DOMAIN << >> = {}
    OBVIOUS
  <2> QED BY <2>1 DEF OneLive, LivePools, LiveIn
<1>3. OneLive(gens') /\ LivePools(gens') = {}
  BY <1>1, <1>2
<1>4. \A i \in DOMAIN gens : gens[i] \in Entries
  BY DEF PoolsInv, OneLive
<1>5. queued' = queued \cup LivePools(gens) /\ LivePools(gens) \subseteq Pools
  BY <1>1, <1>4 DEF Queued, LivePools, LiveIn, Entries
<1>6. ImportsOutliveCopies'
  BY DEF PoolsInv, ImportsOutliveCopies
<1> QED BY <1>3, <1>5, <1>6 DEF PoolsInv

LEMMA KdeClosesKeeps == KdeInv /\ (KdeDisconnects \/ ClosesLater \/ Destroys) => KdeInv'
<1> SUFFICES ASSUME KdeInv, KdeDisconnects \/ ClosesLater \/ Destroys PROVE KdeInv'
  OBVIOUS
<1>0. FramesInv /\ PoolsInv /\ NumbersInv
  BY DEF KdeInv
<1>1. /\ online' = FALSE /\ boundIds' = {}
      /\ SignalsAll({pendingVk.frame, releaseEgl.frame})
      /\ pendingVk' = NoPending /\ pendingEgl' = NoPending /\ releaseEgl' = NoPending
      /\ gens' \in {PoolsRetired(DOMAIN gens), << >>}
      /\ queued' = Queued(FreshPools(DOMAIN gens))
      /\ current' \in {current, 0}
      /\ UNCHANGED << api, imported, copies, lastId, failing >>
  BY DEF KdeDisconnects, ClosesLater, Destroys, ClosesTransport
<1>2. \/ backend' = backend /\ destroyed' = destroyed
      \/ backend' = "none" /\ destroyed' = TRUE
  BY DEF KdeDisconnects, ClosesLater, Destroys, graphVars
<1>3. FramesInv' /\ Arrived' = Arrived
  BY <1>0, <1>1, AllHandedBack
<1>4. PoolsInv'
  <2>1. destroyed => backend = "none"
    BY <1>0 DEF PoolsInv
  <2> QED BY <1>0, <1>1, <1>2, <1>3, <2>1, ClosingKeeps
<1>5. NumbersInv'
  BY <1>0, <1>1, KdeAssumption DEF NumbersInv
<1> QED BY <1>3, <1>4, <1>5 DEF KdeInv

LEMMA LosesGraphKeeps == KdeInv /\ LosesGraph => KdeInv'
<1> SUFFICES ASSUME KdeInv, LosesGraph PROVE KdeInv'
  OBVIOUS
<1>0. FramesInv /\ PoolsInv /\ NumbersInv
  BY DEF KdeInv
<1>1. /\ SignalsAll({pendingVk.frame, releaseEgl.frame}) /\ ~destroyed
      /\ pendingVk' = NoPending /\ pendingEgl' = NoPending /\ releaseEgl' = NoPending
      /\ GraphGone \/ NoContext
      /\ gens' = << >>
      /\ UNCHANGED << api, online, boundIds, lastId, failing, destroyed >>
  BY DEF LosesGraph, linkVars
<1>2. FramesInv' /\ Arrived' = Arrived
  <2>1. online' \in BOOLEAN
    BY <1>0, <1>1 DEF FramesInv
  <2> QED BY <1>0, <1>1, <2>1, AllHandedBack
<1>3. CASE GraphGone
  <2>1. /\ backend' = "none" /\ copies' = (IF backend = "vulkan" THEN {} ELSE copies)
        /\ imported' = {} /\ queued' = {} /\ current' = 0
    BY <1>3 DEF GraphGone
  <2>2. api' = "vulkan" => copies' = {}
    BY <1>0, <1>1, <2>1 DEF PoolsInv
  <2>3. gens' \in Seq(Entries) /\ LiveIn(gens') = {}
    BY <1>1 DEF LiveIn
  <2>4. PoolsInv'
    BY <1>0, <1>1, <1>2, <2>1, <2>2, <2>3 DEF PoolsInv, OneLive, LivePools, ImportsOutliveCopies
  <2>5. NumbersInv'
    BY <1>0, <1>1, <2>1, KdeAssumption DEF NumbersInv
  <2> QED BY <1>2, <2>4, <2>5 DEF KdeInv
<1>4. CASE NoContext
  <2>1. queued' = Queued(FreshPools(DOMAIN gens)) /\ UNCHANGED << backend, current, copies, imported >>
    BY <1>4 DEF NoContext
  <2>2. PoolsInv'
    <3>1. destroyed' => backend' = "none"
      BY <1>0, <1>1, <2>1 DEF PoolsInv
    <3> QED BY <1>0, <1>1, <1>2, <2>1, <3>1, ClosingKeeps
  <2>3. NumbersInv'
    BY <1>0, <1>1, <2>1 DEF NumbersInv
  <2> QED BY <1>2, <2>2, <2>3 DEF KdeInv
<1> QED BY <1>1, <1>3, <1>4

LEMMA QuietStepsKeep == KdeInv /\ (GpuCompletes \/ GainsGraph) => KdeInv'
<1> SUFFICES ASSUME KdeInv, GpuCompletes \/ GainsGraph PROVE KdeInv'
  OBVIOUS
<1>0. FramesInv /\ PoolsInv /\ NumbersInv
  BY DEF KdeInv
<1>1. copies' \subseteq copies
      /\ UNCHANGED << api, online, boundIds, lastId, backend, gens, queued, imported, current,
                      pendingVars, failing, back, destroyed >>
  BY DEF GpuCompletes, GainsGraph, linkVars, graphVars, poolVars
<1>2. FramesInv' /\ Arrived' = Arrived
  BY <1>0, <1>1, FramesSame
<1>3. PoolsInv'
  BY <1>0, <1>1, <1>2, PoolsSame
<1> QED BY <1>0, <1>1, <1>2, <1>3 DEF KdeInv, NumbersInv

LEMMA BarePassKeeps == KdeInv /\ ((~destroyed /\ BarePass) \/ FinalCleanup) => KdeInv'
<1> SUFFICES ASSUME KdeInv, (~destroyed /\ BarePass) \/ FinalCleanup PROVE KdeInv'
  OBVIOUS
<1>0. FramesInv /\ PoolsInv /\ NumbersInv
  BY DEF KdeInv
<1>1. /\ queued' = {} /\ imported' = imported \ queued /\ gens' \in {gens, Swept(gens, current)}
      /\ copies' \subseteq copies /\ (api = "vulkan" => copies' = {})
      /\ UNCHANGED << api, online, boundIds, lastId, backend, current, pendingVars, failing, back, destroyed >>
  BY <1>0 DEF BarePass, FinalCleanup, linkVars, graphVars, PoolsInv
<1>2. FramesInv' /\ Arrived' = Arrived
  BY <1>0, <1>1, FramesSame
<1>3. OneLive(gens') /\ LivePools(gens') = LivePools(gens)
  BY <1>0, <1>1, SweptKeeps DEF PoolsInv, OneLive
<1>4. PoolsInv'
  BY <1>0, <1>1, <1>2, <1>3 DEF PoolsInv, ImportsOutliveCopies
<1> QED BY <1>0, <1>1, <1>2, <1>4 DEF KdeInv, NumbersInv

\* One frame gets its fence; it is not pending any more.
LEMMA FenceSettles ==
  ASSUME back \in Seq(Fates), NEW f \in Arrived, back' = [back EXCEPT ![f] = "fence"]
  PROVE  /\ back' \in Seq(Fates) /\ DOMAIN back' = DOMAIN back
         /\ \A g \in Arrived : back'[g] = "held" => back[g] = "held" /\ g \notin {f}
<1>1. Len(back) \in Nat /\ Arrived = 1 .. Len(back) /\ \A g \in DOMAIN back : back[g] \in Fates
  BY DEF Arrived
<1>2. DOMAIN back' = DOMAIN back /\ \A g \in DOMAIN back : back'[g] = IF g = f THEN "fence" ELSE back[g]
  OBVIOUS
<1>3. back' \in Seq(Fates)
  <2>1. \A g \in 1 .. Len(back) : (IF g = f THEN "fence" ELSE back[g]) \in Fates
    BY <1>1 DEF Fates, Arrived
  <2>2. back' = [g \in 1 .. Len(back) |-> IF g = f THEN "fence" ELSE back[g]]
    BY <1>1 DEF Arrived
  <2> QED BY <1>1, <2>1, <2>2
<1> QED BY <1>2, <1>3 DEF Arrived

LEMMA EglPassKeeps == KdeInv /\ EglPass => KdeInv'
<1> SUFFICES ASSUME KdeInv, EglPass PROVE KdeInv'
  OBVIOUS
<1> DEFINE p == pendingEgl
           i == Find(p.id)
<1>0. FramesInv /\ PoolsInv /\ NumbersInv
  BY DEF KdeInv
<1>1. /\ backend = "egl" /\ pendingEgl' = NoPending
      /\ gens' = Swept(gens, current') /\ imported' = imported \ queued /\ queued' = {}
      /\ UNCHANGED << api, online, boundIds, lastId, backend, pendingVk, destroyed >>
  BY DEF EglPass, linkVars, graphVars
<1>e. api # "vulkan"
  BY <1>0, <1>1 DEF PoolsInv
<1>2. /\ failing' \subseteq failing \cup {p.id} /\ current' \in {current, p.id}
      /\ failing' # failing => p.frame # 0
  BY DEF EglPass
<1>3. \/ UNCHANGED << releaseEgl, back >>
      \/ /\ SignalsAll({f \in {p.frame} : releaseEgl.frame = f})
         /\ releaseEgl' = IF releaseEgl.frame = p.frame THEN NoPending ELSE releaseEgl
      \/ /\ p.frame # 0 /\ releaseEgl.frame = p.frame
         /\ back' = [back EXCEPT ![p.frame] = "fence"] /\ releaseEgl' = NoPending
  BY DEF EglPass
<1>4. \/ copies' = copies
      \/ /\ p.frame # 0 /\ i # 0 /\ ~gens[i].retired /\ copies' = copies \cup {<< p.frame, gens[i].pool >>}
  BY DEF EglPass
<1>p. p \in PendingFrames /\ online \in BOOLEAN /\ back \in Seq(Fates)
  BY <1>0 DEF FramesInv
<1>5. FramesInv' /\ Arrived' = Arrived
  <2> DEFINE Settles(S) == /\ back' \in Seq(Fates) /\ DOMAIN back' = DOMAIN back
                           /\ \A f \in Arrived : back'[f] = "held" => back[f] = "held" /\ f \notin S
  <2>1. CASE UNCHANGED << releaseEgl, back >>
    <3> DEFINE S == {}
    <3>1. Settles(S)
      BY <1>p, <2>1
    <3>2. \A f \in {pendingVk.frame, releaseEgl.frame} \ S :
            f # 0 /\ online => online' /\ f \in {pendingVk'.frame, releaseEgl'.frame}
      <4>1. pendingVk' = pendingVk /\ releaseEgl' = releaseEgl /\ online' = online
        BY <1>1, <2>1
      <4> QED BY <4>1, Zenon
    <3>3. pendingVk' \in {pendingVk, NoPending} /\ pendingEgl' \in {pendingEgl, NoPending}
          /\ releaseEgl' \in {releaseEgl, NoPending} /\ online' \in BOOLEAN
      BY <1>1, <1>p, <2>1
    <3> HIDE DEF S
    <3> QED BY <1>0, <3>1, <3>2, <3>3, SettlingKeeps DEF Arrived
  <2>2. CASE /\ SignalsAll({f \in {p.frame} : releaseEgl.frame = f})
             /\ releaseEgl' = IF releaseEgl.frame = p.frame THEN NoPending ELSE releaseEgl
    <3> DEFINE S == {f \in {p.frame} : releaseEgl.frame = f}
    <3>1. Settles(S)
      BY <1>p, <2>2, SignalsSettles
    <3>2. \A f \in {pendingVk.frame, releaseEgl.frame} \ S :
            f # 0 /\ online => online' /\ f \in {pendingVk'.frame, releaseEgl'.frame}
      BY <1>1, <2>2
    <3>3. releaseEgl' \in {releaseEgl, NoPending}
      BY <2>2
    <3> HIDE DEF S
    <3> QED BY <1>0, <1>1, <1>p, <3>1, <3>2, <3>3, SettlingKeeps DEF Arrived
  <2>3. CASE /\ p.frame # 0 /\ releaseEgl.frame = p.frame
             /\ back' = [back EXCEPT ![p.frame] = "fence"] /\ releaseEgl' = NoPending
    <3>1. p.frame \in Arrived
      BY <1>p, <2>3 DEF PendingFrames
    <3>2. Settles({p.frame})
      BY <1>p, <2>3, <3>1, FenceSettles
    <3>3. \A f \in {pendingVk.frame, releaseEgl.frame} \ {p.frame} :
            f # 0 /\ online => online' /\ f \in {pendingVk'.frame, releaseEgl'.frame}
      BY <1>1, <2>3
    <3> QED BY <1>0, <1>1, <1>p, <2>3, <3>2, <3>3, SettlingKeeps DEF Arrived
  <2> QED BY <1>3, <2>1, <2>2, <2>3
<1>6. copies' \subseteq Arrived \X Pools
  <2>1. CASE copies' = copies
    BY <1>0, <2>1 DEF PoolsInv
  <2>2. CASE p.frame # 0 /\ i # 0 /\ copies' = copies \cup {<< p.frame, gens[i].pool >>}
    <3>1. gens \in Seq(Entries)
      BY <1>0 DEF PoolsInv, OneLive
    <3>2. i \in DOMAIN gens
      BY <2>2, <3>1, FindIsEntry
    <3>3. gens[i] \in Entries
      BY <3>1, <3>2
    <3>4. gens[i].pool \in Pools /\ p.frame \in Arrived
      BY <1>p, <2>2, <3>3 DEF Entries, PendingFrames
    <3> QED BY <1>0, <2>2, <3>4 DEF PoolsInv
  <2> QED BY <1>4, <2>1, <2>2
<1>7. OneLive(gens') /\ LivePools(gens') = LivePools(gens)
  BY <1>0, <1>1, SweptKeeps DEF PoolsInv, OneLive
<1>8. PoolsInv'
  BY <1>0, <1>1, <1>e, <1>5, <1>6, <1>7 DEF PoolsInv, ImportsOutliveCopies
<1>9. NumbersInv'
  <2>1. p.id \in 0 .. MaxPools /\ (p.frame # 0 => p.id \in 1 .. MaxPools)
    <3>1. p.id \in 0 .. MaxPools /\ (p.frame # 0 => p.id # 0)
      BY <1>p DEF PendingFrames
    <3> QED BY <3>1, KdeAssumption
  <2> QED BY <1>0, <1>1, <1>2, <2>1 DEF NumbersInv
<1> QED BY <1>5, <1>8, <1>9 DEF KdeInv

LEMMA VulkanPassKeeps == ASSUME KdeInv, NEW left \in SUBSET copies, VulkanPass(left) PROVE KdeInv'
<1> DEFINE p == pendingVk
           list == Swept(gens, current)
           S == {j \in DOMAIN list : list[j].id = p.id}
           i == IF S = {} THEN 0 ELSE Latest(S)
           gone == IF left = {} THEN queued ELSE {}
<1>0. FramesInv /\ PoolsInv /\ NumbersInv
  BY SMTT(40) DEF KdeInv
<1>1. /\ backend = "vulkan" /\ pendingVk' = NoPending
      /\ UNCHANGED << api, online, boundIds, lastId, backend, pendingEgl, releaseEgl, failing, destroyed >>
  BY ZenonT(40) DEF VulkanPass, linkVars, graphVars
<1>2. \/ p.frame = 0 /\ back' = back
      \/ SignalsAll({p.frame})
      \/ p.frame # 0 /\ back' = [back EXCEPT ![p.frame] = "fence"]
  BY ZenonT(40) DEF VulkanPass
<1>3. current' \in {0, current, p.id}
  BY ZenonT(40) DEF VulkanPass
<1>4. \/ /\ gens' = list /\ queued' = queued \ gone /\ imported' = imported \ gone
         /\ \/ copies' = left
            \/ i # 0 /\ ~list[i].retired /\ p.frame # 0 /\ copies' = left \cup {<< p.frame, list[i].pool >>}
      \/ /\ i # 0 /\ ~list[i].retired /\ copies' = left
         /\ gens' = Swept([list EXCEPT ![i].retired = TRUE], 0)
         /\ queued' = (IF left = {} THEN {} ELSE queued \cup {list[i].pool})
         /\ imported' = (IF left = {} THEN imported \ (queued \cup {list[i].pool}) ELSE imported)
  <2> HIDE DEF list
  <2> QED BY DEF VulkanPass, DrainDone, list
<1>v. api = "vulkan" /\ ~destroyed
  BY <1>0, <1>1 DEF PoolsInv
<1>p. p \in PendingFrames /\ online \in BOOLEAN /\ back \in Seq(Fates)
  BY <1>0 DEF FramesInv
<1>5. FramesInv' /\ Arrived' = Arrived
  <2>1. /\ back' \in Seq(Fates) /\ DOMAIN back' = DOMAIN back
        /\ \A f \in Arrived : back'[f] = "held" => back[f] = "held" /\ f \notin {p.frame}
    <3>1. CASE p.frame = 0 /\ back' = back
      <4>1. 0 \notin Arrived
        BY <1>p DEF Arrived
      <4> QED BY <1>p, <3>1, <4>1
    <3>2. CASE SignalsAll({p.frame})
      BY <1>p, <3>2, SignalsSettles
    <3>3. CASE p.frame # 0 /\ back' = [back EXCEPT ![p.frame] = "fence"]
      <4>1. p.frame \in Arrived
        BY <1>p, <3>3 DEF PendingFrames
      <4> QED BY <1>p, <3>3, <4>1, FenceSettles
    <3> QED BY <1>2, <3>1, <3>2, <3>3
  <2>2. \A f \in {pendingVk.frame, releaseEgl.frame} \ {p.frame} :
          f # 0 /\ online => online' /\ f \in {pendingVk'.frame, releaseEgl'.frame}
    BY <1>1
  <2> QED BY <1>0, <1>1, <1>p, <2>1, <2>2, SettlingKeeps DEF Arrived
<1>6. OneLive(list) /\ LivePools(list) = LivePools(gens)
  BY <1>0, SweptKeeps DEF PoolsInv, OneLive
<1>7. i # 0 /\ ~list[i].retired => i \in LiveIn(list) /\ LiveIn(list) = {i} /\ list[i].pool \in Pools
                                   /\ LivePools(gens) = {list[i].pool}
  <2> SUFFICES ASSUME i # 0, ~list[i].retired
               PROVE  i \in LiveIn(list) /\ LiveIn(list) = {i} /\ list[i].pool \in Pools
                      /\ LivePools(gens) = {list[i].pool}
    OBVIOUS
  <2>0. list \in Seq(Entries) /\ \A j, k \in LiveIn(list) : j = k
    BY <1>6 DEF OneLive
  <2> HIDE DEF list
  <2>1. i \in DOMAIN list
    <3>1. Len(list) \in Nat /\ S \in SUBSET (1 .. Len(list)) /\ DOMAIN list = 1 .. Len(list)
      BY <2>0
    <3>2. Latest(S) \in S \cup {0}
      BY <3>1, LatestIsOne
    <3>3. i = Latest(S)
      OBVIOUS
    <3> HIDE DEF S
    <3> QED BY <3>1, <3>2, <3>3
  <2> HIDE DEF i
  <2>2. i \in LiveIn(list)
    BY <2>1 DEF LiveIn
  <2>3. LiveIn(list) = {i}
    BY <2>0, <2>2
  <2>4. list[i] \in Entries
    BY <2>0, <2>1
  <2>5. LivePools(list) = {list[i].pool} /\ list[i].pool \in Pools
    BY <2>3, <2>4 DEF LivePools, Entries
  <2> QED BY <1>6, <2>2, <2>3, <2>5
<1> HIDE DEF list, i
<1>8. LivePools(gens) \subseteq imported /\ LivePools(gens) \cap queued = {}
  BY <1>0, <1>1 DEF PoolsInv
<1>9. left \subseteq Arrived \X Pools /\ \A cp \in left : cp[2] \in imported
  BY <1>0, <1>v DEF PoolsInv, ImportsOutliveCopies
<1>10. PoolsInv'
  <2>1. ASSUME gens' = list, queued' = queued \ gone, imported' = imported \ gone,
               \/ copies' = left
               \/ i # 0 /\ ~list[i].retired /\ p.frame # 0 /\ copies' = left \cup {<< p.frame, list[i].pool >>}
        PROVE PoolsInv'
    <3>1. copies' \subseteq Arrived \X Pools /\ \A cp \in copies' : cp[2] \in imported'
      <4>1. \A cp \in left : cp[2] \in imported'
        BY <1>9, <2>1
      <4>2. CASE copies' = left
        BY <1>9, <4>1, <4>2
      <4>3. CASE i # 0 /\ ~list[i].retired /\ p.frame # 0 /\ copies' = left \cup {<< p.frame, list[i].pool >>}
        <5>1. p.frame \in Arrived
          BY <1>p, <4>3 DEF PendingFrames
        <5>2. list[i].pool \in Pools /\ list[i].pool \in imported /\ list[i].pool \notin queued
          BY <1>7, <1>8, <4>3
        <5>3. list[i].pool \in imported'
          BY <2>1, <5>2
        <5> QED BY <1>9, <4>1, <4>3, <5>1, <5>2, <5>3
      <4> QED BY <2>1, <4>2, <4>3
    <3>2. ImportsOutliveCopies'
      BY <3>1 DEF ImportsOutliveCopies
    <3> HIDE DEF p
    <3> QED BY <1>0, <1>1, <1>v, <1>5, <1>6, <1>8, <2>1, <3>1, <3>2 DEF PoolsInv
  <2>2. ASSUME i # 0, ~list[i].retired, copies' = left,
               gens' = Swept([list EXCEPT ![i].retired = TRUE], 0),
               queued' = (IF left = {} THEN {} ELSE queued \cup {list[i].pool}),
               imported' = (IF left = {} THEN imported \ (queued \cup {list[i].pool}) ELSE imported)
        PROVE PoolsInv'
    <3> DEFINE q == [list EXCEPT ![i].retired = TRUE]
    <3>1. i \in LiveIn(list) /\ LiveIn(list) = {i} /\ list[i].pool \in Pools /\ LivePools(gens) = {list[i].pool}
      BY <1>7, <2>2
    <3>2. list \in Seq(Entries) /\ i \in DOMAIN list
      BY <1>6, <3>1 DEF OneLive, LiveIn
    <3>3. [list[i] EXCEPT !.retired = TRUE] \in Entries /\ [list[i] EXCEPT !.retired = TRUE].retired
      <4>1. list[i] \in Entries
        BY <3>2
      <4> QED BY <4>1 DEF Entries
    <3>4. q \in Seq(Entries) /\ LiveIn(q) = {}
      <4>1. DOMAIN q = DOMAIN list /\ q[i] = [list[i] EXCEPT !.retired = TRUE]
            /\ \A j \in DOMAIN list \ {i} : q[j] = list[j]
        BY <3>2
      <4>2. LiveIn(q) = {}
        BY <3>1, <3>3, <4>1 DEF LiveIn
      <4>3. Len(list) \in Nat /\ DOMAIN list = 1 .. Len(list)
        BY <3>2
      <4>4. \A j \in 1 .. Len(list) : q[j] \in Entries
        <5> TAKE j \in 1 .. Len(list)
        <5>1. list[j] \in Entries
          BY <3>2, <4>3
        <5> QED BY <3>3, <4>1, <4>3, <5>1
      <4>5. q = [j \in 1 .. Len(list) |-> q[j]]
        BY <4>3
      <4> HIDE DEF q
      <4>6. q \in Seq(Entries)
        BY <4>3, <4>4, <4>5
      <4> QED BY <4>2, <4>6
    <3> HIDE DEF q
    <3>5. OneLive(q) /\ LivePools(q) = {}
      BY <3>4 DEF OneLive, LivePools
    <3>6. gens' = Swept(q, 0)
      BY <2>2 DEF q
    <3>7. OneLive(gens') /\ LivePools(gens') = {}
      BY <3>4, <3>5, <3>6, SweptKeeps
    <3>8. \A cp \in copies' : cp[2] \in imported'
      BY <1>9, <2>2
    <3>9. ImportsOutliveCopies'
      BY <3>8 DEF ImportsOutliveCopies
    <3> QED BY <1>0, <1>1, <1>v, <1>5, <1>9, <2>2, <3>1, <3>7, <3>9 DEF PoolsInv
  <2> HIDE DEF p
  <2> QED BY <1>4, <2>1, <2>2
<1>11. NumbersInv'
  <2>1. p.id \in 0 .. MaxPools
    BY <1>p DEF PendingFrames
  <2> QED BY <1>0, <1>1, <1>3, <2>1, KdeAssumption DEF NumbersInv
<1> QED BY <1>5, <1>10, <1>11 DEF KdeInv

LEMMA KdeInvStep == KdeInv /\ [KdeNext]_kdeVars => KdeInv'
<1> SUFFICES ASSUME KdeInv, [KdeNext]_kdeVars PROVE KdeInv'
  OBVIOUS
<1>1. CASE UNCHANGED kdeVars
  <2>0. FramesInv /\ PoolsInv /\ NumbersInv
    BY DEF KdeInv
  <2>1. UNCHANGED << api, online, boundIds, lastId, backend, gens, queued, imported, current,
                     pendingVars, failing, copies, back, destroyed >>
    BY <1>1 DEF kdeVars, linkVars, graphVars, poolVars, pendingVars
  <2>2. FramesInv' /\ Arrived' = Arrived
    BY <2>0, <2>1, FramesSame
  <2>3. PoolsInv'
    BY <2>0, <2>1, <2>2, PoolsSame
  <2> QED BY <2>0, <2>1, <2>2, <2>3 DEF KdeInv, NumbersInv
<1>2. ASSUME NEW id \in 0 .. MaxPools,
             \/ KdeConfigures(id) \/ Unbinds(id) \/ ReportsFailure(id)
             \/ \E own \in BOOLEAN : TakesFrame(id, own)
      PROVE KdeInv'
  BY <1>2, KdeConfiguresKeeps, TakesFrameKeeps, UnbindsKeeps
<1>3. CASE Paints
  BY <1>3, EglPassKeeps, VulkanPassKeeps, BarePassKeeps DEF Paints
<1> QED BY <1>1, <1>2, <1>3, KdeConnectsKeeps, BindsPoolKeeps, KdeClosesKeeps, LosesGraphKeeps,
           QuietStepsKeep DEF KdeNext

-----------------------------------------------------------------------------
(* The GNOME helper.                                                        *)

\* Positions one further on are as many.
Shifted(S) == {i + 1 : i \in S}

LEMMA ShiftedCounts ==
  ASSUME NEW n \in Nat, NEW K \in SUBSET (1 .. n)
  PROVE  /\ Cardinality(Shifted(K)) = Cardinality(K)
         /\ \A i \in K : UpTo(Shifted(K), i + 1) = UpTo(K, i)
<1>1. ASSUME NEW S \in SUBSET (1 .. n) PROVE Cardinality(Shifted(S)) = Cardinality(S)
  <2> DEFINE f == [i \in S |-> i + 1]
  <2>1. IsFiniteSet(S)
    BY FewPositions
  <2>2. \A i \in S : i \in Nat
    OBVIOUS
  <2>3. f \in Bijection(S, Shifted(S))
    BY <2>2 DEF Bijection, Injection, Surjection, IsInjective, Shifted
  <2>4. ExistsBijection(S, Shifted(S))
    BY <2>3 DEF ExistsBijection
  <2> QED BY <2>1, <2>4, FS_Bijection
<1>2. ASSUME NEW i \in K PROVE UpTo(Shifted(K), i + 1) = UpTo(K, i)
  <2>1. {r \in K : r <= i} \in SUBSET (1 .. n)
    OBVIOUS
  <2>2. \A r \in K : r \in Nat
    OBVIOUS
  <2>3. {r \in Shifted(K) : r <= i + 1} = Shifted({r \in K : r <= i})
    BY <2>2 DEF Shifted
  <2> QED BY <1>1, <2>1, <2>3 DEF UpTo
<1> QED BY <1>1, <1>2

\* The order of the positions is the one in which they count up.
LEMMA InOrderIs ==
  ASSUME NEW n \in Nat, NEW K \in SUBSET (1 .. n), NEW i \in K, NEW k, UpTo(K, i) = k
  PROVE  k \in 1 .. Cardinality(K) /\ InOrder(K)[k] = i
BY InOrderLists

Things  == [kind : {"motion", "button", "state", "hello"}, n : 0 .. MaxInputs]
Kept(q) == {i \in DOMAIN q : q[i].kind # "motion"}

LEMMA NoMotionsIs ==
  ASSUME NEW q \in Seq(Things)
  PROVE  /\ Kept(q) \in SUBSET (1 .. Len(q)) /\ Len(q) \in Nat /\ Cardinality(Kept(q)) \in Nat
         /\ NoMotions(q) \in Seq(Things) /\ Len(NoMotions(q)) = Cardinality(Kept(q))
         /\ DOMAIN NoMotions(q) = 1 .. Cardinality(Kept(q))
         /\ \A k \in 1 .. Cardinality(Kept(q)) :
              InOrder(Kept(q))[k] \in Kept(q) /\ UpTo(Kept(q), InOrder(Kept(q))[k]) = k
              /\ NoMotions(q)[k] = q[InOrder(Kept(q))[k]]
<1>1. Kept(q) \in SUBSET (DOMAIN q) /\ Kept(q) \in SUBSET (1 .. Len(q)) /\ Len(q) \in Nat
  BY DEF Kept
<1>2. NoMotions(q) = Picked(q, Kept(q))
  BY DEF NoMotions, Kept
<1> HIDE DEF Kept
<1>3. Cardinality(Kept(q)) \in Nat
  BY <1>1, FewPositions
<1>4. /\ Picked(q, Kept(q)) \in Seq(Things) /\ Len(Picked(q, Kept(q))) = Cardinality(Kept(q))
      /\ DOMAIN Picked(q, Kept(q)) = 1 .. Cardinality(Kept(q))
      /\ \A k \in 1 .. Cardinality(Kept(q)) :
           InOrder(Kept(q))[k] \in Kept(q) /\ Picked(q, Kept(q))[k] = q[InOrder(Kept(q))[k]]
  BY <1>1, PickedIsList
<1>5. \A k \in 1 .. Cardinality(Kept(q)) : UpTo(Kept(q), InOrder(Kept(q))[k]) = k
  BY <1>1, InOrderCounts
<1> QED BY <1>1, <1>2, <1>3, <1>4, <1>5

LEMMA NoMotionsOfNone == NoMotions(<< >>) = << >>
<1>1. << >> \in Seq(Things)
  OBVIOUS
<1>2. Kept(<< >>) = {}
  BY DEF Kept
<1>3. Len(NoMotions(<< >>)) = 0 /\ NoMotions(<< >>) \in Seq(Things)
  BY <1>1, <1>2, NoMotionsIs, FS_EmptySet
<1> QED BY <1>3

\* Two lists that agree position by position.
LEMMA SameList ==
  ASSUME NEW s \in Seq(Things), NEW t \in Seq(Things), Len(s) = Len(t),
         \A k \in 1 .. Len(s) : s[k] = t[k]
  PROVE  s = t
OBVIOUS

LEMMA NoMotionsAppended ==
  ASSUME NEW q \in Seq(Things), NEW x \in Things
  PROVE  NoMotions(Append(q, x)) = IF x.kind = "motion" THEN NoMotions(q) ELSE Append(NoMotions(q), x)
<1> DEFINE qa == Append(q, x)
           n == Len(q)
           K == Kept(q)
           card == Cardinality(K)
<1>1. qa \in Seq(Things) /\ n \in Nat /\ Len(qa) = n + 1 /\ DOMAIN qa = 1 .. n + 1 /\ DOMAIN q = 1 .. n
      /\ qa[n + 1] = x /\ \A i \in 1 .. n : qa[i] = q[i]
  OBVIOUS
<1> HIDE DEF qa, n
<1>2. K \in SUBSET (1 .. n) /\ IsFiniteSet(K) /\ card \in Nat
  BY <1>1, FewPositions DEF Kept
<1>3. CASE x.kind = "motion"
  <2>1. Kept(qa) = K
    BY <1>1, <1>3 DEF Kept
  <2> HIDE DEF K
  <2>2. Len(NoMotions(qa)) = card /\ NoMotions(qa) \in Seq(Things) /\ Len(NoMotions(q)) = card /\ NoMotions(q) \in Seq(Things)
    BY <1>1, <2>1, NoMotionsIs DEF K
  <2>3. \A k \in 1 .. card : InOrder(K)[k] \in K /\ NoMotions(qa)[k] = qa[InOrder(K)[k]] /\ NoMotions(q)[k] = q[InOrder(K)[k]]
    <3>1. \A k \in 1 .. card : InOrder(K)[k] \in K /\ NoMotions(q)[k] = q[InOrder(K)[k]]
      BY NoMotionsIs DEF K
    <3>2. \A k \in 1 .. card : NoMotions(qa)[k] = qa[InOrder(K)[k]]
      <4>1. \A k \in 1 .. Cardinality(Kept(qa)) : NoMotions(qa)[k] = qa[InOrder(Kept(qa))[k]]
        BY <1>1, NoMotionsIs
      <4> QED BY <2>1, <4>1
    <3> QED BY <3>1, <3>2
  <2>4. \A k \in 1 .. card : NoMotions(qa)[k] = NoMotions(q)[k]
    BY <1>1, <1>2, <2>3
  <2> QED BY <1>3, <2>2, <2>4, SameList DEF qa
<1>4. CASE x.kind # "motion"
  <2> DEFINE L == Kept(qa)
  <2>1. L = K \cup {n + 1} /\ n + 1 \notin K
    BY <1>1, <1>4 DEF Kept
  <2>2. Cardinality(L) = card + 1 /\ L \in SUBSET (1 .. n + 1)
    <3>1. Cardinality(K \cup {n + 1}) = card + 1
      BY <1>2, <2>1, FS_AddElement
    <3>2. K \cup {n + 1} \in SUBSET (1 .. n + 1)
      BY <1>1, <1>2
    <3> HIDE DEF K, L
    <3> QED BY <2>1, <3>1, <3>2
  <2>3. UpTo(L, n + 1) = card + 1
    <3>1. {r \in L : r <= n + 1} = L
      BY <1>1, <2>2
    <3> QED BY <2>2, <3>1 DEF UpTo
  <2>4. \A i \in K : UpTo(L, i) = UpTo(K, i)
    <3> TAKE i \in K
    <3>1. {r \in L : r <= i} = {r \in K : r <= i}
      BY <1>1, <1>2, <2>1
    <3> QED BY <3>1 DEF UpTo
  <2>m. n + 1 \in Nat
    BY <1>1
  <2>n. n + 1 \in L
    BY <2>1
  <2> HIDE DEF K, L
  <2>5. InOrder(L)[card + 1] = n + 1
    BY <2>2, <2>3, <2>m, <2>n, InOrderIs, ZenonT(40)
  <2>6. \A k \in 1 .. card : InOrder(K)[k] \in K /\ UpTo(K, InOrder(K)[k]) = k /\ NoMotions(q)[k] = q[InOrder(K)[k]]
    BY <1>1, NoMotionsIs DEF K
  <2>7. \A k \in 1 .. card : InOrder(L)[k] = InOrder(K)[k]
    <3> TAKE k \in 1 .. card
    <3>1. InOrder(K)[k] \in L /\ UpTo(L, InOrder(K)[k]) = k
      BY <2>1, <2>4, <2>6
    <3> QED BY <2>2, <2>m, <3>1, InOrderIs, ZenonT(40)
  <2>8. /\ NoMotions(qa) \in Seq(Things) /\ Len(NoMotions(qa)) = card + 1
        /\ \A k \in 1 .. card + 1 : NoMotions(qa)[k] = qa[InOrder(L)[k]]
    BY <1>1, <2>2, NoMotionsIs DEF L
  <2>9. NoMotions(q) \in Seq(Things) /\ Len(NoMotions(q)) = card
    BY <1>1, NoMotionsIs DEF K
  <2>10. \A k \in 1 .. card : NoMotions(qa)[k] = NoMotions(q)[k]
    <3> TAKE k \in 1 .. card
    <3>1. k \in 1 .. card + 1 /\ InOrder(K)[k] \in 1 .. n
      BY <1>2, <2>6 DEF K
    <3> QED BY <1>1, <2>6, <2>7, <2>8, <3>1
  <2>11. NoMotions(qa)[card + 1] = x
    BY <1>1, <1>2, <2>5, <2>8
  <2> DEFINE qb == Append(NoMotions(q), x)
  <2>12. qb \in Seq(Things) /\ Len(qb) = card + 1 /\ qb[card + 1] = x /\ \A k \in 1 .. card : qb[k] = NoMotions(q)[k]
    BY <2>9
  <2> HIDE DEF qb
  <2>13. \A k \in 1 .. card + 1 : NoMotions(qa)[k] = qb[k]
    <3> TAKE k \in 1 .. card + 1
    <3>1. k = card + 1 \/ k \in 1 .. card
      BY <1>2 DEF K
    <3> QED BY <2>10, <2>11, <2>12, <3>1
  <2>14. NoMotions(qa) = qb
    BY <2>8, <2>12, <2>13, SameList
  <2> QED BY <1>4, <2>14 DEF qa, qb
<1> QED BY <1>3, <1>4

\* A motion that takes the place of a motion.
LEMMA NoMotionsReplaced ==
  ASSUME NEW q \in Seq(Things), NEW x \in Things, x.kind = "motion",
         NEW j \in DOMAIN q, q[j].kind = "motion"
  PROVE  [q EXCEPT ![j] = x] \in Seq(Things) /\ NoMotions([q EXCEPT ![j] = x]) = NoMotions(q)
<1> DEFINE qa == [q EXCEPT ![j] = x]
           K == Kept(q)
           card == Cardinality(K)
<1>1. qa \in Seq(Things) /\ DOMAIN qa = DOMAIN q /\ qa[j] = x /\ \A i \in DOMAIN q \ {j} : qa[i] = q[i]
  OBVIOUS
<1> HIDE DEF qa
<1>2. Kept(qa) = K /\ j \notin K /\ K \subseteq DOMAIN q
  BY <1>1 DEF Kept
<1> HIDE DEF K
<1>3. Len(NoMotions(qa)) = card /\ NoMotions(qa) \in Seq(Things) /\ Len(NoMotions(q)) = card /\ NoMotions(q) \in Seq(Things)
  BY <1>1, <1>2, NoMotionsIs DEF K
<1>4. \A k \in 1 .. card : InOrder(K)[k] \in K /\ NoMotions(qa)[k] = qa[InOrder(K)[k]] /\ NoMotions(q)[k] = q[InOrder(K)[k]]
  BY <1>1, <1>2, NoMotionsIs DEF K
<1>5. \A k \in 1 .. card : NoMotions(qa)[k] = NoMotions(q)[k]
  BY <1>1, <1>2, <1>4
<1>6. NoMotions(qa) = NoMotions(q)
  BY <1>3, <1>5, SameList
<1> QED BY <1>1, <1>6 DEF qa

LEMMA NoMotionsTail ==
  ASSUME NEW q \in Seq(Things), q # << >>
  PROVE  /\ Tail(q) \in Seq(Things) /\ Head(q) \in Things
         /\ Head(q).kind = "motion" => NoMotions(Tail(q)) = NoMotions(q)
         /\ Head(q).kind # "motion" => NoMotions(q) # << >> /\ NoMotions(Tail(q)) = Tail(NoMotions(q))
<1> DEFINE qa == Tail(q)
           n == Len(qa)
           K == Kept(qa)
           L == Kept(q)
           card == Cardinality(K)
<1>1. qa \in Seq(Things) /\ n \in Nat /\ Len(q) = n + 1 /\ DOMAIN q = 1 .. n + 1 /\ DOMAIN qa = 1 .. n
      /\ Head(q) = q[1] /\ Head(q) \in Things /\ \A i \in 1 .. n : qa[i] = q[i + 1]
  OBVIOUS
<1> HIDE DEF qa, n
<1>2. K \in SUBSET (1 .. n) /\ IsFiniteSet(K) /\ card \in Nat /\ L \in SUBSET (1 .. n + 1) /\ n + 1 \in Nat
  <2>1. K \in SUBSET (1 .. n) /\ L \in SUBSET (1 .. n + 1) /\ n + 1 \in Nat
    BY <1>1 DEF Kept
  <2> HIDE DEF K, L
  <2> QED BY <1>1, <2>1, FewPositions
<1>3. L = (IF Head(q).kind = "motion" THEN {} ELSE {1}) \cup Shifted(K)
  <2>1. \A i \in 1 .. n + 1 : i # 1 => i - 1 \in 1 .. n /\ qa[i - 1] = q[i] /\ i = (i - 1) + 1
    <3> TAKE i \in 1 .. n + 1
    <3> HAVE i # 1
    <3>1. i - 1 \in 1 .. n /\ i = (i - 1) + 1
      BY <1>1
    <3> QED BY <1>1, <3>1
  <2>2. \A i \in L : i = 1 \/ i \in Shifted(K)
    <3> TAKE i \in L
    <3>1. i \in 1 .. n + 1 /\ q[i].kind # "motion"
      BY <1>1 DEF Kept
    <3>2. CASE i # 1
      <4>1. i - 1 \in K
        BY <1>1, <2>1, <3>1, <3>2 DEF Kept
      <4> QED BY <2>1, <3>1, <3>2, <4>1 DEF Shifted
    <3> QED BY <3>2
  <2>3. \A i \in Shifted(K) : i \in L
    <3> TAKE i \in Shifted(K)
    <3>1. PICK j \in K : i = j + 1
      BY DEF Shifted
    <3>2. j \in 1 .. n /\ i \in 1 .. n + 1 /\ qa[j] = q[i] /\ qa[j].kind # "motion"
      BY <1>1, <1>2, <3>1 DEF Kept
    <3> QED BY <1>1, <3>2 DEF Kept
  <2>4. 1 \in L <=> Head(q).kind # "motion"
    BY <1>1 DEF Kept
  <2>5. 1 \notin Shifted(K)
    BY <1>2 DEF Shifted
  <2> HIDE DEF K, L
  <2> QED BY <2>2, <2>3, <2>4, <2>5
<1>4. Cardinality(Shifted(K)) = card /\ \A i \in K : UpTo(Shifted(K), i + 1) = UpTo(K, i)
  BY <1>1, <1>2, ShiftedCounts
<1>5. 1 \notin Shifted(K) /\ IsFiniteSet(Shifted(K)) /\ Shifted(K) \in SUBSET (1 .. n + 1)
  <2>1. \A i \in K : i \in 1 .. n
    BY <1>2
  <2>2. 1 \notin Shifted(K) /\ Shifted(K) \in SUBSET (1 .. n + 1)
    BY <1>1, <2>1 DEF Shifted
  <2> QED BY <1>2, <2>2, FewPositions
<1>6. /\ NoMotions(qa) \in Seq(Things) /\ Len(NoMotions(qa)) = card
      /\ \A k \in 1 .. card : InOrder(K)[k] \in K /\ UpTo(K, InOrder(K)[k]) = k /\ NoMotions(qa)[k] = qa[InOrder(K)[k]]
  BY <1>1, NoMotionsIs
<1>7. /\ NoMotions(q) \in Seq(Things) /\ Len(NoMotions(q)) = Cardinality(L)
      /\ \A k \in 1 .. Cardinality(L) : NoMotions(q)[k] = q[InOrder(L)[k]]
  BY NoMotionsIs
<1> HIDE DEF K, L
<1>8. ASSUME Head(q).kind = "motion" PROVE NoMotions(qa) = NoMotions(q)
  <2>1. L = Shifted(K) /\ Cardinality(L) = card
    BY <1>3, <1>4, <1>8
  <2>2. \A k \in 1 .. card : NoMotions(q)[k] = NoMotions(qa)[k]
    <3> TAKE k \in 1 .. card
    <3> DEFINE i == InOrder(K)[k]
    <3>1. i \in K /\ UpTo(K, i) = k /\ NoMotions(qa)[k] = qa[i]
      BY <1>6
    <3> HIDE DEF i
    <3>2. i + 1 \in L /\ UpTo(L, i + 1) = k
      BY <1>4, <2>1, <3>1 DEF Shifted
    <3>3. InOrder(L)[k] = i + 1
      BY <1>2, <3>2, InOrderIs, ZenonT(40)
    <3>4. NoMotions(q)[k] = q[i + 1]
      BY <1>7, <2>1, <3>3
    <3> QED BY <1>1, <1>2, <3>1, <3>4
  <2> QED BY <1>6, <1>7, <2>1, <2>2, SameList
<1>9. ASSUME Head(q).kind # "motion" PROVE NoMotions(q) # << >> /\ NoMotions(qa) = Tail(NoMotions(q))
  <2>1. L = Shifted(K) \cup {1}
    BY <1>3, <1>9
  <2>2. Cardinality(L) = card + 1
    BY <1>4, <1>5, <2>1, FS_AddElement
  <2>3. \A i \in K : UpTo(L, i + 1) = UpTo(K, i) + 1
    <3> TAKE i \in K
    <3>1. {r \in L : r <= i + 1} = {r \in Shifted(K) : r <= i + 1} \cup {1}
      BY <1>2, <2>1
    <3>2. IsFiniteSet({r \in Shifted(K) : r <= i + 1}) /\ 1 \notin {r \in Shifted(K) : r <= i + 1}
      BY <1>5, FS_Subset
    <3>3. Cardinality({r \in L : r <= i + 1}) = Cardinality({r \in Shifted(K) : r <= i + 1}) + 1
      BY <3>1, <3>2, FS_AddElement
    <3> QED BY <1>4, <3>3 DEF UpTo
  <2> DEFINE t == Tail(NoMotions(q))
  <2>4. NoMotions(q) # << >> /\ t \in Seq(Things) /\ Len(t) = card /\ \A k \in 1 .. card : t[k] = NoMotions(q)[k + 1]
    BY <1>2, <1>7, <2>2
  <2> HIDE DEF t
  <2>5. \A k \in 1 .. card : t[k] = NoMotions(qa)[k]
    <3> TAKE k \in 1 .. card
    <3> DEFINE i == InOrder(K)[k]
    <3>1. i \in K /\ UpTo(K, i) = k /\ NoMotions(qa)[k] = qa[i]
      BY <1>6
    <3> HIDE DEF i
    <3>2. i + 1 \in L /\ UpTo(L, i + 1) = k + 1
      BY <2>1, <2>3, <3>1 DEF Shifted
    <3>3. InOrder(L)[k + 1] = i + 1
      BY <1>2, <3>2, InOrderIs
    <3>4. NoMotions(q)[k + 1] = q[i + 1]
      BY <1>2, <1>7, <2>2, <3>3
    <3> QED BY <1>1, <1>2, <2>4, <3>1, <3>4
  <2>6. NoMotions(qa) = t
    BY <1>6, <2>4, <2>5, SameList
  <2> QED BY <2>4, <2>6 DEF t
<1> QED BY <1>1, <1>8, <1>9 DEF qa

\* What is queued takes the place of a motion, or comes last.
LEMMA CoalescedKeeps ==
  ASSUME NEW q \in Seq(Things), NEW x \in Things, NEW S \in SUBSET Motions(q)
  PROVE  /\ Coalesced(q, x, S) \in Seq(Things) /\ Coalesced(q, x, S) # << >>
         /\ NoMotions(Coalesced(q, x, S)) = IF x.kind = "motion" THEN NoMotions(q) ELSE Append(NoMotions(q), x)
         /\ q # << >> => (Head(Coalesced(q, x, S)).kind = "motion" <=> Head(q).kind = "motion")
<1>n. Len(q) \in Nat /\ DOMAIN q = 1 .. Len(q) /\ Motions(q) \in SUBSET (1 .. Len(q))
  BY DEF Motions
<1>1. CASE x.kind = "motion" /\ S # {}
  <2> DEFINE j == CHOOSE i \in S : \A k \in S : k <= i
  <2>1. \E i \in S : \A k \in S : k <= i
    BY <1>1, <1>n, LastPosition
  <2>2. j \in S
    BY <2>1
  <2>3. Coalesced(q, x, S) = [q EXCEPT ![j] = x]
    BY <1>1 DEF Coalesced
  <2> HIDE DEF j
  <2>4. j \in DOMAIN q /\ q[j].kind = "motion"
    BY <2>2 DEF Motions
  <2>5. [q EXCEPT ![j] = x] \in Seq(Things) /\ NoMotions([q EXCEPT ![j] = x]) = NoMotions(q)
    BY <1>1, <2>4, NoMotionsReplaced
  <2>6. [q EXCEPT ![j] = x] # << >> /\ (Head([q EXCEPT ![j] = x]).kind = "motion" <=> Head(q).kind = "motion")
    <3> DEFINE qa == [q EXCEPT ![j] = x]
    <3>1. DOMAIN qa = 1 .. Len(q) /\ Len(q) # 0 /\ Len(qa) = Len(q)
      BY <1>n, <2>4, <2>5
    <3>2. qa[1] = (IF j = 1 THEN x ELSE q[1]) /\ qa # << >> /\ q # << >>
      BY <1>n, <3>1
    <3>3. Head(qa) = qa[1] /\ Head(q) = q[1]
      BY <3>1, <3>2
    <3> HIDE DEF qa
    <3>4. Head(qa).kind = "motion" <=> Head(q).kind = "motion"
      BY <1>1, <2>4, <3>2, <3>3
    <3> QED BY <3>2, <3>4 DEF qa
  <2> QED BY <1>1, <2>3, <2>5, <2>6
<1>2. CASE ~(x.kind = "motion" /\ S # {})
  <2> DEFINE qa == Append(q, x)
  <2>1. Coalesced(q, x, S) = qa
    BY <1>2 DEF Coalesced
  <2>2. qa \in Seq(Things) /\ qa # << >> /\ (q # << >> => Head(qa) = Head(q))
    BY <1>n
  <2>3. NoMotions(qa) = IF x.kind = "motion" THEN NoMotions(q) ELSE Append(NoMotions(q), x)
    BY NoMotionsAppended
  <2> HIDE DEF qa
  <2> QED BY <2>1, <2>2, <2>3
<1> QED BY <1>1, <1>2

-----------------------------------------------------------------------------
(* The invariant.                                                           *)

\* A live helper is the one whose exit the present run waits for; while one is
\* waited for, or is to be started again, there is no other.
ProcessInv ==
  /\ enabled \in BOOLEAN /\ runSerial \in Nat /\ helpers \in 0 .. MaxHelpers
  /\ child \in 0 .. MaxHelpers /\ alive \subseteq 1 .. MaxHelpers /\ retry \in 0 .. runSerial
  /\ enabled => runSerial > 0
  /\ exits \subseteq (1 .. MaxHelpers) \X (0 .. runSerial)
  /\ \A p \in alive : << p, runSerial >> \in exits
  /\ \A x, y \in exits : x[2] = runSerial /\ y[2] = runSerial => x = y
  /\ retry # 0 /\ retry = runSerial => \A x \in exits : x[2] # runSerial

InputsInv ==
  /\ inputs \in 0 .. MaxInputs /\ {fact, heard, lastState} \subseteq 0 .. MaxInputs
  /\ lines \in Seq(Things) /\ pipe \in Seq(Things) /\ lineWrites \subseteq Nat \X Things

\* One write is in flight on a connection that is up, of the frame at the head of
\* its queue or of a motion that a newer one has replaced there.
FramesOwed ==
  /\ carrier \in {"down", "dialing", "up"} /\ dial \in Nat /\ redial \in BOOLEAN
  /\ frames \in Seq(Things) /\ frameWrites \subseteq Nat \X Things
  /\ NoMotions(frames) = owed
  /\ redial => carrier = "down"
  /\ carrier # "up" => frames = << >>
  /\ \A w \in frameWrites : w[1] <= dial /\ (carrier = "dialing" => w[1] # dial)
  /\ carrier = "up" =>
       /\ framePending <=> frames # << >>
       /\ \A w \in frameWrites :
            w[1] = dial => frames # << >> /\ (w[2].kind = "motion" <=> Head(frames).kind = "motion")
       /\ \A w, v \in frameWrites : w[1] = dial /\ v[1] = dial => w = v

HelperInv == ProcessInv /\ InputsInv /\ FramesOwed

LEMMA HelperInvShows == HelperInv => HelpersTakeTurns
<1> SUFFICES ASSUME HelperInv PROVE HelpersTakeTurns
  OBVIOUS
<1>1. HelperTypeOK
  BY DEF HelperInv, HelperTypeOK, ProcessInv, InputsInv, FramesOwed
<1>2. ASSUME NEW p \in alive, NEW r \in alive PROVE p = r
  <2>1. << p, runSerial >> \in exits /\ << r, runSerial >> \in exits
    BY DEF HelperInv, ProcessInv
  <2>2. << p, runSerial >> = << r, runSerial >>
    BY <2>1 DEF HelperInv, ProcessInv
  <2> QED BY <2>2
<1>3. OneHelper
  <2>1. CASE alive = {}
    BY <2>1, FS_EmptySet DEF OneHelper
  <2>2. ASSUME NEW p \in alive PROVE OneHelper
    <3>1. alive = {p}
      BY <1>2
    <3>2. Cardinality({p}) = 1
      BY FS_Singleton
    <3> QED BY <3>1, <3>2 DEF OneHelper
  <2> QED BY <2>1, <2>2
<1> QED BY <1>1, <1>3 DEF HelpersTakeTurns, FramesInOrder, HelperInv, FramesOwed

LEMMA HelperInitInv == HelperInit => HelperInv
<1> SUFFICES ASSUME HelperInit PROVE HelperInv
  OBVIOUS
<1>1. ProcessInv
  <2>1. MaxHelpers \in Nat
    BY HelperAssumption
  <2>2. /\ enabled = FALSE /\ runSerial = 0 /\ child = 0 /\ alive = {} /\ exits = {} /\ retry = 0 /\ helpers = 0
    BY DEF HelperInit
  <2>3. enabled \in BOOLEAN /\ runSerial \in Nat /\ helpers \in 0 .. MaxHelpers
        /\ child \in 0 .. MaxHelpers /\ retry \in 0 .. runSerial
    <3>1. runSerial \in Nat /\ helpers \in 0 .. MaxHelpers /\ child \in 0 .. MaxHelpers /\ retry \in 0 .. runSerial
      <4>1. 0 \in 0 .. MaxHelpers /\ 0 \in Nat /\ 0 \in 0 .. 0
        BY <2>1
      <4> QED BY <2>2, <4>1
    <3>2. enabled \in BOOLEAN
      BY <2>2
    <3> QED BY <3>1, <3>2
  <2>4. \A p \in alive : << p, runSerial >> \in exits
    BY <2>2
  <2>5. \A x \in exits : FALSE
    BY <2>2
  <2> QED BY <2>2, <2>3, <2>4, <2>5 DEF ProcessInv
<1>2. InputsInv
  BY HelperAssumption DEF HelperInit, InputsInv
<1>3. FramesOwed
  <2>1. /\ carrier = "down" /\ dial = 0 /\ redial = FALSE
        /\ frames = << >> /\ framePending = FALSE /\ frameWrites = {} /\ owed = << >>
    BY DEF HelperInit
  <2>2. << >> \in Seq(Things)
    OBVIOUS
  <2> QED BY <2>1, <2>2, NoMotionsOfNone DEF FramesOwed
<1> QED BY <1>1, <1>2, <1>3 DEF HelperInv

\* A helper that starts, or is gone, has nothing queued.
LEMMA FramesReset == FramesOwed /\ (HelperFresh \/ HelperGone) => FramesOwed' /\ lastState' = 0
<1> SUFFICES ASSUME FramesOwed, HelperFresh \/ HelperGone PROVE FramesOwed' /\ lastState' = 0
  OBVIOUS
<1>1. dial \in Nat /\ dial + 1 \in Nat
  BY DEF FramesOwed
<1>2. /\ carrier' \in {"down", "dialing"} /\ dial' \in {dial, dial + 1} /\ redial' = FALSE /\ lastState' = 0
      /\ frames' = << >> /\ frameWrites' = {} /\ owed' = << >>
  BY DEF HelperFresh, HelperGone
<1>3. << >> \in Seq(Things)
  OBVIOUS
<1>4. dial' \in Nat
  BY <1>1, <1>2
<1> QED BY <1>2, <1>3, <1>4, NoMotionsOfNone DEF FramesOwed

LEMMA FramesUnmoved ==
  FramesOwed /\ UNCHANGED << dialVars, frameVars >> => FramesOwed'
BY DEF FramesOwed, dialVars, frameVars

\* Spawning, once nobody is left of the run.
LEMMA SpawnKeeps ==
  ASSUME ProcessInv, FramesOwed, NEW serial \in Nat, serial # 0, Spawn(serial, {}),
         runSerial' = serial, enabled' = TRUE, serial >= runSerial,
         \A x \in exits : x[2] # serial
  PROVE  ProcessInv' /\ FramesOwed' /\ lastState' = 0 /\ pipe' \in {pipe, << >>}
<1>0. HelperFresh \/ HelperGone
  BY DEF Spawn
<1>1. FramesOwed' /\ lastState' = 0
  BY <1>0, FramesReset
<1>2. pipe' \in {pipe, << >>}
  BY DEF Spawn
<1>3. exits \subseteq (1 .. MaxHelpers) \X (0 .. serial)
  BY DEF ProcessInv
<1>4. ProcessInv'
  <2>1. CASE /\ helpers < MaxHelpers /\ helpers' = helpers + 1 /\ child' = helpers + 1
             /\ alive' = {helpers + 1} /\ exits' = exits \cup {<< helpers + 1, serial >>} /\ retry' = 0
    <3> DEFINE n == helpers + 1
    <3>1. n \in 1 .. MaxHelpers
      BY <2>1, HelperAssumption DEF ProcessInv
    <3>2. helpers' = n /\ child' = n /\ alive' = {n} /\ exits' = exits \cup {<< n, serial >>} /\ retry' = 0
      BY <2>1
    <3> HIDE DEF n
    <3>3. n \in 0 .. MaxHelpers /\ serial > 0
      BY <3>1
    <3>4. exits' \subseteq (1 .. MaxHelpers) \X (0 .. serial)
      BY <1>3, <3>1, <3>2
    <3>5. \A x \in exits' : x[2] = serial => x = << n, serial >>
      BY <3>2
    <3> QED BY <3>1, <3>2, <3>3, <3>4, <3>5 DEF ProcessInv
  <2>2. CASE child' = 0 /\ alive' = {} /\ retry' = serial /\ UNCHANGED << exits, helpers >>
    BY <1>3, <2>2, HelperAssumption DEF ProcessInv
  <2> QED BY <2>1, <2>2 DEF Spawn
<1> QED BY <1>1, <1>2, <1>4

-----------------------------------------------------------------------------
(* The actions.                                                             *)

LEMMA ShellStepsKeep ==
  ASSUME HelperInv,
         \/ Enables \/ Disables \/ MonitorsChange \/ HelperDies \/ RetryFires
         \/ \E x \in exits : ExitSeen(x[1], x[2])
  PROVE  HelperInv'
<1>0. ProcessInv /\ InputsInv /\ FramesOwed /\ << >> \in Seq(Things)
  BY DEF HelperInv
<1>i. ASSUME lastState' \in {lastState, 0}, lines' \in {lines, << >>}, pipe' \in {pipe, << >>},
             UNCHANGED << inputs, fact, heard, lineWrites >>
      PROVE  InputsInv'
  <2>1. 0 \in 0 .. MaxInputs
    BY HelperAssumption
  <2>2. lines' \in Seq(Things) /\ pipe' \in Seq(Things) /\ lastState' \in 0 .. MaxInputs
    BY <1>0, <1>i, <2>1 DEF InputsInv
  <2> QED BY <1>0, <1>i, <2>2 DEF InputsInv
<1>n. runSerial \in Nat /\ runSerial + 1 \in Nat /\ runSerial + 1 # 0 /\ runSerial + 1 >= runSerial
      /\ \A x \in exits : x[2] # runSerial + 1
  <2>1. \A x \in exits : x[2] \in 0 .. runSerial /\ runSerial \in Nat
    BY <1>0 DEF ProcessInv
  <2> QED BY <1>0, <2>1 DEF ProcessInv
<1>1. CASE Enables
  <2>1. Spawn(runSerial + 1, {}) /\ runSerial' = runSerial + 1 /\ enabled' = TRUE
        /\ UNCHANGED << lines, lineWrites, inputs, fact, heard >>
    BY <1>1 DEF Enables
  <2>2. ProcessInv' /\ FramesOwed' /\ lastState' = 0 /\ pipe' \in {pipe, << >>}
    BY <1>0, <1>n, <2>1, SpawnKeeps
  <2>3. InputsInv'
    BY <1>i, <2>1, <2>2
  <2> QED BY <2>2, <2>3 DEF HelperInv
<1>2. CASE MonitorsChange
  <2>1. Spawn(runSerial + 1, {}) /\ runSerial' = runSerial + 1 /\ enabled' = TRUE /\ lines' = << >>
        /\ UNCHANGED << lineWrites, inputs, fact, heard >>
    BY <1>0, <1>2 DEF MonitorsChange, ForgetsLines, inputVars, ProcessInv
  <2>2. ProcessInv' /\ FramesOwed' /\ lastState' = 0 /\ pipe' \in {pipe, << >>}
    BY <1>0, <1>n, <2>1, SpawnKeeps
  <2>3. InputsInv'
    BY <1>i, <2>1, <2>2
  <2> QED BY <2>2, <2>3 DEF HelperInv
<1>3. CASE Disables
  <2>1. /\ enabled' = FALSE /\ runSerial' = runSerial + 1 /\ retry' = 0 /\ child' = 0 /\ alive' = {}
        /\ lines' = << >> /\ pipe' = << >> /\ HelperGone
        /\ UNCHANGED << exits, helpers, lineWrites, inputs, fact, heard >>
    BY <1>3 DEF Disables, ForgetsLines
  <2>2. FramesOwed' /\ lastState' = 0
    BY <1>0, <2>1, FramesReset
  <2>3. InputsInv'
    BY <1>i, <2>1, <2>2
  <2>4. exits' \subseteq (1 .. MaxHelpers) \X (0 .. runSerial + 1)
    <3>1. exits \subseteq (1 .. MaxHelpers) \X (0 .. runSerial)
      BY <1>0 DEF ProcessInv
    <3>2. (0 .. runSerial) \subseteq 0 .. runSerial + 1
      BY <1>n
    <3> QED BY <2>1, <3>1, <3>2
  <2>5. \A x \in exits' : x[2] # runSerial'
    BY <1>n, <2>1
  <2>6. 0 \in 0 .. MaxHelpers /\ retry' \in 0 .. runSerial'
    BY <1>n, <2>1, HelperAssumption
  <2>7. ProcessInv'
    BY <1>0, <1>n, <2>1, <2>4, <2>5, <2>6 DEF ProcessInv
  <2> QED BY <2>2, <2>3, <2>7 DEF HelperInv
<1>4. CASE HelperDies
  <2>1. /\ alive' = alive \ {child} /\ pipe' = << >> /\ HelperGone
        /\ UNCHANGED << enabled, runSerial, child, exits, retry, helpers, lines, lineWrites, inputs, fact, heard >>
    BY <1>4 DEF HelperDies, inputVars
  <2>2. FramesOwed' /\ lastState' = 0
    BY <1>0, <2>1, FramesReset
  <2>3. InputsInv'
    BY <1>i, <2>1, <2>2
  <2>4. ProcessInv'
    BY <1>0, <2>1 DEF ProcessInv
  <2> QED BY <2>2, <2>3, <2>4 DEF HelperInv
<1>5. CASE RetryFires
  <2>1. UNCHANGED << enabled, runSerial, lines, lineWrites, inputs, fact, heard >> /\ retry # 0
    BY <1>5 DEF RetryFires, inputVars
  <2>2. CASE enabled /\ retry = runSerial /\ Spawn(retry, alive)
    <3>1. \A x \in exits : x[2] # runSerial
      BY <1>0, <2>1, <2>2 DEF ProcessInv
    <3>2. alive = {}
      <4>1. \A p \in alive : << p, runSerial >> \in exits
        BY <1>0 DEF ProcessInv
      <4> QED BY <3>1, <4>1
    <3>3. enabled' = TRUE /\ Spawn(runSerial, {}) /\ runSerial' = runSerial /\ runSerial # 0 /\ runSerial >= runSerial
      BY <1>0, <1>n, <2>1, <2>2, <3>2 DEF ProcessInv
    <3>4. ProcessInv' /\ FramesOwed' /\ lastState' = 0 /\ pipe' \in {pipe, << >>}
      BY <1>0, <1>n, <3>1, <3>3, SpawnKeeps
    <3>5. InputsInv'
      BY <1>i, <2>1, <3>4
    <3> QED BY <3>4, <3>5 DEF HelperInv
  <2>3. CASE retry' = 0 /\ UNCHANGED << child, alive, exits, helpers, pipe, dialVars, lastState, frameVars >>
    <3>1. ProcessInv'
      BY <1>0, <1>n, <2>1, <2>3 DEF ProcessInv
    <3>2. FramesOwed'
      BY <1>0, <2>3, FramesUnmoved
    <3>3. InputsInv'
      BY <1>i, <2>1, <2>3
    <3> QED BY <3>1, <3>2, <3>3 DEF HelperInv
  <2> QED BY <1>5, <2>2, <2>3 DEF RetryFires
<1>6. ASSUME NEW x \in exits, ExitSeen(x[1], x[2]) PROVE HelperInv'
  <2>1. /\ x[1] \notin alive /\ exits' = exits \ {x}
        /\ child' \in {child, 0}
        /\ retry' = IF Awaited(x[2]) /\ retry = 0 THEN x[2] ELSE retry
        /\ UNCHANGED << enabled, runSerial, alive, helpers, lineVars, inputVars, dialVars, lastState, frameVars, heard >>
    <3>1. x = << x[1], x[2] >>
      BY <1>0 DEF ProcessInv
    <3> QED BY <1>6, <3>1 DEF ExitSeen
  <2>2. FramesOwed'
    BY <1>0, <2>1, FramesUnmoved
  <2>3. InputsInv'
    BY <1>i, <2>1 DEF lineVars, inputVars
  <2>4. \A p \in alive' : << p, runSerial >> \in exits'
    <3>1. \A p \in alive : << p, runSerial >> \in exits /\ p # x[1]
      BY <1>0, <2>1 DEF ProcessInv
    <3>2. \A p \in alive : << p, runSerial >> # x
      BY <3>1
    <3> QED BY <2>1, <3>1, <3>2
  <2>5. x[2] \in 0 .. runSerial
    BY <1>0 DEF ProcessInv
  <2>6. retry' # 0 /\ retry' = runSerial => \A y \in exits' : y[2] # runSerial
    <3>1. CASE retry' = retry
      BY <1>0, <2>1, <3>1 DEF ProcessInv
    <3>2. CASE retry' = x[2] /\ x[2] = runSerial
      BY <1>0, <2>1, <3>2 DEF ProcessInv
    <3> QED BY <2>1, <3>1, <3>2 DEF Awaited
  <2>7. ProcessInv'
    <3>1. child' \in 0 .. MaxHelpers /\ retry' \in 0 .. runSerial
      BY <1>0, <2>1, <2>5, HelperAssumption DEF ProcessInv
    <3> QED BY <1>0, <2>1, <2>4, <2>6, <3>1 DEF ProcessInv
  <2> QED BY <2>2, <2>3, <2>7 DEF HelperInv
<1> QED BY <1>1, <1>2, <1>3, <1>4, <1>5, <1>6

\* Lines and inputs leave the processes and the frames alone.
LEMMA LineStepsKeep ==
  ASSUME HelperInv,
         \/ \E kind \in {"motion", "button"} : PointerInput(kind)
         \/ FactChanges \/ ReportNow
         \/ \E w \in lineWrites : LineWritten(w[1], w[2])
  PROVE  HelperInv'
<1>0. ProcessInv /\ InputsInv /\ FramesOwed
  BY DEF HelperInv
<1>1. UNCHANGED << shellVars, dialVars, lastState, frameVars, heard >>
  BY DEF PointerInput, FactChanges, ReportNow, LineWritten
<1>2. ProcessInv' /\ FramesOwed'
  <2>1. FramesOwed'
    BY <1>0, <1>1, FramesUnmoved
  <2>2. ProcessInv'
    BY <1>0, <1>1 DEF ProcessInv, shellVars
  <2> QED BY <2>1, <2>2
<1>3. ASSUME NEW x \in Things, QueuesLine(x)
      PROVE  lines' \in Seq(Things) /\ pipe' \in Seq(Things) /\ lineWrites' \subseteq Nat \X Things
  <2>1. CASE child # 0
    <3> DEFINE q == Coalesced(lines, x, Motions(lines))
    <3>1. q \in Seq(Things) /\ q # << >>
      BY <1>0, CoalescedKeeps DEF InputsInv
    <3>2. FlushesLines(q) /\ pipe' = pipe
      BY <1>3, <2>1 DEF QueuesLine
    <3> HIDE DEF q
    <3>3. Head(q) \in Things /\ child \in Nat
      BY <1>0, <3>1 DEF ProcessInv
    <3> QED BY <1>0, <3>1, <3>2, <3>3 DEF FlushesLines, InputsInv
  <2>2. CASE child = 0
    BY <1>0, <1>3, <2>2 DEF QueuesLine, lineVars, InputsInv
  <2> QED BY <2>1, <2>2
<1>4. ASSUME NEW kind \in {"motion", "button"}, PointerInput(kind) PROVE HelperInv'
  <2> DEFINE n == inputs + 1
  <2>1. inputs' = n /\ QueuesLine(Item(kind, n)) /\ fact' = fact /\ inputs < MaxInputs
    BY <1>4 DEF PointerInput
  <2>2. n \in 0 .. MaxInputs
    BY <1>0, <2>1, HelperAssumption, SMTT(40) DEF InputsInv
  <2> HIDE DEF n
  <2>3. Item(kind, n) \in Things
    BY <2>2 DEF Item, Things
  <2>4. lines' \in Seq(Things) /\ pipe' \in Seq(Things) /\ lineWrites' \subseteq Nat \X Things
    BY <1>3, <2>1, <2>3
  <2> QED BY <1>0, <1>1, <1>2, <2>1, <2>2, <2>4 DEF HelperInv, InputsInv
<1>5. CASE FactChanges
  <2>1. inputs' \in 0 .. MaxInputs /\ fact' = inputs' /\ UNCHANGED lineVars
    BY <1>0, <1>5, HelperAssumption DEF FactChanges, InputsInv
  <2> QED BY <1>0, <1>1, <1>2, <2>1 DEF HelperInv, InputsInv, lineVars
<1>6. CASE ReportNow
  <2>1. QueuesLine(Item("state", fact)) /\ inputs' = inputs /\ fact' = fact
    BY <1>6 DEF ReportNow
  <2>2. Item("state", fact) \in Things
    BY <1>0 DEF Item, Things, InputsInv
  <2>3. lines' \in Seq(Things) /\ pipe' \in Seq(Things) /\ lineWrites' \subseteq Nat \X Things
    BY <1>3, <2>1, <2>2
  <2> QED BY <1>0, <1>1, <1>2, <2>1, <2>3 DEF HelperInv, InputsInv
<1>7. ASSUME NEW w \in lineWrites, LineWritten(w[1], w[2]) PROVE HelperInv'
  <2> DEFINE rest == IF w[1] \in alive /\ lines # << >> THEN Tail(lines) ELSE << >>
  <2>1. w \in Nat \X Things /\ w = << w[1], w[2] >> /\ w[2] \in Things
    BY <1>0 DEF InputsInv
  <2>2. rest \in Seq(Things) /\ (rest # << >> => Head(rest) \in Things)
    BY <1>0 DEF InputsInv
  <2>3. /\ lines' \in {lines, rest}
        /\ pipe' \in {pipe, Append(pipe, w[2])}
        /\ lineWrites' \subseteq lineWrites \cup (IF rest # << >> THEN {<< child, Head(rest) >>} ELSE {})
        /\ UNCHANGED inputVars
    <3> HIDE DEF rest
    <3> QED BY <1>7 DEF LineWritten, rest
  <2> HIDE DEF rest
  <2>4. lines' \in Seq(Things) /\ pipe' \in Seq(Things) /\ lineWrites' \subseteq Nat \X Things
    <3>1. lines' \in Seq(Things)
      BY <1>0, <2>2, <2>3 DEF InputsInv
    <3>2. pipe' \in Seq(Things)
      <4>1. pipe \in Seq(Things) /\ Append(pipe, w[2]) \in Seq(Things)
        BY <1>0, <2>1 DEF InputsInv
      <4> QED BY <2>3, <4>1
    <3>3. rest # << >> => << child, Head(rest) >> \in Nat \X Things
      BY <1>0, <2>2 DEF ProcessInv
    <3>4. lineWrites' \subseteq Nat \X Things
      BY <1>0, <2>3, <3>3 DEF InputsInv
    <3> QED BY <3>1, <3>2, <3>4
  <2> QED BY <1>0, <1>1, <1>2, <2>3, <2>4 DEF HelperInv, InputsInv, inputVars
<1> QED BY <1>4, <1>5, <1>6, <1>7

LEMMA ItemIs == ASSUME NEW kind, NEW n PROVE Item(kind, n).kind = kind /\ Item(kind, n).n = n
BY DEF Item

\* The greeting is owed as it is written.
LEMMA GreetingOwed ==
  ASSUME InputsInv
  PROVE  Greeting \in Seq(Things) /\ Greeting # << >> /\ NoMotions(Greeting) = Greeting
<1> DEFINE hello == Item("hello", 0)
           state == Item("state", lastState)
<1>1. hello \in Things /\ hello.kind # "motion" /\ (lastState # 0 => state \in Things /\ state.kind # "motion")
  BY HelperAssumption DEF Item, Things, InputsInv
<1> HIDE DEF hello, state
<1>2. NoMotions(Append(<< >>, hello)) = Append(<< >>, hello) /\ Append(<< >>, hello) \in Seq(Things)
  <2>1. << >> \in Seq(Things)
    OBVIOUS
  <2>2. NoMotions(Append(<< >>, hello)) = Append(NoMotions(<< >>), hello)
    BY <1>1, <2>1, NoMotionsAppended
  <2>3. Append(<< >>, hello) \in Seq(Things)
    BY <1>1, <2>1
  <2> QED BY <2>2, <2>3, NoMotionsOfNone
<1>3. CASE lastState = 0
  <2>1. Greeting = Append(<< >>, hello)
    BY <1>3 DEF Greeting, hello
  <2> QED BY <1>2, <2>1
<1>4. CASE lastState # 0
  <2>1. Greeting = Append(Append(<< >>, hello), state)
    BY <1>4 DEF Greeting, hello, state
  <2>2. NoMotions(Append(Append(<< >>, hello), state)) = Append(Append(<< >>, hello), state)
    BY <1>1, <1>2, <1>4, NoMotionsAppended
  <2>3. Append(Append(<< >>, hello), state) \in Seq(Things) /\ Append(Append(<< >>, hello), state) # << >>
    BY <1>1, <1>2, <1>4
  <2> QED BY <2>1, <2>2, <2>3
<1> QED BY <1>3, <1>4

\* What is queued on the connection is written from its head, one write at a time.
LEMMA WritesHead ==
  ASSUME carrier' = "up", redial' = FALSE, dial' \in Nat,
         frames' \in Seq(Things), frames' # << >>, framePending' = TRUE, NoMotions(frames') = owed',
         frameWrites' \subseteq Nat \X Things,
         \A w \in frameWrites' : w[1] <= dial' /\ (w[1] = dial' => w = << dial', Head(frames') >>)
  PROVE  FramesOwed'
<1>1. \A w \in frameWrites' : w[1] = dial' => w[2] = Head(frames')
  OBVIOUS
<1>2. \A w, v \in frameWrites' : w[1] = dial' /\ v[1] = dial' => w = v
  OBVIOUS
<1> QED BY <1>1, <1>2 DEF FramesOwed

LEMMA FrameStepsKeep ==
  ASSUME HelperInv,
         \/ ReadsLine \/ Dialed \/ Redials \/ DialFails \/ ClosesSocket
         \/ \E w \in frameWrites : FrameWritten(w[1], w[2])
  PROVE  HelperInv'
<1>0. ProcessInv /\ InputsInv /\ FramesOwed
  BY DEF HelperInv
<1>1. UNCHANGED << shellVars, lines, lineWrites, inputVars >>
  BY DEF ReadsLine, Dialed, Redials, DialFails, ClosesSocket, FrameWritten, lineVars
<1>2. ProcessInv'
  BY <1>0, <1>1 DEF ProcessInv, shellVars
<1>3. ASSUME UNCHANGED << pipe, heard, lastState >> PROVE InputsInv'
  BY <1>0, <1>1, <1>3 DEF InputsInv, inputVars
<1>d. dial \in Nat /\ dial + 1 \in Nat /\ frames \in Seq(Things) /\ frameWrites \subseteq Nat \X Things
  BY <1>0 DEF FramesOwed
<1>e. << >> \in Seq(Things) /\ NoMotions(<< >>) = << >>
  BY NoMotionsOfNone
<1>4. CASE ReadsLine
  <2> DEFINE x == Head(pipe)
             q == Coalesced(frames, x, AfterBarrier(frames))
  <2>1. /\ pipe # << >> /\ pipe' = Tail(pipe) /\ lastState' = (IF x.kind = "state" THEN x.n ELSE lastState)
        /\ QueuesFrame(x) /\ UNCHANGED << dialVars, heard >>
    BY <1>4 DEF ReadsLine
  <2>2. x \in Things /\ pipe' \in Seq(Things)
    BY <1>0, <2>1 DEF InputsInv
  <2> HIDE DEF x
  <2>3. InputsInv'
    BY <1>0, <1>1, <2>1, <2>2 DEF InputsInv, inputVars, Things
  <2>4. FramesOwed'
    <3>1. CASE carrier # "up"
      BY <1>0, <2>1, <3>1, FramesUnmoved DEF QueuesFrame
    <3>2. CASE carrier = "up"
      <4>1. AfterBarrier(frames) \in SUBSET Motions(frames)
        BY DEF AfterBarrier
      <4>2. /\ q \in Seq(Things) /\ q # << >>
            /\ NoMotions(q) = IF x.kind = "motion" THEN NoMotions(frames) ELSE Append(NoMotions(frames), x)
            /\ frames # << >> => (Head(q).kind = "motion" <=> Head(frames).kind = "motion")
        BY <1>d, <2>2, <4>1, CoalescedKeeps
      <4>3. FlushesFrames(q, IF x.kind = "motion" THEN owed ELSE Append(owed, x), framePending, frameWrites)
        BY <2>1, <3>2 DEF QueuesFrame
      <4> HIDE DEF q
      <4>4. frames' = q /\ owed' = (IF x.kind = "motion" THEN owed ELSE Append(owed, x))
        BY <4>3 DEF FlushesFrames
      <4>5. NoMotions(frames') = owed'
        BY <1>0, <4>2, <4>4 DEF FramesOwed
      <4>6. Head(q) \in Things
        BY <4>2
      <4>7. carrier' = "up" /\ dial' = dial /\ redial' = redial
        BY <2>1, <3>2 DEF dialVars
      <4>8. CASE framePending
        <5>1. framePending' = framePending /\ frameWrites' = frameWrites
          BY <4>3, <4>8 DEF FlushesFrames
        <5> QED BY <1>0, <3>2, <4>2, <4>4, <4>5, <4>7, <4>8, <5>1 DEF FramesOwed
      <4>9. CASE ~framePending
        <5>1. framePending' = TRUE /\ frameWrites' = frameWrites \cup {<< dial, Head(q) >>}
          BY <4>2, <4>3, <4>9 DEF FlushesFrames
        <5>2. \A w \in frameWrites : w[1] # dial /\ w[1] <= dial
          BY <1>0, <3>2, <4>9 DEF FramesOwed
        <5>3. \A w \in frameWrites' : w[1] = dial => w = << dial, Head(q) >>
          BY <5>1, <5>2
        <5>4. frameWrites' \subseteq Nat \X Things /\ \A w \in frameWrites' : w[1] <= dial
          BY <1>d, <4>6, <5>1, <5>2
        <5>5. redial' = FALSE
          BY <1>0, <3>2, <4>7 DEF FramesOwed
        <5>6. frames' \in Seq(Things) /\ frames' # << >> /\ Head(frames') = Head(q)
          BY <4>2, <4>4
        <5> QED BY <1>d, <4>5, <4>7, <5>1, <5>3, <5>4, <5>5, <5>6, WritesHead
      <4> QED BY <4>8, <4>9
    <3> QED BY <3>1, <3>2
  <2> QED BY <1>2, <2>3, <2>4 DEF HelperInv
<1>5. CASE Dialed
  <2> DEFINE q == Greeting
  <2>1. /\ carrier' = "up" /\ carrier = "dialing" /\ UNCHANGED << dial, redial, pipe, heard, lastState >>
        /\ FlushesFrames(q, q, FALSE, {w \in frameWrites : w[1] # dial})
    BY <1>5 DEF Dialed, lineVars
  <2>2. q \in Seq(Things) /\ q # << >> /\ NoMotions(q) = q
    BY <1>0, GreetingOwed
  <2> HIDE DEF q
  <2>3. frames' = q /\ owed' = q /\ framePending' = TRUE
        /\ frameWrites' = {w \in frameWrites : w[1] # dial} \cup {<< dial, Head(q) >>}
    BY <2>1, <2>2 DEF FlushesFrames
  <2>4. Head(q) \in Things
    BY <2>2
  <2>5. redial = FALSE
    BY <1>0, <2>1 DEF FramesOwed
  <2>6. frameWrites' \subseteq Nat \X Things /\ (\A w \in frameWrites' : w[1] <= dial)
        /\ \A w \in frameWrites' : w[1] = dial => w = << dial, Head(q) >>
    BY <1>0, <1>d, <2>3, <2>4 DEF FramesOwed
  <2>7. FramesOwed'
    <3>1. frames' \in Seq(Things) /\ frames' # << >> /\ Head(frames') = Head(q) /\ NoMotions(frames') = owed'
      BY <2>2, <2>3
    <3> QED BY <1>d, <2>1, <2>3, <2>5, <2>6, <3>1, WritesHead
  <2> QED BY <1>2, <1>3, <2>1, <2>7 DEF HelperInv
<1>6. CASE DialFails \/ Redials
  <2>1. /\ carrier' \in {"down", "dialing"} /\ frames = << >>
        /\ UNCHANGED << pipe, heard, lastState, frameVars >>
        /\ \/ carrier' = "down" /\ dial' = dial /\ redial' = TRUE
           \/ carrier' = "dialing" /\ dial' = dial + 1 /\ redial' = FALSE
    BY <1>0, <1>6 DEF DialFails, Redials, lineVars, FramesOwed
  <2>2. \A w \in frameWrites : w[1] \in Nat /\ w[1] <= dial
    BY <1>0 DEF FramesOwed
  <2>3. \A w \in frameWrites' : w[1] <= dial' /\ (carrier' = "dialing" => w[1] # dial')
    BY <1>d, <2>1, <2>2 DEF frameVars
  <2>4. FramesOwed'
    BY <1>0, <1>d, <2>1, <2>3 DEF FramesOwed, frameVars
  <2> QED BY <1>2, <1>3, <2>1, <2>4 DEF HelperInv
<1>7. CASE ClosesSocket
  <2>1. /\ carrier' = "down" /\ redial' = TRUE /\ frames' = << >> /\ owed' = << >>
        /\ UNCHANGED << pipe, heard, lastState, dial, frameWrites >>
    BY <1>7 DEF ClosesSocket, lineVars
  <2>2. FramesOwed'
    BY <1>0, <1>e, <2>1 DEF FramesOwed
  <2> QED BY <1>2, <1>3, <2>1, <2>2 DEF HelperInv
<1>8. ASSUME NEW u \in frameWrites, FrameWritten(u[1], u[2]) PROVE HelperInv'
  <2> DEFINE live == u[1] = dial /\ carrier = "up"
             rest == frameWrites \ {u}
  <2>0. u \in Nat \X Things /\ u = << u[1], u[2] >> /\ u[2] \in Things
    BY <1>d
  <2>1. /\ heard' = (IF live /\ u[2].kind = "state" THEN u[2].n ELSE heard)
        /\ UNCHANGED << dialVars, lastState, pipe >>
        /\ IF ~live \/ frames = << >>
           THEN frameWrites' = rest /\ UNCHANGED << frames, framePending, owed >>
           ELSE FlushesFrames(Tail(frames), IF live /\ u[2].kind # "motion" THEN Tail(owed) ELSE owed, FALSE, rest)
    BY <1>8, <2>0 DEF FrameWritten, OfConnection, lineVars
  <2>2. InputsInv'
    BY <1>0, <1>1, <2>0, <2>1 DEF InputsInv, inputVars, Things
  <2>3. CASE ~live \/ frames = << >>
    <3>1. frameWrites' = rest /\ UNCHANGED << frames, framePending, owed, carrier, dial, redial >>
      BY <2>1, <2>3 DEF dialVars
    <3>2. FramesOwed'
      BY <1>0, <3>1 DEF FramesOwed
    <3> QED BY <1>2, <2>2, <3>2 DEF HelperInv
  <2>4. CASE live /\ frames # << >>
    <3> DEFINE q == Tail(frames)
    <3>1. FlushesFrames(q, IF u[2].kind # "motion" THEN Tail(owed) ELSE owed, FALSE, rest)
          /\ UNCHANGED << carrier, dial, redial >>
      BY <2>1, <2>4 DEF dialVars
    <3>2. u[2].kind = "motion" <=> Head(frames).kind = "motion"
      BY <1>0, <2>4 DEF FramesOwed
    <3>3. q \in Seq(Things) /\ NoMotions(q) = IF u[2].kind # "motion" THEN Tail(owed) ELSE owed
      BY <1>0, <1>d, <2>4, <3>2, NoMotionsTail DEF FramesOwed
    <3> HIDE DEF q
    <3>4. \A w \in rest : w[1] # dial /\ w[1] <= dial
      BY <1>0, <2>4 DEF FramesOwed
    <3>5. carrier' = "up" /\ dial' = dial /\ redial' = FALSE
      BY <1>0, <2>4, <3>1 DEF FramesOwed
    <3>6. frames' = q /\ NoMotions(frames') = owed'
      BY <3>1, <3>3 DEF FlushesFrames
    <3> HIDE DEF rest
    <3>r. rest \subseteq Nat \X Things
      BY <1>d DEF rest
    <3>7. CASE q = << >>
      <4>1. framePending' = FALSE /\ frameWrites' = rest
        BY <3>1, <3>7 DEF FlushesFrames
      <4> QED BY <1>d, <3>3, <3>4, <3>5, <3>6, <3>7, <3>r, <4>1, <1>2, <2>2 DEF FramesOwed, HelperInv
    <3>8. CASE q # << >>
      <4>1. framePending' = TRUE /\ frameWrites' = rest \cup {<< dial, Head(q) >>}
        BY <3>1, <3>8 DEF FlushesFrames
      <4>2. Head(q) \in Things
        BY <3>3, <3>8
      <4>3. \A w \in frameWrites' : w[1] <= dial /\ (w[1] = dial => w = << dial, Head(q) >>)
        BY <1>d, <3>4, <4>1
      <4>4. frameWrites' \subseteq Nat \X Things
        BY <1>d, <3>r, <4>1, <4>2
      <4>5. FramesOwed'
        <5>1. frames' \in Seq(Things) /\ frames' # << >> /\ Head(frames') = Head(q)
          BY <3>3, <3>6, <3>8
        <5> QED BY <1>d, <3>5, <3>6, <4>1, <4>3, <4>4, <5>1, WritesHead
      <4> QED BY <1>2, <2>2, <4>5 DEF HelperInv
    <3> QED BY <3>7, <3>8
  <2> QED BY <2>3, <2>4
<1> QED BY <1>4, <1>5, <1>6, <1>7, <1>8

LEMMA HelperInvStep == HelperInv /\ [HelperNext]_helperVars => HelperInv'
<1> SUFFICES ASSUME HelperInv, [HelperNext]_helperVars PROVE HelperInv'
  OBVIOUS
<1>1. CASE UNCHANGED helperVars
  <2>0. ProcessInv /\ InputsInv /\ FramesOwed
    BY DEF HelperInv
  <2>1. FramesOwed'
    BY <1>1, <2>0, FramesUnmoved DEF helperVars
  <2>2. ProcessInv' /\ InputsInv'
    BY <1>1, <2>0 DEF helperVars, shellVars, lineVars, inputVars, ProcessInv, InputsInv
  <2> QED BY <2>1, <2>2 DEF HelperInv
<1> QED BY <1>1, ShellStepsKeep, LineStepsKeep, FrameStepsKeep DEF HelperNext, ServiceTurn, HelperTurn

-----------------------------------------------------------------------------
(* An output of the GNOME helper.                                           *)

Base      == (session - 1) * MaxBinds
Owned     == {known[g] : g \in Generations}
Ends      == {"sent", "closed", "signalled", "fence"}
OutputEvents     == [ev : {"bind", "config", "frame", "unbind", "blank"}, gen : 0 .. MaxBinds, frame : Nat]
EventList == Seq(OutputEvents)
Answers   == Seq({"done", "failed"} \X (0 .. MaxBinds))
Done      == {replies[i][2] : i \in {k \in DOMAIN replies : replies[k][1] = "done"}}

\* A generation to be bound is newer than whatever the output has seen or is told
\* before, and its images are those of its number.
Newer(n, last) ==
  /\ n \in 1 .. last
  /\ \A g \in Generations \cup Done : g < n
  /\ \A x \in leaked : x < Base + n

Bounds(ev) == ev \in {"bind", "unbind"}

OrderedEvents(q, last) ==
  /\ q \in EventList
  /\ \A i \in DOMAIN q : Bounds(q[i].ev) => q[i].gen \in 1 .. last
  /\ \A i \in DOMAIN q :
       q[i].ev = "bind" =>
         /\ Newer(q[i].gen, last) /\ q[i].frame = Base + q[i].gen /\ q[i].frame \in ImageIds
         /\ \A j \in 1 .. i - 1 : Bounds(q[j].ev) => q[j].gen < q[i].gen

SessionInv ==
  /\ accepted \in BOOLEAN /\ session \in 0 .. MaxSessions /\ lastGen \in 0 .. MaxBinds
  /\ bindings \subseteq 1 .. lastGen /\ (accepted => session > 0)
  /\ ~accepted => toOutput = << >> /\ Generations = {}
  /\ fate \in Seq(Ends) /\ replies \in Answers

OwnersInv ==
  /\ Generations \subseteq 1 .. lastGen /\ configured \subseteq Generations
  /\ \A g \in Generations : known[g] = Base + g
  /\ imageSets \subseteq ImageIds /\ leaked \subseteq imageSets
  /\ \A x \in leaked : x <= Base + lastGen
  /\ ImagesHaveOwners /\ CopiesHaveImages
  /\ ~wedged => \A cp \in reads : cp[2] \in Owned
  /\ Done \cap Generations = {} /\ \A g \in Done : g <= lastGen

GnomeInv == SessionInv /\ OwnersInv /\ OrderedEvents(toOutput, lastGen)

-----------------------------------------------------------------------------
\* Image numbers are whole; those of a session follow those of the one before.
LEMMA BaseIs ==
  ASSUME session \in Nat
  PROVE  /\ Base \in Int /\ MaxBinds \in Nat /\ MaxSessions \in Nat
         /\ session' = session + 1 => Base' = Base + MaxBinds
         /\ session' = session => Base' = Base
<1>1. MaxBinds \in Nat /\ MaxSessions \in Nat
  BY GnomeAssumption
<1>2. Base \in Int
  BY <1>1 DEF Base
<1>3. ((session + 1) - 1) * MaxBinds = (session - 1) * MaxBinds + MaxBinds
  BY <1>1
<1> QED BY <1>1, <1>2, <1>3 DEF Base

LEMMA ImageIsOne ==
  ASSUME session \in 1 .. MaxSessions, lastGen \in Nat, lastGen < MaxBinds
  PROVE  NewImages = Base + lastGen + 1 /\ NewImages \in ImageIds
<1> DEFINE B == MaxBinds
           M == MaxSessions
           s == session
           n == (s - 1) * B
<1>1. B \in Nat /\ M \in Nat /\ s \in Nat /\ s >= 1 /\ s <= M
  BY GnomeAssumption
<1>2. n \in Nat
  <2>1. s - 1 \in Nat
    BY <1>1
  <2> QED BY <1>1, <2>1
<1>3. n + B <= B * M
  <2>1. M - s \in Nat
    BY <1>1
  <2>2. (M - s) * B \in Nat
    BY <1>1, <2>1
  <2>3. B * M = n + B + (M - s) * B
    BY <1>1
  <2> QED BY <1>1, <1>2, <2>2, <2>3
<1>4. B * M \in Nat
  BY <1>1
<1> DEFINE t == B * M
<1> HIDE DEF n, t
<1>5. n + lastGen + 1 \in 1 .. t
  <2>1. n + B <= t /\ t \in Nat
    BY <1>3, <1>4 DEF t
  <2> QED BY <1>1, <1>2, <2>1
<1>6. t = MaxBinds * MaxSessions /\ n = (session - 1) * MaxBinds
  BY DEF t, n
<1>7. n + lastGen + 1 \in ImageIds
  BY <1>5, <1>6 DEF ImageIds
<1>8. NewImages = n + lastGen + 1
  BY <1>6, <1>7 DEF NewImages
<1> QED BY <1>6, <1>7, <1>8 DEF Base

LEMMA GnomeInitInv == GnomeInit => GnomeInv
<1> SUFFICES ASSUME GnomeInit PROVE GnomeInv
  OBVIOUS
<1>0. /\ session = 0 /\ accepted = FALSE /\ toOutput = << >> /\ bindings = {} /\ lastGen = 0
      /\ configured = {} /\ imageSets = {} /\ leaked = {} /\ reads = {}
      /\ fate = << >> /\ replies = << >>
  BY DEF GnomeInit
<1>1. Generations = {} /\ Done = {} /\ Owned = {}
  <2>1. Generations = {} /\ DOMAIN replies = {}
    BY <1>0 DEF GnomeInit, Generations
  <2> QED BY <2>1 DEF Owned, Done
<1>2. SessionInv
  <2>1. 0 \in 0 .. MaxSessions /\ 0 \in 0 .. MaxBinds
    BY GnomeAssumption
  <2>2. fate \in Seq(Ends) /\ replies \in Answers
    BY <1>0 DEF Answers
  <2> QED BY <1>0, <1>1, <2>1, <2>2 DEF SessionInv
<1>3. OwnersInv
  BY <1>0, <1>1 DEF OwnersInv, ImagesHaveOwners, CopiesHaveImages, Owned
<1>4. toOutput \in EventList /\ DOMAIN toOutput = {}
  BY <1>0 DEF EventList
<1> QED BY <1>2, <1>3, <1>4 DEF GnomeInv, OrderedEvents

LEMMA GnomeInvShows == GnomeInv => OutputKeepsImages
<1> SUFFICES ASSUME GnomeInv PROVE OutputKeepsImages
  OBVIOUS
<1>0. SessionInv /\ OwnersInv /\ session \in Nat /\ lastGen \in Nat /\ Base \in Int
  BY BaseIs DEF GnomeInv, SessionInv
<1>1. GnomeTypeOK
  <2>1. Generations \subseteq 1 .. MaxBinds
    BY <1>0, GnomeAssumption DEF OwnersInv, SessionInv
  <2>2. \A f \in DOMAIN fate : fate[f] \in {"sent", "closed", "signalled", "fence"}
    BY <1>0 DEF SessionInv, Ends
  <2> QED BY <1>0, <2>1, <2>2 DEF GnomeTypeOK, OwnersInv
<1>2. UnboundIsIdle
  <2> SUFFICES ASSUME ~wedged, NEW i \in DOMAIN replies, NEW cp \in reads, replies[i][1] = "done"
               PROVE  cp[2] # Base + replies[i][2]
    BY DEF UnboundIsIdle, Base
  <2>1. replies[i][2] \in Done
    BY DEF Done
  <2>2. PICK h \in Generations : cp[2] = Base + h
    BY <1>0 DEF OwnersInv, Owned
  <2>3. replies[i][2] # h
    BY <1>0, <2>1, <2>2 DEF OwnersInv
  <2>4. h \in Nat
    BY <1>0 DEF OwnersInv
  <2>5. replies[i] \in {"done", "failed"} \X (0 .. MaxBinds)
    BY <1>0 DEF SessionInv, Answers
  <2>6. replies[i][2] \in Nat
    BY <2>5
  <2> DEFINE r == replies[i][2]
             bs == Base
  <2> HIDE DEF r, bs
  <2>7. r \in Nat /\ bs \in Int /\ r # h
    BY <1>0, <2>3, <2>6 DEF r, bs
  <2>8. bs + h # bs + r
    BY <2>4, <2>7
  <2> QED BY <2>2, <2>8 DEF r, bs
<1> QED BY <1>0, <1>1, <1>2 DEF OutputKeepsImages, OwnersInv

-----------------------------------------------------------------------------
(* The daemon.                                                              *)

\* A later generation of the daemon orders no less.
LEMMA OrderedLater ==
  ASSUME NEW q, NEW l \in Nat, NEW m \in Nat, l <= m, OrderedEvents(q, l)
  PROVE  OrderedEvents(q, m)
<1>1. 1 .. l \subseteq 1 .. m
  OBVIOUS
<1>2. \A n : Newer(n, l) => Newer(n, m)
  BY <1>1 DEF Newer
<1>3. \A i \in DOMAIN q : Bounds(q[i].ev) => q[i].gen \in 1 .. m
  BY <1>1 DEF OrderedEvents
<1>4. \A i \in DOMAIN q : q[i].ev = "bind" => Newer(q[i].gen, m)
  BY <1>2 DEF OrderedEvents
<1> QED BY <1>3, <1>4 DEF OrderedEvents

\* One more event, that is not a BIND, or is one of a newer generation.
LEMMA OrderedAppend ==
  ASSUME NEW q, NEW last, OrderedEvents(q, last), NEW e \in OutputEvents,
         Bounds(e.ev) => e.gen \in 1 .. last,
         e.ev = "bind" => /\ Newer(e.gen, last) /\ e.frame = Base + e.gen /\ e.frame \in ImageIds
                          /\ \A j \in DOMAIN q : Bounds(q[j].ev) => q[j].gen < e.gen
  PROVE  OrderedEvents(Append(q, e), last)
<1> DEFINE r == Append(q, e)
           n == Len(q)
<1>1. q \in EventList /\ n \in Nat /\ r \in EventList /\ DOMAIN r = 1 .. n + 1 /\ DOMAIN q = 1 .. n
      /\ r[n + 1] = e /\ \A i \in 1 .. n : r[i] = q[i]
  BY DEF OrderedEvents, EventList
<1> HIDE DEF r, n
<1>2. ASSUME NEW i \in DOMAIN r, Bounds(r[i].ev) PROVE r[i].gen \in 1 .. last
  <2>1. CASE i = n + 1
    BY <1>1, <1>2, <2>1
  <2>2. CASE i \in 1 .. n
    BY <1>1, <1>2, <2>2 DEF OrderedEvents
  <2> QED BY <1>1, <2>1, <2>2
<1>3. ASSUME NEW i \in DOMAIN r, r[i].ev = "bind"
      PROVE  /\ Newer(r[i].gen, last) /\ r[i].frame = Base + r[i].gen /\ r[i].frame \in ImageIds
             /\ \A j \in 1 .. i - 1 : Bounds(r[j].ev) => r[j].gen < r[i].gen
  <2>1. CASE i = n + 1
    <3>1. 1 .. i - 1 = DOMAIN q
      BY <1>1, <2>1
    <3> QED BY <1>1, <1>3, <2>1, <3>1
  <2>2. CASE i \in 1 .. n
    <3>1. \A j \in 1 .. i - 1 : j \in 1 .. n
      BY <1>1, <2>2
    <3> QED BY <1>1, <1>3, <2>2, <3>1 DEF OrderedEvents
  <2> QED BY <1>1, <2>1, <2>2
<1> QED BY <1>1, <1>2, <1>3 DEF OrderedEvents, r

\* What the first event tells of the others.
LEMMA OrderedTail ==
  ASSUME NEW q, NEW last, OrderedEvents(q, last), q # << >>
  PROVE  /\ Head(q) \in OutputEvents
         /\ OrderedEvents(Tail(q), last)
         /\ Bounds(Head(q).ev) =>
              /\ Head(q).gen \in 1 .. last
              /\ \A i \in DOMAIN Tail(q) : Tail(q)[i].ev = "bind" => Head(q).gen < Tail(q)[i].gen
         /\ Head(q).ev = "bind" =>
              Newer(Head(q).gen, last) /\ Head(q).frame = Base + Head(q).gen /\ Head(q).frame \in ImageIds
<1> DEFINE r == Tail(q)
           n == Len(q)
           h == Head(q)
<1>1. q \in Seq(OutputEvents)
  BY DEF OrderedEvents, EventList
<1>2. n \in Nat /\ n > 0 /\ r \in Seq(OutputEvents) /\ DOMAIN r = 1 .. n - 1 /\ DOMAIN q = 1 .. n
      /\ h = q[1] /\ h \in OutputEvents /\ \A i \in 1 .. n - 1 : r[i] = q[i + 1]
  BY <1>1
<1> HIDE DEF r, n, h
<1>3. 1 \in DOMAIN q /\ \A i \in DOMAIN r : i + 1 \in DOMAIN q /\ r[i] = q[i + 1] /\ 1 \in 1 .. (i + 1) - 1
  BY <1>2
<1>4. \A i \in DOMAIN r : Bounds(r[i].ev) => r[i].gen \in 1 .. last
  BY <1>3 DEF OrderedEvents
<1>5. ASSUME NEW i \in DOMAIN r, r[i].ev = "bind"
      PROVE  /\ Newer(r[i].gen, last) /\ r[i].frame = Base + r[i].gen /\ r[i].frame \in ImageIds
             /\ \A j \in 1 .. i - 1 : Bounds(r[j].ev) => r[j].gen < r[i].gen
             /\ Bounds(h.ev) => h.gen < r[i].gen
  <2> DEFINE k == i + 1
  <2>0. k \in DOMAIN q /\ r[i] = q[k] /\ q[k].ev = "bind"
    BY <1>3, <1>5
  <2>1. /\ Newer(q[k].gen, last) /\ q[k].frame = Base + q[k].gen /\ q[k].frame \in ImageIds
        /\ \A j \in 1 .. k - 1 : Bounds(q[j].ev) => q[j].gen < q[k].gen
    BY <2>0 DEF OrderedEvents
  <2>2. \A j \in 1 .. i - 1 : j + 1 \in 1 .. k - 1 /\ r[j] = q[j + 1]
    BY <1>2
  <2>3. 1 \in 1 .. k - 1
    BY <1>3
  <2> QED BY <1>2, <2>0, <2>1, <2>2, <2>3
<1>6. OrderedEvents(r, last)
  BY <1>2, <1>4, <1>5 DEF OrderedEvents, EventList
<1>7. Bounds(h.ev) => h.gen \in 1 .. last
  BY <1>2, <1>3 DEF OrderedEvents
<1>8. h.ev = "bind" => Newer(h.gen, last) /\ h.frame = Base + h.gen /\ h.frame \in ImageIds
  BY <1>2, <1>3 DEF OrderedEvents
<1> QED BY <1>2, <1>5, <1>6, <1>7, <1>8 DEF r, h

\* What the output has seen may grow with generations that are older than those to come.
LEMMA StaysOrdered ==
  ASSUME NEW q, NEW S, OrderedEvents(q, lastGen), toOutput' = q, UNCHANGED << session, lastGen >>,
         session \in Nat,
         Generations \subseteq Nat,
         (Generations \cup Done)' \subseteq Generations \cup Done \cup S,
         \A x \in leaked' : x \in leaked \/ \E g \in Generations : x = Base + g,
         \A i \in DOMAIN q : q[i].ev = "bind" => \A s \in S : s < q[i].gen
  PROVE  OrderedEvents(toOutput, lastGen)'
<1>0. Base' = Base /\ Base \in Int
  BY BaseIs
<1>1. ASSUME NEW i \in DOMAIN q, q[i].ev = "bind"
      PROVE  Newer(q[i].gen, lastGen)'
  <2> DEFINE n == q[i].gen
             bs == Base
  <2>1. Newer(n, lastGen) /\ n \in Nat /\ bs \in Int
    <3>1. Newer(n, lastGen)
      BY <1>1 DEF OrderedEvents
    <3>2. q[i] \in OutputEvents
      BY <1>1 DEF OrderedEvents, EventList
    <3>3. n \in Nat
      BY <3>2 DEF OutputEvents
    <3> QED BY <1>0, <3>1, <3>3
  <2> HIDE DEF n, bs
  <2>2. n \in 1 .. lastGen' /\ Base' = bs
    BY <1>0, <2>1 DEF Newer, bs
  <2>3. \A g \in Generations \cup Done \cup S : g < n
    BY <1>1, <2>1 DEF Newer, n
  <2>4. \A g \in (Generations \cup Done)' : g < n
    BY <2>3
  <2>5. ASSUME NEW x \in leaked' PROVE x < bs + n
    <3>1. CASE x \in leaked
      BY <2>1, <3>1 DEF Newer, bs
    <3>2. ASSUME NEW g \in Generations, x = bs + g PROVE x < bs + n
      <4>1. g \in Nat /\ g < n
        BY <2>3
      <4> QED BY <2>1, <3>2, <4>1
    <3> QED BY <3>1, <3>2 DEF bs
  <2> QED BY <2>2, <2>4, <2>5 DEF Newer, n
<1> QED BY <1>0, <1>1 DEF OrderedEvents, ImageIds


\* What an event of the daemon leaves of the rest.
LEMMA DaemonKeeps ==
  ASSUME GnomeInv, accepted,
         UNCHANGED << wedged, session, accepted, importVars, reads, replies >>,
         lastGen' \in lastGen .. MaxBinds, bindings' \subseteq 1 .. lastGen',
         fate' \in Seq(Ends), OrderedEvents(toOutput', lastGen')
  PROVE  GnomeInv'
<1>0. lastGen \in Nat /\ lastGen' \in Nat /\ lastGen <= lastGen' /\ session \in Nat /\ Generations' = Generations
      /\ Owned' = Owned /\ Done' = Done
  BY GnomeAssumption, SMTT(40) DEF GnomeInv, SessionInv, importVars, Generations, Owned, Done
<1>1. Base' = Base /\ Base \in Int /\ MaxBinds \in Nat
  BY <1>0, BaseIs
<1>2. SessionInv'
  <2>1. lastGen' \in 0 .. MaxBinds
    BY <1>0, <1>1
  <2> QED BY <1>0, <2>1 DEF GnomeInv, SessionInv, importVars, Generations, Answers
<1>3. OwnersInv'
  <2>1. Generations \subseteq 1 .. lastGen'
    BY <1>0 DEF GnomeInv, OwnersInv
  <2>2. \A x \in leaked : x <= Base + lastGen'
    <3> SUFFICES ASSUME NEW x \in leaked PROVE x <= Base + lastGen'
      OBVIOUS
    <3> DEFINE z == Base
    <3>1. x <= z + lastGen /\ x \in Int
      <4>1. x \in ImageIds
        BY DEF GnomeInv, OwnersInv
      <4>2. MaxBinds * MaxSessions \in Nat
        BY GnomeAssumption
      <4> QED BY <4>1, <4>2 DEF GnomeInv, OwnersInv, ImageIds
    <3>2. z \in Int
      BY <1>1
    <3> DEFINE l == lastGen'
    <3>3. l \in Nat /\ lastGen \in Nat /\ lastGen <= l
      BY <1>0
    <3> HIDE DEF z, l
    <3>4. x <= z + l
      BY <3>1, <3>2, <3>3
    <3> QED BY <3>4 DEF z, l
  <2>3. \A g \in Done : g <= lastGen'
    <3>1. \A g \in Done : g \in Nat
      <4> SUFFICES ASSUME NEW i \in DOMAIN replies, replies[i][1] = "done" PROVE replies[i][2] \in Nat
        BY DEF Done
      <4>1. replies[i] \in {"done", "failed"} \X (0 .. MaxBinds)
        BY DEF GnomeInv, SessionInv, Answers
      <4> QED BY <4>1
    <3> QED BY <1>0, <3>1 DEF GnomeInv, OwnersInv
  <2>4. ImagesHaveOwners' /\ CopiesHaveImages'
    <3>1. ImagesHaveOwners
      BY DEF GnomeInv, OwnersInv
    <3>2. CopiesHaveImages
      BY DEF GnomeInv, OwnersInv
    <3>3. (imageSets \ leaked)' = Owned'
      BY <1>0, <3>1 DEF ImagesHaveOwners, Owned, importVars
    <3> QED BY <3>2, <3>3 DEF ImagesHaveOwners, Owned, CopiesHaveImages, importVars
  <2>5. \A g \in Generations' : known'[g] = Base' + g
    BY <1>0, <1>1 DEF GnomeInv, OwnersInv, importVars
  <2>6. configured' \subseteq Generations' /\ imageSets' \subseteq ImageIds' /\ leaked' \subseteq imageSets'
    BY <1>0 DEF GnomeInv, OwnersInv, importVars, ImageIds
  <2>7. ~wedged' => \A cp \in reads' : cp[2] \in Owned'
    BY <1>0 DEF GnomeInv, OwnersInv
  <2>8. Done' \cap Generations' = {}
    BY <1>0 DEF GnomeInv, OwnersInv
  <2> QED BY <1>0, <1>1, <2>1, <2>2, <2>3, <2>4, <2>5, <2>6, <2>7, <2>8 DEF OwnersInv, importVars
<1>4. OrderedEvents(toOutput, lastGen)'
  BY <1>0, <1>1 DEF OrderedEvents, Newer, importVars, ImageIds
<1> QED BY <1>2, <1>3, <1>4 DEF GnomeInv

LEMMA ConnectsKeeps == ASSUME GnomeInv, GnomeConnects PROVE GnomeInv'
<1>0. lastGen \in Nat /\ lastGen <= MaxBinds /\ session \in Nat /\ Generations' = {} /\ MaxBinds \in Nat /\ Owned' = Owned
      /\ Generations = {} /\ Done' = {}
  <2>1. Generations = {} /\ Generations' = Generations /\ Owned' = Owned
    BY DEF GnomeInv, SessionInv, GnomeConnects, importVars, Generations, Owned
  <2>2. replies' = << >> /\ DOMAIN replies' = {}
    BY DEF GnomeConnects
  <2>3. Done' = {}
    BY <2>2 DEF Done
  <2> QED BY <2>1, <2>3, GnomeAssumption DEF GnomeInv, SessionInv
<1>1. Base' = Base + MaxBinds /\ Base \in Int
  BY <1>0, BaseIs DEF GnomeConnects
<1>2. SessionInv'
  <2>1. session' \in 0 .. MaxSessions /\ session' > 0 /\ lastGen' \in 0 .. MaxBinds
    BY <1>0, GnomeAssumption DEF GnomeConnects
  <2>2. replies' \in Answers'
    BY DEF GnomeConnects, Answers
  <2> QED BY <2>1, <2>2 DEF GnomeConnects, GnomeInv, SessionInv
<1>3. OwnersInv'
  <2>1. \A x \in leaked' : x <= Base' + lastGen'
    <3> SUFFICES ASSUME NEW x \in leaked PROVE x <= Base' + lastGen'
      BY DEF GnomeConnects, importVars
    <3> DEFINE z == Base
    <3>1. x <= z + lastGen /\ x \in Int
      <4>1. x \in ImageIds
        BY DEF GnomeInv, OwnersInv
      <4>2. MaxBinds * MaxSessions \in Nat
        BY GnomeAssumption
      <4> QED BY <4>1, <4>2 DEF GnomeInv, OwnersInv, ImageIds
    <3>2. z \in Int /\ Base' = z + MaxBinds /\ lastGen' = 0
      BY <1>1 DEF GnomeConnects
    <3> HIDE DEF z
    <3> QED BY <1>0, <3>1, <3>2
  <2>2. ImagesHaveOwners' /\ CopiesHaveImages'
    <3>1. (imageSets \ leaked)' = Owned'
      BY <1>0 DEF GnomeInv, OwnersInv, ImagesHaveOwners, Owned, importVars, GnomeConnects
    <3> QED BY <3>1 DEF GnomeInv, OwnersInv, ImagesHaveOwners, Owned, CopiesHaveImages, importVars, GnomeConnects
  <2>3. configured' \subseteq Generations' /\ imageSets' \subseteq ImageIds' /\ leaked' \subseteq imageSets'
    BY <1>0 DEF GnomeInv, OwnersInv, importVars, ImageIds, GnomeConnects
  <2>4. ~wedged' => \A cp \in reads' : cp[2] \in Owned'
    BY <1>0 DEF GnomeInv, OwnersInv, GnomeConnects
  <2> QED BY <1>0, <2>1, <2>2, <2>3, <2>4 DEF OwnersInv
<1>4. toOutput' \in EventList' /\ DOMAIN toOutput' = {}
  BY DEF GnomeConnects, EventList
<1> QED BY <1>2, <1>3, <1>4 DEF GnomeInv, OrderedEvents

\* A BIND of the next generation, after whatever was sent.
LEMMA NextBind ==
  ASSUME GnomeInv, accepted, lastGen < MaxBinds
  PROVE  LET n == lastGen + 1
             e == GnomeEvent("bind", n, NewImages)
             x == GnomeEvent("config", n, 0) IN
           OrderedEvents(Append(Append(toOutput, e), x), n)
<1> DEFINE n == lastGen + 1
           i == NewImages
           e == GnomeEvent("bind", n, i)
           x == GnomeEvent("config", n, 0)
<1>1. lastGen \in Nat /\ MaxBinds \in Nat /\ session \in 1 .. MaxSessions
  BY GnomeAssumption DEF GnomeInv, SessionInv
<1>2. i = Base + lastGen + 1 /\ i \in ImageIds
  BY <1>1, ImageIsOne
<1>3. Base \in Int
  BY <1>1, BaseIs
<1>4. i \in Nat
  <2>1. MaxBinds * MaxSessions \in Nat
    BY GnomeAssumption
  <2> QED BY <1>2, <2>1 DEF ImageIds
<1> DEFINE z == Base
<1>5. z \in Int /\ i = z + n /\ n \in Nat /\ n \in 0 .. MaxBinds /\ n \in 1 .. n /\ lastGen <= n
  BY <1>1, <1>2, <1>3
<1>6. e \in OutputEvents /\ x \in OutputEvents
  BY <1>4, <1>5 DEF GnomeEvent, OutputEvents
<1>7. OrderedEvents(toOutput, n)
  <2>1. OrderedEvents(toOutput, lastGen)
    BY DEF GnomeInv
  <2> HIDE DEF n
  <2> QED BY <1>1, <1>5, <2>1, OrderedLater
<1>8. Newer(n, n)
  <2>1. \A g \in Generations : g < n
    BY <1>1 DEF GnomeInv, OwnersInv
  <2>2. \A g \in Done : g < n
    <3> SUFFICES ASSUME NEW g \in Done PROVE g < n
      OBVIOUS
    <3>1. PICK k \in DOMAIN replies : g = replies[k][2]
      BY DEF Done
    <3>2. replies[k] \in {"done", "failed"} \X (0 .. MaxBinds)
      BY DEF GnomeInv, SessionInv, Answers
    <3>3. g \in Nat /\ g <= lastGen
      BY <3>1, <3>2 DEF GnomeInv, OwnersInv
    <3> QED BY <1>1, <3>3
  <2>3. ASSUME NEW y \in leaked PROVE y < z + n
    <3>1. y <= z + lastGen /\ y \in Int
      <4>1. y \in ImageIds
        BY DEF GnomeInv, OwnersInv
      <4>2. MaxBinds * MaxSessions \in Nat
        BY GnomeAssumption
      <4> QED BY <4>1, <4>2 DEF GnomeInv, OwnersInv, ImageIds
    <3> HIDE DEF z
    <3> QED BY <1>1, <1>5, <3>1
  <2> QED BY <1>5, <2>1, <2>2, <2>3 DEF Newer
<1>9. \A j \in DOMAIN toOutput : Bounds(toOutput[j].ev) => toOutput[j].gen < n
  <2>1. \A j \in DOMAIN toOutput : Bounds(toOutput[j].ev) => toOutput[j].gen \in 1 .. lastGen
    BY DEF GnomeInv, OrderedEvents
  <2> QED BY <1>1, <2>1
<1>10. e.ev = "bind" /\ e.gen = n /\ e.frame = i /\ x.ev = "config"
  BY DEF GnomeEvent
<1> HIDE DEF n, i, e, x
<1>11. OrderedEvents(Append(toOutput, e), n)
  <2>1. e.frame = Base + e.gen
    BY <1>5, <1>10
  <2> QED BY <1>2, <1>5, <1>6, <1>7, <1>8, <1>9, <1>10, <2>1, OrderedAppend
<1>12. ~Bounds(x.ev) /\ x.ev # "bind"
  BY <1>10 DEF Bounds
<1>13. OrderedEvents(Append(Append(toOutput, e), x), n)
  BY <1>6, <1>11, <1>12, OrderedAppend
<1> QED BY <1>13 DEF n, i, e, x

LEMMA DaemonBindsKeeps == ASSUME GnomeInv, DaemonBinds PROVE GnomeInv'
<1> DEFINE n == lastGen + 1
           e == GnomeEvent("bind", n, NewImages)
           x == GnomeEvent("config", n, 0)
<1>1. accepted /\ lastGen < MaxBinds /\ toOutput' = toOutput \o << e, x >> /\ lastGen' = n /\ bindings' = {n}
      /\ fate' = fate /\ UNCHANGED << wedged, session, accepted, importVars, reads, replies >>
  BY DEF DaemonBinds, Tells
<1>2. lastGen \in Nat /\ MaxBinds \in Nat
  BY GnomeAssumption DEF GnomeInv, SessionInv
<1>3. n \in lastGen .. MaxBinds /\ {n} \subseteq 1 .. n
  BY <1>1, <1>2
<1>4. OrderedEvents(Append(Append(toOutput, e), x), n)
  BY <1>1, NextBind
<1>5. toOutput \in Seq(OutputEvents)
  BY DEF GnomeInv, OrderedEvents, EventList
<1> HIDE DEF n, e, x
<1>6. toOutput' = Append(Append(toOutput, e), x)
  BY <1>1, <1>5
<1>7. fate' \in Seq(Ends)
  BY <1>1 DEF GnomeInv, SessionInv
<1> QED BY <1>1, <1>3, <1>4, <1>6, <1>7, DaemonKeeps

LEMMA OutputShowsKeeps == ASSUME GnomeInv, NEW g \in bindings, DaemonShows(g) PROVE GnomeInv'
<1> DEFINE f == Len(fate) + 1
           e == GnomeEvent("frame", g, f)
<1>1. accepted /\ toOutput' = toOutput \o << e >> /\ lastGen' = lastGen /\ bindings' = bindings
      /\ fate' = Append(fate, "sent") /\ UNCHANGED << wedged, session, accepted, importVars, reads, replies >>
  BY DEF DaemonShows, Tells
<1>2. lastGen \in Nat /\ MaxBinds \in Nat /\ lastGen \in lastGen .. MaxBinds /\ bindings \subseteq 1 .. lastGen
      /\ g \in 0 .. MaxBinds /\ fate \in Seq(Ends)
  BY GnomeAssumption DEF GnomeInv, SessionInv
<1>3. f \in Nat
  BY <1>2
<1>4. e \in OutputEvents /\ e.ev = "frame"
  BY <1>2, <1>3 DEF GnomeEvent, OutputEvents
<1>5. toOutput \in Seq(OutputEvents) /\ OrderedEvents(toOutput, lastGen)
  BY DEF GnomeInv, OrderedEvents, EventList
<1>6. "sent" \in Ends
  BY DEF Ends
<1>7. fate' \in Seq(Ends)
  BY <1>1, <1>2, <1>6
<1> HIDE DEF e
<1>8. toOutput' = Append(toOutput, e)
  BY <1>1, <1>5
<1>9. OrderedEvents(toOutput', lastGen')
  BY <1>1, <1>4, <1>5, <1>8, OrderedAppend DEF Bounds
<1> QED BY <1>1, <1>2, <1>7, <1>9, DaemonKeeps

LEMMA UnbindSentKeeps == ASSUME GnomeInv, NEW g \in bindings, DaemonUnbinds(g) PROVE GnomeInv'
<1> DEFINE e == GnomeEvent("unbind", g, 0)
<1>1. accepted /\ toOutput' = toOutput \o << e >> /\ lastGen' = lastGen /\ bindings' \subseteq bindings
      /\ fate' = fate /\ UNCHANGED << wedged, session, accepted, importVars, reads, replies >>
  BY DEF DaemonUnbinds, Tells
<1>2. lastGen \in Nat /\ MaxBinds \in Nat /\ lastGen \in lastGen .. MaxBinds /\ bindings \subseteq 1 .. lastGen
      /\ g \in 0 .. MaxBinds /\ g \in 1 .. lastGen
  BY GnomeAssumption DEF GnomeInv, SessionInv
<1>3. fate' \in Seq(Ends)
  BY <1>1 DEF GnomeInv, SessionInv
<1>4. e \in OutputEvents /\ e.ev = "unbind" /\ e.gen = g
  BY <1>2 DEF GnomeEvent, OutputEvents
<1>5. toOutput \in Seq(OutputEvents) /\ OrderedEvents(toOutput, lastGen)
  BY DEF GnomeInv, OrderedEvents, EventList
<1> HIDE DEF e
<1>8. toOutput' = Append(toOutput, e)
  BY <1>1, <1>5
<1>9. OrderedEvents(toOutput', lastGen')
  BY <1>1, <1>2, <1>4, <1>5, <1>8, OrderedAppend
<1> QED BY <1>1, <1>2, <1>3, <1>9, DaemonKeeps

LEMMA BlanksKeeps == ASSUME GnomeInv, DaemonBlanks PROVE GnomeInv'
<1> DEFINE e == GnomeEvent("blank", 0, 0)
<1>1. accepted /\ toOutput' = toOutput \o << e >> /\ lastGen' = lastGen /\ bindings' = bindings
      /\ fate' = fate /\ UNCHANGED << wedged, session, accepted, importVars, reads, replies >>
  BY DEF DaemonBlanks, Tells
<1>2. lastGen \in Nat /\ MaxBinds \in Nat /\ lastGen \in lastGen .. MaxBinds /\ bindings \subseteq 1 .. lastGen
  BY GnomeAssumption DEF GnomeInv, SessionInv
<1>3. fate' \in Seq(Ends)
  BY <1>1 DEF GnomeInv, SessionInv
<1>4. e \in OutputEvents /\ e.ev = "blank"
  BY <1>2 DEF GnomeEvent, OutputEvents
<1>5. toOutput \in Seq(OutputEvents) /\ OrderedEvents(toOutput, lastGen)
  BY DEF GnomeInv, OrderedEvents, EventList
<1> HIDE DEF e
<1>8. toOutput' = Append(toOutput, e)
  BY <1>1, <1>5
<1>9. OrderedEvents(toOutput', lastGen')
  BY <1>1, <1>4, <1>5, <1>8, OrderedAppend, ZenonT(40) DEF Bounds
<1> QED BY <1>1, <1>2, <1>3, <1>9, DaemonKeeps

LEMMA RebindsKeeps == ASSUME GnomeInv, NEW g \in bindings, DaemonRebinds(g) PROVE GnomeInv'
<1> DEFINE n == lastGen + 1
           f == Len(fate) + 1
           e1 == GnomeEvent("bind", n, NewImages)
           e2 == GnomeEvent("config", n, 0)
           e3 == GnomeEvent("frame", n, f)
           e4 == GnomeEvent("unbind", g, 0)
           q == Append(Append(toOutput, e1), e2)
<1>1. accepted /\ lastGen < MaxBinds /\ toOutput' = toOutput \o << e1, e2, e3, e4 >> /\ lastGen' = n /\ bindings' = {n}
      /\ fate' = Append(fate, "sent") /\ UNCHANGED << wedged, session, accepted, importVars, reads, replies >>
  BY DEF DaemonRebinds, Tells
<1>2. lastGen \in Nat /\ MaxBinds \in Nat /\ fate \in Seq(Ends) /\ bindings \subseteq 1 .. lastGen
  BY GnomeAssumption DEF GnomeInv, SessionInv
<1>3. n \in lastGen .. MaxBinds /\ {n} \subseteq 1 .. n /\ n \in 0 .. MaxBinds /\ g \in 1 .. n /\ g \in 0 .. MaxBinds
  BY <1>1, <1>2
<1>4. OrderedEvents(q, n)
  BY <1>1, NextBind
<1>5. toOutput \in Seq(OutputEvents)
  BY DEF GnomeInv, OrderedEvents, EventList
<1>6. f \in Nat
  BY <1>2
<1>7. e3 \in OutputEvents /\ e3.ev = "frame"
  BY <1>3, <1>6 DEF GnomeEvent, OutputEvents
<1>8. e4 \in OutputEvents /\ e4.ev = "unbind" /\ e4.gen = g
  BY <1>3 DEF GnomeEvent, OutputEvents
<1>9. fate' \in Seq(Ends)
  <2>1. "sent" \in Ends
    BY DEF Ends
  <2> QED BY <1>1, <1>2, <2>1
<1> HIDE DEF n, f, e1, e2, e3, e4
<1>10. toOutput' = Append(Append(q, e3), e4)
  BY <1>1, <1>5
<1> HIDE DEF q
<1>11. OrderedEvents(Append(q, e3), n)
  BY <1>4, <1>7, OrderedAppend DEF Bounds
<1>12. OrderedEvents(Append(Append(q, e3), e4), n)
  BY <1>3, <1>8, <1>11, OrderedAppend
<1> QED BY <1>1, <1>3, <1>9, <1>10, <1>12, DaemonKeeps

-----------------------------------------------------------------------------
(* The output.                                                              *)

LEMMA EventRead ==
  ASSUME GnomeInv, NEW ev, NextEvent(ev)
  PROVE  LET m == Head(toOutput) IN
         /\ accepted /\ m \in OutputEvents /\ m.ev = ev /\ toOutput' = Tail(toOutput) /\ OrderedEvents(Tail(toOutput), lastGen)
         /\ Bounds(ev) => m.gen \in 1 .. lastGen
                          /\ \A i \in DOMAIN Tail(toOutput) :
                               Tail(toOutput)[i].ev = "bind" => m.gen < Tail(toOutput)[i].gen
         /\ ev = "bind" => Newer(m.gen, lastGen) /\ m.frame = Base + m.gen /\ m.frame \in ImageIds
<1>1. accepted /\ toOutput # << >> /\ Head(toOutput).ev = ev /\ toOutput' = Tail(toOutput)
  BY DEF NextEvent
<1>2. OrderedEvents(toOutput, lastGen)
  BY DEF GnomeInv
<1> QED BY <1>1, <1>2, OrderedTail

\* Values that the proofs need in every step.
LEMMA Ranges ==
  ASSUME GnomeInv
  PROVE  /\ lastGen \in Nat /\ session \in Nat /\ Base \in Int /\ MaxBinds \in Nat /\ lastGen <= MaxBinds
         /\ Generations \subseteq Nat /\ Done \subseteq Nat /\ leaked \subseteq Int
<1>1. lastGen \in Nat /\ session \in Nat /\ MaxBinds \in Nat /\ lastGen <= MaxBinds
  BY GnomeAssumption DEF GnomeInv, SessionInv
<1>2. Base \in Int
  BY <1>1, BaseIs
<1>3. Generations \subseteq Nat
  BY <1>1 DEF GnomeInv, OwnersInv
<1>4. ASSUME NEW i \in DOMAIN replies, replies[i][1] = "done" PROVE replies[i][2] \in Nat
  <2>1. replies[i] \in {"done", "failed"} \X (0 .. MaxBinds)
    BY DEF GnomeInv, SessionInv, Answers
  <2> QED BY <2>1
<1>5. Done \subseteq Nat
  BY <1>4 DEF Done
<1>6. leaked \subseteq Int
  <2>1. MaxBinds * MaxSessions \in Nat
    BY GnomeAssumption
  <2> QED BY <2>1 DEF GnomeInv, OwnersInv, ImageIds
<1> QED BY <1>1, <1>2, <1>3, <1>5, <1>6

\* What a reply adds.
LEMMA ReplyAdds ==
  ASSUME replies \in Answers, NEW k \in {"done", "failed"}, NEW g \in 0 .. MaxBinds,
         replies' = Append(replies, << k, g >>)
  PROVE  replies' \in Answers /\ Done' = Done \cup (IF k = "done" THEN {g} ELSE {})
<1> DEFINE n == Len(replies)
           e == << k, g >>
<1>1. n \in Nat /\ DOMAIN replies = 1 .. n /\ DOMAIN replies' = 1 .. n + 1 /\ replies'[n + 1] = e
      /\ \A i \in 1 .. n : replies'[i] = replies[i]
  BY DEF Answers
<1>2. replies' \in Answers
  BY DEF Answers
<1>3. e[1] = k /\ e[2] = g
  OBVIOUS
<1> HIDE DEF n, e
<1>4. ASSUME NEW x \in Done' PROVE x \in Done \/ (k = "done" /\ x = g)
  <2>1. PICK i \in 1 .. n + 1 : replies'[i][1] = "done" /\ x = replies'[i][2]
    BY <1>1, <1>4 DEF Done
  <2>2. CASE i = n + 1
    BY <1>1, <1>3, <2>1, <2>2
  <2>3. CASE i \in 1 .. n
    BY <1>1, <2>1, <2>3 DEF Done
  <2> QED BY <1>1, <2>2, <2>3
<1>5. ASSUME NEW x \in Done PROVE x \in Done'
  <2>1. PICK i \in 1 .. n : replies[i][1] = "done" /\ x = replies[i][2]
    BY <1>1, <1>5 DEF Done
  <2>2. i \in 1 .. n + 1 /\ replies'[i] = replies[i]
    BY <1>1, <2>1
  <2> QED BY <1>1, <2>1, <2>2 DEF Done
<1>6. k = "done" => g \in Done'
  <2>1. n + 1 \in 1 .. n + 1
    BY <1>1
  <2> QED BY <1>1, <1>3, <2>1 DEF Done
<1> QED BY <1>2, <1>4, <1>5, <1>6

LEMMA FateKept ==
  ASSUME GnomeInv, NEW f, NEW how \in Ends, FrameSettles(f, how) PROVE fate' \in Seq(Ends)
<1>1. fate \in Seq(Ends)
  BY DEF GnomeInv, SessionInv
<1>2. fate' = [k \in 1 .. Len(fate) |-> IF k = f THEN how ELSE fate[k]]
  <2>1. DOMAIN fate = 1 .. Len(fate)
    BY <1>1
  <2>2. fate' = [fate EXCEPT ![f] = how]
    BY DEF FrameSettles
  <2> HIDE DEF FrameSettles
  <2> QED BY <2>1, <2>2, Zenon
<1>3. \A k \in 1 .. Len(fate) : fate'[k] \in Ends
  BY <1>1, <1>2
<1> QED BY <1>1, <1>2, <1>3

\* Images as the generations and the copies need them.
ImagesInv ==
  /\ configured \subseteq Generations
  /\ \A g \in Generations : known[g] = Base + g
  /\ imageSets \subseteq ImageIds /\ leaked \subseteq imageSets
  /\ imageSets \ leaked = Owned
  /\ \A cp \in reads : cp[2] \in imageSets
  /\ ~wedged => \A cp \in reads : cp[2] \in Owned

\* A step of the output, by what it makes of the images and of the replies.
LEMMA OutputKeeps ==
  ASSUME GnomeInv, NEW S \in SUBSET (1 .. lastGen), NEW q,
         GnomeSame, toOutput' = q, OrderedEvents(q, lastGen), fate' \in Seq(Ends), replies' \in Answers,
         accepted,
         \A i \in DOMAIN q : q[i].ev = "bind" => \A s \in S : s < q[i].gen,
         Generations' \subseteq Generations \cup S, Done' \subseteq Done \cup S, Done' \cap Generations' = {},
         \A x \in leaked' : x \in leaked \/ \E g \in Generations : x = Base + g,
         ImagesInv'
  PROVE  GnomeInv'
<1>0. /\ lastGen \in Nat /\ session \in Nat /\ Base \in Int /\ MaxBinds \in Nat
      /\ Generations \subseteq Nat /\ Done \subseteq Nat /\ leaked \subseteq Int
  BY Ranges
<1>1. UNCHANGED << wedged, session, accepted, bindings, lastGen >>
  BY DEF GnomeSame, daemonSide
<1>2. Base' = Base
  BY <1>0, <1>1, BaseIs
<1>3. SessionInv'
  BY <1>1 DEF GnomeInv, SessionInv, Answers
<1>4. OrderedEvents(toOutput, lastGen)'
  BY <1>0, <1>1, StaysOrdered
<1>5. OwnersInv'
  <2>1. Generations' \subseteq 1 .. lastGen
    BY DEF GnomeInv, OwnersInv
  <2>2. ASSUME NEW x \in leaked' PROVE x <= Base' + lastGen'
    <3> DEFINE z == Base
    <3>1. CASE x \in leaked
      BY <1>1, <1>2, <3>1 DEF GnomeInv, OwnersInv
    <3>2. ASSUME NEW g \in Generations, x = Base + g PROVE x <= Base' + lastGen'
      <4>1. g \in Nat /\ g <= lastGen /\ z \in Int
        BY <1>0 DEF GnomeInv, OwnersInv
      <4>2. x = z + g
        BY <3>2
      <4> HIDE DEF z
      <4>3. x <= z + lastGen
        BY <1>0, <4>1, <4>2
      <4> QED BY <1>1, <1>2, <4>3 DEF z
    <3> QED BY <3>1, <3>2
  <2>3. \A g \in Done' : g <= lastGen'
    BY <1>0, <1>1 DEF GnomeInv, OwnersInv
  <2>4. ImagesHaveOwners' /\ CopiesHaveImages'
    BY DEF ImagesInv, ImagesHaveOwners, CopiesHaveImages, Owned
  <2> QED BY <1>1, <2>1, <2>2, <2>3, <2>4 DEF OwnersInv, ImagesInv
<1> QED BY <1>3, <1>4, <1>5 DEF GnomeInv

LEMMA ImagesHold == ASSUME GnomeInv PROVE ImagesInv
BY DEF GnomeInv, OwnersInv, ImagesInv, ImagesHaveOwners, CopiesHaveImages, Owned

\* Nothing changes for the images when generations, images and copies stay.
LEMMA ImagesStay ==
  ASSUME GnomeInv, GnomeSame, UNCHANGED << importVars, reads >>
  PROVE  ImagesInv' /\ Generations' = Generations /\ leaked' = leaked
<1>1. ImagesInv
  BY ImagesHold
<1>2. Base' = Base
  BY Ranges, BaseIs DEF GnomeSame, daemonSide
<1>3. UNCHANGED << known, configured, imageSets, leaked, reads, wedged >>
  BY DEF GnomeSame, importVars
<1> QED BY <1>1, <1>2, <1>3 DEF ImagesInv, Generations, Owned, ImageIds

LEMMA BindsKeeps == ASSUME GnomeInv, BindsBuffers PROVE GnomeInv'
<1> DEFINE m == Head(toOutput)
           q == Tail(toOutput)
           g == m.gen
           S == {g}
<1>1. /\ accepted /\ m \in OutputEvents /\ toOutput' = q /\ OrderedEvents(q, lastGen) /\ g \in 1 .. lastGen
      /\ \A i \in DOMAIN q : q[i].ev = "bind" => g < q[i].gen
      /\ Newer(g, lastGen) /\ m.frame = Base + g /\ m.frame \in ImageIds
  BY EventRead DEF BindsBuffers, Bounds
<1>2. UNCHANGED << configured, leaked, reads, fate >> /\ GnomeSame /\ fate' \in Seq(Ends)
  BY DEF BindsBuffers, GnomeInv, SessionInv
<1>3. Base' = Base /\ UNCHANGED << wedged, lastGen, session >>
  BY <1>2, Ranges, BaseIs DEF GnomeSame, daemonSide
<1>4. ImagesInv
  BY ImagesHold
<1>5. CASE Imports(m)
  <2> DEFINE x == m.frame
  <2>1. /\ known' = [h \in Generations \cup S |-> IF h = g THEN x ELSE known[h]]
        /\ imageSets' = imageSets \cup {x} /\ replies' = replies
    BY <1>5 DEF Imports
  <2>2. Generations' = Generations \cup S /\ Done' = Done
    BY <2>1 DEF Generations, Done
  <2>3. g \notin Generations /\ g \notin Done /\ x \notin leaked
    <3>1. \A h \in Generations \cup Done : h < g
      BY <1>1 DEF Newer
    <3>2. \A y \in leaked : y < Base + g
      BY <1>1 DEF Newer
    <3>3. g \in Nat
      BY <1>1, Ranges
    <3>4. x \in Int
      BY <1>1, <3>3, Ranges
    <3> QED BY <1>1, <3>1, <3>2, <3>3, <3>4, Ranges
  <2>4. known'[g] = x /\ \A h \in Generations : known'[h] = known[h]
    BY <2>1, <2>3
  <2>5. \A h \in Generations' : known'[h] = Base' + h
    BY <1>1, <1>3, <1>4, <2>2, <2>4 DEF ImagesInv
  <2>6. Owned' = Owned \cup {x}
    BY <2>2, <2>4 DEF Owned
  <2>7. ImagesInv'
    <3>1. configured' \subseteq Generations'
      BY <1>2, <1>4, <2>2 DEF ImagesInv
    <3>2. imageSets' \subseteq ImageIds' /\ leaked' \subseteq imageSets'
      BY <1>1, <1>2, <1>4, <2>1 DEF ImagesInv, ImageIds
    <3>3. imageSets' \ leaked' = Owned'
      BY <1>2, <1>4, <2>1, <2>3, <2>6 DEF ImagesInv
    <3>4. \A cp \in reads' : cp[2] \in imageSets'
      BY <1>2, <1>4, <2>1 DEF ImagesInv
    <3>5. ~wedged' => \A cp \in reads' : cp[2] \in Owned'
      BY <1>2, <1>3, <1>4, <2>6 DEF ImagesInv
    <3> QED BY <2>5, <3>1, <3>2, <3>3, <3>4, <3>5 DEF ImagesInv
  <2>8. replies' \in Answers /\ Done' \cap Generations' = {}
    BY <2>1, <2>2, <2>3 DEF GnomeInv, SessionInv, OwnersInv
  <2>9. S \in SUBSET (1 .. lastGen)
    BY <1>1
  <2> HIDE DEF m, q, g
  <2> QED BY <1>1, <1>2, <2>2, <2>7, <2>8, <2>9, OutputKeeps, ZenonT(40)
<1>6. CASE ImportFails(m)
  <2> DEFINE T == {}
  <2>1. replies' = Append(replies, << "failed", g >>) /\ UNCHANGED << importVars, reads >>
    BY <1>2, <1>6 DEF ImportFails, importVars
  <2>2. g \in 0 .. MaxBinds /\ replies \in Answers
    BY <1>1 DEF OutputEvents, GnomeInv, SessionInv
  <2>3. replies' \in Answers /\ Done' = Done
    BY <2>1, <2>2, ReplyAdds
  <2>4. ImagesInv' /\ Generations' = Generations /\ leaked' = leaked
    BY <1>2, <2>1, ImagesStay
  <2>5. Done' \cap Generations' = {}
    BY <2>3, <2>4 DEF GnomeInv, OwnersInv
  <2>6. T \in SUBSET (1 .. lastGen) /\ \A s : s \notin T
    OBVIOUS
  <2> HIDE DEF m, q, g, T
  <2> QED BY <1>1, <1>2, <2>3, <2>4, <2>5, <2>6, OutputKeeps
<1> QED BY <1>5, <1>6 DEF BindsBuffers

LEMMA ConfigKeeps == ASSUME GnomeInv, ConfiguresOutput PROVE GnomeInv'
<1> DEFINE m == Head(toOutput)
           q == Tail(toOutput)
           T == {}
<1>1. accepted /\ toOutput' = q /\ OrderedEvents(q, lastGen)
  BY EventRead DEF ConfiguresOutput
<1>2. UNCHANGED << known, imageSets, leaked, reads, fate, replies >> /\ GnomeSame
      /\ configured' = configured \cup ({m.gen} \cap Generations)
  BY DEF ConfiguresOutput
<1>3. Base' = Base /\ UNCHANGED << wedged, lastGen, session >>
  BY <1>2, Ranges, BaseIs DEF GnomeSame, daemonSide
<1>4. Generations' = Generations /\ Owned' = Owned /\ Done' = Done
  BY <1>2 DEF Generations, Owned, Done
<1>5. ImagesInv'
  BY <1>2, <1>3, <1>4, ImagesHold DEF ImagesInv, ImageIds
<1>6. fate' \in Seq(Ends) /\ replies' \in Answers /\ Done' \cap Generations' = {}
  BY <1>2, <1>4 DEF GnomeInv, SessionInv, OwnersInv
<1>7. T \in SUBSET (1 .. lastGen) /\ \A s : s \notin T
  OBVIOUS
<1> HIDE DEF m, q, T
<1> QED BY <1>1, <1>2, <1>4, <1>5, <1>6, <1>7, OutputKeeps

\* Every generation goes, with its images, or with those leaked that are still read.
LEMMA ClearsImages ==
  ASSUME GnomeInv, ClearsAll, UNCHANGED << wedged, session >>
  PROVE  ImagesInv' /\ Generations' = {} /\ \A x \in leaked' : x \in leaked \/ \E g \in Generations : x = Base + g
<1> DEFINE S == Owned
<1>1. ImagesInv /\ Base' = Base
  BY ImagesHold, Ranges, BaseIs
<1>2. known' = << >> /\ configured' = {}
  BY DEF ClearsAll
<1>3. Generations' = {} /\ Owned' = {}
  <2>1. Generations' = {}
    BY <1>2 DEF Generations
  <2> QED BY <2>1 DEF Owned
<1>4. \A x \in S : \E g \in Generations : x = Base + g
  BY <1>1 DEF ImagesInv, Owned
<1>5. CASE S = {} /\ UNCHANGED << imageSets, leaked, reads >>
  BY <1>1, <1>2, <1>3, <1>5 DEF ImagesInv, ImageIds
<1>6. ASSUME NEW left \in Outlasting(reads), left # {}, RemovesImages(S, left, S)
      PROVE  ImagesInv' /\ \A x \in leaked' : x \in leaked \/ x \in S
  <2>1. wedged /\ left \subseteq reads
    BY <1>6 DEF Outlasting
  <2>2. imageSets' = imageSets /\ leaked' = leaked \cup S /\ reads' = left
    BY <1>6 DEF RemovesImages
  <2> QED BY <1>1, <1>2, <1>3, <2>1, <2>2 DEF ImagesInv, ImageIds
<1>7. ASSUME NEW lost \in Outlasting(S), lost # S, RemovesImages(S, {}, lost)
      PROVE  ImagesInv' /\ \A x \in leaked' : x \in leaked \/ x \in S
  <2>1. lost \subseteq S
    BY <1>7 DEF Outlasting
  <2>2. imageSets' = imageSets \ (S \ lost) /\ leaked' = leaked \cup lost /\ reads' = {}
    BY <1>7 DEF RemovesImages
  <2> QED BY <1>1, <1>2, <1>3, <2>1, <2>2 DEF ImagesInv, ImageIds
<1>8. ImagesInv' /\ \A x \in leaked' : x \in leaked \/ x \in S
  <2>1. \/ S = {} /\ UNCHANGED << imageSets, leaked, reads >>
        \/ \E left \in Outlasting(reads) : left # {} /\ RemovesImages(S, left, S)
        \/ \E lost \in Outlasting(S) : lost # S /\ RemovesImages(S, {}, lost)
    BY DEF ClearsAll, Owned
  <2> HIDE DEF S
  <2> QED BY <1>5, <1>6, <1>7, <2>1
<1> QED BY <1>3, <1>4, <1>8

LEMMA DeactivatesKeeps == ASSUME GnomeInv, Deactivates PROVE GnomeInv'
<1> DEFINE q == Tail(toOutput)
           T == {}
<1>1. accepted /\ toOutput' = q /\ OrderedEvents(q, lastGen)
  BY EventRead DEF Deactivates
<1>2. ClearsAll /\ UNCHANGED << fate, replies >> /\ GnomeSame
  BY DEF Deactivates
<1>3. ImagesInv' /\ Generations' = {} /\ \A x \in leaked' : x \in leaked \/ \E g \in Generations : x = Base + g
  BY <1>2, ClearsImages DEF GnomeSame, daemonSide
<1>4. Done' = Done /\ fate' \in Seq(Ends) /\ replies' \in Answers
  BY <1>2 DEF Done, GnomeInv, SessionInv
<1>5. T \in SUBSET (1 .. lastGen) /\ \A s : s \notin T
  OBVIOUS
<1> HIDE DEF q, T
<1> QED BY <1>1, <1>2, <1>3, <1>4, <1>5, OutputKeeps

LEMMA ClosesKeeps == ASSUME GnomeInv, ClosesConnection PROVE GnomeInv'
<1>1. /\ accepted' = FALSE /\ toOutput' = << >> /\ replies' = << >> /\ ClearsAll
      /\ fate' = [f \in DOMAIN fate |-> IF fate[f] = "sent" THEN "closed" ELSE fate[f]]
      /\ UNCHANGED << wedged, session, bindings, lastGen >>
  BY DEF ClosesConnection
<1>2. ImagesInv' /\ Generations' = {} /\ \A x \in leaked' : x \in leaked \/ \E g \in Generations : x = Base + g
  BY <1>1, ClearsImages
<1>3. Base' = Base
  BY <1>1, Ranges, BaseIs
<1>4. fate' \in Seq(Ends)
  <2>1. fate \in Seq(Ends) /\ DOMAIN fate = 1 .. Len(fate) /\ "closed" \in Ends
    BY DEF GnomeInv, SessionInv, Ends
  <2>2. \A f \in DOMAIN fate : fate'[f] \in Ends
    BY <1>1, <2>1
  <2> QED BY <1>1, <2>1, <2>2
<1>5. Done' = {}
  <2>1. DOMAIN replies' = {}
    BY <1>1
  <2> QED BY <2>1 DEF Done
<1>6. SessionInv'
  <2>1. replies' \in Answers'
    BY <1>1 DEF Answers
  <2>2. /\ accepted' \in BOOLEAN /\ session' \in 0 .. MaxSessions /\ lastGen' \in 0 .. MaxBinds
        /\ bindings' \subseteq 1 .. lastGen'
    BY <1>1 DEF GnomeInv, SessionInv
  <2> QED BY <1>1, <1>2, <1>4, <2>1, <2>2 DEF SessionInv
<1>7. OwnersInv'
  <2>2. ASSUME NEW x \in leaked' PROVE x <= Base' + lastGen'
    <3> DEFINE z == Base
    <3>1. CASE x \in leaked
      BY <1>1, <1>3, <3>1 DEF GnomeInv, OwnersInv
    <3>2. ASSUME NEW g \in Generations, x = Base + g PROVE x <= Base' + lastGen'
      <4>1. g \in Nat /\ g <= lastGen /\ z \in Int /\ lastGen \in Nat
        BY Ranges DEF GnomeInv, OwnersInv
      <4>2. x = z + g
        BY <3>2
      <4> HIDE DEF z
      <4>3. x <= z + lastGen
        BY <4>1, <4>2
      <4> QED BY <1>1, <1>3, <4>3 DEF z
    <3> QED BY <1>2, <3>1, <3>2
  <2>4. ImagesHaveOwners' /\ CopiesHaveImages'
    BY <1>2 DEF ImagesInv, ImagesHaveOwners, CopiesHaveImages, Owned
  <2> QED BY <1>1, <1>2, <1>5, <2>2, <2>4 DEF OwnersInv, ImagesInv
<1>8. toOutput' \in EventList' /\ DOMAIN toOutput' = {}
  BY <1>1 DEF EventList
<1> QED BY <1>6, <1>7, <1>8 DEF GnomeInv, OrderedEvents

\* One generation goes, with its images, or they are leaked when a copy is still reading.
LEMMA UnbindsImages ==
  ASSUME GnomeInv, NEW g \in Generations, NEW busy, UnbindsKnown(g, busy), UNCHANGED << wedged, session >>,
         \A cp \in busy : cp[2] \in imageSets, ~wedged => \A cp \in busy : cp[2] \in Owned
  PROVE  /\ ImagesInv' /\ Generations' = Generations \ {g}
         /\ \A x \in leaked' : x \in leaked \/ \E h \in Generations : x = Base + h
<1> DEFINE k == known[g]
<1>1. ImagesInv /\ Base' = Base
  BY ImagesHold, Ranges, BaseIs
<1>2. known' = [h \in Generations \ {g} |-> known[h]] /\ configured' = configured \ {g}
  BY DEF UnbindsKnown, Without
<1>3. Generations' = Generations \ {g} /\ \A h \in Generations' : known'[h] = known[h]
  <2>1. Generations' = Generations \ {g}
    BY <1>2 DEF Generations
  <2> QED BY <1>2, <2>1
<1>4. Owned' = Owned \ {k}
  <2>1. ASSUME NEW h \in Generations, h # g PROVE known[h] # k
    <3> DEFINE z == Base
    <3>1. known[h] = z + h /\ k = z + g
      BY <1>1 DEF ImagesInv
    <3>2. h \in Int /\ g \in Int /\ z \in Int
      BY Ranges
    <3> HIDE DEF z, k
    <3>3. z + h # z + g
      BY <2>1, <3>2
    <3> QED BY <3>1, <3>3
  <2> QED BY <1>3, <2>1 DEF Owned
<1>5. k \in Owned /\ k = Base + g /\ k \in imageSets /\ k \notin leaked
  BY <1>1 DEF ImagesInv, Owned
<1>6. configured' \subseteq Generations' /\ \A h \in Generations' : known'[h] = Base' + h
  BY <1>1, <1>2, <1>3 DEF ImagesInv
<1> HIDE DEF k
<1>7. PICK left \in Outlasting(busy) : RemovesImages({k}, left, IF left = {} THEN {} ELSE {k})
  BY DEF UnbindsKnown, k
<1>8. CASE left = {}
  <2>1. imageSets' = imageSets \ {k} /\ leaked' = leaked /\ reads' = {}
    BY <1>7, <1>8 DEF RemovesImages
  <2> QED BY <1>1, <1>3, <1>4, <1>5, <1>6, <2>1 DEF ImagesInv, ImageIds
<1>9. CASE left # {}
  <2>1. wedged /\ left \subseteq busy
    BY <1>7, <1>9 DEF Outlasting
  <2>2. imageSets' = imageSets /\ leaked' = leaked \cup {k} /\ reads' = left
    BY <1>7, <1>9 DEF RemovesImages
  <2>3. ImagesInv'
    BY <1>1, <1>3, <1>4, <1>5, <1>6, <2>1, <2>2 DEF ImagesInv, ImageIds
  <2> QED BY <1>3, <1>5, <2>2, <2>3
<1> QED BY <1>8, <1>9

LEMMA FrameKeeps == ASSUME GnomeInv, ShowsFrame PROVE GnomeInv'
<1> DEFINE m == Head(toOutput)
           q == Tail(toOutput)
           g == m.gen
           T == {}
           cp == << m.frame, known[g] >>
<1>1. accepted /\ m \in OutputEvents /\ toOutput' = q /\ OrderedEvents(q, lastGen)
  BY EventRead DEF ShowsFrame
<1>2. GnomeSame /\ g \in 0 .. MaxBinds /\ {"closed", "signalled", "fence"} \subseteq Ends
  BY <1>1 DEF ShowsFrame, OutputEvents, Ends
<1>3. T \in SUBSET (1 .. lastGen) /\ \A s : s \notin T
  OBVIOUS
<1>4. ImagesInv /\ Base' = Base /\ UNCHANGED << wedged, session, lastGen >>
  BY <1>2, ImagesHold, Ranges, BaseIs DEF GnomeSame, daemonSide
<1>5. Done \cap Generations = {} /\ replies \in Answers
  BY DEF GnomeInv, OwnersInv, SessionInv
<1>6. CASE NotCopied(m)
  <2>1. UNCHANGED << importVars, reads, replies >>
    BY <1>6 DEF NotCopied
  <2>2. fate' \in Seq(Ends)
    BY <1>2, <1>6, FateKept DEF NotCopied
  <2>3. ImagesInv' /\ Generations' = Generations /\ leaked' = leaked
    BY <1>2, <2>1, ImagesStay
  <2>4. Done' = Done
    BY <2>1 DEF Done
  <2> HIDE DEF m, q, g, T, cp
  <2> QED BY <1>1, <1>2, <1>3, <1>5, <2>1, <2>2, <2>3, <2>4, OutputKeeps
<1>7. ASSUME g \in configured PROVE cp[2] \in Owned /\ cp[2] \in imageSets /\ g \in Generations
  <2>1. g \in Generations /\ known[g] \in Owned /\ cp[2] = known[g]
    BY <1>4, <1>7 DEF ImagesInv, Owned
  <2> QED BY <1>4, <2>1 DEF ImagesInv
<1>8. CASE Copied(m)
  <2>1. g \in configured /\ UNCHANGED << importVars, replies >> /\ reads' = reads \cup {cp} /\ fate' \in Seq(Ends)
    BY <1>2, <1>8, FateKept DEF Copied
  <2>2. Generations' = Generations /\ Owned' = Owned /\ Done' = Done /\ leaked' = leaked
    BY <2>1 DEF importVars, Generations, Owned, Done
  <2>3. ImagesInv'
    BY <1>4, <1>7, <2>1, <2>2 DEF ImagesInv, importVars, ImageIds
  <2> HIDE DEF m, q, g, T, cp
  <2> QED BY <1>1, <1>2, <1>3, <1>5, <2>1, <2>2, <2>3, OutputKeeps
<1>9. CASE NotShown(m)
  <2>1. g \in configured /\ replies' = Append(replies, << "failed", g >>)
    BY <1>9 DEF NotShown
  <2>2. replies' \in Answers /\ Done' = Done
    BY <1>2, <1>5, <2>1, ReplyAdds
  <2>3. fate' \in Seq(Ends)
    BY <1>2, <1>9, FateKept DEF NotShown
  <2>4. UnbindsKnown(g, reads) \/ UnbindsKnown(g, reads \cup {cp})
    BY <1>9 DEF NotShown
  <2>5. ASSUME NEW busy, busy = reads \/ busy = reads \cup {cp}, UnbindsKnown(g, busy)
        PROVE  /\ ImagesInv' /\ Generations' = Generations \ {g}
               /\ \A x \in leaked' : x \in leaked \/ \E h \in Generations : x = Base + h
    <3>1. (\A d \in busy : d[2] \in imageSets) /\ (~wedged => \A d \in busy : d[2] \in Owned)
      BY <1>4, <1>7, <2>1, <2>5 DEF ImagesInv
    <3>2. g \in Generations
      BY <1>7, <2>1
    <3> HIDE DEF m, q, g, T, cp
    <3> QED BY <1>4, <2>5, <3>1, <3>2, UnbindsImages
  <2>6. /\ ImagesInv' /\ Generations' = Generations \ {g}
        /\ \A x \in leaked' : x \in leaked \/ \E h \in Generations : x = Base + h
    BY <2>4, <2>5
  <2>7. Done' \cap Generations' = {}
    BY <1>5, <2>2, <2>6
  <2> HIDE DEF m, q, g, T, cp
  <2> QED BY <1>1, <1>2, <1>3, <2>2, <2>3, <2>6, <2>7, OutputKeeps
<1> QED BY <1>6, <1>8, <1>9 DEF ShowsFrame

LEMMA HandlesUnbindKeeps == ASSUME GnomeInv, HandlesUnbind PROVE GnomeInv'
<1> DEFINE m == Head(toOutput)
           q == Tail(toOutput)
           g == m.gen
           S == {g}
<1>1. /\ accepted /\ m \in OutputEvents /\ toOutput' = q /\ OrderedEvents(q, lastGen) /\ g \in 1 .. lastGen
      /\ \A i \in DOMAIN q : q[i].ev = "bind" => g < q[i].gen
  BY EventRead DEF HandlesUnbind, Bounds
<1>2. GnomeSame /\ g \in 0 .. MaxBinds /\ S \in SUBSET (1 .. lastGen) /\ replies' = Append(replies, << "done", g >>)
  BY <1>1 DEF HandlesUnbind, OutputEvents
<1>3. fate' \in Seq(Ends)
  BY DEF HandlesUnbind, GnomeInv, SessionInv
<1>4. ImagesInv /\ UNCHANGED << wedged, session, lastGen >>
  BY <1>2, ImagesHold DEF GnomeSame, daemonSide
<1>5. replies' \in Answers /\ Done' = Done \cup S
  <2>1. replies \in Answers
    BY DEF GnomeInv, SessionInv
  <2> QED BY <1>2, <2>1, ReplyAdds
<1>6. Done \cap Generations = {}
  BY DEF GnomeInv, OwnersInv
<1>7. /\ ImagesInv' /\ Generations' \subseteq Generations \ S
      /\ \A x \in leaked' : x \in leaked \/ \E h \in Generations : x = Base + h
  <2>1. CASE g \in Generations
    <3>1. UnbindsKnown(g, reads)
      BY <2>1 DEF HandlesUnbind
    <3>2. (\A d \in reads : d[2] \in imageSets) /\ (~wedged => \A d \in reads : d[2] \in Owned)
      BY <1>4 DEF ImagesInv
    <3> HIDE DEF m, q, g
    <3> QED BY <1>4, <2>1, <3>1, <3>2, UnbindsImages
  <2>2. CASE g \notin Generations
    <3>1. UNCHANGED << importVars, reads >>
      BY <2>2 DEF HandlesUnbind
    <3> QED BY <1>2, <2>2, <3>1, ImagesStay
  <2> QED BY <2>1, <2>2
<1>8. Done' \cap Generations' = {}
  BY <1>5, <1>6, <1>7
<1>9. \A s \in S : \A i \in DOMAIN q : q[i].ev = "bind" => s < q[i].gen
  BY <1>1
<1>10. Generations' \subseteq Generations \cup S
  BY <1>7
<1> HIDE DEF m, q, g, S
<1> QED BY <1>1, <1>2, <1>3, <1>5, <1>7, <1>8, <1>9, <1>10, OutputKeeps

\* A copy that ends only makes less to keep.
LEMMA ReadDoneKeeps == ASSUME GnomeInv, ReadDone PROVE GnomeInv'
<1>1. reads' \subseteq reads /\ UNCHANGED << wedged, daemonSide, toOutput, importVars, fate, replies >>
  BY DEF ReadDone
<1>2. Generations' = Generations /\ Owned' = Owned /\ Done' = Done /\ Base' = Base
  BY <1>1, Ranges, BaseIs DEF importVars, Generations, Owned, Done, daemonSide
<1>3. SessionInv'
  BY <1>1, <1>2 DEF GnomeInv, SessionInv, daemonSide, Answers
<1>4. OwnersInv'
  <2>1. ImagesHaveOwners'
    <3>1. imageSets \ leaked = Owned
      BY ImagesHold DEF ImagesInv
    <3> QED BY <1>1, <1>2, <3>1 DEF ImagesHaveOwners, Owned, importVars
  <2>2. CopiesHaveImages'
    BY <1>1 DEF GnomeInv, OwnersInv, CopiesHaveImages, importVars
  <2> QED BY <1>1, <1>2, <2>1, <2>2 DEF GnomeInv, OwnersInv, importVars, daemonSide, ImageIds
<1>5. OrderedEvents(toOutput, lastGen)'
  BY <1>1, <1>2 DEF GnomeInv, OrderedEvents, Newer, importVars, ImageIds, daemonSide
<1> QED BY <1>3, <1>4, <1>5 DEF GnomeInv

LEMMA GnomeInvStep == ASSUME GnomeInv, GnomeNext PROVE GnomeInv'
<1>1. CASE GnomeConnects
  BY <1>1, ConnectsKeeps
<1>2. CASE DaemonBinds
  BY <1>2, DaemonBindsKeeps
<1>3. CASE DaemonBlanks
  BY <1>3, BlanksKeeps
<1>4. ASSUME NEW g \in bindings, DaemonShows(g) \/ DaemonRebinds(g) \/ DaemonUnbinds(g) PROVE GnomeInv'
  BY <1>4, OutputShowsKeeps, RebindsKeeps, UnbindSentKeeps
<1>5. CASE OutputReads
  BY <1>5, BindsKeeps, ConfigKeeps, DeactivatesKeeps, FrameKeeps, HandlesUnbindKeeps DEF OutputReads
<1>6. CASE ReadDone
  BY <1>6, ReadDoneKeeps
<1>7. CASE ClosesConnection
  BY <1>7, ClosesKeeps
<1> QED BY <1>1, <1>2, <1>3, <1>4, <1>5, <1>6, <1>7 DEF GnomeNext

-----------------------------------------------------------------------------
(* An output of the layer-shell consumer.                                   *)

FrameFates == {"sent", "held", "closed", "signalled", "fence", "idle"}
Shows      == [window : BOOLEAN, unacked : BOOLEAN, swap : BOOLEAN, awaiting : BOOLEAN, over : BOOLEAN,
               callback : BOOLEAN]
BoundTo    == [id : 0 .. MaxBounds, config : BOOLEAN, image : BOOLEAN, retired : BOOLEAN]
HeldFrames == [frame : Nat, gen : Nat]
Programs   == [up : BOOLEAN, layer : {"none", "made", "configured"}, show : Shows, bound : BoundTo,
               held : HeldFrames, fate : Seq(FrameFates), drawn : 0 .. MaxPosts]

\* A program as it may be between two calls: the frame held is the one that is pending,
\* and its buffers can be drawn from.
Good(A) ==
  /\ A \in Programs /\ Len(A.fate) <= MaxPosts
  /\ A.held = NoneHeld \/ A.held.frame \in 1 .. Len(A.fate)
  /\ \A f \in 1 .. Len(A.fate) : A.fate[f] = "held" <=> A.held.frame = f
  /\ A.held # NoneHeld => A.up /\ A.bound.id = A.held.gen /\ A.bound.config /\ ~A.bound.retired

\* Only the frame that was held has another fate.
Follows(A, B) ==
  /\ Len(B.fate) = Len(A.fate)
  /\ \A f \in 1 .. Len(A.fate) : A.fate[f] # "held" => B.fate[f] = A.fate[f]

LEMMA FollowsOn ==
  ASSUME NEW A, NEW B, NEW C, Follows(A, B), Follows(B, C) PROVE Follows(A, C)
BY DEF Follows

LEMMA SettlesGood ==
  ASSUME NEW A, Good(A), NEW how \in {"closed", "signalled", "fence", "idle"}
  PROVE  LET B == SettlesHeld(A, how) IN
         /\ Good(B) /\ Follows(A, B) /\ B.held = NoneHeld
         /\ B.up = A.up /\ B.layer = A.layer /\ B.bound = A.bound /\ B.show = A.show /\ B.drawn = A.drawn
<1> DEFINE f == A.held.frame
           n == Len(A.fate)
           F == [k \in 1 .. n |-> IF k = f THEN how ELSE A.fate[k]]
           B == [A EXCEPT !.fate = F, !.held = NoneHeld]
<1>1. A \in Programs /\ A.fate \in Seq(FrameFates) /\ n \in Nat /\ n <= MaxPosts
  BY DEF Good, Programs
<1>2. CASE A.held = NoneHeld
  <2>1. SettlesHeld(A, how) = A
    BY <1>2 DEF SettlesHeld
  <2> QED BY <1>2, <2>1 DEF Follows
<1>3. CASE A.held # NoneHeld
  <2>1. f \in 1 .. n /\ A.fate[f] = "held"
    BY <1>3 DEF Good
  <2>2. [A.fate EXCEPT ![f] = IF A.fate[f] = "held" THEN how ELSE "twice"] = F
    BY <1>1, <2>1
  <2> HIDE DEF F
  <2>3. SettlesHeld(A, how) = [[A EXCEPT !.fate = F] EXCEPT !.held = NoneHeld]
    <3>1. EndsFrame(A, f, how)
            = [A EXCEPT !.fate = [A.fate EXCEPT ![f] = IF A.fate[f] = "held" THEN how ELSE "twice"]]
      BY DEF EndsFrame
    <3>2. EndsFrame(A, f, how) = [A EXCEPT !.fate = F]
      BY <2>2, <3>1, Zenon
    <3>3. SettlesHeld(A, how) = [EndsFrame(A, f, how) EXCEPT !.held = NoneHeld]
      BY <1>3 DEF SettlesHeld
    <3> QED BY <3>2, <3>3, Zenon
  <2>4. SettlesHeld(A, how) = B
    BY <1>1, <2>3 DEF Programs
  <2>5. F \in Seq(FrameFates) /\ Len(F) = n /\ \A k \in 1 .. n : F[k] = IF k = f THEN how ELSE A.fate[k]
    BY <1>1, <2>1 DEF F, FrameFates
  <2>6. NoneHeld \in HeldFrames /\ NoneHeld.frame = 0
    BY DEF NoneHeld, HeldFrames
  <2>7. /\ B \in Programs /\ B.fate = F /\ B.held = NoneHeld
        /\ B.up = A.up /\ B.layer = A.layer /\ B.bound = A.bound /\ B.show = A.show /\ B.drawn = A.drawn
    BY <1>1, <2>5, <2>6 DEF Programs
  <2> HIDE DEF B
  <2>8. \A k \in 1 .. n : F[k] # "held"
    BY <1>1, <2>5 DEF Good
  <2>9. Good(B)
    BY <1>1, <2>5, <2>6, <2>7, <2>8 DEF Good
  <2>10. Follows(A, B)
    BY <2>1, <2>5, <2>7 DEF Follows
  <2> QED BY <2>4, <2>7, <2>9, <2>10
<1> QED BY <1>2, <1>3

\* A program without a held frame, with other buffers or another connection.
LEMMA UnheldGood ==
  ASSUME NEW A, NEW B, Good(A), B \in Programs, B.held = NoneHeld, A.held = NoneHeld, B.fate = A.fate
  PROVE  Good(B) /\ Follows(A, B)
BY DEF Good, Follows

LEMMA RetiresOneGood ==
  ASSUME NEW A, Good(A), NEW g
  PROVE  Good(RetiresOne(A, g)) /\ Follows(A, RetiresOne(A, g))
<1> DEFINE S == IF A.held.gen = g THEN SettlesHeld(A, "signalled") ELSE A
           B == [S EXCEPT !.bound = [@ EXCEPT !.image = FALSE, !.retired = TRUE]]
<1>1. Good(S) /\ Follows(A, S) /\ S.bound = A.bound /\ (A.held.gen = g => S.held = NoneHeld)
      /\ (A.held.gen # g => S = A)
  BY SettlesGood DEF Follows
<1>2. RetiresOne(A, g) = IF A.bound.id = g THEN B ELSE S
  BY DEF RetiresOne
<1> HIDE DEF S
<1>3. ASSUME A.bound.id = g PROVE Good(B) /\ Follows(S, B)
  <2>1. S.held = NoneHeld
    BY <1>1, <1>3 DEF Good
  <2>2. S \in Programs /\ S.bound \in BoundTo
    BY <1>1 DEF Good, Programs
  <2>3. B \in Programs /\ B.held = S.held /\ B.fate = S.fate
    BY <2>2 DEF Programs, BoundTo
  <2> QED BY <1>1, <2>1, <2>3, UnheldGood
<1> HIDE DEF B
<1> QED BY <1>1, <1>2, <1>3, FollowsOn

LEMMA DisconnectsGood ==
  ASSUME NEW A, Good(A)
  PROVE  /\ Good(RetiresAll(A)) /\ Follows(A, RetiresAll(A)) /\ RetiresAll(A).held = NoneHeld
         /\ RetiresAll(A).up = A.up
         /\ Good(Disconnects(A)) /\ Follows(A, Disconnects(A)) /\ Disconnects(A).held = NoneHeld
         /\ Disconnects(A).layer = A.layer /\ ~Disconnects(A).up
<1> DEFINE how == IF A.bound.id = A.held.gen THEN "signalled" ELSE "closed"
           S == SettlesHeld(A, how)
           B == [S EXCEPT !.bound = NoneBound]
           C == [B EXCEPT !.up = FALSE]
<1>1. how \in {"closed", "signalled", "fence", "idle"}
  OBVIOUS
<1>2. Good(S) /\ Follows(A, S) /\ S.held = NoneHeld /\ S.up = A.up /\ S.layer = A.layer
  BY <1>1, SettlesGood
<1>3. RetiresAll(A) = B /\ Disconnects(A) = C
  BY DEF RetiresAll, Disconnects
<1> HIDE DEF S
<1>4. NoneBound \in BoundTo
  <2>1. MaxBounds \in Nat
    BY SurfaceAssumption
  <2> QED BY <2>1 DEF NoneBound, BoundTo
<1>5. S \in Programs
  BY <1>2 DEF Good
<1>6. /\ B \in Programs /\ B.held = S.held /\ B.fate = S.fate /\ B.up = S.up
      /\ C \in Programs /\ C.held = S.held /\ C.fate = S.fate /\ C.layer = S.layer /\ ~C.up
  BY <1>4, <1>5 DEF Programs
<1> HIDE DEF B, C
<1> QED BY <1>2, <1>3, <1>6, UnheldGood, FollowsOn

LEMMA SendsGood == ASSUME NEW A, Good(A) PROVE Good(Sends(A)) /\ Follows(A, Sends(A))
<1>1. CASE peerOpen
  BY <1>1 DEF Sends, Follows
<1>2. CASE ~peerOpen
  BY <1>2, DisconnectsGood DEF Sends
<1> QED BY <1>1, <1>2

\* What the program shows says nothing of the frame it holds.
LEMMA ShownGood ==
  ASSUME NEW A, Good(A), NEW w \in Shows, NEW d \in 0 .. MaxPosts, NEW l \in {"none", "made", "configured"},
         NEW B, B = [A EXCEPT !.show = w] \/ B = [A EXCEPT !.show = w, !.drawn = d]
                \/ B = [A EXCEPT !.layer = l] \/ B = [A EXCEPT !.layer = l, !.show = w]
  PROVE  Good(B) /\ Follows(A, B)
<1>1. A \in Programs
  BY DEF Good
<1>2. B \in Programs /\ B.held = A.held /\ B.fate = A.fate /\ B.up = A.up /\ B.bound = A.bound
  BY <1>1, ZenonT(40) DEF Programs
<1> QED BY <1>2 DEF Good, Follows

LEMMA PostsGood ==
  ASSUME NEW A, Good(A), NEW B \in Posts(A) PROVE Good(B) /\ Follows(A, B) /\ B.up = A.up
<1> DEFINE w == A.show
           x == [w EXCEPT !.swap = FALSE, !.unacked = FALSE, !.over = FALSE]
           y == [x EXCEPT !.awaiting = TRUE, !.callback = TRUE]
           z == [x EXCEPT !.awaiting = FALSE, !.callback = FALSE]
<1>1. A \in Programs /\ w \in Shows
  BY DEF Good, Programs
<1>2. y \in Shows /\ z \in Shows
  BY <1>1 DEF Shows
<1>3. B = A \/ B = [A EXCEPT !.show = y] \/ B = [A EXCEPT !.show = z]
  BY DEF Posts
<1> HIDE DEF y, z
<1>4. B.up = A.up
  BY <1>1, <1>3 DEF Programs
<1>5. 0 \in 0 .. MaxPosts
  BY SurfaceAssumption
<1>6. Follows(A, A)
  BY SMTT(40) DEF Follows
<1> QED BY <1>2, <1>3, <1>4, <1>5, <1>6, ShownGood

LEMMA WindowedGood ==
  ASSUME NEW A, Good(A), NEW B \in Windowed(A)
  PROVE  Good(B) /\ Follows(A, B) /\ B.held = A.held /\ B.up = A.up
<1>1. A \in Programs /\ A.show \in Shows
  BY DEF Good, Programs
<1>2. B = A \/ B = [A EXCEPT !.show.window = TRUE]
  BY DEF Windowed
<1> DEFINE w == [A.show EXCEPT !.window = TRUE]
<1>3. w \in Shows
  BY <1>1 DEF Shows
<1>4. B = A \/ B = [A EXCEPT !.show = w]
  BY <1>2
<1> HIDE DEF w
<1>5. B.held = A.held /\ B.up = A.up
  BY <1>1, <1>4 DEF Programs
<1>6. 0 \in 0 .. MaxPosts
  BY SurfaceAssumption
<1>7. Follows(A, A)
  BY DEF Follows
<1> QED BY <1>3, <1>4, <1>5, <1>6, <1>7, ShownGood

LEMMA DrawnGood ==
  ASSUME NEW A, Good(A), NEW f \in 0 .. MaxPosts, NEW B \in Drawn(A, f) PROVE Good(B) /\ Follows(A, B)
<1> DEFINE w == [A.show EXCEPT !.swap = TRUE]
           C == [A EXCEPT !.show = w, !.drawn = f]
<1>1. A \in Programs /\ A.show \in Shows
  BY DEF Good, Programs
<1>2. w \in Shows
  BY <1>1 DEF Shows
<1>3. B \in Posts([A EXCEPT !.show.swap = TRUE, !.drawn = f])
  BY DEF Drawn
<1>4. [A EXCEPT !.show.swap = TRUE, !.drawn = f] = C
  OBVIOUS
<1> HIDE DEF w
<1>5. Good(C) /\ Follows(A, C)
  BY <1>2, ShownGood
<1> HIDE DEF C
<1> QED BY <1>3, <1>4, <1>5, PostsGood, FollowsOn

LEMMA RefusesGood ==
  ASSUME NEW A, Good(A), NEW bd \in BOOLEAN PROVE Good(Refuses(A, bd)) /\ Follows(A, Refuses(A, bd))
<1> DEFINE C == Sends(A)
           S == SettlesHeld(C, "signalled")
           R == RetiresOne(S, A.bound.id)
<1>1. Good(C) /\ Follows(A, C)
  BY SendsGood
<1>2. Good(S) /\ Follows(C, S)
  <2> HIDE DEF C
  <2> QED BY <1>1, SettlesGood
<1>3. Good(R) /\ Follows(S, R)
  <2> HIDE DEF S
  <2> QED BY <1>2, RetiresOneGood
<1>4. Refuses(A, bd) = IF bd THEN R ELSE S
  BY DEF Refuses
<1> HIDE DEF C, S, R
<1> QED BY <1>1, <1>2, <1>3, <1>4, FollowsOn

LEMMA ReturnedGood ==
  ASSUME NEW A, Good(A), NEW B \in Returned(A) PROVE Good(B) /\ Follows(A, B)
<1>1. B = SettlesHeld(A, "fence") \/ B = SettlesHeld(A, "idle")
  BY DEF Returned
<1> QED BY <1>1, SettlesGood

LEMMA PresentsGood ==
  ASSUME NEW A, Good(A), NEW B \in Presents(A) PROVE Good(B) /\ Follows(A, B)
<1>0. Follows(A, A)
  BY DEF Follows
<1>1. CASE A.held = NoneHeld
  BY <1>0, <1>1 DEF Presents
<1>2. CASE A.held # NoneHeld
  <2>1. PICK W \in Windowed(A) : B = W \/ B \in DrawsHeld(W)
    BY <1>2 DEF Presents
  <2>2. Good(W) /\ Follows(A, W) /\ W.held = A.held
    BY WindowedGood
  <2>3. CASE B = W
    BY <2>2, <2>3
  <2>4. CASE B \in DrawsHeld(W)
    <3> DEFINE made == [W EXCEPT !.bound.image = TRUE]
               bound == [W.bound EXCEPT !.image = TRUE]
    <3>1. W \in Programs /\ W.bound \in BoundTo /\ W.held.frame \in 1 .. Len(W.fate) /\ Len(W.fate) <= MaxPosts
          /\ Len(W.fate) \in Nat
      BY <1>2, <2>2 DEF Good, Programs
    <3>2. bound \in BoundTo /\ bound.id = W.bound.id /\ bound.config = W.bound.config
          /\ bound.retired = W.bound.retired
      BY <3>1 DEF BoundTo
    <3>3. made = [W EXCEPT !.bound = bound]
      OBVIOUS
    <3> HIDE DEF bound
    <3>4. made \in Programs /\ made.held = W.held /\ made.fate = W.fate /\ made.up = W.up /\ made.bound = bound
      BY <3>1, <3>2, <3>3 DEF Programs
    <3> HIDE DEF made
    <3>5. Good(made) /\ Follows(W, made)
      BY <2>2, <3>2, <3>4 DEF Good, Follows
    <3>6. \/ B = SettlesHeld(W, "signalled")
          \/ B = Refuses(W, TRUE) \/ B = Refuses(made, FALSE)
          \/ \E R \in Returned(made) : B \in Drawn(R, W.held.frame)
      BY <2>4 DEF DrawsHeld, CannotWait, CannotImport, CannotDraw, made
    <3>7. Good(B) /\ Follows(W, B)
      <4>1. CASE B = SettlesHeld(W, "signalled")
        BY <2>2, <4>1, SettlesGood
      <4>2. CASE B = Refuses(W, TRUE)
        BY <2>2, <4>2, RefusesGood
      <4>3. CASE B = Refuses(made, FALSE)
        BY <3>5, <4>3, RefusesGood, FollowsOn
      <4>4. ASSUME NEW R \in Returned(made), B \in Drawn(R, W.held.frame) PROVE Good(B) /\ Follows(W, B)
        <5>1. Good(R) /\ Follows(made, R)
          BY <3>5, ReturnedGood
        <5>2. W.held.frame \in 0 .. MaxPosts
          BY <3>1, SurfaceAssumption
        <5>3. Good(B) /\ Follows(R, B)
          BY <4>4, <5>1, <5>2, DrawnGood
        <5> QED BY <3>5, <5>1, <5>3, FollowsOn
      <4> QED BY <3>6, <4>1, <4>2, <4>3, <4>4
    <3> QED BY <2>2, <3>7, FollowsOn
  <2> QED BY <2>1, <2>3, <2>4
<1> QED BY <1>1, <1>2

-----------------------------------------------------------------------------
\* Events that were not read: their frames are those that were sent and have no fate
\* yet, each of them once.
MailEvents == [ev : {"bind", "config", "frame", "unbind"}, gen : 0 .. MaxBounds, frame : Nat]
Frames(q)  == {k \in DOMAIN q : q[k].ev = "frame"}

Mail(q, F) ==
  /\ q \in Seq(MailEvents)
  /\ \A k \in Frames(q) : q[k].frame \in 1 .. Len(F) /\ F[q[k].frame] = "sent"
  /\ \A k, j \in Frames(q) : q[k].frame = q[j].frame => k = j

SurfaceInv ==
  /\ Good(wl) /\ Mail(mail, wl.fate) /\ peerOpen \in BOOLEAN
  /\ ~wl.up => mail = << >>
  /\ posted \in [last : 0 .. MaxBounds, now : 0 .. MaxBounds]
  /\ drawing \subseteq 1 .. Len(wl.fate) /\ \A f \in drawing : wl.fate[f] = "fence"

LEMMA SurfaceInitInv == SurfaceInit => SurfaceInv
<1> SUFFICES ASSUME SurfaceInit PROVE SurfaceInv
  OBVIOUS
<1>1. MaxBounds \in Nat /\ MaxPosts \in Nat
  BY SurfaceAssumption
<1>2. NewLayer \in Shows
  BY DEF NewLayer, Shows
<1>3. NoneBound \in BoundTo
  BY <1>1 DEF NoneBound, BoundTo
<1>4. NoneHeld \in HeldFrames /\ NoneHeld.frame = 0
  BY DEF NoneHeld, HeldFrames
<1>5. << >> \in Seq(FrameFates) /\ Len(<< >>) = 0
  OBVIOUS
<1>6. wl = NewProgram /\ drawing = {} /\ peerOpen = TRUE /\ mail = << >> /\ posted = [last |-> 0, now |-> 0]
  BY DEF SurfaceInit
<1>7. wl \in Programs /\ wl.fate = << >> /\ wl.held = NoneHeld
  BY <1>1, <1>2, <1>3, <1>4, <1>5, <1>6 DEF NewProgram, Programs
<1>8. Good(wl)
  BY <1>1, <1>4, <1>5, <1>7 DEF Good
<1>9. Mail(mail, wl.fate)
  <2>1. DOMAIN mail = {} /\ mail \in Seq(MailEvents)
    BY <1>6
  <2> QED BY <2>1 DEF Mail, Frames
<1> QED BY <1>1, <1>6, <1>8, <1>9 DEF SurfaceInv

LEMMA SurfaceInvShows == SurfaceInv => FramesReturnOnce
<1> SUFFICES ASSUME SurfaceInv PROVE FramesReturnOnce
  OBVIOUS
<1>1. Good(wl) /\ wl \in Programs /\ wl.fate \in Seq(FrameFates) /\ DOMAIN wl.fate = 1 .. Len(wl.fate)
      /\ wl.bound \in BoundTo
  BY DEF SurfaceInv, Good, Programs
<1>2. SurfaceTypeOK
  <2>1. wl.layer \in {"none", "made", "configured"} /\ wl.drawn \in 0 .. MaxPosts /\ wl.bound.id \in 0 .. MaxBounds
    BY <1>1 DEF Programs, BoundTo
  <2>2. \A f \in DOMAIN wl.fate : wl.fate[f] \in FrameFates
    BY <1>1
  <2> QED BY <2>1, <2>2 DEF SurfaceTypeOK, FrameFates
<1>3. HeldIsPending /\ HeldIsBound
  BY <1>1 DEF Good, HeldIsPending, HeldIsBound
<1>4. HostSignalsIdle
  BY DEF SurfaceInv, HostSignalsIdle
<1> QED BY <1>2, <1>3, <1>4 DEF FramesReturnOnce

-----------------------------------------------------------------------------
(* Steps of the program.                                                    *)

\* A connection that ends.
LEMMA LostGood ==
  ASSUME NEW A, Good(A), NEW B \in Lost({A})
  PROVE  /\ Good(B) /\ B.up = A.up /\ Len(B.fate) = Len(A.fate)
         /\ \A f \in 1 .. Len(A.fate) : A.fate[f] # "sent" => B.fate[f] = A.fate[f]
         /\ A.up => B = A
<1> DEFINE n == Len(A.fate)
           F == [f \in 1 .. n |-> IF A.fate[f] = "sent" THEN "closed" ELSE A.fate[f]]
           C == [A EXCEPT !.fate = F]
<1>1. A \in Programs /\ A.fate \in Seq(FrameFates) /\ DOMAIN A.fate = 1 .. n /\ n \in Nat
  BY DEF Good, Programs
<1>2. B = IF A.up THEN A ELSE C
  BY <1>1 DEF Lost
<1>3. F \in Seq(FrameFates) /\ Len(F) = n
        /\ \A f \in 1 .. n : F[f] = IF A.fate[f] = "sent" THEN "closed" ELSE A.fate[f]
  <2>1. \A f \in 1 .. n : F[f] \in FrameFates
    BY <1>1 DEF FrameFates
  <2>2. F \in [1 .. n -> FrameFates]
    BY <2>1
  <2>3. F \in Seq(FrameFates) /\ Len(F) = n
    BY <1>1, <2>2
  <2> QED BY <2>3
<1> HIDE DEF F
<1>4. C \in Programs /\ C.fate = F /\ C.held = A.held /\ C.up = A.up /\ C.bound = A.bound
  BY <1>1, <1>3 DEF Programs
<1> HIDE DEF C
<1>5. Good(C)
  BY <1>3, <1>4 DEF Good
<1> QED BY <1>2, <1>3, <1>4, <1>5

LEMMA LostOne == ASSUME NEW S, NEW B \in Lost(S) PROVE \E A \in S : B \in Lost({A})
BY DEF Lost

\* A step of the program that leaves what was sent as it is, or ends the connection.
LEMMA RunsKeeps ==
  ASSUME SurfaceInv, NEW S, Runs(S), NEW q,
         \A B \in S : /\ Good(B) /\ Len(B.fate) = Len(wl.fate)
                      /\ \A f \in 1 .. Len(wl.fate) : wl.fate[f] \notin {"sent", "held"} => B.fate[f] = wl.fate[f]
                      /\ B.up => \A f \in 1 .. Len(wl.fate) :
                                   wl.fate[f] = "sent" /\ (\E k \in Frames(q) : q[k].frame = f) => B.fate[f] = "sent",
         Mail(q, wl.fate),
         mail' = (IF wl'.up THEN q ELSE << >>)
  PROVE  SurfaceInv'
<1>1. PICK B \in S : wl' = B
  BY DEF Runs
<1>2. UNCHANGED << peerOpen, posted >>
  BY DEF Runs
<1>3. Good(wl') /\ Len(wl'.fate) = Len(wl.fate)
  BY <1>1
<1>4. drawing' \subseteq 1 .. Len(wl'.fate) /\ \A f \in drawing' : wl'.fate[f] = "fence"
  <2> DEFINE fenced == {f \in DOMAIN wl'.fate : wl'.fate[f] = "fence" /\ Fate(wl, f) # "fence"}
  <2>1. drawing' \subseteq drawing \cup fenced
    BY DEF Runs
  <2>2. DOMAIN wl'.fate = 1 .. Len(wl'.fate)
    BY <1>3 DEF Good, Programs
  <2>3. \A f \in drawing : f \in 1 .. Len(wl.fate) /\ wl.fate[f] = "fence"
    BY DEF SurfaceInv
  <2>4. \A f \in drawing : wl'.fate[f] = "fence"
    BY <1>1, <2>3
  <2> QED BY <1>3, <2>1, <2>2, <2>3, <2>4
<1>5. Mail(mail', wl'.fate)
  <2>1. CASE wl'.up
    <3>1. mail' = q
      BY <2>1
    <3>2. \A k \in Frames(q) : q[k].frame \in 1 .. Len(wl.fate) /\ wl.fate[q[k].frame] = "sent"
      BY DEF Mail
    <3>3. \A k \in Frames(q) : wl'.fate[q[k].frame] = "sent"
      BY <1>1, <2>1, <3>2
    <3> QED BY <1>3, <3>1, <3>2, <3>3 DEF Mail
  <2>2. CASE ~wl'.up
    <3>1. mail' = << >> /\ DOMAIN mail' = {} /\ mail' \in Seq(MailEvents)
      BY <2>2
    <3> QED BY <3>1 DEF Mail, Frames
  <2> QED BY <2>1, <2>2
<1> QED BY <1>2, <1>3, <1>4, <1>5 DEF SurfaceInv

LEMMA NoMail == ASSUME NEW F PROVE Mail(<< >>, F)
<1> DEFINE q == << >>
<1>1. DOMAIN q = {} /\ q \in Seq(MailEvents)
  OBVIOUS
<1> HIDE DEF q
<1>2. Mail(q, F)
  BY <1>1 DEF Mail, Frames
<1> QED BY <1>2 DEF q

\* A step that only shows something, or that ends the connection.
LEMMA FollowsKeeps ==
  ASSUME SurfaceInv, NEW S, Runs(S), \A B \in S : Good(B) /\ Follows(wl, B),
         mail' = (IF wl'.up THEN mail ELSE << >>)
  PROVE  SurfaceInv'
<1>1. \A B \in S :
        /\ Good(B) /\ Len(B.fate) = Len(wl.fate)
        /\ \A f \in 1 .. Len(wl.fate) : wl.fate[f] \notin {"sent", "held"} => B.fate[f] = wl.fate[f]
        /\ B.up => \A f \in 1 .. Len(wl.fate) :
                     wl.fate[f] = "sent" /\ (\E k \in Frames(mail) : mail[k].frame = f) => B.fate[f] = "sent"
  BY DEF Follows
<1>2. Mail(mail, wl.fate)
  BY DEF SurfaceInv
<1> QED BY <1>1, <1>2, RunsKeeps

\* The same when the connection is found to have ended.
LEMMA LostKeeps ==
  ASSUME SurfaceInv, NEW S, Runs(Lost(S)), NEW q, Mail(q, wl.fate),
         \A A \in S : /\ Good(A) /\ Len(A.fate) = Len(wl.fate)
                      /\ \A f \in 1 .. Len(wl.fate) :
                           wl.fate[f] # "held" /\ (wl.fate[f] = "sent" => \E k \in Frames(q) : q[k].frame = f)
                             => A.fate[f] = wl.fate[f],
         mail' = (IF wl'.up THEN q ELSE << >>)
  PROVE  SurfaceInv'
<1> DEFINE T == Lost(S)
<1>1. ASSUME NEW B \in T
      PROVE  /\ Good(B) /\ Len(B.fate) = Len(wl.fate)
             /\ \A f \in 1 .. Len(wl.fate) : wl.fate[f] \notin {"sent", "held"} => B.fate[f] = wl.fate[f]
             /\ B.up => \A f \in 1 .. Len(wl.fate) :
                     wl.fate[f] = "sent" /\ (\E k \in Frames(q) : q[k].frame = f) => B.fate[f] = "sent"
  <2>1. PICK A \in S : B \in Lost({A})
    BY LostOne
  <2>2. /\ Good(A) /\ Len(A.fate) = Len(wl.fate)
        /\ \A f \in 1 .. Len(wl.fate) :
             wl.fate[f] # "held" /\ (wl.fate[f] = "sent" => \E k \in Frames(q) : q[k].frame = f)
               => A.fate[f] = wl.fate[f]
    BY <2>1
  <2>3. /\ Good(B) /\ B.up = A.up /\ Len(B.fate) = Len(A.fate)
        /\ \A f \in 1 .. Len(A.fate) : A.fate[f] # "sent" => B.fate[f] = A.fate[f]
        /\ A.up => B = A
    BY <2>1, <2>2, LostGood
  <2>4. ASSUME NEW f \in 1 .. Len(wl.fate), wl.fate[f] \notin {"sent", "held"} PROVE B.fate[f] = wl.fate[f]
    BY <2>2, <2>3, <2>4
  <2>5. ASSUME B.up, NEW f \in 1 .. Len(wl.fate), wl.fate[f] = "sent", \E k \in Frames(q) : q[k].frame = f
        PROVE  B.fate[f] = "sent"
    BY <2>2, <2>3, <2>5
  <2> QED BY <2>2, <2>3, <2>4, <2>5
<1> HIDE DEF T
<1>2. Runs(T)
  BY DEF T
<1> QED BY <1>1, <1>2, RunsKeeps

\* A connection that is given up takes the mail with it.
LEMMA GivenUpKeeps ==
  ASSUME SurfaceInv, NEW A, Good(A), Follows(wl, A), Runs(Lost({A})), mail' = << >>, ~A.up PROVE SurfaceInv'
<1> DEFINE S == {A}
           T == Lost(S)
           q == << >>
<1>1. Mail(q, wl.fate) /\ Frames(q) = {}
  BY NoMail DEF Frames
<1>2. ASSUME NEW B \in T
      PROVE  /\ Good(B) /\ Len(B.fate) = Len(wl.fate)
             /\ \A f \in 1 .. Len(wl.fate) : wl.fate[f] \notin {"sent", "held"} => B.fate[f] = wl.fate[f]
             /\ B.up => \A f \in 1 .. Len(wl.fate) :
                     wl.fate[f] = "sent" /\ (\E k \in Frames(q) : q[k].frame = f) => B.fate[f] = "sent"
  <2>1. /\ Good(B) /\ B.up = A.up /\ Len(B.fate) = Len(A.fate)
        /\ \A f \in 1 .. Len(A.fate) : A.fate[f] # "sent" => B.fate[f] = A.fate[f]
    BY <1>2, LostGood
  <2> QED BY <2>1 DEF Follows
<1>3. Runs(T)
  OBVIOUS
<1>4. mail' = (IF wl'.up THEN q ELSE << >>)
  OBVIOUS
<1> HIDE DEF S, T, q
<1> QED BY <1>1, <1>2, <1>3, <1>4, RunsKeeps

-----------------------------------------------------------------------------
(* Mail.                                                                    *)

\* One more event.
LEMMA MailMore ==
  ASSUME NEW F, NEW q, Mail(q, F), NEW e \in MailEvents,
         e.ev = "frame" => /\ e.frame \in 1 .. Len(F) /\ F[e.frame] = "sent"
                           /\ \A k \in Frames(q) : q[k].frame # e.frame
  PROVE  Mail(Append(q, e), F)
<1> DEFINE r == Append(q, e)
           n == Len(q)
<1>1. q \in Seq(MailEvents) /\ n \in Nat /\ r \in Seq(MailEvents) /\ DOMAIN q = 1 .. n /\ DOMAIN r = 1 .. n + 1
      /\ r[n + 1] = e /\ \A k \in 1 .. n : r[k] = q[k]
  BY DEF Mail
<1> HIDE DEF r, n
<1>2. \A k \in Frames(r) : (k = n + 1 /\ e.ev = "frame" /\ r[k] = e) \/ (k \in Frames(q) /\ r[k] = q[k])
  <2>1. \A k \in 1 .. n + 1 : k = n + 1 \/ k \in 1 .. n
    BY <1>1
  <2> QED BY <1>1, <2>1 DEF Frames
<1>3. \A k \in Frames(r) : r[k].frame \in 1 .. Len(F) /\ F[r[k].frame] = "sent"
  BY <1>2 DEF Mail
<1>4. \A k, j \in Frames(r) : r[k].frame = r[j].frame => k = j
  BY <1>2 DEF Mail
<1> QED BY <1>1, <1>3, <1>4 DEF Mail, r

\* One event less.
LEMMA MailLess ==
  ASSUME NEW F, NEW q, Mail(q, F), q # << >>
  PROVE  /\ Head(q) \in MailEvents /\ Mail(Tail(q), F)
         /\ Head(q).ev = "frame" =>
              /\ Head(q).frame \in 1 .. Len(F) /\ F[Head(q).frame] = "sent"
              /\ \A k \in Frames(Tail(q)) : Tail(q)[k].frame # Head(q).frame
<1> DEFINE r == Tail(q)
           n == Len(q)
           h == Head(q)
<1>1. q \in Seq(MailEvents)
  BY DEF Mail
<1>2. n \in Nat /\ n > 0 /\ r \in Seq(MailEvents) /\ DOMAIN q = 1 .. n /\ DOMAIN r = 1 .. n - 1
      /\ h = q[1] /\ h \in MailEvents /\ \A k \in 1 .. n - 1 : r[k] = q[k + 1]
  BY <1>1
<1> HIDE DEF r, n, h
<1>3. 1 \in 1 .. n /\ \A k \in 1 .. n - 1 : k + 1 \in 1 .. n /\ k + 1 # 1
  BY <1>2
<1>4. \A k \in Frames(r) : k \in 1 .. n - 1 /\ k + 1 \in Frames(q) /\ r[k] = q[k + 1]
  BY <1>2, <1>3 DEF Frames
<1>5. \A k \in Frames(r) : r[k].frame \in 1 .. Len(F) /\ F[r[k].frame] = "sent"
  BY <1>4 DEF Mail
<1>6. ASSUME NEW k \in Frames(r), NEW j \in Frames(r), r[k].frame = r[j].frame PROVE k = j
  <2>1. k + 1 = j + 1
    BY <1>4, <1>6 DEF Mail
  <2> QED BY <1>4, <2>1
<1>7. ASSUME h.ev = "frame"
      PROVE  /\ h.frame \in 1 .. Len(F) /\ F[h.frame] = "sent" /\ \A k \in Frames(r) : r[k].frame # h.frame
  <2>1. 1 \in Frames(q)
    BY <1>2, <1>3, <1>7 DEF Frames
  <2>2. ASSUME NEW k \in Frames(r), r[k].frame = h.frame PROVE FALSE
    <3>1. k + 1 = 1
      BY <1>2, <1>4, <2>1, <2>2 DEF Mail
    <3> QED BY <1>3, <1>4, <3>1
  <2> QED BY <1>2, <2>1, <2>2 DEF Mail
<1> QED BY <1>2, <1>5, <1>6, <1>7 DEF Mail, r, h

\* The daemon sends a frame: it has no fate yet.
LEMMA SentGood ==
  ASSUME SurfaceInv, NewFrame <= MaxPosts, wl' = [wl EXCEPT !.fate = Append(@, "sent")]
  PROVE  /\ Good(wl') /\ wl'.up = wl.up /\ Mail(mail, wl'.fate) /\ NewFrame \in Nat
         /\ Len(wl'.fate) = Len(wl.fate) + 1 /\ NewFrame = Len(wl.fate) + 1
         /\ \A f \in 1 .. Len(wl.fate) : wl'.fate[f] = wl.fate[f]
         /\ NewFrame \in 1 .. Len(wl'.fate) /\ wl'.fate[NewFrame] = "sent"
         /\ \A k \in Frames(mail) : mail[k].frame # NewFrame
<1> DEFINE n == Len(wl.fate)
           F == Append(wl.fate, "sent")
<1>1. Good(wl) /\ wl \in Programs /\ wl.fate \in Seq(FrameFates) /\ n \in Nat /\ wl.held \in HeldFrames
  BY DEF SurfaceInv, Good, Programs
<1>2. "sent" \in FrameFates
  BY DEF FrameFates
<1>3. F \in Seq(FrameFates) /\ Len(F) = n + 1 /\ F[n + 1] = "sent" /\ \A f \in 1 .. n : F[f] = wl.fate[f]
  BY <1>1, <1>2
<1> HIDE DEF F
<1>4. wl' = [wl EXCEPT !.fate = F]
  BY DEF F
<1>5. wl' \in Programs /\ wl'.fate = F /\ wl'.held = wl.held /\ wl'.up = wl.up /\ wl'.bound = wl.bound
  BY <1>1, <1>3, <1>4 DEF Programs
<1>6. NewFrame = n + 1
  BY DEF NewFrame
<1> HIDE DEF n
<1>7. wl.held.frame # n + 1
  <2>1. CASE wl.held = NoneHeld
    BY <1>1, <2>1 DEF NoneHeld
  <2>2. CASE wl.held # NoneHeld
    BY <1>1, <2>2 DEF Good, n
  <2> QED BY <2>1, <2>2
<1>8. \A f \in 1 .. n + 1 : f = n + 1 \/ f \in 1 .. n
  BY <1>1
<1>9. n + 1 \in 1 .. n + 1 /\ 1 .. n \subseteq 1 .. n + 1
  BY <1>1
<1>10. Good(wl')
  <2>1. \A f \in 1 .. n + 1 : F[f] = "held" <=> wl.held.frame = f
    BY <1>1, <1>3, <1>7, <1>8 DEF Good, n
  <2>2. wl.held = NoneHeld \/ wl.held.frame \in 1 .. n + 1
    BY <1>1, <1>9 DEF Good, n
  <2> QED BY <1>1, <1>3, <1>5, <1>6, <2>1, <2>2 DEF Good
<1>11. \A k \in Frames(mail) : mail[k].frame \in 1 .. n /\ wl.fate[mail[k].frame] = "sent"
  BY DEF SurfaceInv, Mail, n
<1>12. Mail(mail, wl'.fate)
  BY <1>3, <1>5, <1>9, <1>11 DEF SurfaceInv, Mail
<1>13. \A k \in Frames(mail) : mail[k].frame # n + 1
  BY <1>1, <1>11
<1> QED BY <1>1, <1>3, <1>5, <1>6, <1>9, <1>10, <1>12, <1>13 DEF n

-----------------------------------------------------------------------------
(* Steps of the daemon.                                                     *)

LEMMA EventIs == ASSUME NEW e, NEW g, NEW f PROVE /\ Event(e, g, f).ev = e
                                                   /\ Event(e, g, f).gen = g /\ Event(e, g, f).frame = f
BY DEF Event

LEMMA EventKnown ==
  ASSUME NEW e \in {"bind", "config", "frame", "unbind"}, NEW g \in 0 .. MaxBounds, NEW f \in Nat
  PROVE  Event(e, g, f) \in MailEvents
BY DEF Event, MailEvents

\* The daemon binds other buffers.
LEMMA MailBinds ==
  ASSUME NEW F, NEW q, Mail(q, F), NEW g \in 0 .. MaxBounds
  PROVE  LET r == Append(Append(q, Event("bind", g, 0)), Event("config", g, 0)) IN
         /\ Mail(r, F) /\ Frames(r) = Frames(q) /\ \A k \in Frames(q) : r[k] = q[k]
<1> DEFINE bd == Event("bind", g, 0)
           cf == Event("config", g, 0)
           n == Len(q)
           s == Append(q, bd)
           r == Append(s, cf)
<1>1. bd \in MailEvents /\ bd.ev # "frame" /\ cf \in MailEvents /\ cf.ev # "frame"
  BY EventKnown, EventIs
<1> HIDE DEF bd, cf
<1>2. Mail(s, F)
  BY <1>1, MailMore
<1>3. q \in Seq(MailEvents) /\ n \in Nat /\ DOMAIN q = 1 .. n
  BY DEF Mail
<1>4. /\ s \in Seq(MailEvents) /\ Len(s) = n + 1 /\ s[n + 1] = bd /\ \A k \in 1 .. n : s[k] = q[k]
      /\ r \in Seq(MailEvents) /\ Len(r) = n + 2 /\ r[n + 2] = cf /\ \A k \in 1 .. n + 1 : r[k] = s[k]
  BY <1>1, <1>3
<1> HIDE DEF s, n
<1>5. Mail(r, F)
  BY <1>1, <1>2, MailMore
<1> HIDE DEF r
<1>6. DOMAIN r = 1 .. n + 2 /\ \A k \in 1 .. n + 2 : k \in 1 .. n \/ k = n + 1 \/ k = n + 2
  BY <1>3, <1>4
<1>7. 1 .. n \subseteq 1 .. n + 1 /\ 1 .. n \subseteq 1 .. n + 2 /\ n + 1 \in 1 .. n + 1 /\ n + 1 \in 1 .. n + 2
      /\ n + 2 \in 1 .. n + 2
  BY <1>3
<1>8. r[n + 1] = bd /\ \A k \in 1 .. n : r[k] = q[k]
  BY <1>4, <1>7
<1>9. Frames(r) = Frames(q)
  <2>1. ASSUME NEW k \in Frames(r) PROVE k \in Frames(q)
    <3>1. k \in 1 .. n + 2 /\ r[k].ev = "frame"
      BY <1>6 DEF Frames
    <3>2. k # n + 1 /\ k # n + 2
      BY <1>1, <1>4, <1>8, <3>1
    <3> QED BY <1>3, <1>6, <1>8, <3>1, <3>2 DEF Frames
  <2>2. ASSUME NEW k \in Frames(q) PROVE k \in Frames(r)
    BY <1>3, <1>6, <1>7, <1>8 DEF Frames
  <2> QED BY <2>1, <2>2
<1>10. \A k \in Frames(q) : r[k] = q[k]
  BY <1>3, <1>8 DEF Frames
<1> QED BY <1>5, <1>9, <1>10 DEF r, s, bd, cf

LEMMA PostsKeeps == ASSUME SurfaceInv, PostsBind \/ PostsFrame \/ PostsRebind \/ PostsUnbind PROVE SurfaceInv'
<1>1. UNCHANGED << drawing, peerOpen >> /\ wl.up
  BY DEF PostsBind, PostsFrame, PostsRebind, PostsUnbind, PeerListens, Mails
<1>2. Mail(mail, wl.fate) /\ mail \in Seq(MailEvents) /\ posted \in [last : 0 .. MaxBounds, now : 0 .. MaxBounds]
      /\ MaxBounds \in Nat
  BY SurfaceAssumption DEF SurfaceInv, Mail
<1>3. CASE PostsBind
  <2> DEFINE n == posted.last + 1
             x == Event("bind", n, 0)
             y == Event("config", n, 0)
             r == Append(Append(mail, x), y)
  <2>1. n \in 0 .. MaxBounds /\ wl' = wl /\ posted' = [last |-> n, now |-> n] /\ mail' = mail \o << x, y >>
    BY <1>2, <1>3 DEF PostsBind, Mails
  <2> HIDE DEF n
  <2>2. x \in MailEvents /\ y \in MailEvents
    BY <2>1, EventKnown
  <2>3. Mail(r, wl.fate)
    BY <1>2, <2>1, MailBinds
  <2> HIDE DEF x, y
  <2>4. mail' = r
    BY <1>2, <2>1, <2>2
  <2> HIDE DEF r
  <2> QED BY <1>1, <2>1, <2>3, <2>4 DEF SurfaceInv
<1>4. CASE PostsFrame
  <2> DEFINE x == Event("frame", posted.now, NewFrame)
  <2>1. NewFrame <= MaxPosts /\ wl' = [wl EXCEPT !.fate = Append(@, "sent")] /\ posted' = posted
        /\ mail' = mail \o << x >>
    BY <1>4 DEF PostsFrame, Mails
  <2>2. /\ Good(wl') /\ wl'.up = wl.up /\ Mail(mail, wl'.fate) /\ NewFrame \in Nat
        /\ Len(wl'.fate) = Len(wl.fate) + 1 /\ NewFrame = Len(wl.fate) + 1
        /\ \A f \in 1 .. Len(wl.fate) : wl'.fate[f] = wl.fate[f]
        /\ NewFrame \in 1 .. Len(wl'.fate) /\ wl'.fate[NewFrame] = "sent"
        /\ \A k \in Frames(mail) : mail[k].frame # NewFrame
    BY <2>1, SentGood
  <2>3. x \in MailEvents /\ x.frame = NewFrame
    BY <1>2, <2>2, EventKnown, EventIs
  <2> HIDE DEF x
  <2>4. mail' = Append(mail, x)
    BY <1>2, <2>1, <2>3
  <2>5. Mail(mail', wl'.fate)
    BY <2>2, <2>3, <2>4, MailMore
  <2>6. Len(wl.fate) \in Nat
    BY DEF SurfaceInv, Good, Programs
  <2>7. drawing' \subseteq 1 .. Len(wl'.fate) /\ \A f \in drawing' : wl'.fate[f] = "fence"
    BY <1>1, <2>2, <2>6, SMTT(40) DEF SurfaceInv
  <2> QED BY <1>1, <2>1, <2>2, <2>5, <2>7 DEF SurfaceInv
<1>5. CASE PostsRebind
  <2> DEFINE n == posted.last + 1
             x == Event("bind", n, 0)
             y == Event("config", n, 0)
             z == Event("frame", n, NewFrame)
             u == Event("unbind", posted.now, 0)
             r == Append(Append(mail, x), y)
  <2>1. NewFrame <= MaxPosts /\ wl' = [wl EXCEPT !.fate = Append(@, "sent")] /\ n \in 0 .. MaxBounds
        /\ posted' = [last |-> n, now |-> n] /\ mail' = mail \o << x, y, z, u >>
    BY <1>2, <1>5 DEF PostsRebind, Mails
  <2>2. /\ Good(wl') /\ wl'.up = wl.up /\ Mail(mail, wl'.fate) /\ NewFrame \in Nat
        /\ Len(wl'.fate) = Len(wl.fate) + 1 /\ NewFrame = Len(wl.fate) + 1
        /\ \A f \in 1 .. Len(wl.fate) : wl'.fate[f] = wl.fate[f]
        /\ NewFrame \in 1 .. Len(wl'.fate) /\ wl'.fate[NewFrame] = "sent"
        /\ \A k \in Frames(mail) : mail[k].frame # NewFrame
    BY <2>1, SentGood
  <2> HIDE DEF n
  <2>3. x \in MailEvents /\ y \in MailEvents /\ z \in MailEvents /\ u \in MailEvents
        /\ z.frame = NewFrame /\ u.ev # "frame"
    <3>1. x \in MailEvents /\ y \in MailEvents
      BY <2>1, EventKnown
    <3>2. z \in MailEvents
      BY <2>1, <2>2, EventKnown
    <3>3. posted.now \in 0 .. MaxBounds
      BY <1>2
    <3>4. u \in MailEvents
      BY <3>3, EventKnown
    <3>5. z.frame = NewFrame /\ u.ev # "frame"
      BY EventIs
    <3> QED BY <3>1, <3>2, <3>4, <3>5
  <2>4. Mail(r, wl'.fate) /\ Frames(r) = Frames(mail) /\ \A k \in Frames(mail) : r[k] = mail[k]
    BY <2>1, <2>2, MailBinds, ZenonT(40)
  <2> HIDE DEF x, y, z, u
  <2>5. r \in Seq(MailEvents) /\ mail' = Append(Append(r, z), u)
    BY <1>2, <2>1, <2>3, SMTT(40)
  <2> HIDE DEF r
  <2>6. Mail(Append(r, z), wl'.fate)
    BY <2>2, <2>3, <2>4, MailMore
  <2>7. Mail(mail', wl'.fate)
    BY <2>3, <2>5, <2>6, MailMore
  <2>8. Len(wl.fate) \in Nat
    BY DEF SurfaceInv, Good, Programs
  <2>9. drawing' \subseteq 1 .. Len(wl'.fate) /\ \A f \in drawing' : wl'.fate[f] = "fence"
    BY <1>1, <2>2, <2>8 DEF SurfaceInv
  <2> QED BY <1>1, <2>1, <2>2, <2>7, <2>9 DEF SurfaceInv
<1>6. CASE PostsUnbind
  <2> DEFINE x == Event("unbind", posted.now, 0)
  <2>1. wl' = wl /\ mail' = mail \o << x >> /\ posted' = [posted EXCEPT !.now = 0]
    BY <1>6 DEF PostsUnbind, Mails
  <2>2. x \in MailEvents /\ x.ev # "frame"
    BY <1>2, EventKnown, EventIs
  <2> HIDE DEF x
  <2>3. mail' = Append(mail, x)
    BY <1>2, <2>1, <2>2
  <2>4. Mail(mail', wl.fate)
    BY <1>2, <2>2, <2>3, MailMore
  <2>5. posted' \in [last : 0 .. MaxBounds, now : 0 .. MaxBounds]
    BY <1>2, <2>1
  <2> QED BY <1>1, <2>1, <2>4, <2>5 DEF SurfaceInv
<1> QED BY <1>3, <1>4, <1>5, <1>6

LEMMA HangsUpKeeps == ASSUME SurfaceInv, DaemonHangsUp PROVE SurfaceInv'
BY DEF SurfaceInv, DaemonHangsUp

-----------------------------------------------------------------------------
(* What an event does.                                                      *)

\* A frame that is read is held until its fate is known.
LEMMA HoldsGood ==
  ASSUME NEW A, Good(A), A.up, NEW m, m.frame \in 1 .. Len(A.fate), A.fate[m.frame] = "sent",
         NEW B \in HoldsFrame(A, m)
  PROVE  /\ Good(B) /\ Len(B.fate) = Len(A.fate)
         /\ \A f \in 1 .. Len(A.fate) : A.fate[f] # "held" /\ f # m.frame => B.fate[f] = A.fate[f]
<1> DEFINE f == m.frame
           n == Len(A.fate)
           C == [A EXCEPT !.fate = [@ EXCEPT ![f] = "held"]]
           T(how) == [A EXCEPT !.fate = [A.fate EXCEPT ![f] = how]]
           G(how) == [k \in 1 .. n |-> IF k = f THEN how ELSE A.fate[k]]
<1>1. A \in Programs /\ A.fate \in Seq(FrameFates) /\ n \in Nat /\ n <= MaxPosts /\ f \in 1 .. n
      /\ A.held \in HeldFrames
  BY DEF Good, Programs
<1>2. A.held.frame # f
  BY DEF Good
<1>3. ASSUME NEW how \in FrameFates
      PROVE  /\ G(how) \in Seq(FrameFates) /\ Len(G(how)) = n
             /\ [A.fate EXCEPT ![f] = how] = G(how) /\ T(how) \in Programs /\ T(how).fate = G(how)
             /\ T(how).held = A.held /\ T(how).up = A.up /\ T(how).bound = A.bound
  <2>1. [A.fate EXCEPT ![f] = how] = G(how)
    BY <1>1
  <2>2. G(how) \in [1 .. n -> FrameFates]
    BY <1>1
  <2>3. G(how) \in Seq(FrameFates) /\ Len(G(how)) = n
    BY <1>1, <2>2
  <2> HIDE DEF G
  <2> QED BY <1>1, <2>1, <2>3 DEF Programs
\* A frame that is refused.
<1>4. ASSUME NEW how \in {"closed", "signalled"}, B = EndsFrame(C, f, how)
      PROVE  /\ Good(B) /\ Len(B.fate) = n
             /\ \A k \in 1 .. n : A.fate[k] # "held" /\ k # f => B.fate[k] = A.fate[k]
  <2>1. how \in FrameFates /\ "held" \in FrameFates
    BY DEF FrameFates
  <2>2. C = T("held")
    OBVIOUS
  <2>3. C.fate[f] = "held"
    BY <1>1, <1>3, <2>1, <2>2
  <2>4. EndsFrame(C, f, how) = [C EXCEPT !.fate = [C.fate EXCEPT ![f] = how]]
    <3>1. EndsFrame(C, f, how) = [C EXCEPT !.fate = [C.fate EXCEPT ![f] = IF C.fate[f] = "held" THEN how ELSE "twice"]]
      BY DEF EndsFrame
    <3> QED BY <2>3, <3>1, Zenon
  <2>5. [C.fate EXCEPT ![f] = how] = [A.fate EXCEPT ![f] = how]
    <3>1. C.fate = [A.fate EXCEPT ![f] = "held"]
      BY <1>1 DEF Programs
    <3> QED BY <1>1, <3>1
  <2>6. B = T(how)
    <3>1. B = [C EXCEPT !.fate = [A.fate EXCEPT ![f] = how]]
      BY <1>4, <2>4, <2>5
    <3> QED BY <1>1, <3>1 DEF Programs
  <2>7. /\ B \in Programs /\ B.fate = G(how) /\ B.held = A.held /\ B.up = A.up /\ B.bound = A.bound
        /\ Len(B.fate) = n
    BY <1>3, <2>1, <2>6
  <2>8. \A k \in 1 .. n : B.fate[k] = IF k = f THEN how ELSE A.fate[k]
    BY <2>7
  <2> HIDE DEF C, T, G
  <2> QED BY <1>1, <1>2, <2>7, <2>8 DEF Good
\* A frame that takes the place of the last one.
<1>5. ASSUME A.bound.id = m.gen, ~A.bound.retired, A.bound.config,
             B \in Presents([SettlesHeld(C, "signalled") EXCEPT !.held = [frame |-> f, gen |-> m.gen]])
      PROVE  /\ Good(B) /\ Len(B.fate) = n
             /\ \A k \in 1 .. n : A.fate[k] # "held" /\ k # f => B.fate[k] = A.fate[k]
  <2> DEFINE S == SettlesHeld(A, "signalled")
             H == [k \in 1 .. n |-> IF k = f THEN "held" ELSE S.fate[k]]
             D == [S EXCEPT !.fate = H, !.held = [frame |-> f, gen |-> m.gen]]
  <2>1. Good(S) /\ Follows(A, S) /\ S.held = NoneHeld /\ S.up = A.up /\ S.bound = A.bound
    BY SettlesGood
  <2>2. S \in Programs /\ S.fate \in Seq(FrameFates) /\ Len(S.fate) = n /\ S.bound \in BoundTo
    BY <2>1 DEF Good, Follows, Programs
  <2>3. [SettlesHeld(C, "signalled") EXCEPT !.held = [frame |-> f, gen |-> m.gen]] = D
    <3>1. C = T("held") /\ C.held = A.held
      BY <1>1 DEF Programs
    <3>2. [S.fate EXCEPT ![f] = "held"] = H
      BY <1>1, <2>2
    <3>3. CASE A.held = NoneHeld
      <4>1. S = A /\ SettlesHeld(C, "signalled") = C
        BY <3>1, <3>3 DEF SettlesHeld
      <4>2. C = [S EXCEPT !.fate = H]
        BY <3>2, <4>1
      <4> HIDE DEF C, H, T, S
      <4>3. [[S EXCEPT !.fate = H] EXCEPT !.held = [frame |-> f, gen |-> m.gen]] = D
        BY <2>2 DEF Programs
      <4> QED BY <4>1, <4>2, <4>3
    <3>4. CASE A.held # NoneHeld
      <4> DEFINE g == A.held.frame
                 V == [A.fate EXCEPT ![g] = "signalled"]
      <4>1. g \in 1 .. n /\ A.fate[g] = "held" /\ g # f
        BY <1>2, <3>4 DEF Good
      <4>2. S = [[A EXCEPT !.fate = V] EXCEPT !.held = NoneHeld]
        <5>1. EndsFrame(A, g, "signalled")
                = [A EXCEPT !.fate = [A.fate EXCEPT ![g] = IF A.fate[g] = "held" THEN "signalled" ELSE "twice"]]
          BY DEF EndsFrame
        <5>2. EndsFrame(A, g, "signalled") = [A EXCEPT !.fate = V]
          BY <4>1, <5>1, Zenon
        <5>3. S = [EndsFrame(A, g, "signalled") EXCEPT !.held = NoneHeld]
          BY <3>4 DEF SettlesHeld
        <5> QED BY <5>2, <5>3, Zenon
      <4>3. S.fate = V
        BY <1>1, <4>2 DEF Programs
      <4>4. C.fate = [A.fate EXCEPT ![f] = "held"] /\ C.fate[g] = "held"
        <5>1. C.fate = [A.fate EXCEPT ![f] = "held"]
          BY <1>1 DEF Programs
        <5> QED BY <1>1, <4>1, <5>1
      <4>5. [C.fate EXCEPT ![g] = "signalled"] = H
        <5>1. H = [k \in 1 .. n |-> IF k = f THEN "held" ELSE V[k]]
          BY <4>3
        <5>2. V = [k \in 1 .. n |-> IF k = g THEN "signalled" ELSE A.fate[k]]
          BY <1>1
        <5>3. [C.fate EXCEPT ![g] = "signalled"]
                = [k \in 1 .. n |-> IF k = g THEN "signalled" ELSE IF k = f THEN "held" ELSE A.fate[k]]
          BY <1>1, <4>4, SMTT(40)
        <5> QED BY <4>1, <5>1, <5>2, <5>3
      <4>6. SettlesHeld(C, "signalled") = [[C EXCEPT !.fate = H] EXCEPT !.held = NoneHeld]
        <5>1. EndsFrame(C, g, "signalled")
                = [C EXCEPT !.fate = [C.fate EXCEPT ![g] = IF C.fate[g] = "held" THEN "signalled" ELSE "twice"]]
          BY DEF EndsFrame
        <5>2. EndsFrame(C, g, "signalled") = [C EXCEPT !.fate = H]
          BY <4>4, <4>5, <5>1, Zenon
        <5>3. SettlesHeld(C, "signalled") = [EndsFrame(C, g, "signalled") EXCEPT !.held = NoneHeld]
          BY <3>1, <3>4 DEF SettlesHeld
        <5> QED BY <5>2, <5>3, Zenon
      <4> HIDE DEF H, V
      <4>7. [[[C EXCEPT !.fate = H] EXCEPT !.held = NoneHeld] EXCEPT !.held = [frame |-> f, gen |-> m.gen]]
              = [A EXCEPT !.fate = H, !.held = [frame |-> f, gen |-> m.gen]]
        BY <1>1 DEF Programs
      <4>8. D = [A EXCEPT !.fate = H, !.held = [frame |-> f, gen |-> m.gen]]
        <5>1. D = [[[A EXCEPT !.fate = V] EXCEPT !.held = NoneHeld]
                     EXCEPT !.fate = H, !.held = [frame |-> f, gen |-> m.gen]]
          BY <4>2
        <5> QED BY <1>1, <5>1 DEF Programs
      <4> QED BY <4>6, <4>7, <4>8
    <3> QED BY <3>3, <3>4
  <2> HIDE DEF S
  <2>4. H \in Seq(FrameFates) /\ Len(H) = n /\ \A k \in 1 .. n : H[k] = IF k = f THEN "held" ELSE S.fate[k]
    <3>1. H \in [1 .. n -> FrameFates]
      BY <1>1, <2>2 DEF FrameFates
    <3> QED BY <1>1, <3>1
  <2> HIDE DEF H
  <2>5. m.gen \in Nat /\ f \in Nat
    BY <1>1, <1>5, <2>1, <2>2, SurfaceAssumption DEF BoundTo
  <2>6. [frame |-> f, gen |-> m.gen] \in HeldFrames /\ [frame |-> f, gen |-> m.gen] # NoneHeld
    BY <1>1, <2>5 DEF HeldFrames, NoneHeld
  <2>7. D \in Programs /\ D.fate = H /\ D.held.frame = f /\ D.held.gen = m.gen /\ D.up /\ D.bound = A.bound
    BY <2>1, <2>2, <2>4, <2>6 DEF Programs
  <2> HIDE DEF D
  <2>8. \A k \in 1 .. n : S.fate[k] # "held"
    BY <1>1, <2>1, <2>2 DEF Good, NoneHeld
  <2>9. Good(D)
    BY <1>1, <1>5, <2>4, <2>6, <2>7, <2>8, ZenonT(40) DEF Good
  <2>10. Good(B) /\ Follows(D, B)
    BY <1>5, <2>3, <2>9, PresentsGood
  <2>11. Len(B.fate) = n
    BY <2>4, <2>7, <2>10 DEF Follows
  <2>12. ASSUME NEW k \in 1 .. n, A.fate[k] # "held", k # f PROVE B.fate[k] = A.fate[k]
    <3>1. S.fate[k] = A.fate[k]
      BY <2>1, <2>12 DEF Follows
    <3>2. D.fate[k] = A.fate[k]
      BY <2>4, <2>7, <2>12, <3>1
    <3> QED BY <2>4, <2>7, <2>10, <2>12, <3>2 DEF Follows
  <2> QED BY <2>10, <2>11, <2>12
<1> HIDE DEF C
<1>6. \/ B = EndsFrame(C, f, "signalled") \/ B = EndsFrame(C, f, "closed")
      \/ /\ A.bound.id = m.gen /\ ~A.bound.retired /\ A.bound.config
         /\ B \in Presents([SettlesHeld(C, "signalled") EXCEPT !.held = [frame |-> f, gen |-> m.gen]])
  BY DEF HoldsFrame, C
<1> QED BY <1>4, <1>5, <1>6

LEMMA HandledGood ==
  ASSUME NEW A, Good(A), A.up, NEW m \in MailEvents,
         m.ev = "frame" => m.frame \in 1 .. Len(A.fate) /\ A.fate[m.frame] = "sent",
         NEW B \in Handled(A, m)
  PROVE  /\ Good(B) /\ Len(B.fate) = Len(A.fate)
         /\ \A f \in 1 .. Len(A.fate) : A.fate[f] # "held" /\ ~(m.ev = "frame" /\ f = m.frame) => B.fate[f] = A.fate[f]
<1>0. A \in Programs /\ A.bound \in BoundTo /\ m.gen \in 0 .. MaxBounds
  BY DEF Good, Programs, MailEvents
<1>1. CASE m.ev = "bind"
  <2> DEFINE R == RetiresAll(A)
             bd == [NoneBound EXCEPT !.id = m.gen]
             C == [R EXCEPT !.bound = bd]
  <2>1. Good(R) /\ Follows(A, R) /\ R.held = NoneHeld
    BY DisconnectsGood
  <2>2. B = C \/ B = Sends(A)
    BY <1>1 DEF Handled, BindsOutput
  <2>3. bd \in BoundTo
    BY <1>0 DEF NoneBound, BoundTo
  <2> HIDE DEF R, bd
  <2>4. R \in Programs
    BY <2>1 DEF Good
  <2>5. C \in Programs /\ C.held = R.held /\ C.fate = R.fate
    BY <2>3, <2>4 DEF Programs
  <2> HIDE DEF C
  <2>6. Good(C) /\ Follows(A, C)
    BY <2>1, <2>5, UnheldGood, FollowsOn
  <2>7. Good(B) /\ Follows(A, B)
    BY <2>2, <2>6, SendsGood
  <2> QED BY <2>7 DEF Follows
<1>2. CASE m.ev = "config"
  <2> DEFINE bd == [A.bound EXCEPT !.config = TRUE]
             C == [A EXCEPT !.bound = bd]
  <2>1. B = A \/ B = C
    BY <1>2 DEF Handled, ConfiguresFor
  <2>2. bd \in BoundTo /\ bd.id = A.bound.id /\ bd.config /\ bd.retired = A.bound.retired
    BY <1>0 DEF BoundTo
  <2> HIDE DEF bd
  <2>3. C \in Programs /\ C.held = A.held /\ C.fate = A.fate /\ C.up = A.up /\ C.bound = bd
    BY <1>0, <2>2 DEF Programs
  <2> HIDE DEF C
  <2>4. Good(C) /\ Len(C.fate) = Len(A.fate)
    BY <2>2, <2>3 DEF Good
  <2> QED BY <2>1, <2>3, <2>4
<1>3. CASE m.ev = "frame"
  <2>1. B \in HoldsFrame(A, m)
    BY <1>3 DEF Handled
  <2> QED BY <1>3, <2>1, HoldsGood
<1>4. CASE m.ev = "unbind"
  <2> DEFINE R == RetiresOne(A, m.gen)
  <2>1. Good(R) /\ Follows(A, R)
    BY RetiresOneGood
  <2>2. B = Sends(R)
    BY <1>4 DEF Handled
  <2> HIDE DEF R
  <2>3. Good(B) /\ Follows(A, B)
    BY <2>1, <2>2, SendsGood, FollowsOn
  <2> QED BY <2>3 DEF Follows
<1> QED BY <1>1, <1>2, <1>3, <1>4 DEF MailEvents

LEMMA ReadsKeeps == ASSUME SurfaceInv, ReadsEvent PROVE SurfaceInv'
<1> DEFINE m == Head(mail)
           q == Tail(mail)
           S == Handled(wl, m)
<1>1. Good(wl) /\ Mail(mail, wl.fate) /\ wl.up /\ mail # << >> /\ Runs(Lost(S))
      /\ mail' = IF wl'.up THEN q ELSE << >>
  BY DEF SurfaceInv, ReadsEvent
<1>2. /\ m \in MailEvents /\ Mail(q, wl.fate)
      /\ m.ev = "frame" => /\ m.frame \in 1 .. Len(wl.fate) /\ wl.fate[m.frame] = "sent"
                           /\ \A k \in Frames(q) : q[k].frame # m.frame
  BY <1>1, MailLess
<1> HIDE DEF m, q
<1>3. ASSUME NEW A \in S
      PROVE  /\ Good(A) /\ Len(A.fate) = Len(wl.fate)
             /\ \A f \in 1 .. Len(wl.fate) :
                  wl.fate[f] # "held" /\ (wl.fate[f] = "sent" => \E k \in Frames(q) : q[k].frame = f)
                    => A.fate[f] = wl.fate[f]
  BY <1>1, <1>2, <1>3, HandledGood
<1> HIDE DEF S
<1> QED BY <1>1, <1>2, <1>3, LostKeeps

LEMMA EndsKeeps == ASSUME SurfaceInv, ReadsEnd PROVE SurfaceInv'
<1> DEFINE A == Disconnects(wl)
<1>1. Good(A) /\ Follows(wl, A) /\ ~A.up
  BY DisconnectsGood DEF SurfaceInv
<1>2. Runs(Lost({A})) /\ mail' = << >>
  BY DEF ReadsEnd
<1> HIDE DEF A
<1> QED BY <1>1, <1>2, GivenUpKeeps

LEMMA LayerClosedKeeps == ASSUME SurfaceInv, LayerClosed PROVE SurfaceInv'
<1> DEFINE D == Disconnects(wl)
           A == [D EXCEPT !.layer = "none", !.show = NewLayer]
<1>1. Good(D) /\ Follows(wl, D) /\ ~D.up
  BY DisconnectsGood DEF SurfaceInv
<1>2. Runs(Lost({A})) /\ mail' = << >>
  BY DEF LayerClosed
<1> HIDE DEF D
<1>3. NewLayer \in Shows /\ 0 \in 0 .. MaxPosts
  BY SurfaceAssumption, SMTT(40) DEF NewLayer, Shows
<1>4. Good(A) /\ Follows(D, A)
  BY <1>1, <1>3, ShownGood
<1>5. ~A.up
  BY <1>1 DEF Good, Programs
<1> HIDE DEF A
<1> QED BY <1>1, <1>2, <1>4, <1>5, FollowsOn, GivenUpKeeps

LEMMA ReconnectsKeeps == ASSUME SurfaceInv, Reconnected PROVE SurfaceInv'
<1>1. wl \in Programs /\ Good(wl) /\ ~wl.up /\ wl' = [wl EXCEPT !.up = TRUE] /\ peerOpen' = TRUE
      /\ posted' = [posted EXCEPT !.now = 0] /\ UNCHANGED << drawing, mail >> /\ mail = << >>
  BY DEF SurfaceInv, Good, Reconnected
<1>2. wl' \in Programs /\ wl'.held = wl.held /\ wl'.fate = wl.fate /\ wl'.bound = wl.bound
  BY <1>1 DEF Programs
<1>3. Good(wl')
  BY <1>1, <1>2 DEF Good
<1>4. Mail(mail', wl'.fate)
  BY <1>1, NoMail
<1>5. posted' \in [last : 0 .. MaxBounds, now : 0 .. MaxBounds]
  BY <1>1, SurfaceAssumption DEF SurfaceInv
<1> QED BY <1>1, <1>2, <1>3, <1>4, <1>5 DEF SurfaceInv

LEMMA ConfiguredKeeps == ASSUME SurfaceInv, LayerConfigured PROVE SurfaceInv'
<1> DEFINE A == [wl EXCEPT !.layer = "configured", !.show.unacked = TRUE]
           w == [wl.show EXCEPT !.unacked = TRUE]
           S == UNION {IF W.show.window THEN Drawn(W, 0) ELSE {W} : W \in Windowed(Disconnects(A))}
           P == UNION {Presents(W) : W \in Windowed(A)}
           T == {Sends(B) : B \in P}
<1>1. Good(wl) /\ wl.show \in Shows /\ 0 \in 0 .. MaxPosts /\ Mail(mail, wl.fate)
  BY SurfaceAssumption DEF SurfaceInv, Good, Programs
<1>2. w \in Shows
  BY <1>1 DEF Shows
<1>3. Good(A) /\ Follows(wl, A)
  <2>1. A = [wl EXCEPT !.layer = "configured", !.show = w]
    OBVIOUS
  <2> HIDE DEF w, A
  <2> QED BY <1>1, <1>2, <2>1, ShownGood
<1>4. CASE wl.layer = "made"
  <2>1. Runs(Lost(S)) /\ mail' = IF wl'.up THEN mail ELSE << >>
    BY <1>4 DEF LayerConfigured
  <2> DEFINE D == Disconnects(A)
  <2> HIDE DEF A
  <2>2. Good(D) /\ Follows(wl, D)
    BY <1>3, DisconnectsGood, FollowsOn
  <2> HIDE DEF D
  <2>3. ASSUME NEW B \in S PROVE Good(B) /\ Follows(wl, B)
    <3>1. PICK W \in Windowed(D) : B = W \/ B \in Drawn(W, 0)
      BY <2>3 DEF D
    <3>2. Good(W) /\ Follows(wl, W)
      BY <2>2, <3>1, WindowedGood, FollowsOn
    <3> QED BY <1>1, <3>1, <3>2, DrawnGood, FollowsOn
  <2> HIDE DEF S
  <2>4. \A B \in S : /\ Good(B) /\ Len(B.fate) = Len(wl.fate)
                     /\ \A f \in 1 .. Len(wl.fate) :
                          wl.fate[f] # "held" /\ (wl.fate[f] = "sent" => \E k \in Frames(mail) : mail[k].frame = f)
                            => B.fate[f] = wl.fate[f]
    BY <2>3 DEF Follows
  <2> QED BY <1>1, <2>1, <2>4, LostKeeps
<1>5. CASE wl.layer # "made"
  <2>1. Runs(Lost(T)) /\ mail' = IF wl'.up THEN mail ELSE << >>
    BY <1>5 DEF LayerConfigured
  <2> HIDE DEF A
  <2>2. ASSUME NEW B \in P PROVE Good(B) /\ Follows(wl, B)
    <3>1. PICK W \in Windowed(A) : B \in Presents(W)
      BY <2>2
    <3>2. Good(W) /\ Follows(wl, W)
      BY <1>3, <3>1, WindowedGood, FollowsOn
    <3> QED BY <3>1, <3>2, PresentsGood, FollowsOn
  <2> HIDE DEF P
  <2>3. ASSUME NEW B \in T PROVE Good(B) /\ Follows(wl, B)
    <3>1. PICK C \in P : B = Sends(C)
      BY <2>3
    <3> QED BY <2>2, <3>1, SendsGood, FollowsOn
  <2> HIDE DEF T
  <2>4. \A B \in T : /\ Good(B) /\ Len(B.fate) = Len(wl.fate)
                     /\ \A f \in 1 .. Len(wl.fate) :
                          wl.fate[f] # "held" /\ (wl.fate[f] = "sent" => \E k \in Frames(mail) : mail[k].frame = f)
                            => B.fate[f] = wl.fate[f]
    BY <2>3 DEF Follows
  <2> QED BY <1>1, <2>1, <2>4, LostKeeps
<1> QED BY <1>4, <1>5

\* Only what is shown changes.
LEMMA ShowsKeeps ==
  ASSUME SurfaceInv, NEW S, Runs(S), UNCHANGED mail, \A B \in S : Good(B) /\ Follows(wl, B) /\ B.up = wl.up
  PROVE  SurfaceInv'
<1>1. PICK B \in S : wl' = B
  BY DEF Runs
<1>2. mail' = IF wl'.up THEN mail ELSE << >>
  BY <1>1 DEF SurfaceInv
<1> QED BY <1>2, FollowsKeeps

LEMMA LayerShowsKeeps ==
  ASSUME SurfaceInv, LayerMade \/ FrameCallback \/ PeriodEnds \/ FlushesSwap PROVE SurfaceInv'
<1>1. Good(wl) /\ wl \in Programs /\ wl.show \in Shows /\ 0 \in 0 .. MaxPosts
  BY SurfaceAssumption DEF SurfaceInv, Good, Programs
<1>2. CASE LayerMade
  <2> DEFINE A == [wl EXCEPT !.layer = "made"]
             S == {A}
  <2>1. Good(A) /\ Follows(wl, A)
    BY <1>1, ShownGood
  <2>2. A.up = wl.up
    BY <1>1 DEF Programs
  <2>3. Runs(S) /\ UNCHANGED mail
    BY <1>2 DEF LayerMade
  <2>4. \A B \in S : B = A
    OBVIOUS
  <2> HIDE DEF A, S
  <2> QED BY <2>1, <2>2, <2>3, <2>4, ShowsKeeps, SMTT(40)
<1>3. CASE FrameCallback
  <2> DEFINE w == [wl.show EXCEPT !.callback = FALSE, !.awaiting = FALSE]
             A == [wl EXCEPT !.show = w]
             S == Posts(A)
  <2>1. w \in Shows
    BY <1>1 DEF Shows
  <2>2. Runs(S) /\ UNCHANGED mail
    BY <1>3 DEF FrameCallback
  <2> HIDE DEF w
  <2>3. Good(A) /\ Follows(wl, A)
    BY <1>1, <2>1, ShownGood
  <2>4. A.up = wl.up
    BY <1>1 DEF Programs
  <2> HIDE DEF A
  <2>5. \A B \in S : Good(B) /\ Follows(wl, B) /\ B.up = wl.up
    BY <2>3, <2>4, PostsGood, FollowsOn
  <2> HIDE DEF S
  <2> QED BY <2>2, <2>5, ShowsKeeps
<1>4. CASE PeriodEnds
  <2> DEFINE w == [wl.show EXCEPT !.over = TRUE]
             A == [wl EXCEPT !.show = w]
             S == {A}
  <2>1. w \in Shows
    BY <1>1 DEF Shows
  <2>2. Runs(S) /\ UNCHANGED mail
    BY <1>4 DEF PeriodEnds
  <2> HIDE DEF w
  <2>3. Good(A) /\ Follows(wl, A)
    BY <1>1, <2>1, ShownGood
  <2>4. A.up = wl.up
    BY <1>1 DEF Programs
  <2>5. \A B \in S : B = A
    OBVIOUS
  <2> HIDE DEF A, S
  <2> QED BY <2>2, <2>3, <2>4, <2>5, ShowsKeeps
<1>5. CASE FlushesSwap
  <2>1. Runs(Posts(wl)) /\ UNCHANGED mail
    BY <1>5 DEF FlushesSwap
  <2>2. \A B \in Posts(wl) : Good(B) /\ Follows(wl, B) /\ B.up = wl.up
    BY <1>1, PostsGood
  <2> QED BY <2>1, <2>2, ShowsKeeps
<1> QED BY <1>2, <1>3, <1>4, <1>5

LEMMA DrawEndsKeeps == ASSUME SurfaceInv, DrawEnds PROVE SurfaceInv'
BY DEF SurfaceInv, DrawEnds

LEMMA SurfaceInvStep == ASSUME SurfaceInv, SurfaceNext PROVE SurfaceInv'
BY PostsKeeps, HangsUpKeeps, ReadsKeeps, EndsKeeps, ReconnectsKeeps, LayerShowsKeeps, ConfiguredKeeps,
   LayerClosedKeeps, DrawEndsKeeps
DEF SurfaceNext

-----------------------------------------------------------------------------
(* The outputs of the layer-shell consumer.                                 *)

SlotLives   == {"known", "layer", "shown", "closed", "gone"}
SlotRecords == [life : SlotLives, monitor : Nat, desc : Nat, id : Nat, registered : BOOLEAN, outputId : Nat]
UsedSlots(q) == {s \in DOMAIN q : q[s].life \notin {"gone", "closed"}}

\* Slots of P monitors: each monitor has one.
KeptSlots(q, P) ==
  /\ q \in Seq(SlotRecords) /\ Len(q) <= MaxSlots
  /\ \A s \in DOMAIN q : q[s].id \in 1 .. s /\ q[s].monitor \in 1 .. P /\ q[s].outputId \in 0 .. P
  /\ \A r, s \in DOMAIN q : q[r].monitor = q[s].monitor => r = s

\* An output that has not been counted yet is one without a surface; below it all have
\* the numbers of their places.
NumberedSlots(q) ==
  /\ \A s \in UsedSlots(q) :
       q[s].life # "known" /\ (\A r \in DOMAIN q : r < s => q[r].life # "known") => q[s].id = UpTo(UsedSlots(q), s)
  /\ \A r, s \in UsedSlots(q) : r < s /\ q[r].life # "known" => q[r].id < q[s].id

FitSlots(q, P) == KeptSlots(q, P) /\ NumberedSlots(q)

\* Slots of no connection: the flags that are set are those of a loop that failed.
OffSlots(q) == \A s \in DOMAIN q : q[s].outputId = 0 /\ (q[s].registered => q[s].monitor \in unsent)

\* The monitor m is that of an output that can be shown.
ShownIn(q, m) == \E s \in DOMAIN q : q[s].life = "shown" /\ q[s].monitor = m

\* The number of a message is that of an output whose answer is due.
Booked(q, e) == \E s \in DOMAIN q : Waits(q, s) /\ q[s].monitor = e.monitor /\ q[s].id = e.id

\* The daemon has slot s, or will.
Enlisted(q, s) == q[s].monitor \in DOMAIN daemonHas \/ \E k \in DOMAIN requests : requests[k].monitor = q[s].monitor

\* The daemon has the description of slot s, or will have read it last.
Told(q, s) ==
  \/ \E k \in DOMAIN requests :
       /\ requests[k].monitor = q[s].monitor /\ requests[k].desc = q[s].desc
       /\ \A j \in DOMAIN requests : j > k => requests[j].monitor # q[s].monitor
  \/ /\ \A k \in DOMAIN requests : requests[k].monitor # q[s].monitor
     /\ q[s].monitor \in DOMAIN daemonHas /\ daemonHas[q[s].monitor] = q[s].desc

Answered(q, s) ==
  \/ q[s].outputId = q[s].monitor
  \/ /\ q[s].outputId = 0
     /\ q[s].monitor \in DOMAIN daemonHas => \E k \in DOMAIN accepts : accepts[k].monitor = q[s].monitor

Registrations == [id : Nat, monitor : Nat, desc : Nat]
Accepts       == [id : Nat, monitor : Nat]

\* What is on its way between the two ends.
LinkTypes ==
  /\ transports \in Nat /\ transport \in 0 .. transports /\ hearing \in BOOLEAN
  /\ requests \in Seq(Registrations) /\ accepts \in Seq(Accepts)
  /\ transport = 0 => ~hearing /\ requests = << >> /\ accepts = << >> /\ DOMAIN daemonHas = {}

\* A connection on which numbers were muddled: every message is of an output that can be
\* shown, and none of them is forgotten, but for those a failing loop marked.
LinkedSlots(q) ==
  /\ \A s \in DOMAIN q : q[s].life = "shown" => q[s].registered
  /\ \A k \in DOMAIN requests : ShownIn(q, requests[k].monitor)
  /\ \A m \in DOMAIN daemonHas : ShownIn(q, m)
  /\ \A s \in DOMAIN q : q[s].outputId # 0 => q[s].outputId \in DOMAIN daemonHas
  /\ \A k \in DOMAIN accepts : accepts[k].monitor \in DOMAIN daemonHas
  /\ \A j, k \in DOMAIN accepts : accepts[j].monitor = accepts[k].monitor => j = k
  /\ hearing => \A s \in DOMAIN q : q[s].life = "shown" /\ q[s].monitor \notin unsent => Enlisted(q, s)

\* One on which none was: the answers find the outputs they are for.
OrderlySlots(q) ==
  /\ \A s \in DOMAIN q : Waits(q, s) => NamesFirst(q, s)
  /\ \A k \in DOMAIN requests : requests[k].monitor \notin DOMAIN daemonHas => Booked(q, requests[k])
  /\ \A k \in DOMAIN accepts : Booked(q, accepts[k])
  /\ \A s \in DOMAIN q : q[s].life = "shown" => Answered(q, s)
  /\ hearing => \A s \in DOMAIN q :
       q[s].life = "shown" /\ q[s].monitor \notin unsent \cup untold => Told(q, s)

OutputsLinked(q) ==
  /\ transport = 0 => OffSlots(q)
  /\ transport # 0 => LinkedSlots(q) /\ (muddled = {} => OrderlySlots(q))

PointerFits(q) == pointer \in 0 .. Len(q) /\ (pointer # 0 => q[pointer].life \in {"layer", "shown"})

OutputsInv ==
  /\ plugs \in 0 .. MaxPlugs /\ turns \in Nat
  /\ FitSlots(slots, plugs) /\ PointerFits(slots)
  /\ LinkTypes /\ OutputsLinked(slots)

LEMMA OutputBounds == MaxSlots \in Nat /\ MaxPlugs \in Nat /\ MaxTurns \in Nat /\ MaxTransports \in Nat
BY OutputsAssumption

-----------------------------------------------------------------------------
(* Slots.                                                                   *)

LEMMA UsedIsSet ==
  ASSUME NEW q \in Seq(SlotRecords)
  PROVE  UsedSlots(q) \in SUBSET (1 .. Len(q)) /\ Len(q) \in Nat /\ DOMAIN q = 1 .. Len(q)
BY DEF UsedSlots

\* A place is not above its position.
LEMMA PlaceIsLow ==
  ASSUME NEW n \in Nat, NEW K \in SUBSET (1 .. n), NEW i \in K PROVE UpTo(K, i) \in 1 .. i
<1> DEFINE D == {r \in K : r <= i}
<1>1. i \in Nat /\ D \in SUBSET (1 .. i)
  <2>1. \A r \in K : r \in Nat /\ 1 <= r
    OBVIOUS
  <2>2. \A r \in D : r \in Nat /\ 1 <= r /\ r <= i
    BY <2>1
  <2>3. i \in Nat
    BY <2>1
  <2> HIDE DEF D
  <2>4. \A r \in D : r \in 1 .. i
    BY <2>2, <2>3
  <2> QED BY <2>3, <2>4
<1>2. IsFiniteSet(1 .. i) /\ Cardinality(1 .. i) = i
  BY <1>1, FS_Interval
<1>3. Cardinality(D) <= Cardinality(1 .. i)
  BY <1>1, <1>2, FS_Subset
<1>4. UpTo(K, i) = Cardinality(D)
  BY DEF UpTo
<1>5. UpTo(K, i) \in 1 .. Cardinality(K) /\ Cardinality(K) \in Nat
  BY UpToGrows, FewPositions
<1> HIDE DEF D
<1> QED BY <1>1, <1>2, <1>3, <1>4, <1>5

\* The least of some positions.
LEMMA LeastPosition ==
  ASSUME NEW n \in Nat, NEW K \in SUBSET (1 .. n), K # {}
  PROVE  LET l == CHOOSE i \in K : \A j \in K : i <= j IN l \in K /\ \A j \in K : l <= j
<1> DEFINE f == InOrder(K)[1]
           N == Cardinality(K)
<1>1. IsFiniteSet(K) /\ N \in Nat /\ K \subseteq Nat
  BY FewPositions
<1>2. PICK i \in K : TRUE
  OBVIOUS
<1>3. 1 \in 1 .. N
  <2>1. UpTo(K, i) \in 1 .. N
    BY UpToGrows
  <2> QED BY <1>1, <2>1
<1>4. f \in K
  BY <1>3, InOrderCounts
<1>5. ASSUME NEW j \in K PROVE f <= j
  <2>1. UpTo(K, j) \in 1 .. N /\ InOrder(K)[UpTo(K, j)] = j
    BY InOrderLists
  <2>2. UpTo(K, j) = 1 \/ 1 < UpTo(K, j)
    BY <1>1, <2>1
  <2>3. CASE UpTo(K, j) = 1
    <3>1. f = j
      BY <2>1, <2>3
    <3> QED BY <1>1, <1>4, <3>1
  <2>4. CASE 1 < UpTo(K, j)
    <3>1. f < j
      BY <1>3, <2>1, <2>4, InOrderLists
    <3>2. f \in Nat /\ j \in Nat
      BY <1>1, <1>4
    <3> HIDE DEF f
    <3> QED BY <3>1, <3>2
  <2> QED BY <2>2, <2>3, <2>4
<1> HIDE DEF f
<1> QED BY <1>4, <1>5

\* Counting anew.
LEMMA Renumbers ==
  ASSUME NEW q \in Seq(SlotRecords)
  PROVE  LET z == Renumbered(q) IN
         /\ z \in Seq(SlotRecords) /\ Len(z) = Len(q) /\ DOMAIN z = DOMAIN q /\ UsedSlots(z) = UsedSlots(q)
         /\ \A s \in DOMAIN q :
              /\ z[s].life = q[s].life /\ z[s].monitor = q[s].monitor /\ z[s].desc = q[s].desc
              /\ z[s].registered = q[s].registered /\ z[s].outputId = q[s].outputId
              /\ z[s].id = IF s \in UsedSlots(q) THEN UpTo(UsedSlots(q), s) ELSE q[s].id
<1> DEFINE U == UsedSlots(q)
           z == Renumbered(q)
<1>1. U \in SUBSET (1 .. Len(q)) /\ Len(q) \in Nat /\ DOMAIN q = 1 .. Len(q)
  BY UsedIsSet
<1>2. z = [s \in 1 .. Len(q) |-> IF s \in U THEN [q[s] EXCEPT !.id = UpTo(U, s)] ELSE q[s]]
  BY <1>1 DEF Renumbered, UsedSlots
<1>3. \A s \in U : UpTo(U, s) \in Nat
  <2>1. \A s \in U : UpTo(U, s) \in 1 .. s /\ s \in Nat
    <3> HIDE DEF U
    <3>1. \A s \in U : UpTo(U, s) \in 1 .. s
      BY <1>1, PlaceIsLow
    <3>2. \A s \in U : s \in Nat
      BY <1>1
    <3> QED BY <3>1, <3>2
  <2> HIDE DEF U
  <2> QED BY <2>1
<1> HIDE DEF U
<1>4. ASSUME NEW s \in 1 .. Len(q)
      PROVE  /\ z[s] \in SlotRecords
             /\ z[s].life = q[s].life /\ z[s].monitor = q[s].monitor /\ z[s].desc = q[s].desc
             /\ z[s].registered = q[s].registered /\ z[s].outputId = q[s].outputId
             /\ z[s].id = IF s \in U THEN UpTo(U, s) ELSE q[s].id
  <2>1. q[s] \in SlotRecords
    OBVIOUS
  <2> DEFINE e == q[s]
             n == UpTo(U, s)
  <2>2. z[s] = IF s \in U THEN [e EXCEPT !.id = n] ELSE e
    BY <1>2
  <2>3. s \in U => n \in Nat
    BY <1>3
  <2> HIDE DEF e, n, z
  <2>4. e \in SlotRecords
    BY <2>1 DEF e
  <2>5. /\ z[s] \in SlotRecords
        /\ z[s].life = e.life /\ z[s].monitor = e.monitor /\ z[s].desc = e.desc
        /\ z[s].registered = e.registered /\ z[s].outputId = e.outputId
        /\ z[s].id = IF s \in U THEN n ELSE e.id
    BY <2>2, <2>3, <2>4 DEF SlotRecords
  <2> QED BY <2>5 DEF e, n
<1>5. z \in [1 .. Len(q) -> SlotRecords]
  BY <1>2, <1>4
<1> HIDE DEF z
<1>6. z \in Seq(SlotRecords) /\ Len(z) = Len(q) /\ DOMAIN z = DOMAIN q
  BY <1>1, <1>5
<1>7. UsedSlots(z) = UsedSlots(q)
  BY <1>1, <1>4, <1>6 DEF UsedSlots
<1> QED BY <1>1, <1>4, <1>6, <1>7 DEF z, U

\* Slots that are counted anew fit.
LEMMA RenumberedFits ==
  ASSUME NEW P \in Nat, NEW q, KeptSlots(q, P) PROVE FitSlots(Renumbered(q), P)
<1> DEFINE U == UsedSlots(q)
           z == Renumbered(q)
<1>1. q \in Seq(SlotRecords)
  BY DEF KeptSlots
<1>2. U \in SUBSET (1 .. Len(q)) /\ Len(q) \in Nat /\ DOMAIN q = 1 .. Len(q)
  BY <1>1, UsedIsSet
<1>3. /\ z \in Seq(SlotRecords) /\ Len(z) = Len(q) /\ DOMAIN z = DOMAIN q /\ UsedSlots(z) = U
      /\ \A s \in DOMAIN q :
           /\ z[s].life = q[s].life /\ z[s].monitor = q[s].monitor /\ z[s].desc = q[s].desc
           /\ z[s].registered = q[s].registered /\ z[s].outputId = q[s].outputId
           /\ z[s].id = IF s \in U THEN UpTo(U, s) ELSE q[s].id
  BY <1>1, Renumbers
<1>4. \A s \in U : UpTo(U, s) \in 1 .. s
  BY <1>2, PlaceIsLow
<1>5. \A r, s \in U : r < s => UpTo(U, r) < UpTo(U, s)
  BY <1>2, UpToLater
<1> HIDE DEF U, z
<1>6. KeptSlots(z, P)
  <2>1. \A s \in DOMAIN z : z[s].id \in 1 .. s /\ z[s].monitor \in 1 .. P /\ z[s].outputId \in 0 .. P
    BY <1>3, <1>4 DEF KeptSlots
  <2> QED BY <1>3, <2>1 DEF KeptSlots
<1>7. U \subseteq DOMAIN q
  BY <1>2
<1>8. NumberedSlots(z)
  <2>1. \A s \in U : z[s].id = UpTo(U, s)
    BY <1>3, <1>7
  <2> QED BY <1>3, <1>5, <2>1 DEF NumberedSlots
<1> QED BY <1>6, <1>8 DEF FitSlots, z

\* Another life for a slot.
LEMMA LifeSet ==
  ASSUME NEW q \in Seq(SlotRecords), NEW s \in DOMAIN q, NEW l \in SlotLives
  PROVE  LET z == [q EXCEPT ![s].life = l] IN
         /\ z \in Seq(SlotRecords) /\ Len(z) = Len(q) /\ DOMAIN z = DOMAIN q /\ z[s].life = l
         /\ \A t \in DOMAIN q :
              /\ t # s => z[t] = q[t]
              /\ z[t].id = q[t].id /\ z[t].monitor = q[t].monitor /\ z[t].desc = q[t].desc
              /\ z[t].registered = q[t].registered /\ z[t].outputId = q[t].outputId
<1> DEFINE e == [q[s] EXCEPT !.life = l]
           z == [q EXCEPT ![s] = e]
<1>1. q[s] \in SlotRecords /\ DOMAIN q = 1 .. Len(q) /\ Len(q) \in Nat
  OBVIOUS
<1>2. /\ e \in SlotRecords /\ e.life = l /\ e.id = q[s].id /\ e.monitor = q[s].monitor /\ e.desc = q[s].desc
      /\ e.registered = q[s].registered /\ e.outputId = q[s].outputId
  BY <1>1 DEF SlotRecords
<1>3. [q EXCEPT ![s].life = l] = z
  OBVIOUS
<1> HIDE DEF e
<1>4. z \in Seq(SlotRecords) /\ Len(z) = Len(q) /\ DOMAIN z = DOMAIN q
  BY <1>2
<1>5. z[s] = e /\ \A t \in DOMAIN q : t # s => z[t] = q[t]
  OBVIOUS
<1> HIDE DEF z
<1> QED BY <1>2, <1>3, <1>4, <1>5

\* A slot that is not registered.
LEMMA FlagsForgotten ==
  ASSUME NEW e \in SlotRecords
  PROVE  LET z == [e EXCEPT !.registered = FALSE, !.outputId = 0] IN
         /\ z \in SlotRecords /\ z.life = e.life /\ z.monitor = e.monitor /\ z.id = e.id
         /\ z.registered = FALSE /\ z.outputId = 0
<1> DEFINE z == [e EXCEPT !.registered = FALSE, !.outputId = 0]
<1>1. z \in SlotRecords
  BY DEF SlotRecords
<1>2. z.life = e.life /\ z.monitor = e.monitor /\ z.id = e.id
  BY DEF SlotRecords
<1>3. z.registered = FALSE /\ z.outputId = 0
  BY DEF SlotRecords
<1> QED BY <1>1, <1>2, <1>3

\* Slots that differ in what is on its way only.
LEMMA SameFits ==
  ASSUME NEW P \in Nat, NEW q, FitSlots(q, P), NEW z \in Seq(SlotRecords), Len(z) = Len(q),
         \A s \in DOMAIN q : z[s].life = q[s].life /\ z[s].monitor = q[s].monitor /\ z[s].id = q[s].id
                             /\ z[s].outputId \in 0 .. P
  PROVE  FitSlots(z, P) /\ UsedSlots(z) = UsedSlots(q) /\ DOMAIN z = DOMAIN q
<1>1. q \in Seq(SlotRecords)
  BY DEF FitSlots, KeptSlots
<1>2. DOMAIN q = 1 .. Len(q) /\ DOMAIN z = DOMAIN q
  BY <1>1
<1>3. UsedSlots(z) = UsedSlots(q) /\ UsedSlots(q) \subseteq DOMAIN q
  BY <1>2 DEF UsedSlots
<1>4. KeptSlots(z, P)
  BY <1>2 DEF FitSlots, KeptSlots
<1>5. NumberedSlots(z)
  BY <1>2, <1>3 DEF FitSlots, NumberedSlots
<1> QED BY <1>2, <1>3, <1>4, <1>5 DEF FitSlots

LEMMA ForgetsFits ==
  ASSUME NEW P \in Nat, NEW q, FitSlots(q, P)
  PROVE  LET z == Forgotten(q) IN
         /\ FitSlots(z, P) /\ DOMAIN z = DOMAIN q /\ Len(z) = Len(q)
         /\ \A s \in DOMAIN q : z[s].life = q[s].life /\ ~z[s].registered /\ z[s].outputId = 0
<1> DEFINE z == Forgotten(q)
<1>1. q \in Seq(SlotRecords) /\ DOMAIN q = 1 .. Len(q) /\ Len(q) \in Nat
  BY DEF FitSlots, KeptSlots
<1>2. z = [s \in 1 .. Len(q) |-> [q[s] EXCEPT !.registered = FALSE, !.outputId = 0]]
  BY <1>1 DEF Forgotten
<1>3. \A s \in 1 .. Len(q) :
        /\ z[s] \in SlotRecords /\ z[s].life = q[s].life /\ z[s].monitor = q[s].monitor /\ z[s].id = q[s].id
        /\ ~z[s].registered /\ z[s].outputId = 0
  <2> TAKE s \in 1 .. Len(q)
  <2>1. q[s] \in SlotRecords
    BY <1>1
  <2> DEFINE e == q[s]
  <2>2. z[s] = [e EXCEPT !.registered = FALSE, !.outputId = 0]
    BY <1>2
  <2>3. e \in SlotRecords
    BY <2>1
  <2> HIDE DEF e, z
  <2>4. /\ z[s] \in SlotRecords /\ z[s].life = e.life /\ z[s].monitor = e.monitor /\ z[s].id = e.id
        /\ z[s].registered = FALSE /\ z[s].outputId = 0
    BY <2>2, <2>3, FlagsForgotten
  <2> QED BY <2>4 DEF e
<1>4. z \in [1 .. Len(q) -> SlotRecords]
  BY <1>2, <1>3
<1> HIDE DEF z
<1>5. z \in Seq(SlotRecords) /\ Len(z) = Len(q) /\ DOMAIN z = DOMAIN q
  BY <1>1, <1>4
<1>6. 0 \in 0 .. P
  OBVIOUS
<1>7. FitSlots(z, P)
  BY <1>1, <1>3, <1>5, <1>6, SameFits
<1> QED BY <1>1, <1>3, <1>5, <1>7 DEF z

-----------------------------------------------------------------------------
(* The connection of the outputs, and what the slots are for it.            *)

LEMMA SlotsFacts ==
  OutputsInv => /\ slots \in Seq(SlotRecords) /\ DOMAIN slots = 1 .. Len(slots) /\ Len(slots) \in Nat
                /\ plugs \in Nat /\ Slot = DOMAIN slots /\ FitSlots(slots, plugs) /\ PointerFits(slots)
                /\ UsedSlots(slots) \subseteq DOMAIN slots
BY OutputBounds DEF OutputsInv, FitSlots, KeptSlots, Slot, UsedSlots

\* A connection that is orderly after a step was so before it, and the numbers of the
\* outputs that wait were left alone.
LEMMA OrderRecalled ==
  ASSUME Recalled, transport' # 0, muddled' = {}
  PROVE  /\ muddled = {}
         /\ \A s \in DOMAIN slots' : Waits(slots', s) => NamesFirst(slots', s)
         /\ \A s \in DOMAIN slots' : Waits(slots', s) /\ s \in DOMAIN slots /\ Waits(slots, s)
                                     => slots'[s].id = slots[s].id
<1> DEFINE due == {s \in DOMAIN slots' : Waits(slots', s)}
           moved == {how \in {"moved"} : \E s \in due : Moves(s)}
           shared == {how \in {"shared"} : \E s \in due : Shares(s)}
<1>1. muddled' = muddled \cup moved \cup shared
  BY DEF Recalled
<1>2. muddled = {} /\ moved = {} /\ shared = {}
  BY <1>1
<1>3. \A s \in due : ~Moves(s) /\ ~Shares(s)
  BY <1>2
<1> QED BY <1>2, <1>3 DEF Moves, Shares, Slot

\* A connection that ended leaves nothing on its way.
LEMMA HangsKeeps ==
  ASSUME NEW q, Hangs(q), LinkTypes, plugs' \in 0 .. MaxPlugs, turns' \in Nat, FitSlots(q, plugs'),
         pointer' \in 0 .. Len(q), pointer' # 0 => q[pointer'].life \in {"layer", "shown"}
  PROVE  OutputsInv'
<1> DEFINE z == Forgotten(q)
<1>1. plugs' \in Nat
  BY OutputBounds
<1>2. /\ FitSlots(z, plugs') /\ DOMAIN z = DOMAIN q /\ Len(z) = Len(q)
      /\ \A s \in DOMAIN q : z[s].life = q[s].life /\ ~z[s].registered /\ z[s].outputId = 0
  BY <1>1, ForgetsFits
<1> HIDE DEF z
<1>3. slots' = z /\ transport' = 0 /\ hearing' = FALSE /\ requests' = << >> /\ accepts' = << >>
      /\ daemonHas' = << >> /\ transports' = transports
  BY DEF Hangs, z
<1>4. LinkTypes'
  <2>1. DOMAIN daemonHas' = {} /\ requests' \in Seq(Registrations) /\ accepts' \in Seq(Accepts)
    BY <1>3
  <2>2. transports' \in Nat /\ transport' \in 0 .. transports'
    BY <1>3 DEF LinkTypes
  <2>3. hearing' \in BOOLEAN /\ ~hearing' /\ requests' = << >> /\ accepts' = << >>
    BY <1>3
  <2> QED BY <2>1, <2>2, <2>3 DEF LinkTypes
<1>5. DOMAIN q = 1 .. Len(q) /\ Len(q) \in Nat
  BY DEF FitSlots, KeptSlots
<1>6. PointerFits(slots)'
  <2>1. pointer' # 0 => pointer' \in DOMAIN q
    BY <1>5
  <2> QED BY <1>2, <1>3, <2>1 DEF PointerFits
<1>7. OffSlots(slots)'
  BY <1>2, <1>3 DEF OffSlots
<1>8. OutputsLinked(slots)'
  BY <1>3, <1>7 DEF OutputsLinked
<1> QED BY <1>2, <1>3, <1>4, <1>6, <1>8 DEF OutputsInv

\* The flags of slots q are those they had, or none.
Carried(q) ==
  \A s \in DOMAIN q :
    \/ ~q[s].registered /\ q[s].outputId = 0
    \/ /\ s \in DOMAIN slots /\ q[s].monitor = slots[s].monitor
       /\ q[s].registered = slots[s].registered /\ q[s].outputId = slots[s].outputId

\* Slot s is shown in q as it was before, and what changed of it was put down.
SameShown(q, s) ==
  /\ s \in DOMAIN q /\ s \in DOMAIN slots /\ q[s].life = "shown" /\ slots[s].life = "shown"
  /\ q[s].monitor = slots[s].monitor
  /\ q[s].registered = slots[s].registered /\ q[s].outputId = slots[s].outputId
  /\ q[s].desc = slots[s].desc \/ q[s].monitor \in untold'

\* Slots that change while the connection stays: those that are shown are the same.
LEMMA StaysKeeps ==
  ASSUME OutputsInv, Recalled, NEW q, slots' = q, SameTransport, requests' = requests, untold \subseteq untold',
         plugs' \in 0 .. MaxPlugs, turns' \in Nat, FitSlots(q, plugs'),
         pointer' \in 0 .. Len(q), pointer' # 0 => q[pointer'].life \in {"layer", "shown"},
         Carried(q),
         transport # 0 => /\ \A s \in DOMAIN q : q[s].life = "shown" => SameShown(q, s)
                          /\ \A s \in DOMAIN slots : slots[s].life = "shown" => SameShown(q, s)
  PROVE  OutputsInv'
<1>1. /\ transport' = transport /\ transports' = transports /\ hearing' = hearing
      /\ accepts' = accepts /\ daemonHas' = daemonHas /\ unsent' = unsent
  BY DEF SameTransport
<1>2. LinkTypes' /\ LinkTypes
  BY <1>1 DEF OutputsInv, LinkTypes
<1>3. PointerFits(slots)'
  BY DEF PointerFits
<1>4. CASE transport = 0
  <2>1. OffSlots(slots)
    BY <1>4 DEF OutputsInv, OutputsLinked
  <2>2. OffSlots(slots)'
    BY <1>1, <2>1 DEF OffSlots, Carried
  <2>3. OutputsLinked(slots)'
    BY <1>1, <1>4, <2>2 DEF OutputsLinked
  <2> QED BY <1>2, <1>3, <2>3 DEF OutputsInv
<1>5. CASE transport # 0
  <2>1. LinkedSlots(slots)
    BY <1>5 DEF OutputsInv, OutputsLinked
  <2>2. \A m : ShownIn(slots, m) => ShownIn(q, m)
    BY <1>5 DEF ShownIn, SameShown
  <2>3. LinkedSlots(q)
    <3>1. \A s \in DOMAIN q : q[s].life = "shown" => q[s].registered
      BY <1>5, <2>1 DEF LinkedSlots, SameShown
    <3>2. \A s \in DOMAIN q : q[s].outputId # 0 => q[s].outputId \in DOMAIN daemonHas
      BY <2>1 DEF LinkedSlots, Carried
    <3>3. ASSUME hearing, NEW s \in DOMAIN q, q[s].life = "shown", q[s].monitor \notin unsent PROVE Enlisted(q, s)
      <4>1. SameShown(q, s)
        BY <1>5, <3>3
      <4>2. Enlisted(slots, s)
        BY <2>1, <3>3, <4>1 DEF LinkedSlots, SameShown
      <4> QED BY <4>1, <4>2 DEF Enlisted, SameShown
    <3> QED BY <2>1, <2>2, <3>1, <3>2, <3>3 DEF LinkedSlots
  <2>4. LinkedSlots(slots)'
    BY <1>1, <2>3 DEF LinkedSlots, ShownIn, Enlisted
  <2>5. ASSUME muddled' = {} PROVE OrderlySlots(slots)'
    <3>1. /\ muddled = {} /\ \A s \in DOMAIN q : Waits(q, s) => NamesFirst(q, s)
          /\ \A s \in DOMAIN q : Waits(q, s) /\ s \in DOMAIN slots /\ Waits(slots, s) => q[s].id = slots[s].id
      BY <1>1, <1>5, <2>5, OrderRecalled
    <3>2. OrderlySlots(slots)
      BY <1>5, <3>1 DEF OutputsInv, OutputsLinked
    <3>3. ASSUME NEW e, Booked(slots, e) PROVE Booked(q, e)
      <4>1. PICK s \in DOMAIN slots : Waits(slots, s) /\ slots[s].monitor = e.monitor /\ slots[s].id = e.id
        BY <3>3 DEF Booked
      <4>2. SameShown(q, s)
        BY <1>5, <4>1 DEF Waits
      <4>3. Waits(q, s) /\ s \in DOMAIN q /\ q[s].monitor = slots[s].monitor
        BY <4>1, <4>2 DEF Waits, SameShown
      <4>4. q[s].id = slots[s].id
        BY <3>1, <4>1, <4>3
      <4> QED BY <4>1, <4>3, <4>4 DEF Booked
    <3>4. \A k \in DOMAIN requests : requests[k].monitor \notin DOMAIN daemonHas => Booked(q, requests[k])
      BY <3>2, <3>3 DEF OrderlySlots
    <3>5. \A k \in DOMAIN accepts : Booked(q, accepts[k])
      BY <3>2, <3>3 DEF OrderlySlots
    <3>6. ASSUME NEW s \in DOMAIN q, q[s].life = "shown" PROVE Answered(q, s)
      <4>1. SameShown(q, s)
        BY <1>5, <3>6
      <4>2. Answered(slots, s)
        BY <3>2, <4>1 DEF OrderlySlots, SameShown
      <4> QED BY <4>1, <4>2 DEF Answered, SameShown
    <3>7. ASSUME hearing, NEW s \in DOMAIN q, q[s].life = "shown", q[s].monitor \notin unsent \cup untold'
          PROVE  Told(q, s)
      <4>1. SameShown(q, s)
        BY <1>5, <3>7
      <4>2. Told(slots, s) /\ q[s].desc = slots[s].desc
        BY <3>2, <3>7, <4>1 DEF OrderlySlots, SameShown
      <4> QED BY <4>1, <4>2 DEF Told, SameShown
    <3> QED BY <1>1, <3>1, <3>4, <3>5, <3>6, <3>7 DEF OrderlySlots, Booked, Answered, Told
  <2>6. OutputsLinked(slots)'
    BY <1>1, <1>5, <2>4, <2>5 DEF OutputsLinked
  <2> QED BY <1>2, <1>3, <2>6 DEF OutputsInv
<1> QED BY <1>4, <1>5

\* A new connection, or the slots of the one there is not.
LEMMA RestartsKeeps ==
  ASSUME OutputsInv, Recalled, NEW q, RestartsTransport(q),
         plugs' \in 0 .. MaxPlugs, turns' \in Nat, FitSlots(q, plugs'),
         pointer' \in 0 .. Len(q), pointer' # 0 => q[pointer'].life \in {"layer", "shown"},
         Carried(q)
  PROVE  OutputsInv'
<1>1. CASE transport # 0
  BY <1>1, HangsKeeps DEF RestartsTransport, OutputsInv
<1>2. CASE transport = 0
  <2>1. slots' = q /\ requests' = requests /\ untold' = untold /\ SameTransport
    BY <1>2 DEF RestartsTransport, SaysNothing
  <2> QED BY <1>2, <2>1, StaysKeeps
<1> QED BY <1>1, <1>2

-----------------------------------------------------------------------------
(* What the compositor does to the slots.                                   *)

LEMMA AddedFits ==
  ASSUME OutputsInv, plugs < MaxPlugs, NEW s \in 1 .. MaxSlots, NEW q \in Seq(SlotRecords), Len(q) <= MaxSlots,
         s \in DOMAIN q, q[s] = NewSlot(s), DOMAIN q = DOMAIN slots \cup {s},
         \A t \in DOMAIN slots : t # s => q[t] = slots[t],
         s \in DOMAIN slots => slots[s].life = "gone"
  PROVE  FitSlots(q, plugs + 1)
<1>1. /\ slots \in Seq(SlotRecords) /\ DOMAIN slots = 1 .. Len(slots) /\ Len(slots) \in Nat
      /\ plugs \in Nat /\ KeptSlots(slots, plugs) /\ NumberedSlots(slots)
  BY SlotsFacts DEF FitSlots
<1>2. q[s].life = "known" /\ q[s].monitor = plugs + 1 /\ q[s].id = s /\ q[s].outputId = 0
  BY DEF NewSlot
<1>3. UsedSlots(q) = UsedSlots(slots) \cup {s} /\ s \notin UsedSlots(slots)
  BY <1>2 DEF UsedSlots
<1>4. KeptSlots(q, plugs + 1)
  <2>1. ASSUME NEW t \in DOMAIN q
        PROVE q[t].id \in 1 .. t /\ q[t].monitor \in 1 .. (plugs + 1) /\ q[t].outputId \in 0 .. (plugs + 1)
    <3>1. CASE t = s
      BY <1>1, <1>2, <3>1
    <3>2. CASE t # s
      <4>1. t \in DOMAIN slots /\ q[t] = slots[t]
        BY <3>2
      <4>2. slots[t].id \in 1 .. t /\ slots[t].monitor \in 1 .. plugs /\ slots[t].outputId \in 0 .. plugs
        BY <1>1, <4>1 DEF KeptSlots
      <4>3. q[t].monitor \in 1 .. (plugs + 1) /\ q[t].outputId \in 0 .. (plugs + 1)
        BY <1>1, <4>1, <4>2
      <4> QED BY <4>1, <4>2, <4>3
    <3> QED BY <3>1, <3>2
  <2>2. ASSUME NEW r \in DOMAIN q, NEW t \in DOMAIN q, q[r].monitor = q[t].monitor PROVE r = t
    <3>1. \A x \in DOMAIN q : x # s => x \in DOMAIN slots /\ q[x] = slots[x] /\ slots[x].monitor \in 1 .. plugs
      BY <1>1 DEF KeptSlots
    <3>2. \A x \in DOMAIN q : x # s => q[x].monitor # plugs + 1
      BY <1>1, <3>1
    <3>3. CASE r = s \/ t = s
      BY <1>2, <2>2, <3>2, <3>3
    <3>4. CASE r # s /\ t # s
      BY <1>1, <2>2, <3>1, <3>4 DEF KeptSlots
    <3> QED BY <3>3, <3>4
  <2> QED BY <2>1, <2>2 DEF KeptSlots
<1>5. NumberedSlots(q)
  <2>1. ASSUME NEW t \in UsedSlots(q), q[t].life # "known", \A r \in DOMAIN q : r < t => q[r].life # "known"
        PROVE  q[t].id = UpTo(UsedSlots(q), t)
    <3>1. t # s /\ t \in UsedSlots(slots) /\ t \in DOMAIN slots /\ q[t] = slots[t]
      BY <1>2, <1>3, <2>1 DEF UsedSlots
    <3>2. ~(s < t)
      BY <1>2, <2>1
    <3>3. t < s
      BY <1>1, <3>1, <3>2
    <3>4. \A r \in DOMAIN slots : r < t => slots[r].life # "known"
      <4>1. ASSUME NEW r \in DOMAIN slots, r < t PROVE slots[r].life # "known"
        <5>1. r # s
          BY <3>2, <4>1
        <5> QED BY <2>1, <4>1, <5>1
      <4> QED BY <4>1
    <3>5. slots[t].id = UpTo(UsedSlots(slots), t)
      BY <1>1, <2>1, <3>1, <3>4 DEF NumberedSlots
    <3>6. ~(s <= t)
      BY <1>1, <3>1, <3>3
    <3>7. {r \in UsedSlots(q) : r <= t} = {r \in UsedSlots(slots) : r <= t}
      BY <1>3, <3>6
    <3>8. UpTo(UsedSlots(q), t) = UpTo(UsedSlots(slots), t)
      BY <3>7 DEF UpTo
    <3> QED BY <3>1, <3>5, <3>8
  <2>2. ASSUME NEW r \in UsedSlots(q), NEW t \in UsedSlots(q), r < t, q[r].life # "known" PROVE q[r].id < q[t].id
    <3>1. r # s /\ r \in UsedSlots(slots) /\ r \in DOMAIN slots /\ q[r] = slots[r]
      BY <1>2, <1>3, <2>2 DEF UsedSlots
    <3>2. CASE t = s
      <4>1. q[r].id \in 1 .. r /\ r \in Nat /\ q[t].id = s /\ s \in Nat
        BY <1>1, <1>2, <3>1, <3>2 DEF KeptSlots
      <4> QED BY <2>2, <3>2, <4>1
    <3>3. CASE t # s
      <4>1. t \in UsedSlots(slots) /\ q[t] = slots[t]
        BY <1>3, <3>3 DEF UsedSlots
      <4> QED BY <1>1, <2>2, <3>1, <4>1 DEF NumberedSlots
    <3> QED BY <3>2, <3>3
  <2> QED BY <2>1, <2>2 DEF NumberedSlots
<1> QED BY <1>4, <1>5 DEF FitSlots

LEMMA AddedKeeps == ASSUME OutputsInv, OutputAdded, Recalled PROVE OutputsInv'
<1> DEFINE gone == {s \in Slot : slots[s].life = "gone"}
           s == IF gone = {} THEN Len(slots) + 1 ELSE CHOOSE r \in gone : \A t \in gone : r <= t
           e == NewSlot(s)
           q == IF gone = {} THEN Append(slots, e) ELSE [slots EXCEPT ![s] = e]
<1>1. /\ slots \in Seq(SlotRecords) /\ DOMAIN slots = 1 .. Len(slots) /\ Len(slots) \in Nat
      /\ plugs \in Nat /\ Slot = DOMAIN slots /\ PointerFits(slots)
  BY SlotsFacts
<1>2. plugs < MaxPlugs /\ s <= MaxSlots /\ plugs' = plugs + 1 /\ slots' = q /\ turns' = turns /\ requests' = requests
      /\ untold' = untold
      /\ pointer' = pointer /\ SameTransport
  BY DEF OutputAdded, SaysNothing
<1>3. gone # {} => s \in gone
  <2>1. gone \in SUBSET (1 .. Len(slots))
    BY <1>1
  <2> HIDE DEF gone
  <2> QED BY <1>1, <2>1, LeastPosition
<1>4. s \in 1 .. MaxSlots
  <2>1. gone \subseteq 1 .. Len(slots)
    BY <1>1
  <2>2. s \in Nat /\ 1 <= s
    <3>1. CASE gone = {}
      BY <1>1, <3>1
    <3>2. CASE gone # {}
      <4>1. s \in 1 .. Len(slots)
        BY <1>3, <2>1, <3>2
      <4> HIDE DEF s
      <4> QED BY <1>1, <4>1
    <3> QED BY <3>1, <3>2
  <2> HIDE DEF s
  <2> QED BY <1>2, <2>2, OutputBounds
<1>5. e \in SlotRecords /\ e.life = "known" /\ ~e.registered /\ e.outputId = 0
  <2>1. s \in Nat /\ plugs + 1 \in Nat /\ turns \in Nat
    <3> HIDE DEF s
    <3> QED BY <1>1, <1>4 DEF OutputsInv
  <2> HIDE DEF s
  <2>2. e = [life |-> "known", monitor |-> plugs + 1, desc |-> turns, id |-> s, registered |-> FALSE, outputId |-> 0]
    BY DEF NewSlot
  <2> HIDE DEF e
  <2>3. e \in SlotRecords
    BY <2>1, <2>2 DEF SlotRecords, SlotLives
  <2>4. e.life = "known"
    BY <2>2
  <2>5. ~e.registered /\ e.outputId = 0
    BY <2>2
  <2> QED BY <2>3, <2>4, <2>5
<1>6. /\ q \in Seq(SlotRecords) /\ Len(q) <= MaxSlots /\ s \in DOMAIN q /\ q[s] = e /\ DOMAIN q = DOMAIN slots \cup {s}
      /\ \A t \in DOMAIN slots : t # s => q[t] = slots[t]
      /\ s \in DOMAIN slots => slots[s].life = "gone"
      /\ Len(q) >= Len(slots) /\ Len(q) \in Nat
  <2>1. CASE gone = {}
    <3>1. q = Append(slots, e) /\ s = Len(slots) + 1
      BY <2>1
    <3> HIDE DEF q, s, e
    <3>2. q \in Seq(SlotRecords) /\ Len(q) = Len(slots) + 1 /\ q[s] = e /\ \A t \in 1 .. Len(slots) : q[t] = slots[t]
      BY <1>1, <1>5, <3>1
    <3>3. DOMAIN q = 1 .. (Len(slots) + 1)
      BY <3>2
    <3>4. DOMAIN q = DOMAIN slots \cup {s} /\ s \notin DOMAIN slots
      BY <1>1, <3>1, <3>3
    <3> QED BY <1>1, <1>2, <3>1, <3>2, <3>4
  <2>2. CASE gone # {}
    <3>1. q = [slots EXCEPT ![s] = e] /\ s \in DOMAIN slots /\ slots[s].life = "gone"
      BY <1>1, <1>3, <2>2
    <3> HIDE DEF q, s, e
    <3>2. q \in Seq(SlotRecords) /\ Len(q) = Len(slots) /\ q[s] = e /\ DOMAIN q = DOMAIN slots
      BY <1>1, <1>5, <3>1
    <3>3. \A t \in DOMAIN slots : t # s => q[t] = slots[t]
      BY <3>1
    <3>4. Len(slots) <= MaxSlots
      BY DEF OutputsInv, FitSlots, KeptSlots
    <3> QED BY <1>1, <3>1, <3>2, <3>3, <3>4, SMTT(40)
  <2> QED BY <2>1, <2>2
<1> HIDE DEF q
<1>7. FitSlots(q, plugs + 1)
  <2>1. q[s] = NewSlot(s)
    BY <1>6
  <2> HIDE DEF s, e
  <2> QED BY <1>2, <1>4, <1>6, <2>1, AddedFits
<1> HIDE DEF s, e
<1>8. plugs' \in 0 .. MaxPlugs /\ turns' \in Nat /\ FitSlots(q, plugs')
  <2>1. plugs + 1 \in 0 .. MaxPlugs
    BY <1>1, <1>2, OutputBounds
  <2> QED BY <1>2, <1>7, <2>1 DEF OutputsInv
<1>9. pointer' \in 0 .. Len(q) /\ (pointer' # 0 => q[pointer'].life \in {"layer", "shown"})
  <2>1. pointer \in 0 .. Len(slots) /\ (pointer # 0 => slots[pointer].life \in {"layer", "shown"})
    BY <1>1 DEF PointerFits
  <2>2. pointer # 0 => pointer \in DOMAIN slots /\ pointer # s
    BY <1>1, <1>6, <2>1
  <2>3. pointer \in 0 .. Len(q)
    BY <1>1, <1>6, <2>1
  <2> QED BY <1>2, <1>6, <2>1, <2>2, <2>3
<1>10. Carried(q)
  <2>1. \A t \in DOMAIN q : t # s => t \in DOMAIN slots /\ q[t] = slots[t]
    BY <1>6
  <2>2. ~q[s].registered /\ q[s].outputId = 0
    BY <1>5, <1>6
  <2> QED BY <2>1, <2>2 DEF Carried
<1>11. q[s].life # "shown" /\ (s \in DOMAIN slots => slots[s].life # "shown")
  BY <1>5, <1>6
<1>12. \A t \in DOMAIN q : q[t].life = "shown" => SameShown(q, t)
  <2>1. \A t \in DOMAIN q : q[t].life = "shown" => t \in DOMAIN slots /\ q[t] = slots[t]
    BY <1>6, <1>11
  <2> QED BY <2>1 DEF SameShown
<1>13. \A t \in DOMAIN slots : slots[t].life = "shown" => SameShown(q, t)
  <2>1. \A t \in DOMAIN slots : slots[t].life = "shown" => t \in DOMAIN q /\ q[t] = slots[t]
    BY <1>6, <1>11
  <2> QED BY <2>1 DEF SameShown
<1> QED BY <1>2, <1>8, <1>9, <1>10, <1>12, <1>13, StaysKeeps

\* Slot s has another life.
LEMMA LivedFacts ==
  ASSUME OutputsInv, NEW s \in DOMAIN slots, NEW l \in SlotLives
  PROVE  LET z == [slots EXCEPT ![s].life = l] IN
         /\ KeptSlots(z, plugs) /\ z \in Seq(SlotRecords) /\ Len(z) = Len(slots) /\ DOMAIN z = DOMAIN slots
         /\ z[s].life = l
         /\ \A t \in DOMAIN slots :
              /\ t # s => z[t].life = slots[t].life
              /\ z[t].id = slots[t].id /\ z[t].monitor = slots[t].monitor /\ z[t].desc = slots[t].desc
              /\ z[t].registered = slots[t].registered /\ z[t].outputId = slots[t].outputId
<1> DEFINE z == [slots EXCEPT ![s].life = l]
<1>1. slots \in Seq(SlotRecords) /\ KeptSlots(slots, plugs)
  BY SlotsFacts DEF FitSlots
<1>2. /\ z \in Seq(SlotRecords) /\ Len(z) = Len(slots) /\ DOMAIN z = DOMAIN slots /\ z[s].life = l
      /\ \A t \in DOMAIN slots :
           /\ t # s => z[t] = slots[t]
           /\ z[t].id = slots[t].id /\ z[t].monitor = slots[t].monitor /\ z[t].desc = slots[t].desc
           /\ z[t].registered = slots[t].registered /\ z[t].outputId = slots[t].outputId
  BY <1>1, LifeSet
<1> HIDE DEF z
<1>3. KeptSlots(z, plugs)
  BY <1>1, <1>2, ZenonT(40) DEF KeptSlots
<1> QED BY <1>2, <1>3 DEF z

\* Slots counted anew after slot s got another life that is not shown.
LEMMA RecountFacts ==
  ASSUME OutputsInv, NEW s \in DOMAIN slots, NEW l \in SlotLives \ {"shown"}
  PROVE  LET q == Renumbered([slots EXCEPT ![s].life = l]) IN
         /\ FitSlots(q, plugs) /\ Carried(q) /\ Len(q) = Len(slots) /\ DOMAIN q = DOMAIN slots
         /\ q[s].life = l /\ \A t \in DOMAIN slots : t # s => q[t].life = slots[t].life
         /\ slots[s].life # "shown" => /\ \A t \in DOMAIN q : q[t].life = "shown" => SameShown(q, t)
                                       /\ \A t \in DOMAIN slots : slots[t].life = "shown" => SameShown(q, t)
<1> DEFINE z == [slots EXCEPT ![s].life = l]
           q == Renumbered(z)
<1>0. l \in SlotLives
  OBVIOUS
<1>1. plugs \in Nat /\ l # "shown" /\ DOMAIN slots = 1 .. Len(slots)
  BY SlotsFacts
<1>2. /\ KeptSlots(z, plugs) /\ z \in Seq(SlotRecords) /\ Len(z) = Len(slots) /\ DOMAIN z = DOMAIN slots
      /\ z[s].life = l
      /\ \A t \in DOMAIN slots :
           /\ t # s => z[t].life = slots[t].life
           /\ z[t].id = slots[t].id /\ z[t].monitor = slots[t].monitor /\ z[t].desc = slots[t].desc
           /\ z[t].registered = slots[t].registered /\ z[t].outputId = slots[t].outputId
  BY <1>0, LivedFacts
<1> HIDE DEF z
<1>3. FitSlots(q, plugs)
  BY <1>1, <1>2, RenumberedFits
<1>4. /\ Len(q) = Len(z) /\ DOMAIN q = DOMAIN z
      /\ \A t \in DOMAIN z :
           /\ q[t].life = z[t].life /\ q[t].monitor = z[t].monitor /\ q[t].desc = z[t].desc
           /\ q[t].registered = z[t].registered /\ q[t].outputId = z[t].outputId
  BY <1>2, Renumbers
<1> HIDE DEF q
<1>5. \A t \in DOMAIN slots :
        /\ t # s => q[t].life = slots[t].life
        /\ q[t].monitor = slots[t].monitor /\ q[t].desc = slots[t].desc
        /\ q[t].registered = slots[t].registered /\ q[t].outputId = slots[t].outputId
  BY <1>2, <1>4
<1>6. q[s].life = l
  BY <1>2, <1>4
<1>7. Carried(q)
  BY <1>2, <1>4, <1>5 DEF Carried
<1>8. ASSUME slots[s].life # "shown", NEW t \in DOMAIN slots, q[t].life = "shown" \/ slots[t].life = "shown"
      PROVE  SameShown(q, t)
  BY <1>1, <1>2, <1>4, <1>5, <1>6, <1>8 DEF SameShown
<1> QED BY <1>2, <1>3, <1>4, <1>5, <1>6, <1>7, <1>8 DEF q, z

LEMMA DoneKeeps == ASSUME OutputsInv, NEW s \in Slot, OutputDone(s), Recalled PROVE OutputsInv'
<1> DEFINE q == Renumbered([slots EXCEPT ![s].life = "layer"])
<1>1. /\ DOMAIN slots = 1 .. Len(slots) /\ Len(slots) \in Nat /\ Slot = DOMAIN slots /\ PointerFits(slots)
      /\ plugs \in 0 .. MaxPlugs /\ turns \in Nat
  BY SlotsFacts DEF OutputsInv
<1>2. slots[s].life = "known" /\ slots' = q /\ plugs' = plugs /\ turns' = turns /\ requests' = requests
      /\ untold' = untold /\ pointer' = pointer /\ SameTransport
  BY DEF OutputDone, SaysNothing
<1>3. "layer" \in SlotLives \ {"shown"}
  BY DEF SlotLives
<1>4. /\ FitSlots(q, plugs) /\ Carried(q) /\ Len(q) = Len(slots) /\ DOMAIN q = DOMAIN slots
      /\ q[s].life = "layer" /\ \A t \in DOMAIN slots : t # s => q[t].life = slots[t].life
      /\ \A t \in DOMAIN q : q[t].life = "shown" => SameShown(q, t)
      /\ \A t \in DOMAIN slots : slots[t].life = "shown" => SameShown(q, t)
  BY <1>1, <1>2, <1>3, RecountFacts
<1> HIDE DEF q
<1>5. pointer' \in 0 .. Len(q) /\ (pointer' # 0 => q[pointer'].life \in {"layer", "shown"})
  <2>1. pointer # 0 => pointer \in DOMAIN slots
    BY <1>1 DEF PointerFits
  <2> QED BY <1>1, <1>2, <1>4, <2>1 DEF PointerFits
<1> QED BY <1>1, <1>2, <1>4, <1>5, StaysKeeps

LEMMA ShownKeeps == ASSUME OutputsInv, NEW s \in Slot, OutputConfigured(s), Recalled PROVE OutputsInv'
<1> DEFINE z == [slots EXCEPT ![s].life = "shown"]
<1>1. /\ slots \in Seq(SlotRecords) /\ DOMAIN slots = 1 .. Len(slots) /\ Len(slots) \in Nat
      /\ Slot = DOMAIN slots /\ PointerFits(slots) /\ NumberedSlots(slots)
      /\ plugs \in 0 .. MaxPlugs /\ turns \in Nat
  BY SlotsFacts DEF FitSlots, OutputsInv
<1>2. slots[s].life = "layer" /\ RestartsTransport(z) /\ plugs' = plugs /\ turns' = turns /\ pointer' = pointer
  BY DEF OutputConfigured
<1>3. "shown" \in SlotLives /\ s \in DOMAIN slots
  BY <1>1 DEF SlotLives
<1>4. /\ KeptSlots(z, plugs) /\ Len(z) = Len(slots) /\ DOMAIN z = DOMAIN slots /\ z[s].life = "shown"
      /\ \A t \in DOMAIN slots :
           /\ t # s => z[t].life = slots[t].life
           /\ z[t].id = slots[t].id /\ z[t].monitor = slots[t].monitor
           /\ z[t].registered = slots[t].registered /\ z[t].outputId = slots[t].outputId
  BY <1>3, LivedFacts
<1> HIDE DEF z
<1>5. UsedSlots(z) = UsedSlots(slots)
  BY <1>2, <1>3, <1>4 DEF UsedSlots
<1>6. \A t \in DOMAIN slots : z[t].life = "known" <=> slots[t].life = "known"
  BY <1>2, <1>3, <1>4
<1>7. UsedSlots(slots) \subseteq DOMAIN slots
  BY DEF UsedSlots
<1>8. NumberedSlots(z)
  BY <1>1, <1>4, <1>5, <1>6, <1>7 DEF NumberedSlots
<1>9. FitSlots(z, plugs')
  BY <1>2, <1>4, <1>8 DEF FitSlots
<1>10. pointer' \in 0 .. Len(z) /\ (pointer' # 0 => z[pointer'].life \in {"layer", "shown"})
  <2>1. pointer # 0 => pointer \in DOMAIN slots
    BY <1>1 DEF PointerFits
  <2> QED BY <1>1, <1>2, <1>4, <2>1 DEF PointerFits
<1>11. Carried(z)
  BY <1>4 DEF Carried
<1> QED BY <1>1, <1>2, <1>9, <1>10, <1>11, RestartsKeeps

\* A slot that is in use no more: a new connection unless its output was never registered.
LEMMA GoneKeeps ==
  ASSUME OutputsInv, Recalled, NEW s \in Slot, NEW l \in {"closed", "gone"}, LeavesPointer(s),
         UNCHANGED << plugs, turns >>,
         LET q == Renumbered([slots EXCEPT ![s].life = l]) IN
           RestartsTransport(q) \/ (slots[s].life # "shown" /\ SaysNothing(q))
  PROVE  OutputsInv'
<1> DEFINE q == Renumbered([slots EXCEPT ![s].life = l])
<1>1. /\ DOMAIN slots = 1 .. Len(slots) /\ Len(slots) \in Nat /\ Slot = DOMAIN slots /\ PointerFits(slots)
      /\ plugs \in 0 .. MaxPlugs /\ turns \in Nat
  BY SlotsFacts DEF OutputsInv
<1>2. l \in SlotLives \ {"shown"}
  BY DEF SlotLives
<1>3. /\ FitSlots(q, plugs) /\ Carried(q) /\ Len(q) = Len(slots) /\ DOMAIN q = DOMAIN slots
      /\ q[s].life = l /\ \A t \in DOMAIN slots : t # s => q[t].life = slots[t].life
      /\ slots[s].life # "shown" => /\ \A t \in DOMAIN q : q[t].life = "shown" => SameShown(q, t)
                                    /\ \A t \in DOMAIN slots : slots[t].life = "shown" => SameShown(q, t)
  BY <1>1, <1>2, RecountFacts
<1>4. RestartsTransport(q) \/ (slots[s].life # "shown" /\ SaysNothing(q))
  OBVIOUS
<1> HIDE DEF q
<1>5. pointer' \in 0 .. Len(q) /\ (pointer' # 0 => q[pointer'].life \in {"layer", "shown"})
  <2>1. pointer' # 0 => pointer' = pointer /\ pointer # s
    BY DEF LeavesPointer
  <2>2. pointer # 0 => pointer \in DOMAIN slots /\ slots[pointer].life \in {"layer", "shown"}
    BY <1>1 DEF PointerFits
  <2>3. pointer' \in 0 .. Len(slots)
    BY <1>1 DEF LeavesPointer, PointerFits
  <2> QED BY <1>3, <2>1, <2>2, <2>3
<1>6. CASE RestartsTransport(q)
  BY <1>1, <1>3, <1>5, <1>6, RestartsKeeps
<1>7. CASE slots[s].life # "shown" /\ SaysNothing(q)
  <2>1. slots' = q /\ requests' = requests /\ untold' = untold /\ SameTransport
    BY <1>7 DEF SaysNothing
  <2> QED BY <1>1, <1>3, <1>5, <1>7, <2>1, StaysKeeps
<1> QED BY <1>4, <1>6, <1>7

LEMMA ClosedKeeps == ASSUME OutputsInv, NEW s \in Slot, OutputClosed(s), Recalled PROVE OutputsInv'
BY GoneKeeps DEF OutputClosed

LEMMA RemovedKeeps == ASSUME OutputsInv, NEW s \in Slot, OutputRemoved(s), Recalled PROVE OutputsInv'
BY GoneKeeps DEF OutputRemoved

\* A request more: of the slot that the daemon will know anew.
LEMMA RequestMore ==
  ASSUME OutputsInv, transport # 0, NEW g \in Registrations, requests' = Append(requests, g),
         NEW z, DOMAIN z = DOMAIN slots, NEW s \in DOMAIN slots, slots' = z,
         \A t \in DOMAIN slots :
           /\ z[t].life = slots[t].life /\ z[t].id = slots[t].id /\ z[t].monitor = slots[t].monitor
           /\ z[t].registered = slots[t].registered /\ z[t].outputId = slots[t].outputId
           /\ t # s => z[t].desc = slots[t].desc,
         slots[s].life = "shown", g.monitor = slots[s].outputId, g.monitor # 0, g.desc = z[s].desc,
         UNCHANGED << transport, hearing, accepts, daemonHas, unsent >>, untold' = untold \ {slots[s].monitor},
         \A r, t \in DOMAIN slots : slots[r].monitor = slots[t].monitor => r = t, Recalled
  PROVE  OutputsLinked(slots)'
<1> DEFINE L == Len(requests)
<1>1. LinkedSlots(slots) /\ LinkTypes
  BY DEF OutputsInv, OutputsLinked
<1>2. requests \in Seq(Registrations) /\ L \in Nat /\ DOMAIN requests = 1 .. L
  BY <1>1 DEF LinkTypes
<1>3. /\ DOMAIN requests' = 1 .. (L + 1) /\ requests'[L + 1] = g
      /\ \A k \in 1 .. L : requests'[k] = requests[k]
  BY <1>2
<1> HIDE DEF L
<1>4. /\ \A k \in DOMAIN requests' : k = L + 1 \/ (k \in DOMAIN requests /\ requests'[k] = requests[k])
      /\ \A k \in DOMAIN requests : k \in DOMAIN requests' /\ requests'[k] = requests[k] /\ k < L + 1
      /\ L + 1 \in DOMAIN requests' /\ \A k \in DOMAIN requests' : ~(k > L + 1)
  BY <1>2, <1>3
<1>5. \A m : ShownIn(slots, m) => ShownIn(z, m)
  BY DEF ShownIn
<1>6. g.monitor \in DOMAIN daemonHas
  BY <1>1 DEF LinkedSlots
<1>7. \A t \in DOMAIN slots : Enlisted(slots, t) => Enlisted(slots, t)'
  BY <1>4 DEF Enlisted
<1>8. LinkedSlots(slots)'
  <2>1. \A k \in DOMAIN requests' : ShownIn(z, requests'[k].monitor)
    BY <1>1, <1>3, <1>4, <1>5, <1>6 DEF LinkedSlots
  <2>2. \A t \in DOMAIN z : z[t].life = "shown" => z[t].registered
    BY <1>1 DEF LinkedSlots
  <2>3. \A m \in DOMAIN daemonHas : ShownIn(z, m)
    BY <1>1, <1>5 DEF LinkedSlots
  <2>4. \A t \in DOMAIN z : z[t].outputId # 0 => z[t].outputId \in DOMAIN daemonHas
    BY <1>1 DEF LinkedSlots
  <2>5. hearing => \A t \in DOMAIN z : z[t].life = "shown" /\ z[t].monitor \notin unsent => Enlisted(slots, t)'
    BY <1>1, <1>7 DEF LinkedSlots
  <2> QED BY <1>1, <2>1, <2>2, <2>3, <2>4, <2>5 DEF LinkedSlots, ShownIn
<1>9. ASSUME muddled' = {} PROVE OrderlySlots(slots)'
  <2>1. muddled = {} /\ \A t \in DOMAIN z : Waits(z, t) => NamesFirst(z, t)
    BY <1>9, OrderRecalled
  <2>2. OrderlySlots(slots)
    BY <2>1 DEF OutputsInv, OutputsLinked
  <2>2a. g.monitor = slots[s].monitor
    BY <2>2 DEF OrderlySlots, Answered
  <2>3. \A e : Booked(slots, e) => Booked(z, e)
    BY DEF Booked, Waits
  <2>4. \A k \in DOMAIN requests' : requests'[k].monitor \notin DOMAIN daemonHas => Booked(z, requests'[k])
    BY <1>3, <1>4, <1>6, <2>2, <2>3 DEF OrderlySlots
  <2>5. \A k \in DOMAIN accepts : Booked(z, accepts[k])
    BY <2>2, <2>3 DEF OrderlySlots
  <2>6. \A t \in DOMAIN z : z[t].life = "shown" => Answered(z, t)
    BY <2>2 DEF OrderlySlots, Answered
  <2>7. ASSUME hearing, NEW t \in DOMAIN slots, z[t].life = "shown", z[t].monitor \notin unsent \cup untold'
        PROVE  Told(slots, t)'
    <3>1. CASE t = s
      BY <1>3, <1>4, <2>2a, <3>1 DEF Told
    <3>2. CASE t # s
      <4> DEFINE m == slots[t].monitor
                 d == slots[t].desc
      <4>1. m # slots[s].monitor /\ z[t].monitor = m /\ z[t].desc = d
        BY <3>2
      <4>2. Told(slots, t)
        BY <2>2, <2>7, <4>1 DEF OrderlySlots
      <4>3. g.monitor # m
        BY <2>2a, <4>1
      <4> HIDE DEF m, d
      <4>4. CASE \E k \in DOMAIN requests :
                   /\ requests[k].monitor = m /\ requests[k].desc = d
                   /\ \A j \in DOMAIN requests : j > k => requests[j].monitor # m
        <5>1. PICK k \in DOMAIN requests : /\ requests[k].monitor = m /\ requests[k].desc = d
                                           /\ \A j \in DOMAIN requests : j > k => requests[j].monitor # m
          BY <4>4
        <5>2. \A j \in DOMAIN requests' : j > k => requests'[j].monitor # m
          BY <1>3, <1>4, <4>3, <5>1
        <5>3. k \in DOMAIN requests' /\ requests'[k].monitor = m /\ requests'[k].desc = d
          BY <1>4, <5>1
        <5> QED BY <4>1, <5>2, <5>3 DEF Told, m, d
      <4>5. CASE /\ \A k \in DOMAIN requests : requests[k].monitor # m
                 /\ m \in DOMAIN daemonHas /\ daemonHas[m] = d
        <5>1. \A k \in DOMAIN requests' : requests'[k].monitor # m
          BY <1>3, <1>4, <4>3, <4>5
        <5> QED BY <4>1, <4>5, <5>1 DEF Told, m, d
      <4> QED BY <4>2, <4>4, <4>5 DEF Told, m, d
    <3> QED BY <3>1, <3>2
  <2> QED BY <2>1, <2>4, <2>5, <2>6, <2>7 DEF OrderlySlots, Booked, Answered
<1> QED BY <1>8, <1>9 DEF OutputsLinked

LEMMA ChangesKeeps ==
  ASSUME OutputsInv, NEW s \in Slot, OutputChanges(s), Recalled PROVE OutputsInv'
<1> DEFINE n == turns + 1
           z == [slots EXCEPT ![s].desc = n]
           e == [slots[s] EXCEPT !.desc = n]
           g == UpdateOf(z, s)
<1>1. /\ slots \in Seq(SlotRecords) /\ DOMAIN slots = 1 .. Len(slots) /\ Len(slots) \in Nat
      /\ Slot = DOMAIN slots /\ PointerFits(slots) /\ FitSlots(slots, plugs)
      /\ plugs \in 0 .. MaxPlugs /\ plugs \in Nat /\ turns \in Nat /\ OutputsLinked(slots) /\ LinkTypes
  BY SlotsFacts DEF OutputsInv
<1>2. plugs' = plugs /\ turns' = n /\ pointer' = pointer /\ Updates(z, s) /\ n \in Nat
  BY <1>1 DEF OutputChanges
<1>3. s \in DOMAIN slots /\ slots[s] \in SlotRecords
  BY <1>1
<1> HIDE DEF n
<1>4. /\ e \in SlotRecords /\ e.life = slots[s].life /\ e.id = slots[s].id /\ e.monitor = slots[s].monitor
      /\ e.registered = slots[s].registered /\ e.outputId = slots[s].outputId /\ e.desc = n
  BY <1>2, <1>3 DEF SlotRecords
<1>5. z = [slots EXCEPT ![s] = e]
  OBVIOUS
<1> HIDE DEF e, z
<1>6. /\ z \in Seq(SlotRecords) /\ Len(z) = Len(slots) /\ DOMAIN z = DOMAIN slots
      /\ z[s] = e /\ \A t \in DOMAIN slots : t # s => z[t] = slots[t]
  BY <1>1, <1>3, <1>4, <1>5
<1>7. \A t \in DOMAIN slots :
        /\ z[t].life = slots[t].life /\ z[t].id = slots[t].id /\ z[t].monitor = slots[t].monitor
        /\ z[t].registered = slots[t].registered /\ z[t].outputId = slots[t].outputId
        /\ t # s => z[t].desc = slots[t].desc
  BY <1>4, <1>6
<1>8. FitSlots(z, plugs)
  <2>1. \A t \in DOMAIN slots : slots[t].outputId \in 0 .. plugs
    BY <1>1 DEF FitSlots, KeptSlots
  <2>2. \A t \in DOMAIN slots : z[t].life = slots[t].life /\ z[t].monitor = slots[t].monitor
                                /\ z[t].id = slots[t].id /\ z[t].outputId \in 0 .. plugs
    BY <1>7, <2>1
  <2> QED BY <1>1, <1>6, <2>2, SameFits
<1>9. pointer' \in 0 .. Len(z) /\ (pointer' # 0 => z[pointer'].life \in {"layer", "shown"})
  <2>1. pointer # 0 => pointer \in DOMAIN slots
    BY <1>1 DEF PointerFits
  <2> QED BY <1>1, <1>2, <1>6, <1>7, <2>1 DEF PointerFits
<1>10. Carried(z)
  BY <1>6, <1>7 DEF Carried
<1>11. CASE Publishable(s) /\ transport # 0 /\ z[s].registered /\ z[s].outputId # 0
  <2>1. CASE ~hearing
    <3>1. Hangs(z)
      BY <1>2, <1>11, <2>1 DEF Updates
    <3> QED BY <1>1, <1>2, <1>8, <1>9, <3>1, HangsKeeps
  <2>2. CASE hearing
    <3>1. slots' = z /\ requests' = Append(requests, g) /\ SameTransport /\ untold' = untold \ {slots[s].monitor}
      BY <1>2, <1>3, <1>7, <1>11, <2>2 DEF Updates
    <3>2. /\ transport' = transport /\ transports' = transports /\ hearing' = hearing
          /\ accepts' = accepts /\ daemonHas' = daemonHas /\ unsent' = unsent
      BY <3>1 DEF SameTransport
    <3>3. g \in Registrations /\ g.monitor = slots[s].outputId /\ g.monitor # 0 /\ g.desc = z[s].desc
      <4>1. z[s].id \in Nat /\ z[s].outputId \in Nat /\ z[s].desc \in Nat
        BY <1>4, <1>6 DEF SlotRecords
      <4> QED BY <1>3, <1>7, <1>11, <4>1 DEF UpdateOf, Registrations
    <3> HIDE DEF g
    <3>4. LinkTypes'
      <4>1. requests' \in Seq(Registrations)
        BY <1>1, <3>1, <3>3 DEF LinkTypes
      <4> QED BY <1>1, <1>11, <3>2, <4>1 DEF LinkTypes
    <3>5. \A r, t \in DOMAIN slots : slots[r].monitor = slots[t].monitor => r = t
      BY <1>1 DEF FitSlots, KeptSlots
    <3>6. slots[s].life = "shown" /\ transport # 0
      BY <1>11 DEF Publishable
    <3>7. OutputsLinked(slots)'
      BY <1>3, <1>6, <1>7, <3>1, <3>2, <3>3, <3>5, <3>6, RequestMore
    <3>8. PointerFits(slots)'
      BY <1>9, <3>1 DEF PointerFits
    <3> QED BY <1>1, <1>2, <1>8, <3>1, <3>4, <3>7, <3>8 DEF OutputsInv
  <2> QED BY <2>1, <2>2
<1>12. CASE ~(Publishable(s) /\ transport # 0 /\ z[s].registered /\ z[s].outputId # 0)
  <2>1. slots' = z /\ requests' = requests /\ SameTransport /\ untold \subseteq untold'
    BY <1>2, <1>12 DEF Updates, SaysNothing
  <2>2. transport # 0 /\ slots[s].life = "shown" => slots[s].monitor \in untold'
    <3> SUFFICES ASSUME transport # 0, slots[s].life = "shown" PROVE slots[s].monitor \in untold'
      OBVIOUS
    <3>1. slots[s].registered
      BY <1>1, <1>3 DEF OutputsLinked, LinkedSlots
    <3> QED BY <1>2, <1>3, <1>7, <1>12, <3>1 DEF Updates, Publishable
  <2>3. ASSUME transport # 0, NEW t \in DOMAIN slots, slots[t].life = "shown" \/ z[t].life = "shown" PROVE SameShown(z, t)
    <3>1. z[t].life = "shown" /\ slots[t].life = "shown"
      BY <1>7, <2>3
    <3>2. z[t].desc = slots[t].desc \/ z[t].monitor \in untold'
      BY <1>7, <2>2, <2>3, <3>1
    <3> QED BY <1>6, <1>7, <3>1, <3>2 DEF SameShown
  <2> QED BY <1>1, <1>2, <1>6, <1>8, <1>9, <1>10, <2>1, <2>3, StaysKeeps
<1> QED BY <1>11, <1>12

LEMMA PointerKeeps ==
  ASSUME OutputsInv, PointerLeaves \/ \E s \in Slot : PointerEnters(s), Recalled PROVE OutputsInv'
<1>1. /\ slots \in Seq(SlotRecords) /\ DOMAIN slots = 1 .. Len(slots) /\ Len(slots) \in Nat
      /\ Slot = DOMAIN slots /\ FitSlots(slots, plugs) /\ plugs \in 0 .. MaxPlugs /\ turns \in Nat
  BY SlotsFacts DEF OutputsInv
<1>2. slots' = slots /\ plugs' = plugs /\ turns' = turns /\ requests' = requests /\ untold' = untold /\ SameTransport
  BY DEF PointerLeaves, PointerEnters, SaysNothing
<1>3. pointer' \in 0 .. Len(slots) /\ (pointer' # 0 => slots[pointer'].life \in {"layer", "shown"})
  <2>1. CASE PointerLeaves
    BY <1>1, <2>1 DEF PointerLeaves
  <2>2. ASSUME NEW s \in Slot, PointerEnters(s)
        PROVE  pointer' \in 0 .. Len(slots) /\ (pointer' # 0 => slots[pointer'].life \in {"layer", "shown"})
    BY <1>1, <2>2 DEF PointerEnters
  <2> QED BY <2>1, <2>2
<1>4. Carried(slots)
  BY DEF Carried
<1>5. \A s \in DOMAIN slots : slots[s].life = "shown" => SameShown(slots, s)
  BY DEF SameShown
<1> QED BY <1>1, <1>2, <1>3, <1>4, <1>5, StaysKeeps

-----------------------------------------------------------------------------
(* Connecting, answering and hanging up.                                    *)

LEMMA HangupKeeps == ASSUME OutputsInv, ReadsHangup PROVE OutputsInv'
BY HangsKeeps DEF OutputsInv, ReadsHangup, PointerFits

LEMMA HearsNoMore == ASSUME OutputsInv, DaemonCloses, Recalled PROVE OutputsInv'
<1>1. hearing' = FALSE /\ requests' = << >> /\ hearing
      /\ UNCHANGED << slots, plugs, turns, transport, transports, accepts, daemonHas, pointer, unsent, untold >>
  BY DEF DaemonCloses
<1>2. DOMAIN requests' = {} /\ requests' \in Seq(Registrations)
  BY <1>1
<1>3. LinkTypes'
  BY <1>1, <1>2 DEF OutputsInv, LinkTypes
<1>4. transport # 0
  BY <1>1 DEF OutputsInv, LinkTypes
<1>5. LinkedSlots(slots) /\ (muddled = {} => OrderlySlots(slots))
  BY <1>4 DEF OutputsInv, OutputsLinked
<1>6. LinkedSlots(slots)'
  BY <1>1, <1>2, <1>5 DEF LinkedSlots, ShownIn
<1>7. muddled' = {} => OrderlySlots(slots)'
  <2> SUFFICES ASSUME muddled' = {} PROVE OrderlySlots(slots)'
    OBVIOUS
  <2>1. muddled = {}
    BY <1>1, <1>4, OrderRecalled
  <2> QED BY <1>1, <1>2, <1>5, <2>1 DEF OrderlySlots, Waits, NamesFirst, Booked, Answered
<1>8. OutputsLinked(slots)'
  BY <1>1, <1>4, <1>6, <1>7 DEF OutputsLinked
<1> QED BY <1>1, <1>3, <1>8 DEF OutputsInv, PointerFits


\* All that are not registered are: on the new connection every output that can be shown
\* is, or was marked by a loop that failed.
LEMMA RegistersKeeps ==
  ASSUME OutputsInv, Connects, RegistersAll, Recalled PROVE OutputsInv'
<1> DEFINE T == ToRegister
           N == Cardinality(T)
           z == [s \in Slot |-> IF s \in T THEN [slots[s] EXCEPT !.registered = TRUE] ELSE slots[s]]
<1>1. /\ slots \in Seq(SlotRecords) /\ DOMAIN slots = 1 .. Len(slots) /\ Len(slots) \in Nat
      /\ Slot = DOMAIN slots /\ PointerFits(slots) /\ FitSlots(slots, plugs) /\ LinkTypes /\ OutputsLinked(slots)
      /\ plugs \in 0 .. MaxPlugs /\ plugs \in Nat /\ turns \in Nat
  BY SlotsFacts DEF OutputsInv
<1>2. /\ transport = 0 /\ slots' = z /\ requests' = [k \in 1 .. N |-> Registration(slots, InOrder(T)[k])]
      /\ transport' = transports + 1 /\ hearing' = TRUE /\ transports' = transports + 1
      /\ UNCHANGED << plugs, turns, accepts, daemonHas, pointer, unsent, untold >>
  BY DEF Connects, RegistersAll
<1>3. OffSlots(slots) /\ accepts = << >> /\ DOMAIN accepts = {} /\ DOMAIN daemonHas = {}
      /\ transports \in Nat
  BY <1>1, <1>2 DEF OutputsLinked, LinkTypes
<1>4. T = {s \in DOMAIN slots : slots[s].life = "shown" /\ ~slots[s].registered}
  BY <1>1 DEF ToRegister, Publishable
<1>5. T \in SUBSET (1 .. Len(slots))
  BY <1>1, <1>4
<1>6. /\ N \in Nat
      /\ \A k \in 1 .. N : InOrder(T)[k] \in T /\ UpTo(T, InOrder(T)[k]) = k
      /\ \A s \in T : UpTo(T, s) \in 1 .. N /\ InOrder(T)[UpTo(T, s)] = s
  <2> HIDE DEF T
  <2> QED BY <1>1, <1>5, FewPositions, InOrderCounts, InOrderLists
<1> HIDE DEF T, N
<1>7. \A s \in DOMAIN slots :
        /\ z[s] \in SlotRecords /\ z[s].life = slots[s].life /\ z[s].id = slots[s].id /\ z[s].monitor = slots[s].monitor
        /\ z[s].desc = slots[s].desc /\ z[s].outputId = slots[s].outputId
        /\ slots[s].life = "shown" => z[s].registered
  <2> TAKE s \in DOMAIN slots
  <2> DEFINE e == slots[s]
  <2>1. z[s] = IF s \in T THEN [e EXCEPT !.registered = TRUE] ELSE e
    BY <1>1
  <2>2. e \in SlotRecords /\ (s \in T <=> e.life = "shown" /\ ~e.registered)
    BY <1>1, <1>4
  <2> HIDE DEF e, z
  <2>3. CASE s \in T
    <3>1. z[s] = [e EXCEPT !.registered = TRUE]
      BY <2>1, <2>3
    <3>2. z[s] \in SlotRecords
      BY <2>2, <3>1 DEF SlotRecords
    <3>3. /\ z[s].life = e.life /\ z[s].id = e.id /\ z[s].monitor = e.monitor /\ z[s].desc = e.desc
          /\ z[s].outputId = e.outputId
      BY <2>2, <3>1 DEF SlotRecords
    <3>4. z[s].registered
      BY <2>2, <3>1 DEF SlotRecords
    <3> QED BY <3>2, <3>3, <3>4 DEF e
  <2>4. CASE s \notin T
    BY <2>1, <2>2, <2>4 DEF e
  <2> QED BY <2>3, <2>4
<1>8. z \in Seq(SlotRecords) /\ Len(z) = Len(slots) /\ DOMAIN z = DOMAIN slots
  <2>1. z \in [1 .. Len(slots) -> SlotRecords]
    BY <1>1, <1>7
  <2> HIDE DEF z
  <2> QED BY <1>1, <2>1
<1> HIDE DEF z
<1>9. FitSlots(z, plugs)
  <2>1. \A s \in DOMAIN slots : slots[s].outputId \in 0 .. plugs
    BY <1>1 DEF FitSlots, KeptSlots
  <2>2. \A s \in DOMAIN slots : z[s].life = slots[s].life /\ z[s].monitor = slots[s].monitor
                                /\ z[s].id = slots[s].id /\ z[s].outputId \in 0 .. plugs
    BY <1>7, <2>1
  <2> QED BY <1>1, <1>8, <2>2, SameFits
<1>10. PointerFits(slots)'
  <2>1. pointer # 0 => pointer \in DOMAIN slots
    BY <1>1 DEF PointerFits
  <2> QED BY <1>1, <1>2, <1>7, <1>8, <2>1 DEF PointerFits
<1>11. \A s \in DOMAIN slots : /\ Registration(slots, s) \in Registrations
                               /\ Registration(slots, s).id = slots[s].id
                               /\ Registration(slots, s).monitor = slots[s].monitor
                               /\ Registration(slots, s).desc = slots[s].desc
  <2>1. \A s \in DOMAIN slots : slots[s] \in SlotRecords
    BY <1>1
  <2>2. \A s \in DOMAIN slots : slots[s].id \in Nat /\ slots[s].monitor \in Nat /\ slots[s].desc \in Nat
    BY <2>1 DEF SlotRecords
  <2> QED BY <2>2 DEF Registration, Registrations
<1>12. T \subseteq DOMAIN slots
  BY <1>4
<1>13. /\ requests' \in Seq(Registrations) /\ DOMAIN requests' = 1 .. N
       /\ \A k \in 1 .. N : requests'[k] = Registration(slots, InOrder(T)[k])
  <2>1. \A k \in 1 .. N : Registration(slots, InOrder(T)[k]) \in Registrations
    BY <1>6, <1>11, <1>12
  <2>2. requests' \in [1 .. N -> Registrations]
    BY <1>2, <2>1
  <2> QED BY <1>2, <1>6, <2>2
<1>14. LinkTypes'
  <2>1. transport' # 0 /\ transports' \in Nat /\ transport' \in 0 .. transports'
    BY <1>2, <1>3
  <2>2. hearing' \in BOOLEAN
    BY <1>2
  <2>3. accepts' \in Seq(Accepts)
    BY <1>1, <1>2 DEF LinkTypes
  <2> QED BY <1>13, <2>1, <2>2, <2>3 DEF LinkTypes
<1>15. transport' # 0 /\ DOMAIN accepts' = {} /\ DOMAIN daemonHas' = {}
  BY <1>2, <1>3
<1>16. \A k \in DOMAIN requests' :
         \E s \in T : s \in DOMAIN z /\ z[s].life = "shown" /\ z[s].registered /\ z[s].outputId = 0
                      /\ requests'[k].monitor = z[s].monitor /\ requests'[k].id = z[s].id
  <2> TAKE k \in DOMAIN requests'
  <2> DEFINE s == InOrder(T)[k]
  <2>1. s \in T /\ requests'[k] = Registration(slots, s)
    BY <1>6, <1>13
  <2> HIDE DEF s
  <2>2. s \in DOMAIN slots /\ slots[s].life = "shown" /\ slots[s].outputId = 0
    BY <1>3, <1>4, <2>1 DEF OffSlots
  <2> QED BY <1>7, <1>8, <1>11, <2>1, <2>2
<1>17. ASSUME NEW s \in DOMAIN z, z[s].life = "shown", z[s].monitor \notin unsent PROVE Told(slots, s)' /\ Enlisted(slots, s)'
  <2> DEFINE k == UpTo(T, s)
  <2>1. s \in T /\ s \in DOMAIN slots
    BY <1>3, <1>4, <1>7, <1>8, <1>17 DEF OffSlots
  <2>2. k \in 1 .. N /\ InOrder(T)[k] = s
    BY <1>6, <2>1
  <2> HIDE DEF k
  <2>3. requests'[k].monitor = z[s].monitor /\ requests'[k].desc = z[s].desc /\ k \in DOMAIN requests'
    BY <1>7, <1>11, <1>13, <2>1, <2>2
  <2>4. ASSUME NEW j \in DOMAIN requests', j > k PROVE requests'[j].monitor # z[s].monitor
    <3>1. InOrder(T)[j] \in T /\ InOrder(T)[j] # s
      <4>1. j \in 1 .. N /\ UpTo(T, InOrder(T)[j]) = j /\ UpTo(T, s) = k
        BY <1>6, <1>13, <2>2
      <4>2. j # k
        BY <1>6, <2>2, <2>4, <4>1
      <4> QED BY <1>6, <4>1, <4>2
    <3>2. slots[InOrder(T)[j]].monitor # slots[s].monitor
      BY <1>1, <1>12, <2>1, <3>1 DEF FitSlots, KeptSlots
    <3> QED BY <1>7, <1>11, <1>12, <1>13, <2>1, <3>1, <3>2
  <2> QED BY <1>2, <2>3, <2>4 DEF Told, Enlisted
<1>18. \A s \in DOMAIN z : z[s].outputId = 0
  BY <1>3, <1>7, <1>8 DEF OffSlots
<1>19. LinkedSlots(slots)'
  <2>1. \A s \in DOMAIN z : z[s].life = "shown" => z[s].registered
    BY <1>7, <1>8
  <2>2. \A k \in DOMAIN requests' : ShownIn(z, requests'[k].monitor)
    BY <1>16 DEF ShownIn
  <2> QED BY <1>2, <1>15, <1>17, <1>18, <2>1, <2>2 DEF LinkedSlots, ShownIn
<1>20. ASSUME muddled' = {} PROVE OrderlySlots(slots)'
  <2>1. \A s \in DOMAIN z : Waits(z, s) => NamesFirst(z, s)
    BY <1>2, <1>15, <1>20, OrderRecalled
  <2>2. \A k \in DOMAIN requests' : Booked(z, requests'[k])
    BY <1>16 DEF Booked, Waits
  <2>3. \A s \in DOMAIN z : z[s].life = "shown" => Answered(slots, s)'
    BY <1>2, <1>15, <1>18 DEF Answered
  <2> QED BY <1>2, <1>15, <1>17, <2>1, <2>2, <2>3 DEF OrderlySlots, Booked, Waits, NamesFirst
<1>21. OutputsLinked(slots)'
  BY <1>15, <1>19, <1>20 DEF OutputsLinked
<1> QED BY <1>1, <1>2, <1>9, <1>10, <1>14, <1>21 DEF OutputsInv

\* A slot that a failing loop marked.
LEMMA FlagsMarked ==
  ASSUME NEW e \in SlotRecords
  PROVE  LET z == [e EXCEPT !.registered = TRUE, !.outputId = 0] IN
         /\ z \in SlotRecords /\ z.life = e.life /\ z.monitor = e.monitor /\ z.id = e.id
         /\ z.registered = TRUE /\ z.outputId = 0
<1> DEFINE z == [e EXCEPT !.registered = TRUE, !.outputId = 0]
<1>1. z \in SlotRecords
  BY DEF SlotRecords
<1>2. z.life = e.life /\ z.monitor = e.monitor /\ z.id = e.id
  BY DEF SlotRecords
<1>3. z.registered = TRUE /\ z.outputId = 0
  BY DEF SlotRecords
<1> QED BY <1>1, <1>2, <1>3

\* A loop that fails leaves flags, and no connection.
LEMMA BreaksKeeps ==
  ASSUME OutputsInv, Connects, NEW k \in 1 .. Cardinality(ToRegister), BreaksOff(k) PROVE OutputsInv'
<1> DEFINE marked == {s \in Slot : Publishable(s) /\ s >= InOrder(ToRegister)[k]}
           z == [s \in Slot |-> [slots[s] EXCEPT !.registered = s \in marked, !.outputId = 0]]
<1>1. /\ slots \in Seq(SlotRecords) /\ DOMAIN slots = 1 .. Len(slots) /\ Len(slots) \in Nat
      /\ Slot = DOMAIN slots /\ PointerFits(slots) /\ FitSlots(slots, plugs) /\ LinkTypes
      /\ plugs \in 0 .. MaxPlugs /\ plugs \in Nat /\ turns \in Nat
  BY SlotsFacts DEF OutputsInv
<1>2. /\ transport = 0 /\ slots' = z /\ unsent' = {slots[s].monitor : s \in marked}
      /\ transport' = 0 /\ hearing' = FALSE /\ transports' = transports + 1
      /\ UNCHANGED << plugs, turns, requests, accepts, daemonHas, pointer >>
  BY DEF Connects, BreaksOff
<1> HIDE DEF marked
<1>3. \A s \in DOMAIN slots :
        /\ z[s] \in SlotRecords /\ z[s].life = slots[s].life /\ z[s].id = slots[s].id /\ z[s].monitor = slots[s].monitor
        /\ z[s].outputId = 0 /\ (z[s].registered <=> s \in marked)
  <2> TAKE s \in DOMAIN slots
  <2> DEFINE e == slots[s]
  <2>1. e \in SlotRecords
    BY <1>1
  <2>2. CASE s \in marked
    <3>1. z[s] = [e EXCEPT !.registered = TRUE, !.outputId = 0]
      BY <1>1, <2>2
    <3> HIDE DEF e, z
    <3> QED BY <2>1, <2>2, <3>1, FlagsMarked DEF e
  <2>3. CASE s \notin marked
    <3> DEFINE b == s \in marked
    <3>0. z[s] = [e EXCEPT !.registered = b, !.outputId = 0]
      BY <1>1
    <3>2. b = FALSE
      BY <2>3
    <3> HIDE DEF b
    <3>1. z[s] = [e EXCEPT !.registered = FALSE, !.outputId = 0]
      BY <3>0, <3>2, Zenon
    <3> HIDE DEF e, z
    <3> QED BY <2>1, <2>3, <3>1, FlagsForgotten DEF e
  <2> QED BY <2>2, <2>3
<1>4. z \in Seq(SlotRecords) /\ Len(z) = Len(slots) /\ DOMAIN z = DOMAIN slots
  <2>1. z \in [1 .. Len(slots) -> SlotRecords]
    BY <1>1, <1>3
  <2> HIDE DEF z
  <2> QED BY <1>1, <2>1
<1> HIDE DEF z
<1>5. FitSlots(z, plugs)
  <2>1. 0 \in 0 .. plugs
    BY <1>1
  <2>2. \A s \in DOMAIN slots : z[s].life = slots[s].life /\ z[s].monitor = slots[s].monitor
                                /\ z[s].id = slots[s].id /\ z[s].outputId \in 0 .. plugs
    BY <1>3, <2>1
  <2> QED BY <1>1, <1>4, <2>2, SameFits
<1>6. PointerFits(slots)'
  <2>1. pointer # 0 => pointer \in DOMAIN slots
    BY <1>1 DEF PointerFits
  <2> QED BY <1>1, <1>2, <1>3, <1>4, <2>1 DEF PointerFits
<1>7. LinkTypes'
  <2>1. requests = << >> /\ accepts = << >> /\ DOMAIN daemonHas = {} /\ transports \in Nat
    BY <1>1, <1>2 DEF LinkTypes
  <2>2. requests' \in Seq(Registrations) /\ accepts' \in Seq(Accepts)
    BY <1>2, <2>1
  <2>3. transports' \in Nat /\ transport' \in 0 .. transports'
    BY <1>2, <2>1
  <2>4. hearing' \in BOOLEAN /\ ~hearing'
    BY <1>2
  <2> QED BY <1>2, <2>1, <2>2, <2>3, <2>4 DEF LinkTypes
<1>8. OffSlots(slots)'
  <2>1. \A s \in DOMAIN z : z[s].registered => z[s].monitor \in unsent'
    BY <1>2, <1>3, <1>4
  <2> QED BY <1>2, <1>3, <1>4, <2>1 DEF OffSlots
<1>9. OutputsLinked(slots)'
  BY <1>2, <1>8 DEF OutputsLinked
<1> QED BY <1>1, <1>2, <1>5, <1>6, <1>7, <1>9 DEF OutputsInv

LEMMA OutputsConnectKeeps == ASSUME OutputsInv, Connects, Recalled PROVE OutputsInv'
BY RegistersKeeps, BreaksKeeps DEF Connects


\* The daemon reads the first request.
LEMMA RequestReadKeeps == ASSUME OutputsInv, DaemonReads, Recalled PROVE OutputsInv'
<1> DEFINE r == Head(requests)
           L == Len(requests)
           w == [id |-> r.id, monitor |-> r.monitor]
           A == Len(accepts)
<1>1. /\ slots \in Seq(SlotRecords) /\ FitSlots(slots, plugs) /\ PointerFits(slots) /\ LinkTypes /\ OutputsLinked(slots)
  BY SlotsFacts DEF OutputsInv
<1>2. /\ requests # << >> /\ requests' = Tail(requests)
      /\ daemonHas' = [k \in DOMAIN daemonHas \cup {r.monitor} |-> IF k = r.monitor THEN r.desc ELSE daemonHas[k]]
      /\ accepts' = (IF r.monitor \in DOMAIN daemonHas THEN accepts ELSE Append(accepts, w))
      /\ UNCHANGED << slots, plugs, turns, transport, transports, hearing, pointer, unsent, untold >>
  BY DEF DaemonReads
<1>3. requests \in Seq(Registrations) /\ accepts \in Seq(Accepts)
  BY <1>1 DEF LinkTypes
<1>4. /\ L \in Nat /\ L >= 1 /\ DOMAIN requests = 1 .. L /\ r = requests[1] /\ requests[1] \in Registrations
  BY <1>2, <1>3
<1>5. /\ requests' \in Seq(Registrations) /\ DOMAIN requests' = 1 .. (L - 1)
      /\ \A k \in 1 .. (L - 1) : requests'[k] = requests[k + 1]
  BY <1>2, <1>3, <1>4
<1>6. w \in Accepts /\ w.monitor = r.monitor /\ w.id = r.id
  <2>1. r \in Registrations
    BY <1>4
  <2>2. r.id \in Nat /\ r.monitor \in Nat
    BY <2>1 DEF Registrations
  <2> QED BY <2>2 DEF Accepts
<1>7. A \in Nat /\ DOMAIN accepts = 1 .. A
  BY <1>3
<1>8. transport # 0 /\ LinkedSlots(slots)
  BY <1>1, <1>2 DEF LinkTypes, OutputsLinked
<1>9. /\ DOMAIN daemonHas' = DOMAIN daemonHas \cup {r.monitor} /\ daemonHas'[r.monitor] = r.desc
      /\ \A k \in DOMAIN daemonHas : k # r.monitor => daemonHas'[k] = daemonHas[k]
  BY <1>2
<1> HIDE DEF r, w, L, A
<1>10. /\ accepts' \in Seq(Accepts)
       /\ r.monitor \in DOMAIN daemonHas => accepts' = accepts
       /\ r.monitor \notin DOMAIN daemonHas =>
            /\ DOMAIN accepts' = 1 .. (A + 1) /\ accepts'[A + 1] = w
            /\ \A k \in 1 .. A : accepts'[k] = accepts[k]
  <2>1. CASE r.monitor \in DOMAIN daemonHas
    BY <1>2, <1>3, <2>1
  <2>2. CASE r.monitor \notin DOMAIN daemonHas
    <3>1. accepts' = Append(accepts, w)
      BY <1>2, <2>2
    <3>2. A = Len(accepts)
      BY DEF A
    <3>3. /\ accepts' \in Seq(Accepts) /\ DOMAIN accepts' = 1 .. (A + 1) /\ accepts'[A + 1] = w
          /\ \A k \in 1 .. A : accepts'[k] = accepts[k]
      BY <1>3, <1>6, <1>7, <3>1, <3>2
    <3> QED BY <2>2, <3>3
  <2> QED BY <2>1, <2>2
<1>11. /\ \A k \in DOMAIN accepts : k \in DOMAIN accepts' /\ accepts'[k] = accepts[k]
       /\ \A k \in DOMAIN accepts' :
            (k \in DOMAIN accepts /\ accepts'[k] = accepts[k])
            \/ (r.monitor \notin DOMAIN daemonHas /\ accepts'[k] = w /\ k = A + 1)
  <2>1. CASE r.monitor \in DOMAIN daemonHas
    BY <1>10, <2>1
  <2>2. CASE r.monitor \notin DOMAIN daemonHas
    <3>1. \A k \in 1 .. (A + 1) : k = A + 1 \/ k \in 1 .. A
      BY <1>7
    <3>2. \A k \in 1 .. A : k \in 1 .. (A + 1)
      BY <1>7
    <3> QED BY <1>7, <1>10, <2>2, <3>1, <3>2
  <2> QED BY <2>1, <2>2
<1>12. LinkTypes'
  <2>1. UNCHANGED << transport, transports, hearing >>
    BY <1>2
  <2> QED BY <1>1, <1>5, <1>8, <1>10, <2>1 DEF LinkTypes
\* What is still to be read follows it.
<1>13. /\ \A k \in DOMAIN requests' : k + 1 \in DOMAIN requests /\ requests'[k] = requests[k + 1] /\ k \in Nat
       /\ \A k \in DOMAIN requests : k = 1 \/ (k - 1 \in DOMAIN requests' /\ requests'[k - 1] = requests[k])
       /\ 1 \in DOMAIN requests
  BY <1>4, <1>5
<1>14. \A s \in DOMAIN slots : Enlisted(slots, s) => Enlisted(slots, s)'
  <2>1. slots' = slots
    BY <1>2
  <2> QED BY <1>4, <1>9, <1>13, <2>1 DEF Enlisted
<1>15. LinkedSlots(slots)'
  <2>1. UNCHANGED << slots, hearing, unsent >>
    BY <1>2
  <2>2. \A k \in DOMAIN requests' : ShownIn(slots, requests'[k].monitor)
    BY <1>8, <1>13 DEF LinkedSlots
  <2>3. \A m \in DOMAIN daemonHas' : ShownIn(slots, m)
    BY <1>4, <1>8, <1>9, <1>13 DEF LinkedSlots
  <2>4. \A k \in DOMAIN accepts' : accepts'[k].monitor \in DOMAIN daemonHas'
    BY <1>6, <1>8, <1>9, <1>11 DEF LinkedSlots
  <2>5. \A j, k \in DOMAIN accepts' : accepts'[j].monitor = accepts'[k].monitor => j = k
    <3>1. \A k \in DOMAIN accepts : accepts[k].monitor \in DOMAIN daemonHas
      BY <1>8 DEF LinkedSlots
    <3>2. \A j, k \in DOMAIN accepts : accepts[j].monitor = accepts[k].monitor => j = k
      BY <1>8 DEF LinkedSlots
    <3> QED BY <1>6, <1>11, <3>1, <3>2
  <2>6. \A s \in DOMAIN slots : slots[s].outputId # 0 => slots[s].outputId \in DOMAIN daemonHas'
    BY <1>8, <1>9 DEF LinkedSlots
  <2>7. hearing => \A s \in DOMAIN slots : slots[s].life = "shown" /\ slots[s].monitor \notin unsent => Enlisted(slots, s)'
    BY <1>8, <1>14 DEF LinkedSlots
  <2>8. \A s \in DOMAIN slots : slots[s].life = "shown" => slots[s].registered
    BY <1>8 DEF LinkedSlots
  <2> QED BY <2>1, <2>2, <2>3, <2>4, <2>5, <2>6, <2>7, <2>8 DEF LinkedSlots, ShownIn
<1>16. ASSUME muddled' = {} PROVE OrderlySlots(slots)'
  <2>1. UNCHANGED << slots, hearing, unsent, untold, transport >>
    BY <1>2
  <2>2. muddled = {}
    BY <1>8, <1>16, <2>1, OrderRecalled
  <2>3. OrderlySlots(slots)
    BY <1>1, <1>8, <2>2 DEF OutputsLinked
  <2>4. \A k \in DOMAIN requests' : requests'[k].monitor \notin DOMAIN daemonHas' => Booked(slots, requests'[k])
    BY <1>9, <1>13, <2>3 DEF OrderlySlots
  <2>5. r.monitor \notin DOMAIN daemonHas => Booked(slots, w)
    <3>1. r.monitor \notin DOMAIN daemonHas => Booked(slots, r)
      BY <1>4, <1>13, <2>3 DEF OrderlySlots
    <3> QED BY <1>6, <3>1 DEF Booked
  <2>6. \A k \in DOMAIN accepts' : Booked(slots, accepts'[k])
    BY <1>11, <2>3, <2>5 DEF OrderlySlots
  <2>7. ASSUME NEW s \in DOMAIN slots, slots[s].life = "shown" PROVE Answered(slots, s)'
    <3> DEFINE m == slots[s].monitor
    <3>1. slots[s].outputId = m \/ (slots[s].outputId = 0 /\ (m \in DOMAIN daemonHas => \E k \in DOMAIN accepts : accepts[k].monitor = m))
      BY <2>3, <2>7 DEF OrderlySlots, Answered
    <3> HIDE DEF m
    <3>2. ASSUME m \in DOMAIN daemonHas', m \notin DOMAIN daemonHas PROVE \E k \in DOMAIN accepts' : accepts'[k].monitor = m
      <4>1. m = r.monitor
        BY <1>9, <3>2
      <4>2. A + 1 \in DOMAIN accepts' /\ accepts'[A + 1] = w
        BY <1>7, <1>10, <3>2, <4>1
      <4> QED BY <1>6, <4>1, <4>2
    <3>3. m \in DOMAIN daemonHas /\ (\E k \in DOMAIN accepts : accepts[k].monitor = m) => \E k \in DOMAIN accepts' : accepts'[k].monitor = m
      BY <1>11
    <3> QED BY <2>1, <3>1, <3>2, <3>3 DEF Answered, m
  <2>8. ASSUME hearing, NEW s \in DOMAIN slots, slots[s].life = "shown", slots[s].monitor \notin unsent \cup untold
        PROVE  Told(slots, s)'
    <3> DEFINE m == slots[s].monitor
               d == slots[s].desc
    <3>1. Told(slots, s)
      BY <2>3, <2>8 DEF OrderlySlots
    <3>2. CASE \E k \in DOMAIN requests :
                 /\ requests[k].monitor = m /\ requests[k].desc = d
                 /\ \A j \in DOMAIN requests : j > k => requests[j].monitor # m
      <4>1. PICK k \in 1 .. L : /\ requests[k].monitor = m /\ requests[k].desc = d
                                /\ \A j \in 1 .. L : j > k => requests[j].monitor # m
        BY <1>4, <3>2
      <4> HIDE DEF m, d
      <4>2. CASE k = 1
        <5>1. r.monitor = m /\ r.desc = d
          BY <1>4, <4>1, <4>2
        <5>2. \A j \in DOMAIN requests' : requests'[j].monitor # m
          <6> TAKE j \in DOMAIN requests'
          <6>1. j + 1 \in 1 .. L /\ j + 1 > k /\ requests'[j] = requests[j + 1]
            BY <1>4, <1>5, <4>2
          <6> QED BY <4>1, <6>1
        <5>3. m \in DOMAIN daemonHas' /\ daemonHas'[m] = d
          BY <1>9, <5>1
        <5> QED BY <2>1, <5>2, <5>3 DEF Told, m, d
      <4>3. CASE k # 1
        <5> DEFINE i == k - 1
        <5>1. i \in DOMAIN requests' /\ requests'[i] = requests[k] /\ i \in Nat /\ k = i + 1
          BY <1>4, <1>5, <4>3
        <5> HIDE DEF i
        <5>2. \A j \in DOMAIN requests' : j > i => requests'[j].monitor # m
          <6> TAKE j \in DOMAIN requests'
          <6> HAVE j > i
          <6>1. j + 1 \in 1 .. L /\ j + 1 > k /\ requests'[j] = requests[j + 1]
            BY <1>4, <1>5, <5>1
          <6> QED BY <4>1, <6>1
        <5>3. requests'[i].monitor = m /\ requests'[i].desc = d
          BY <4>1, <5>1
        <5> QED BY <2>1, <5>1, <5>2, <5>3 DEF Told, m, d
      <4> QED BY <4>2, <4>3
    <3>3. CASE /\ \A k \in DOMAIN requests : requests[k].monitor # m
               /\ m \in DOMAIN daemonHas /\ daemonHas[m] = d
      <4> HIDE DEF m, d
      <4>1. r.monitor # m
        BY <1>4, <1>13, <3>3
      <4>2. \A k \in DOMAIN requests' : requests'[k].monitor # m
        BY <1>13, <3>3
      <4>3. m \in DOMAIN daemonHas' /\ daemonHas'[m] = d
        BY <1>9, <3>3, <4>1
      <4> QED BY <2>1, <4>2, <4>3 DEF Told, m, d
    <3> QED BY <3>1, <3>2, <3>3 DEF Told
  <2> QED BY <2>1, <2>3, <2>4, <2>6, <2>7, <2>8 DEF OrderlySlots, Waits, NamesFirst, Booked
<1>17. OutputsLinked(slots)'
  BY <1>2, <1>8, <1>15, <1>16 DEF OutputsLinked
<1>18. UNCHANGED << slots, plugs, turns, pointer >>
  BY <1>2
<1> QED BY <1>1, <1>12, <1>17, <1>18 DEF OutputsInv, PointerFits

\* The consumer reads the first OUTPUT_ACCEPTED.
LEMMA AcceptedKeeps == ASSUME OutputsInv, OutputAccepted, Recalled PROVE OutputsInv'
<1> DEFINE e == Head(accepts)
           A == Len(accepts)
           S == {s \in Slot : slots[s].life # "gone" /\ slots[s].id = e.id}
           l == CHOOSE s \in S : \A r \in S : s <= r
           x == [slots[l] EXCEPT !.outputId = e.monitor]
<1>1. /\ slots \in Seq(SlotRecords) /\ DOMAIN slots = 1 .. Len(slots) /\ Len(slots) \in Nat
      /\ Slot = DOMAIN slots /\ PointerFits(slots) /\ FitSlots(slots, plugs)
      /\ plugs \in 0 .. MaxPlugs /\ plugs \in Nat /\ turns \in Nat /\ OutputsLinked(slots) /\ LinkTypes
  BY SlotsFacts DEF OutputsInv
<1>2. /\ accepts # << >> /\ accepts' = Tail(accepts)
      /\ slots' = IF S = {} THEN slots ELSE [slots EXCEPT ![l].outputId = e.monitor]
      /\ UNCHANGED << plugs, turns, transport, transports, hearing, requests, daemonHas, pointer, unsent, untold >>
  BY DEF OutputAccepted
<1>3. accepts \in Seq(Accepts)
  BY <1>1 DEF LinkTypes
<1>4. A \in Nat /\ A >= 1 /\ DOMAIN accepts = 1 .. A /\ e = accepts[1] /\ e \in Accepts
  BY <1>2, <1>3
<1>5. /\ accepts' \in Seq(Accepts) /\ DOMAIN accepts' = 1 .. (A - 1)
      /\ \A k \in 1 .. (A - 1) : accepts'[k] = accepts[k + 1]
  BY <1>2, <1>3, <1>4
<1>6. transport # 0
  BY <1>1, <1>2 DEF LinkTypes
<1>7. S \in SUBSET (1 .. Len(slots)) /\ \A s \in DOMAIN slots : s \in S <=> slots[s].life # "gone" /\ slots[s].id = e.id
  BY <1>1
<1>8. S # {} => l \in S /\ \A r \in S : l <= r
  <2> HIDE DEF S
  <2> QED BY <1>1, <1>7, LeastPosition
<1>9. S # {} => slots' = [slots EXCEPT ![l] = x]
  BY <1>2
<1>10. \A s \in DOMAIN slots : slots[s] \in SlotRecords
  BY <1>1
<1> HIDE DEF e, A, S, l
<1>11. e.monitor \in Nat
  BY <1>4 DEF Accepts
<1>12. S # {} => /\ x \in SlotRecords /\ x.life = slots[l].life /\ x.monitor = slots[l].monitor /\ x.id = slots[l].id
                 /\ x.desc = slots[l].desc /\ x.registered = slots[l].registered /\ x.outputId = e.monitor
  <2> SUFFICES ASSUME S # {}
               PROVE  /\ x \in SlotRecords /\ x.life = slots[l].life /\ x.monitor = slots[l].monitor
                      /\ x.id = slots[l].id /\ x.desc = slots[l].desc /\ x.registered = slots[l].registered
                      /\ x.outputId = e.monitor
    OBVIOUS
  <2> DEFINE y == slots[l]
  <2>1. y \in SlotRecords
    BY <1>1, <1>7, <1>8, <1>10
  <2>2. x = [y EXCEPT !.outputId = e.monitor]
    OBVIOUS
  <2> HIDE DEF x, y
  <2>3. x \in SlotRecords
    BY <1>11, <2>1, <2>2 DEF SlotRecords
  <2>4. /\ x.life = y.life /\ x.monitor = y.monitor /\ x.id = y.id /\ x.desc = y.desc
        /\ x.outputId = e.monitor
    BY <2>1, <2>2 DEF SlotRecords
  <2>5. x.registered = y.registered
    BY <2>1, <2>2 DEF SlotRecords
  <2> QED BY <2>3, <2>4, <2>5 DEF y
<1> HIDE DEF x
<1>13. /\ slots' \in Seq(SlotRecords) /\ Len(slots') = Len(slots) /\ DOMAIN slots' = DOMAIN slots
       /\ \A s \in DOMAIN slots : S = {} \/ s # l => slots'[s] = slots[s]
       /\ S # {} => slots'[l] = x
  <2>1. CASE S = {}
    BY <1>1, <1>2, <2>1
  <2>2. CASE S # {}
    BY <1>1, <1>7, <1>8, <1>9, <1>12, <2>2
  <2> QED BY <2>1, <2>2
<1>14. \A s \in DOMAIN slots :
         /\ slots'[s].life = slots[s].life /\ slots'[s].monitor = slots[s].monitor /\ slots'[s].id = slots[s].id
         /\ slots'[s].desc = slots[s].desc /\ slots'[s].registered = slots[s].registered
         /\ slots'[s].outputId \in {slots[s].outputId, e.monitor}
  BY <1>12, <1>13
<1>15. LinkedSlots(slots) /\ e.monitor \in DOMAIN daemonHas
  <2>1. LinkedSlots(slots)
    BY <1>1, <1>6 DEF OutputsLinked
  <2>2. 1 \in DOMAIN accepts
    BY <1>4
  <2> QED BY <1>4, <2>1, <2>2 DEF LinkedSlots
<1>16. PICK m0 \in DOMAIN slots : slots[m0].life = "shown" /\ slots[m0].monitor = e.monitor
  BY <1>15 DEF LinkedSlots, ShownIn
<1>17. FitSlots(slots', plugs)
  <2>1. \A s \in DOMAIN slots : slots[s].outputId \in 0 .. plugs /\ slots[s].monitor \in 1 .. plugs
    BY <1>1 DEF FitSlots, KeptSlots
  <2>2. \A s \in DOMAIN slots : slots'[s].outputId \in 0 .. plugs
    BY <1>1, <1>14, <1>16, <2>1
  <2> DEFINE z == slots'
  <2>3. \A s \in DOMAIN slots : z[s].life = slots[s].life /\ z[s].monitor = slots[s].monitor
                                /\ z[s].id = slots[s].id /\ z[s].outputId \in 0 .. plugs
    BY <1>14, <2>2
  <2>4. z \in Seq(SlotRecords) /\ Len(z) = Len(slots)
    BY <1>13
  <2> HIDE DEF z
  <2>5. FitSlots(z, plugs)
    BY <1>1, <2>3, <2>4, SameFits
  <2> QED BY <2>5 DEF z
<1>18. PointerFits(slots)'
  <2>1. pointer # 0 => pointer \in DOMAIN slots
    BY <1>1 DEF PointerFits
  <2> QED BY <1>1, <1>2, <1>13, <1>14, <2>1 DEF PointerFits
<1>19. LinkTypes'
  <2>1. UNCHANGED << transport, transports, hearing, requests, daemonHas >>
    BY <1>2
  <2> QED BY <1>1, <1>5, <1>6, <2>1 DEF LinkTypes
<1>20. /\ \A k \in DOMAIN accepts' : k + 1 \in DOMAIN accepts /\ accepts'[k] = accepts[k + 1] /\ k \in Nat /\ k + 1 # 1
       /\ 1 \in DOMAIN accepts
       /\ \A k \in DOMAIN accepts : k # 1 => k - 1 \in DOMAIN accepts' /\ accepts'[k - 1] = accepts[k]
  BY <1>4, <1>5
\* No other answer is for the same monitor.
<1>21. \A k \in DOMAIN accepts' : accepts'[k].monitor # e.monitor
  <2> TAKE k \in DOMAIN accepts'
  <2>1. k + 1 \in DOMAIN accepts /\ accepts'[k] = accepts[k + 1] /\ 1 \in DOMAIN accepts /\ k + 1 # 1
    BY <1>20
  <2> QED BY <1>4, <1>15, <2>1 DEF LinkedSlots
<1>22. UNCHANGED << transport, hearing, requests, daemonHas, unsent, untold >>
  BY <1>2
<1>23. LinkedSlots(slots)'
  <2>1. \A s \in DOMAIN slots' : slots'[s].life = "shown" => slots'[s].registered
    BY <1>13, <1>14, <1>15 DEF LinkedSlots
  <2>2. \A m : ShownIn(slots, m) => ShownIn(slots', m)
    BY <1>13, <1>14 DEF ShownIn
  <2>3. \A k \in DOMAIN requests : ShownIn(slots', requests[k].monitor)
    BY <1>15, <2>2 DEF LinkedSlots
  <2>4. \A m \in DOMAIN daemonHas : ShownIn(slots', m)
    BY <1>15, <2>2 DEF LinkedSlots
  <2>5. \A s \in DOMAIN slots' : slots'[s].outputId # 0 => slots'[s].outputId \in DOMAIN daemonHas
    BY <1>13, <1>14, <1>15 DEF LinkedSlots
  <2>6. \A k \in DOMAIN accepts' : accepts'[k].monitor \in DOMAIN daemonHas
    BY <1>15, <1>20 DEF LinkedSlots
  <2>7. \A j, k \in DOMAIN accepts' : accepts'[j].monitor = accepts'[k].monitor => j = k
    <3> SUFFICES ASSUME NEW j \in DOMAIN accepts', NEW k \in DOMAIN accepts', accepts'[j].monitor = accepts'[k].monitor
                 PROVE  j = k
      OBVIOUS
    <3>1. j + 1 = k + 1
      BY <1>15, <1>20 DEF LinkedSlots
    <3> QED BY <1>20, <3>1
  <2>8. hearing => \A s \in DOMAIN slots' : slots'[s].life = "shown" /\ slots'[s].monitor \notin unsent => Enlisted(slots', s)
    BY <1>13, <1>14, <1>15 DEF LinkedSlots, Enlisted
  <2> QED BY <1>22, <2>1, <2>3, <2>4, <2>5, <2>6, <2>7, <2>8 DEF LinkedSlots, ShownIn, Enlisted
<1>24. ASSUME muddled' = {} PROVE OrderlySlots(slots)'
  <2>1. muddled = {} /\ \A s \in DOMAIN slots' : Waits(slots', s) => NamesFirst(slots', s)
    BY <1>6, <1>22, <1>24, OrderRecalled
  <2>2. OrderlySlots(slots)
    BY <1>1, <1>6, <2>1 DEF OutputsLinked
  <2>3. PICK s0 \in DOMAIN slots : Waits(slots, s0) /\ slots[s0].monitor = e.monitor /\ slots[s0].id = e.id
    BY <1>4, <1>20, <2>2 DEF OrderlySlots, Booked
  <2>4. s0 \in S /\ slots[s0].life = "shown"
    BY <1>7, <2>3 DEF Waits
  <2>5. l \in DOMAIN slots /\ l <= s0 /\ slots[l].life # "gone" /\ slots[l].id = e.id
    BY <1>1, <1>7, <1>8, <2>4
\* It finds the output that it is for.
  <2>6. l = s0
    <3>1. NamesFirst(slots, s0)
      BY <2>2, <2>3 DEF OrderlySlots
    <3>2. l \in Nat /\ s0 \in Nat
      BY <1>1, <2>5
    <3>3. ~(l < s0)
      BY <2>3, <2>5, <3>1 DEF NamesFirst
    <3> QED BY <2>5, <3>2, <3>3
  <2>7. slots'[s0].outputId = e.monitor /\ \A s \in DOMAIN slots : s # s0 => slots'[s] = slots[s]
    BY <1>12, <1>13, <2>4, <2>6
  <2>8. ASSUME NEW g, g.monitor # e.monitor, Booked(slots, g) PROVE Booked(slots', g)
    <3>1. PICK s \in DOMAIN slots : Waits(slots, s) /\ slots[s].monitor = g.monitor /\ slots[s].id = g.id
      BY <2>8 DEF Booked
    <3>2. slots'[s] = slots[s]
      BY <2>3, <2>7, <2>8, <3>1
    <3> QED BY <1>13, <3>1, <3>2 DEF Booked, Waits
  <2>9. \A k \in DOMAIN requests : requests[k].monitor \notin DOMAIN daemonHas => Booked(slots', requests[k])
    BY <1>15, <2>2, <2>8 DEF OrderlySlots
  <2>10. \A k \in DOMAIN accepts' : Booked(slots', accepts'[k])
    BY <1>20, <1>21, <2>2, <2>8 DEF OrderlySlots
  <2>11. ASSUME NEW s \in DOMAIN slots, slots[s].life = "shown" PROVE Answered(slots, s)'
    <3>1. CASE s = s0
      <4>1. slots'[s].outputId = slots'[s].monitor
        BY <1>14, <2>3, <2>7, <3>1
      <4> QED BY <4>1 DEF Answered
    <3>2. CASE s # s0
      <4>1. slots'[s] = slots[s]
        BY <2>7, <3>2
      <4>2. Answered(slots, s)
        BY <2>2, <2>11 DEF OrderlySlots
      <4>3. slots[s].monitor # e.monitor
        BY <1>1, <2>3, <3>2 DEF FitSlots, KeptSlots
      <4>4. ASSUME NEW k \in DOMAIN accepts, accepts[k].monitor = slots[s].monitor
            PROVE  \E j \in DOMAIN accepts' : accepts'[j].monitor = slots[s].monitor
        <5>1. k # 1
          BY <1>4, <4>3, <4>4
        <5>2. k - 1 \in DOMAIN accepts' /\ accepts'[k - 1] = accepts[k]
          BY <1>20, <5>1
        <5> QED BY <4>4, <5>2
      <4> QED BY <1>22, <4>1, <4>2, <4>4 DEF Answered
    <3> QED BY <3>1, <3>2
  <2>12. ASSUME hearing, NEW s \in DOMAIN slots, slots[s].life = "shown", slots[s].monitor \notin unsent \cup untold
         PROVE  Told(slots, s)'
    <3>1. Told(slots, s)
      BY <2>2, <2>12 DEF OrderlySlots
    <3>2. slots'[s].monitor = slots[s].monitor /\ slots'[s].desc = slots[s].desc
      BY <1>14
    <3> QED BY <1>22, <3>1, <3>2 DEF Told
  <2>13. \A s \in DOMAIN slots' : s \in DOMAIN slots /\ (slots'[s].life = "shown" => slots[s].life = "shown")
                                  /\ slots'[s].monitor = slots[s].monitor
    BY <1>13, <1>14
  <2> QED BY <1>22, <2>1, <2>9, <2>10, <2>11, <2>12, <2>13 DEF OrderlySlots, Booked
<1>25. OutputsLinked(slots)'
  BY <1>6, <1>22, <1>23, <1>24 DEF OutputsLinked
<1>26. UNCHANGED << plugs, turns >>
  BY <1>2
<1> QED BY <1>1, <1>17, <1>18, <1>19, <1>25, <1>26 DEF OutputsInv

LEMMA OutputsInitInv == OutputsInit => OutputsInv
<1> SUFFICES ASSUME OutputsInit PROVE OutputsInv
  OBVIOUS
<1>1. /\ slots = << >> /\ plugs = 0 /\ turns = 0 /\ transport = 0 /\ transports = 0 /\ hearing = FALSE
      /\ requests = << >> /\ accepts = << >> /\ daemonHas = << >> /\ pointer = 0
  BY DEF OutputsInit
<1>2. DOMAIN slots = {} /\ DOMAIN daemonHas = {}
  BY <1>1
<1>3. UsedSlots(slots) = {}
  BY <1>2 DEF UsedSlots
<1>4. slots \in Seq(SlotRecords) /\ Len(slots) = 0
  BY <1>1
<1>5. FitSlots(slots, plugs)
  BY <1>2, <1>3, <1>4, OutputBounds DEF FitSlots, KeptSlots, NumberedSlots
<1>6. PointerFits(slots)
  BY <1>1, <1>4 DEF PointerFits
<1>7. LinkTypes
  <2>1. transports \in Nat /\ transport \in 0 .. transports
    BY <1>1
  <2>2. hearing \in BOOLEAN /\ ~hearing
    BY <1>1
  <2>3. requests = << >> /\ accepts = << >> /\ DOMAIN daemonHas = {}
    BY <1>1, <1>2
  <2>4. requests \in Seq(Registrations) /\ accepts \in Seq(Accepts)
    BY <2>3
  <2> QED BY <2>1, <2>2, <2>3, <2>4 DEF LinkTypes
<1>8. OutputsLinked(slots)
  BY <1>1, <1>2 DEF OutputsLinked, OffSlots
<1> QED BY <1>1, <1>5, <1>6, <1>7, <1>8, OutputBounds DEF OutputsInv

LEMMA OutputsInvStep == ASSUME OutputsInv, OutputsNext PROVE OutputsInv'
<1>1. OutputsStep /\ Recalled
  BY DEF OutputsNext
<1>2. CASE OutputAdded
  BY <1>1, <1>2, AddedKeeps
<1>3. ASSUME NEW s \in Slot,
             OutputDone(s) \/ OutputConfigured(s) \/ OutputClosed(s) \/ OutputRemoved(s)
               \/ OutputChanges(s) \/ PointerEnters(s)
      PROVE  OutputsInv'
  BY <1>1, <1>3, DoneKeeps, ShownKeeps, ClosedKeeps, RemovedKeeps, ChangesKeeps, PointerKeeps
<1>4. CASE PointerLeaves
  BY <1>1, <1>4, PointerKeeps
<1>5. CASE Connects
  BY <1>1, <1>5, OutputsConnectKeeps
<1>6. CASE DaemonReads
  BY <1>1, <1>6, RequestReadKeeps
<1>7. CASE DaemonCloses
  BY <1>1, <1>7, HearsNoMore
<1>8. CASE OutputAccepted
  BY <1>1, <1>8, AcceptedKeeps
<1>9. CASE ReadsHangup
  BY <1>9, HangupKeeps
<1> QED BY <1>1, <1>2, <1>3, <1>4, <1>5, <1>6, <1>7, <1>8, <1>9 DEF OutputsStep

LEMMA OutputsInvShows == ASSUME OutputsInv PROVE OutputsAgree
<1>1. /\ slots \in Seq(SlotRecords) /\ DOMAIN slots = 1 .. Len(slots) /\ Len(slots) \in Nat
      /\ Slot = DOMAIN slots /\ PointerFits(slots) /\ FitSlots(slots, plugs) /\ plugs \in Nat
      /\ OutputsLinked(slots) /\ LinkTypes
  BY SlotsFacts DEF OutputsInv
<1>2. \A s \in DOMAIN slots : /\ slots[s] \in SlotRecords /\ slots[s].id \in 1 .. s /\ slots[s].monitor \in 1 .. plugs
                              /\ slots[s].outputId \in 0 .. plugs
  BY <1>1 DEF FitSlots, KeptSlots
<1>3. Len(slots) <= MaxSlots /\ MaxSlots \in Nat
  BY <1>1, OutputBounds DEF FitSlots, KeptSlots
<1>4. \A s \in DOMAIN slots : slots[s].life \in SlotLives
  BY <1>2 DEF SlotRecords
<1>5. transport # 0 => LinkedSlots(slots) /\ (muddled = {} => OrderlySlots(slots))
  BY <1>1 DEF OutputsLinked
<1>6. OutputsTypeOK
  <2>1. \A s \in DOMAIN slots : slots[s].id \in 1 .. MaxSlots
    BY <1>1, <1>2, <1>3
  <2>2. DOMAIN daemonHas \subseteq 1 .. plugs
    <3>1. CASE transport = 0
      BY <1>1, <3>1 DEF LinkTypes
    <3>2. CASE transport # 0
      BY <1>2, <1>5, <3>2 DEF LinkedSlots, ShownIn
    <3> QED BY <3>1, <3>2
  <2>3. transport \in 0 .. transports /\ pointer \in 0 .. Len(slots)
    BY <1>1 DEF LinkTypes, PointerFits
  <2>4. \A s \in DOMAIN slots : slots[s].life \in {"known", "layer", "shown", "closed", "gone"}
    BY <1>4 DEF SlotLives
  <2> QED BY <1>1, <1>2, <2>1, <2>2, <2>3, <2>4 DEF OutputsTypeOK
<1>7. DaemonSeesOutputs
  <2> SUFFICES ASSUME transport # 0, hearing, requests = << >>, accepts = << >>
               PROVE  /\ DOMAIN daemonHas \subseteq {slots[s].monitor : s \in {r \in Slot : Publishable(r)}}
                      /\ \A s \in Slot : Publishable(s) /\ slots[s].monitor \notin unsent =>
                           /\ slots[s].monitor \in DOMAIN daemonHas
                           /\ \/ daemonHas[slots[s].monitor] = slots[s].desc
                              \/ slots[s].monitor \in untold
                              \/ muddled # {}
    BY DEF DaemonSeesOutputs
  <2>1. DOMAIN requests = {}
    OBVIOUS
  <2>2. \A m \in DOMAIN daemonHas : ShownIn(slots, m)
    BY <1>5 DEF LinkedSlots
  <2>3. \A s \in DOMAIN slots : slots[s].life = "shown" /\ slots[s].monitor \notin unsent => slots[s].monitor \in DOMAIN daemonHas
    BY <1>5, <2>1 DEF LinkedSlots, Enlisted
  <2>4. muddled = {} => \A s \in DOMAIN slots :
          slots[s].life = "shown" /\ slots[s].monitor \notin unsent \cup untold => daemonHas[slots[s].monitor] = slots[s].desc
    BY <1>5, <2>1 DEF OrderlySlots, Told
  <2>5. DOMAIN daemonHas \subseteq {slots[s].monitor : s \in {r \in Slot : Publishable(r)}}
    BY <1>1, <2>2 DEF ShownIn, Publishable
  <2> QED BY <1>1, <2>3, <2>4, <2>5 DEF Publishable
<1>8. NumbersAreApart
  <2> SUFFICES ASSUME NEW r \in DOMAIN slots, NEW s \in DOMAIN slots, slots[r].life = "shown", slots[s].life = "shown", r < s
               PROVE  slots[r].id # slots[s].id
    BY <1>1 DEF NumbersAreApart, Publishable
  <2>1. slots[r].id < slots[s].id
    BY <1>1 DEF FitSlots, NumberedSlots, UsedSlots
  <2>2. slots[r].id \in Nat
    BY <1>2
  <2> QED BY <2>1, <2>2
<1>9. IdsAreOwn
  <2>1. transport = 0 => \A s \in DOMAIN slots : slots[s].outputId = 0
    BY <1>1 DEF OutputsLinked, OffSlots
  <2>2. transport # 0 /\ muddled = {} =>
          \A s \in DOMAIN slots : slots[s].life = "shown" => slots[s].outputId \in {0, slots[s].monitor}
    BY <1>5 DEF OrderlySlots, Answered
  <2> QED BY <1>1, <2>1, <2>2 DEF IdsAreOwn, Publishable
<1>10. PointerHasSurface
  BY <1>1 DEF PointerFits, PointerHasSurface
<1>11. ReconnectReplacesOutputs
  <2> SUFFICES ASSUME transport # 0, hearing, requests = << >>, accepts = << >>, muddled = {},
                      NEW s \in Slot, Publishable(s), slots[s].monitor \notin unsent
               PROVE  slots[s].outputId = slots[s].monitor
    BY DEF ReconnectReplacesOutputs
  <2>1. DOMAIN requests = {} /\ DOMAIN accepts = {}
    OBVIOUS
  <2>2. Answered(slots, s) /\ Enlisted(slots, s)
    BY <1>1, <1>5 DEF OrderlySlots, LinkedSlots, Publishable
  <2> QED BY <2>1, <2>2 DEF Answered, Enlisted
<1> QED BY <1>6, <1>7, <1>8, <1>9, <1>10, <1>11 DEF OutputsAgree
=============================================================================
