-------------------------- MODULE EdgeParts_proofs --------------------------
(***************************************************************************)
(* What parts of the consumers and of the renderers promise, for any       *)
(* number of frames, buffers, outputs, processes and settings.             *)
(***************************************************************************)
EXTENDS MCEdgeParts, Consumers_proofs

-----------------------------------------------------------------------------
(* The shadow copies.                                                       *)

Copies  == [frame : FrameIds, into : 1 .. MaxShadows, back : {"none", "host", "fence", "closed"}]
Shadows == [id : 0 .. MaxShadows, content : BOOLEAN]

\* Every copy on the GPU is armed in the ring and writes the shadow of now, and a view
\* that fades is released before the image of its parked shadow goes.
RingInv ==
  /\ ring \in [1 .. Slots -> FrameIds \cup {0}] /\ nextSlot \in 1 .. Slots
  /\ gpu \in Seq(Copies) /\ shadow \in Shadows
  /\ images \subseteq 1 .. MaxShadows
  /\ parked \in [DOMAIN parked -> 1 .. 2] /\ fading \in [DOMAIN fading -> 1 .. 2]
  /\ passAt \in {"idle", "draw", "copy", "end"}
  /\ DrainedIsIdle
  /\ Copying(gpu) \subseteq {ring[i] : i \in 1 .. Slots}
  /\ \A i \in DOMAIN gpu : gpu[i].back \in {"fence", "closed"} /\ gpu[i].into = shadow.id /\ shadow.id # 0
  /\ shadow.id # 0 => shadow.id \in images /\ shadow.id \notin DOMAIN parked
  /\ sampled # 0 => sampled = shadow.id /\ shadow.content
  /\ DOMAIN parked \subseteq images /\ DOMAIN fading \subseteq images
  /\ \A s \in DOMAIN fading \cap DOMAIN parked :
       IF passAt = "idle" THEN fading[s] < parked[s] ELSE fading[s] <= parked[s]
  /\ ParkingHasRoom
  /\ passAt = "draw" => \A s \in DOMAIN parked : parked[s] = 1

LEMMA RingInvInit == RingInit => RingInv
<1> SUFFICES ASSUME RingInit PROVE RingInv
  OBVIOUS
<1> USE RingAssumption
<1>1. gpu \in Seq(Copies) /\ DOMAIN gpu = {}
  BY DEF RingInit
<1>2. shadow \in Shadows /\ shadow.id = 0
  BY DEF RingInit, NoShadow, Shadows
<1>3. DOMAIN parked = {} /\ DOMAIN fading = {}
  BY DEF RingInit
<1>4. parked \in [DOMAIN parked -> 1 .. 2] /\ fading \in [DOMAIN fading -> 1 .. 2]
  BY <1>3 DEF RingInit
<1>5. Copying(gpu) = {}
  BY <1>1 DEF Copying
<1>6. ring \in [1 .. Slots -> FrameIds \cup {0}] /\ nextSlot \in 1 .. Slots
  BY DEF RingInit
<1>7. passAt = "idle" /\ drained = FALSE /\ sampled = 0 /\ images = {}
  BY DEF RingInit
<1> QED BY <1>1, <1>2, <1>3, <1>4, <1>5, <1>6, <1>7 DEF RingInv, DrainedIsIdle, ParkingHasRoom

\* A set of frames has a first one.
LEMMA LeastFrame ==
  ASSUME NEW S \in SUBSET FrameIds, S # {}
  PROVE  \E f \in S : \A g \in S : f <= g
<1>1. S \subseteq Nat
  BY RingAssumption DEF FrameIds
<1>2. IsWellFoundedOn(OpToRel(<, Nat), Nat)
  BY NatLessThanWellFounded
<1>3. PICK f \in S : \A g \in S : << g, f >> \notin OpToRel(<, Nat)
  BY <1>1, <1>2, WFMin
<1>4. \A g \in S : ~(g < f)
  BY <1>1, <1>3 DEF OpToRel
<1> QED BY <1>1, <1>4

\* What is left of a queue after the first k copies.
LEMMA UnfinishedCopies ==
  ASSUME NEW q \in Seq(Copies), NEW k \in 0 .. Len(q)
  PROVE  /\ Unfinished(q, k) \in Seq(Copies)
         /\ Len(Unfinished(q, k)) = Len(q) - k
         /\ \A i \in DOMAIN Unfinished(q, k) : i + k \in DOMAIN q /\ Unfinished(q, k)[i] = q[i + k]
         /\ Copying(Unfinished(q, k)) \subseteq Copying(q)
<1>1. Len(q) \in Nat /\ k + 1 \in 1 .. Len(q) + 1
  OBVIOUS
<1>2. Unfinished(q, k) \in Seq(Copies) /\ Len(Unfinished(q, k)) = Len(q) - k
  BY <1>1 DEF Unfinished
<1>3. \A i \in DOMAIN Unfinished(q, k) : i + k \in DOMAIN q /\ Unfinished(q, k)[i] = q[i + k]
  BY <1>1, <1>2 DEF Unfinished
<1>4. Copying(Unfinished(q, k)) \subseteq Copying(q)
  BY <1>3 DEF Copying
<1> QED BY <1>2, <1>3, <1>4

\* A wait for the copies: those it leaves stay armed.
LEMMA DrainsKeeps ==
  ASSUME RingInv, NEW k \in 0 .. Len(gpu), NEW q, q = Unfinished(gpu, k), Drains(q)
  PROVE  /\ gpu' \in Seq(Copies) /\ gpu' = q
         /\ ring' \in [1 .. Slots -> FrameIds \cup {0}]
         /\ Copying(gpu') \subseteq {ring'[i] : i \in 1 .. Slots}
         /\ \A i \in DOMAIN gpu' : gpu'[i].back \in {"fence", "closed"} /\ gpu'[i].into = shadow.id /\ shadow.id # 0
         /\ RingIdle(q) => gpu' = << >>
<1> USE RingAssumption
<1>0. ring \in [1 .. Slots -> FrameIds \cup {0}] /\ gpu \in Seq(Copies)
      /\ Copying(gpu) \subseteq {ring[i] : i \in 1 .. Slots}
      /\ \A i \in DOMAIN gpu : gpu[i].back \in {"fence", "closed"} /\ gpu[i].into = shadow.id /\ shadow.id # 0
  BY DEF RingInv
<1>1. gpu' = q /\ ring' = [i \in 1 .. Slots |-> IF ring[i] \in Copying(q) THEN ring[i] ELSE 0]
  BY DEF Drains, Reclaimed
<1>2. q \in Seq(Copies) /\ Copying(q) \subseteq Copying(gpu)
      /\ \A i \in DOMAIN q : i + k \in DOMAIN gpu /\ q[i] = gpu[i + k]
  BY <1>0, UnfinishedCopies
<1>3. ring' \in [1 .. Slots -> FrameIds \cup {0}]
  BY <1>0, <1>1
<1>4. \A i \in DOMAIN gpu' : gpu'[i].back \in {"fence", "closed"} /\ gpu'[i].into = shadow.id /\ shadow.id # 0
  BY <1>0, <1>1, <1>2
<1>5. ASSUME NEW f \in Copying(q) PROVE \E i \in 1 .. Slots : ring[i] = f /\ ring'[i] = f
  BY <1>0, <1>1, <1>2
<1>6. Copying(gpu') \subseteq {ring'[i] : i \in 1 .. Slots}
  BY <1>1, <1>5
<1>7. ASSUME RingIdle(q) PROVE q = << >>
  <2>1. Copying(q) = {}
    BY <1>5, <1>7 DEF RingIdle
  <2>2. DOMAIN q = {}
    BY <2>1 DEF Copying
  <2> QED BY <1>2, <2>2
<1> QED BY <1>1, <1>2, <1>3, <1>4, <1>6, <1>7

LEMMA RingInvStep ==
  ASSUME RingInv, [RingNext]_allRing
  PROVE  RingInv'
<1> USE RingAssumption
<1>0. /\ ring \in [1 .. Slots -> FrameIds \cup {0}] /\ nextSlot \in 1 .. Slots
      /\ gpu \in Seq(Copies) /\ shadow \in Shadows
      /\ images \subseteq 1 .. MaxShadows
      /\ parked \in [DOMAIN parked -> 1 .. 2] /\ fading \in [DOMAIN fading -> 1 .. 2]
      /\ passAt \in {"idle", "draw", "copy", "end"}
      /\ DrainedIsIdle
      /\ Copying(gpu) \subseteq {ring[i] : i \in 1 .. Slots}
      /\ \A i \in DOMAIN gpu : gpu[i].back \in {"fence", "closed"} /\ gpu[i].into = shadow.id /\ shadow.id # 0
      /\ shadow.id # 0 => shadow.id \in images /\ shadow.id \notin DOMAIN parked
      /\ sampled # 0 => sampled = shadow.id /\ shadow.content
      /\ DOMAIN parked \subseteq images /\ DOMAIN fading \subseteq images
      /\ \A s \in DOMAIN fading \cap DOMAIN parked :
           IF passAt = "idle" THEN fading[s] < parked[s] ELSE fading[s] <= parked[s]
      /\ \A s, t \in DOMAIN parked : parked[s] = parked[t] => s = t
      /\ passAt = "draw" => \A s \in DOMAIN parked : parked[s] = 1
  BY DEF RingInv, ParkingHasRoom
<1> DEFINE Ring ==
             /\ ring' \in [1 .. Slots -> FrameIds \cup {0}] /\ nextSlot' \in 1 .. Slots
             /\ gpu' \in Seq(Copies)
             /\ \A i \in DOMAIN gpu' : gpu'[i].back \in {"fence", "closed"}
             /\ drained' => gpu' = << >>
             /\ Copying(gpu') \subseteq {ring'[i] : i \in 1 .. Slots}
           Writes == \A i \in DOMAIN gpu' : gpu'[i].into = shadow'.id /\ shadow'.id # 0
           Views ==
             /\ shadow' \in Shadows /\ images' \subseteq 1 .. MaxShadows
             /\ parked' \in [DOMAIN parked' -> 1 .. 2] /\ fading' \in [DOMAIN fading' -> 1 .. 2]
             /\ passAt' \in {"idle", "draw", "copy", "end"}
             /\ shadow'.id # 0 => shadow'.id \in images' /\ shadow'.id \notin DOMAIN parked'
             /\ sampled' # 0 => sampled' = shadow'.id /\ shadow'.content
             /\ DOMAIN parked' \subseteq images' /\ DOMAIN fading' \subseteq images'
             /\ \A s \in DOMAIN fading' \cap DOMAIN parked' :
                  IF passAt' = "idle" THEN fading'[s] < parked'[s] ELSE fading'[s] <= parked'[s]
           Apart ==
             /\ \A s, t \in DOMAIN parked' : parked'[s] = parked'[t] => s = t
             /\ passAt' = "draw" => \A s \in DOMAIN parked' : parked'[s] = 1
<1>g. ASSUME Ring, Writes, Views, Apart PROVE RingInv'
  BY <1>g DEF RingInv, DrainedIsIdle, ParkingHasRoom
<1>p. ASSUME parked' = parked, passAt' = "draw" => passAt = "draw" PROVE Apart
  BY <1>0, <1>p
<1>r. ASSUME UNCHANGED ringVars, ~drained' PROVE Ring
  BY <1>0, <1>r DEF ringVars
<1>w. ASSUME UNCHANGED << gpu, shadow >> PROVE Writes
  BY <1>0, <1>w
<1>v. ASSUME UNCHANGED << shadowVars, viewVars, passAt >> PROVE Views
  BY <1>0, <1>v DEF shadowVars, viewVars
<1>1. CASE GpuFinishes
  <2>1. gpu' \in Seq(Copies) /\ \A i \in DOMAIN gpu' : i + 1 \in DOMAIN gpu /\ gpu'[i] = gpu[i + 1]
    BY <1>0, <1>1 DEF GpuFinishes
  <2>2. Copying(gpu') \subseteq Copying(gpu)
    BY <2>1 DEF Copying
  <2>3. Ring
    BY <1>0, <1>1, <2>1, <2>2 DEF GpuFinishes
  <2>4. Writes
    BY <1>0, <1>1, <2>1 DEF GpuFinishes, shadowVars
  <2>5. Apart
    BY <1>1, <1>p DEF GpuFinishes, shadowVars
  <2> QED BY <1>1, <2>3, <2>4, <2>5, <1>g, <1>v DEF GpuFinishes
<1>2. CASE BeginsPass
  <2> DEFINE left == [s \in DOMAIN parked |-> parked[s] - 1]
             kept == {s \in DOMAIN parked : left[s] > 0}
  <2>1. /\ parked' = [s \in kept |-> left[s]] /\ images' = images \ (DOMAIN parked \ kept)
        /\ passAt = "idle" /\ passAt' = "draw" /\ UNCHANGED << shadow, viewVars, ringVars >> /\ ~drained'
    BY <1>2 DEF BeginsPass
  <2>2. kept = {s \in DOMAIN parked : parked[s] = 2} /\ \A s \in kept : left[s] = 1
    BY <1>0
  <2> HIDE DEF kept, left
  <2>3. DOMAIN parked' = kept /\ (\A s \in kept : parked'[s] = 1) /\ parked' \in [DOMAIN parked' -> 1 .. 2]
    BY <2>1, <2>2
  <2>4. \A s \in DOMAIN parked \ kept : s \notin DOMAIN fading
    <3>1. \A s \in DOMAIN parked \ kept : parked[s] = 1
      BY <1>0, <2>2
    <3>2. \A s \in DOMAIN fading : fading[s] \in 1 .. 2
      BY <1>0
    <3>3. \A s \in DOMAIN fading \cap DOMAIN parked : fading[s] < parked[s]
      BY <1>0, <2>1
    <3> QED BY <3>1, <3>2, <3>3
  <2>6. \A s \in DOMAIN fading' \cap DOMAIN parked' : fading'[s] <= parked'[s]
    <3> SUFFICES ASSUME NEW s \in DOMAIN fading' \cap DOMAIN parked' PROVE fading'[s] <= parked'[s]
      OBVIOUS
    <3>1. fading' = fading /\ s \in DOMAIN parked /\ parked[s] = 2 /\ parked'[s] = 1
      BY <2>1, <2>2, <2>3 DEF viewVars
    <3>2. fading[s] < parked[s] /\ fading[s] \in 1 .. 2
      BY <1>0, <2>1, <3>1
    <3> QED BY <3>1, <3>2
  <2>7. kept \subseteq DOMAIN parked
    BY <2>2
  <2>5. Views
    BY <1>0, <2>1, <2>3, <2>4, <2>6, <2>7 DEF viewVars
  <2>8. Apart
    <3>1. \A s \in DOMAIN parked' : s \in DOMAIN parked /\ parked[s] = 2 /\ parked'[s] = 1
      BY <2>2, <2>3
    <3> QED BY <1>0, <3>1
  <2> QED BY <2>1, <2>5, <2>8, <1>g, <1>r, <1>w DEF ringVars
<1>3. CASE Blits
  <2>1. passAt' = "end" /\ UNCHANGED << images, parked, viewVars >> /\ ~drained' /\ passAt \in {"draw", "copy"} /\ shadow.id # 0
    BY <1>3 DEF Blits
  <2>a. Apart
    BY <2>1, <1>p
  <2>v. ASSUME shadow' \in Shadows, shadow'.id = shadow.id, shadow.content => shadow'.content PROVE Views
    BY <1>0, <2>1, <2>v DEF viewVars
  <2>2. CASE UNCHANGED << ringVars, shadow, noExport >>
    BY <1>0, <2>1, <2>2, <2>a, <2>v, <1>g, <1>r, <1>w DEF ringVars
  <2>3. CASE Free(nextSlot) /\ ring' = [ring EXCEPT ![nextSlot] = 0] /\ UNCHANGED << nextSlot, gpu, shadow, noExport >>
    <3>1. ring' \in [1 .. Slots -> FrameIds \cup {0}] /\ \A i \in 1 .. Slots : i # nextSlot => ring'[i] = ring[i]
      BY <1>0, <2>3
    <3>2. Copying(gpu') \subseteq {ring'[i] : i \in 1 .. Slots}
      BY <1>0, <2>3, <3>1 DEF Free
    <3>3. Ring
      BY <1>0, <2>1, <2>3, <3>1, <3>2
    <3> QED BY <1>0, <2>3, <2>a, <2>v, <3>3, <1>g, <1>w
  <2>4. ASSUME NEW f \in NewFrames, Free(nextSlot), Submits(f) PROVE RingInv'
    <3> DEFINE CopyBack(how) == [frame |-> f, into |-> shadow.id, back |-> how]
    <3>1. f \in FrameIds /\ f \notin Copying(gpu) /\ shadow.id \in 1 .. MaxShadows
      BY <1>0, <2>1 DEF NewFrames, Shadows
    <3>2. \A how \in {"none", "fence", "closed", "host"} : CopyBack(how) \in Copies
      BY <3>1 DEF Copies
    <3>3. nextSlot' \in 1 .. Slots
      BY <1>0, <2>4 DEF Submits
    <3>4. \A e \in Copies : /\ Append(gpu, e) \in Seq(Copies) /\ Len(Append(gpu, e)) = Len(gpu) + 1
                            /\ \A i \in DOMAIN Append(gpu, e) :
                                 Append(gpu, e)[i] = IF i = Len(gpu) + 1 THEN e ELSE gpu[i]
                            /\ \A i \in DOMAIN Append(gpu, e) : i # Len(gpu) + 1 => i \in DOMAIN gpu
      BY <1>0
    <3>5. CASE /\ gpu' = Append(gpu, CopyBack("fence")) /\ ring' = [ring EXCEPT ![nextSlot] = f]
               /\ shadow' = [shadow EXCEPT !.content = TRUE]
      <4>1. shadow' \in Shadows /\ shadow'.id = shadow.id /\ shadow'.content
        BY <1>0, <3>5 DEF Shadows
      <4>2. gpu' \in Seq(Copies) /\ \A i \in DOMAIN gpu' : gpu'[i] = CopyBack("fence") \/ (i \in DOMAIN gpu /\ gpu'[i] = gpu[i])
        BY <3>2, <3>4, <3>5
      <4>3. Copying(gpu') \subseteq Copying(gpu) \cup {f}
        BY <4>2 DEF Copying
      <4>4. ring' \in [1 .. Slots -> FrameIds \cup {0}] /\ ring'[nextSlot] = f
            /\ \A i \in 1 .. Slots : i # nextSlot => ring'[i] = ring[i]
        BY <1>0, <3>1, <3>5
      <4>5. Copying(gpu') \subseteq {ring'[i] : i \in 1 .. Slots}
        BY <1>0, <2>4, <4>3, <4>4 DEF Free
      <4>6. \A i \in DOMAIN gpu' : gpu'[i].back \in {"fence", "closed"} /\ gpu'[i].into = shadow'.id /\ shadow'.id # 0
        BY <1>0, <2>1, <4>1, <4>2
      <4>7. Ring /\ Writes
        BY <2>1, <3>3, <4>2, <4>4, <4>5, <4>6
      <4> QED BY <4>1, <4>7, <2>a, <2>v, <1>g
    <3>6. ASSUME NEW k \in 0 .. Len(gpu) + 1, NEW exported \in BOOLEAN, NEW how, NEW q,
                 how = IF WaitsFor(f, Unfinished(Append(gpu, CopyBack("none")), k)) THEN "host" ELSE "closed",
                 q = Unfinished(Append(gpu, CopyBack(how)), k), gpu' = q,
                 ring' = [ring EXCEPT ![nextSlot] = IF WaitsFor(f, q) THEN 0 ELSE f],
                 shadow' = [shadow EXCEPT !.content = @ \/ exported \/ WaitsFor(f, q)]
          PROVE  RingInv'
      <4> DEFINE all == Append(gpu, CopyBack(how))
                 bare == Append(gpu, CopyBack("none"))
      <4>1. shadow' \in Shadows /\ shadow'.id = shadow.id /\ (shadow.content => shadow'.content)
        BY <1>0, <3>6 DEF Shadows
      <4>2. how \in {"closed", "host"} /\ CopyBack(how) \in Copies
        BY <3>2, <3>6
      <4>3. all \in Seq(Copies) /\ Len(all) = Len(gpu) + 1 /\ q = Unfinished(all, k)
        BY <3>4, <3>6, <4>2
      <4>4. \A i \in DOMAIN all : all[i] = IF i = Len(gpu) + 1 THEN CopyBack(how) ELSE gpu[i]
        BY <3>4, <4>2
      <4>5. \A i \in DOMAIN all : i # Len(gpu) + 1 => i \in DOMAIN gpu
        BY <3>4, <4>2
      <4>6. \A i \in DOMAIN bare : bare[i].frame = all[i].frame
        BY <1>0, <4>4
      <4>7. Len(bare) = Len(all) /\ DOMAIN bare = DOMAIN all
        BY <1>0
      <4> HIDE DEF all
      <4>8. q \in Seq(Copies) /\ Copying(q) \subseteq Copying(all)
            /\ \A i \in DOMAIN q : i + k \in DOMAIN all /\ q[i] = all[i + k]
        BY <4>3, UnfinishedCopies
      <4>9. Copying(q) \subseteq Copying(gpu) \cup {f}
        BY <4>4, <4>5, <4>8 DEF Copying
      <4>10. f \in Copying(q) => how = "closed"
        <5> SUFFICES ASSUME f \in Copying(q) PROVE f \in Copying(Unfinished(bare, k))
          BY <3>6 DEF WaitsFor
        <5>1. PICK i \in DOMAIN q : q[i].frame = f
          BY DEF Copying
        <5>2. i \in 1 .. Len(q) /\ Len(q) = Len(all) - k /\ i + k \in DOMAIN all /\ all[i + k].frame = f
          <6>1. Len(q) = Len(all) - k
            BY <4>3, UnfinishedCopies
          <6>2. i \in 1 .. Len(q)
            BY <4>8, <5>1
          <6> QED BY <4>8, <5>1, <6>1, <6>2
        <5>3. bare[i + k].frame = f /\ i + k \in DOMAIN bare /\ i + k \in 1 .. Len(bare)
          BY <4>6, <4>7, <5>2, <1>0, SMTT(40)
        <5>4. bare \in Seq(Copies)
          BY <3>2, <3>4
        <5> HIDE DEF bare
        <5>5. Unfinished(bare, k)[i] = bare[i + k] /\ i \in DOMAIN Unfinished(bare, k)
          <6>1. Unfinished(bare, k) \in Seq(Copies) /\ Len(Unfinished(bare, k)) = Len(bare) - k
                /\ \A j \in DOMAIN Unfinished(bare, k) : Unfinished(bare, k)[j] = bare[j + k]
            BY <4>3, <4>7, <5>4, UnfinishedCopies, ZenonT(40)
          <6>2. i \in DOMAIN Unfinished(bare, k)
            BY <4>7, <5>2, <6>1
          <6> QED BY <6>1, <6>2
        <5> QED BY <5>3, <5>5 DEF Copying
      <4>11. \A i \in DOMAIN q : q[i].back \in {"fence", "closed"} /\ q[i].into = shadow.id
        <5> SUFFICES ASSUME NEW i \in DOMAIN q PROVE q[i].back \in {"fence", "closed"} /\ q[i].into = shadow.id
          OBVIOUS
        <5>1. CASE i + k = Len(gpu) + 1
          <6>1. q[i] = CopyBack(how)
            BY <4>4, <4>8, <5>1
          <6>2. f \in Copying(q)
            BY <6>1 DEF Copying
          <6> QED BY <4>10, <6>1, <6>2
        <5>2. CASE i + k # Len(gpu) + 1
          <6>1. q[i] = gpu[i + k] /\ i + k \in DOMAIN gpu
            BY <4>4, <4>5, <4>8, <5>2
          <6> QED BY <1>0, <6>1
        <5> QED BY <5>1, <5>2
      <4>12. ring' \in [1 .. Slots -> FrameIds \cup {0}] /\ (f \in Copying(q) => ring'[nextSlot] = f)
             /\ \A i \in 1 .. Slots : i # nextSlot => ring'[i] = ring[i]
        BY <1>0, <3>1, <3>6 DEF WaitsFor
      <4>13. Copying(gpu') \subseteq {ring'[i] : i \in 1 .. Slots}
        <5> SUFFICES ASSUME NEW g \in Copying(q) PROVE \E i \in 1 .. Slots : ring'[i] = g
          BY <3>6
        <5>1. CASE g = f
          BY <1>0, <4>12, <5>1
        <5>2. CASE g # f
          <6>1. g \in Copying(gpu)
            BY <4>9, <5>2
          <6>2. PICK i \in 1 .. Slots : ring[i] = g
            BY <1>0, <6>1
          <6>3. i # nextSlot
            BY <2>4, <6>1, <6>2 DEF Free
          <6> QED BY <4>12, <6>2, <6>3
        <5> QED BY <5>1, <5>2
      <4>14. Ring /\ Writes
        BY <2>1, <3>3, <3>6, <4>1, <4>8, <4>11, <4>12, <4>13
      <4> QED BY <4>1, <4>14, <2>a, <2>v, <1>g
    <3> QED BY <2>4, <3>5, <3>6 DEF Submits
  <2>5. NewFrames # {} => (CHOOSE f \in NewFrames : \A g \in NewFrames : f <= g) \in NewFrames
    <3> SUFFICES ASSUME NewFrames # {} PROVE \E f \in NewFrames : \A g \in NewFrames : f <= g
      OBVIOUS
    <3>1. NewFrames \subseteq FrameIds
      BY DEF NewFrames
    <3> QED BY <3>1, LeastFrame
  <2> QED BY <1>3, <2>2, <2>3, <2>4, <2>5 DEF Blits
<1>4. CASE DrainsRing
  <2>1. PICK k \in Progress : /\ Drains(Unfinished(gpu, k)) /\ drained' = RingIdle(Unfinished(gpu, k))
                              /\ UNCHANGED << nextSlot, shadowVars, viewVars, noExport, passAt >>
    BY <1>4 DEF DrainsRing
  <2>2. Ring /\ Writes
    BY <1>0, <2>1, DrainsKeeps DEF Progress, shadowVars
  <2>3. Apart
    BY <2>1, <1>p DEF shadowVars
  <2> QED BY <2>1, <2>2, <2>3, <1>g, <1>v
<1>5. CASE ShutsRing
  <2>1. gpu' = << >> /\ ring' = [i \in 1 .. Slots |-> 0] /\ nextSlot' = 1 /\ ~drained'
    BY <1>5 DEF ShutsRing
  <2>2. Ring /\ Writes
    BY <2>1 DEF Copying
  <2>3. shadow' \in Shadows /\ shadow'.id = 0
    BY <1>5 DEF ShutsRing, NoShadow, Shadows
  <2>4. images' = {} /\ DOMAIN parked' = {} /\ DOMAIN fading' = {} /\ sampled' = 0 /\ passAt' = passAt
        /\ parked' = << >> /\ fading' = << >>
    BY <1>5 DEF ShutsRing
  <2>5. parked' \in [DOMAIN parked' -> 1 .. 2] /\ fading' \in [DOMAIN fading' -> 1 .. 2]
    BY <2>4
  <2>6. Views
    BY <1>0, <2>3, <2>4, <2>5
  <2>7. Apart
    BY <2>4
  <2> QED BY <2>2, <2>6, <2>7, <1>g
<1>6. ASSUME NEW n \in 1 .. 2, Replaces(n) PROVE RingInv'
  <2>1. PICK k \in Progress :
          /\ passAt = "draw" /\ Drains(Unfinished(gpu, k))
          /\ sampled' = 0 /\ fading' = ViewDropped(fading, sampled, n)
          /\ \/ passAt' = "end" /\ UNCHANGED shadowVars
             \/ /\ RingIdle(Unfinished(gpu, k))
                /\ parked' = IF shadow.id = 0 THEN parked
                             ELSE [s \in DOMAIN parked \cup {shadow.id} |-> IF s = shadow.id THEN Countdown ELSE parked[s]]
                /\ \/ \E s \in 1 .. MaxShadows \ images :
                        images' = images \cup {s} /\ shadow' = [id |-> s, content |-> FALSE] /\ passAt' = "copy"
                   \/ shadow' = NoShadow /\ passAt' = "end" /\ UNCHANGED images
    BY <1>6 DEF Replaces
  <2>2. ~drained' /\ nextSlot' = nextSlot
    BY <1>6 DEF Replaces
  <2>3. /\ gpu' \in Seq(Copies)
        /\ ring' \in [1 .. Slots -> FrameIds \cup {0}]
        /\ Copying(gpu') \subseteq {ring'[i] : i \in 1 .. Slots}
        /\ \A i \in DOMAIN gpu' : gpu'[i].back \in {"fence", "closed"} /\ gpu'[i].into = shadow.id /\ shadow.id # 0
        /\ RingIdle(Unfinished(gpu, k)) => gpu' = << >>
    BY <2>1, DrainsKeeps DEF Progress
  <2>4. Ring
    BY <1>0, <2>2, <2>3
  <2>5. fading' \in [DOMAIN fading' -> 1 .. 2] /\ DOMAIN fading' = DOMAIN fading \cup ({sampled} \ {0})
        /\ \A v \in DOMAIN fading : v # sampled => fading'[v] = fading[v]
    <3>1. fading' \in [DOMAIN fading \cup ({sampled} \ {0}) -> 1 .. 2]
          /\ \A v \in DOMAIN fading : v # sampled => fading'[v] = fading[v]
      <4>1. fading' = ViewDropped(fading, sampled, n)
        BY <2>1
      <4>2. fading \in [DOMAIN fading -> 1 .. 2]
        BY <1>0
      <4>3. /\ ViewDropped(fading, sampled, n) \in [DOMAIN fading \cup ({sampled} \ {0}) -> 1 .. 2]
            /\ \A v \in DOMAIN fading : v # sampled => ViewDropped(fading, sampled, n)[v] = fading[v]
        BY <4>2 DEF ViewDropped
      <4> QED BY <4>1, <4>3, Zenon
    <3> QED BY <3>1
  <2>6. sampled # 0 => sampled \in images /\ sampled \notin DOMAIN parked
    BY <1>0
  <2>7. CASE passAt' = "end" /\ UNCHANGED shadowVars
    <3>1. Views
      BY <1>0, <2>1, <2>5, <2>6, <2>7 DEF shadowVars
    <3>2. Writes
      BY <2>3, <2>7 DEF shadowVars
    <3>3. Apart
      BY <2>7, <1>p DEF shadowVars
    <3> QED BY <2>4, <3>1, <3>2, <3>3, <1>g
  <2>8. CASE /\ RingIdle(Unfinished(gpu, k))
             /\ parked' = IF shadow.id = 0 THEN parked
                          ELSE [s \in DOMAIN parked \cup {shadow.id} |-> IF s = shadow.id THEN Countdown ELSE parked[s]]
             /\ \/ \E s \in 1 .. MaxShadows \ images :
                     images' = images \cup {s} /\ shadow' = [id |-> s, content |-> FALSE] /\ passAt' = "copy"
                \/ shadow' = NoShadow /\ passAt' = "end" /\ UNCHANGED images
    <3>1. Writes
      BY <2>3, <2>8
    <3>2. parked' \in [DOMAIN parked' -> 1 .. 2] /\ DOMAIN parked' = DOMAIN parked \cup ({shadow.id} \ {0})
          /\ (\A s \in DOMAIN parked : s # shadow.id => parked'[s] = parked[s])
          /\ (shadow.id # 0 => parked'[shadow.id] = 2)
      BY <1>0, <2>8 DEF Countdown
    <3>3. /\ shadow' \in Shadows /\ images' \subseteq 1 .. MaxShadows /\ images \subseteq images'
          /\ shadow'.id # 0 => shadow'.id \in images' /\ shadow'.id \notin images
          /\ passAt' \in {"copy", "end"}
      <4>1. CASE \E s \in 1 .. MaxShadows \ images :
                   images' = images \cup {s} /\ shadow' = [id |-> s, content |-> FALSE] /\ passAt' = "copy"
        <5>1. PICK s \in 1 .. MaxShadows \ images :
                images' = images \cup {s} /\ shadow' = [id |-> s, content |-> FALSE] /\ passAt' = "copy"
          BY <4>1
        <5>2. shadow' \in Shadows /\ shadow'.id = s
          BY <5>1 DEF Shadows
        <5> QED BY <1>0, <2>1, <5>1, <5>2
      <4>2. CASE shadow' = NoShadow /\ passAt' = "end" /\ UNCHANGED images
        <5>1. shadow' \in Shadows /\ shadow'.id = 0
          BY <4>2 DEF NoShadow, Shadows
        <5> QED BY <1>0, <4>2, <5>1
      <4> QED BY <2>8, <4>1, <4>2
    <3>4. \A s \in DOMAIN fading' \cap DOMAIN parked' : fading'[s] <= parked'[s]
      <4> SUFFICES ASSUME NEW s \in DOMAIN fading' \cap DOMAIN parked' PROVE fading'[s] <= parked'[s]
        OBVIOUS
      <4>0. fading'[s] \in 1 .. 2
        BY <2>5
      <4>1. CASE s = shadow.id
        BY <1>0, <3>2, <4>0, <4>1
      <4>2. CASE s # shadow.id
        <5>1. s \in DOMAIN parked /\ s # sampled /\ parked'[s] = parked[s]
          BY <1>0, <3>2, <4>2, <2>6
        <5> QED BY <1>0, <2>1, <2>5, <5>1
      <4> QED BY <4>1, <4>2
    <3>5. Views
      BY <1>0, <2>1, <2>5, <2>6, <3>2, <3>3, <3>4
    <3>6. Apart
      <4>1. \A s \in DOMAIN parked' : s # shadow.id => s \in DOMAIN parked /\ parked'[s] = 1
        BY <1>0, <2>1, <3>2
      <4>2. shadow.id \in DOMAIN parked' => parked'[shadow.id] = 2
        BY <1>0, <3>2
      <4>3. \A s, t \in DOMAIN parked' : parked'[s] = parked'[t] => s = t
        <5> SUFFICES ASSUME NEW s \in DOMAIN parked', NEW t \in DOMAIN parked', parked'[s] = parked'[t]
                     PROVE  s = t
          OBVIOUS
        <5>1. CASE s # shadow.id /\ t # shadow.id
          BY <1>0, <2>1, <4>1, <5>1
        <5> QED BY <4>1, <4>2, <5>1
      <4> QED BY <3>3, <4>3
    <3> QED BY <2>4, <3>1, <3>5, <3>6, <1>g
  <2> QED BY <2>1, <2>7, <2>8
<1>7. ASSUME NEW n \in 1 .. 2, EndsPass(n) PROVE RingInv'
  <2> DEFINE shown == IF shadow.content THEN shadow.id ELSE 0
             kept  == {v \in DOMAIN fading : fading[v] > 1}
  <2>1. sampled # shown => ViewDropped(fading, sampled, n) = fading
    BY <1>0 DEF ViewDropped
  <2>2. /\ sampled' = shown /\ fading' = [v \in kept |-> fading[v] - 1]
        /\ passAt' = "idle" /\ ~drained' /\ passAt # "idle" /\ UNCHANGED << ringVars, shadowVars >>
    BY <1>7, <2>1 DEF EndsPass
  <2>3. DOMAIN fading' = kept /\ \A v \in kept : fading'[v] = 1 /\ fading[v] = 2
    BY <1>0, <2>2
  <2>4. fading' \in [DOMAIN fading' -> 1 .. 2]
    BY <2>2, <2>3
  <2>5. sampled' # 0 => sampled' = shadow'.id /\ shadow'.content
    BY <2>2 DEF shadowVars
  <2>6. Views
    BY <1>0, <2>2, <2>3, <2>4, <2>5, SMTT(40) DEF shadowVars
  <2>7. Apart
    BY <2>2, <1>p DEF shadowVars
  <2> QED BY <2>2, <2>6, <2>7, <1>g, <1>r, <1>w DEF ringVars, shadowVars
<1>8. CASE UNCHANGED allRing
  BY <1>0, <1>8 DEF allRing, ringVars, shadowVars, viewVars, RingInv, DrainedIsIdle, ParkingHasRoom
<1> QED BY <1>1, <1>2, <1>3, <1>4, <1>5, <1>6, <1>7, <1>8 DEF RingNext

LEMMA RingInvShows == RingInv => CopiesAreGuarded
<1> SUFFICES ASSUME RingInv PROVE CopiesAreGuarded
  OBVIOUS
<1>1. \A i \in DOMAIN gpu : gpu[i] \in Copies
  BY DEF RingInv
<1>2. RingTypeOK
  BY <1>1 DEF RingInv, RingTypeOK, Copies, Shadows
<1>4. HandedBackUnread
  BY DEF RingInv, HandedBackUnread
<1>3. ShadowsOutliveUse
  BY DEF RingInv, ShadowsOutliveUse
<1> QED BY <1>2, <1>3, <1>4 DEF RingInv, CopiesAreGuarded

-----------------------------------------------------------------------------
(* The video player.                                                        *)

Streams ==
  [state : {"none", "paused", "playing"}, at : 0 .. Length, ready : BOOLEAN, sample : BOOLEAN,
   preroll : BOOLEAN, stuck : BOOLEAN, eos : BOOLEAN, error : BOOLEAN,
   volume : {"none", "asked", "made"}, mute : BOOLEAN, late : BOOLEAN]
Players ==
  [play : BOOLEAN, loop : BOOLEAN, mute : BOOLEAN, shown : BOOLEAN, starved : BOOLEAN, failed : BOOLEAN]

\* What plays was to be played, by the daemon and by the producer; the volume element
\* has, or will get, the volume wanted, but for one asked for too soon.
VideoInv ==
  /\ VideoTypeOK
  /\ wanted \in [play : BOOLEAN, loop : BOOLEAN, mute : BOOLEAN]
  /\ player \in Players /\ stream \in Streams
  /\ player.play => wanted.play
  /\ player.mute = wanted.mute
  /\ reached = "quiet" => thread = "done"
  /\ PausedStaysPaused
  /\ stream.volume # "none" => stream.mute = wanted.mute \/ stream.late

LEMMA DrivenStream ==
  ASSUME NEW S \in Streams, NEW play \in BOOLEAN
  PROVE  /\ Driven(S, play) \in Streams
         /\ Driven(S, play).state = "playing" => play
         /\ Driven(S, play).volume = S.volume /\ Driven(S, play).mute = S.mute
         /\ Driven(S, play).late = S.late
         /\ Driven(S, play).at = S.at
BY DEF Driven, Streams

LEMMA SoughtStream ==
  ASSUME NEW S \in Streams, NEW n \in 0 .. Length
  PROVE  /\ Sought(S, n) \in Streams
         /\ Sought(S, n).volume = S.volume /\ Sought(S, n).mute = S.mute
         /\ Sought(S, n).late = S.late
         /\ Sought(S, n).state = S.state
BY DEF Sought, Streams

LEMMA SoundsStream ==
  ASSUME NEW S \in Streams, NEW mute \in BOOLEAN
  PROVE  /\ Sounds(S, mute) \in Streams
         /\ Sounds(S, mute).state = S.state /\ Sounds(S, mute).volume = S.volume
         /\ Sounds(S, mute).mute = mute \/ Sounds(S, mute).late
BY DEF Sounds, Streams

LEMMA PlayerSetPlayer ==
  ASSUME NEW P \in Players, NEW play \in BOOLEAN
  PROVE  PlayerSet(P, play) \in Players /\ PlayerSet(P, play).play = play
         /\ PlayerSet(P, play).mute = P.mute
BY DEF PlayerSet, Players

LEMMA VideoInvInit == VideoInit => VideoInv
<1> SUFFICES ASSUME VideoInit PROVE VideoInv
  OBVIOUS
<1>1. wanted \in [play : BOOLEAN, loop : BOOLEAN, mute : BOOLEAN] /\ player \in Players
      /\ player.play = wanted.play /\ player.mute = wanted.mute
  BY DEF VideoInit, Players
<1>2. stream \in Streams /\ stream.state = "none" /\ stream.volume = "none" /\ stream.at = 0
  BY VideoAssumption DEF VideoInit, Streams
<1>3. thread = "none" /\ reached = "new"
  BY DEF VideoInit
<1> QED BY <1>1, <1>2, <1>3, VideoAssumption DEF VideoInv, VideoTypeOK, PausedStaysPaused

\* What became of the player and the stream after a frame was looked for.
LEMMA LooksKeep ==
  ASSUME VideoInv, NextFrame
  PROVE  /\ player' \in Players /\ stream' \in Streams
         /\ player'.play => player.play /\ player'.mute = player.mute
         /\ player'.mute = player.mute
         /\ stream'.state = "playing" => stream.state = "playing" \/ player.play
         /\ stream'.volume = stream.volume /\ stream'.mute = stream.mute
         /\ stream'.late = stream.late
         /\ thread' \in {"wait", "publish"}
<1> USE VideoAssumption
<1> DEFINE P == AfterBus.p
           S == AfterBus.s
<1>0. player \in Players /\ stream \in Streams
  BY DEF VideoInv
<1>1. P \in Players /\ (P.play => player.play) /\ P.mute = player.mute
  BY <1>0 DEF AfterBus, Players
<1>2. S \in Streams /\ S.volume = stream.volume /\ S.mute = stream.mute
      /\ S.late = stream.late
      /\ (S.state = "playing" => stream.state = "playing" \/ player.play)
  <2> DEFINE Q == [stream EXCEPT !.eos = FALSE, !.error = FALSE]
  <2>1. Q \in Streams /\ Q.volume = stream.volume /\ Q.mute = stream.mute /\ Q.late = stream.late /\ Q.state = stream.state
    BY <1>0 DEF Streams
  <2>2. S = Q \/ S = Driven(Sought(Q, 0), [player EXCEPT !.failed = @ \/ stream.error].play)
    BY DEF AfterBus
  <2>3. [player EXCEPT !.failed = @ \/ stream.error].play = player.play /\ player.play \in BOOLEAN
    BY <1>0 DEF Players
  <2>4. Sought(Q, 0) \in Streams /\ Sought(Q, 0).volume = Q.volume /\ Sought(Q, 0).mute = Q.mute
        /\ Sought(Q, 0).late = Q.late
    <3>1. 0 \in 0 .. Length
      OBVIOUS
    <3> HIDE DEF Q
    <3> QED BY <2>1, <3>1, SoughtStream
  <2> HIDE DEF Q, S
  <2> QED BY <2>1, <2>2, <2>3, <2>4, DrivenStream
<1> HIDE DEF P, S
<1>3. CASE player' = P /\ stream' = S /\ thread' = "wait"
  BY <1>1, <1>2, <1>3
<1>4. ASSUME NEW R \in Streams, R.volume = S.volume, R.mute = S.mute, R.late = S.late, R.state = S.state, TakesSample(P, R)
      PROVE  /\ player' \in Players /\ stream' \in Streams
             /\ player'.play => player.play /\ player'.mute = player.mute
             /\ player'.mute = player.mute
             /\ stream'.state = "playing" => stream.state = "playing" \/ player.play
             /\ stream'.volume = stream.volume /\ stream'.mute = stream.mute
             /\ stream'.late = stream.late
             /\ thread' \in {"wait", "publish"}
  BY <1>1, <1>2, <1>4 DEF TakesSample, Players
<1>5. CASE Starves(P, S)
  <2>1. stream' = S \/ (P.play /\ stream' = Recovered(S))
    BY <1>5 DEF Starves
  <2>2. player' = P \/ player' = [P EXCEPT !.starved = TRUE] \/ player' = [P EXCEPT !.starved = FALSE]
    BY <1>5 DEF Starves
  <2>3. player' \in Players /\ player'.play = P.play /\ player'.mute = P.mute
    BY <2>2, <1>1 DEF Players
  <2>4. S.at \in 0 .. Length
    BY <1>2 DEF Streams
  <2>5. (IF S.at = Length THEN Length - 1 ELSE S.at) \in 0 .. Length
    BY <2>4
  <2>6. Recovered(S) \in Streams /\ Recovered(S).volume = S.volume /\ Recovered(S).mute = S.mute
        /\ Recovered(S).late = S.late
    <3> DEFINE n == IF S.at = Length THEN Length - 1 ELSE S.at
               R == Sought(S, n)
    <3>1. n \in 0 .. Length
      BY <2>5
    <3>2. Recovered(S) = Driven(R, TRUE)
      BY DEF Recovered
    <3> HIDE DEF n
    <3>3. R \in Streams /\ R.volume = S.volume /\ R.mute = S.mute /\ R.late = S.late
      BY <1>2, <3>1, SoughtStream
    <3> HIDE DEF R
    <3> QED BY <3>2, <3>3, DrivenStream
  <2> QED BY <1>1, <1>2, <1>5, <2>1, <2>3, <2>6 DEF Starves
<1>6. [S EXCEPT !.sample = FALSE] \in Streams /\ [S EXCEPT !.sample = FALSE].volume = S.volume
      /\ [S EXCEPT !.sample = FALSE].late = S.late
      /\ [S EXCEPT !.sample = FALSE].mute = S.mute /\ [S EXCEPT !.sample = FALSE].state = S.state
  BY <1>2 DEF Streams
<1>7. [S EXCEPT !.preroll = FALSE] \in Streams /\ [S EXCEPT !.preroll = FALSE].volume = S.volume
      /\ [S EXCEPT !.preroll = FALSE].late = S.late
      /\ [S EXCEPT !.preroll = FALSE].mute = S.mute /\ [S EXCEPT !.preroll = FALSE].state = S.state
  BY <1>2 DEF Streams
<1>8. \/ player' = P /\ stream' = S /\ thread' = "wait"
      \/ TakesSample(P, [S EXCEPT !.sample = FALSE])
      \/ TakesSample(P, [S EXCEPT !.preroll = FALSE])
      \/ Starves(P, S)
  BY DEF NextFrame, P, S
<1>9. CASE TakesSample(P, [S EXCEPT !.sample = FALSE])
  BY <1>4, <1>6, <1>9
<1>10. CASE TakesSample(P, [S EXCEPT !.preroll = FALSE])
  BY <1>4, <1>7, <1>10
<1> QED BY <1>3, <1>5, <1>8, <1>9, <1>10

LEMMA VideoInvStep ==
  ASSUME VideoInv, [VideoNext]_videoVars
  PROVE  VideoInv'
<1> USE VideoAssumption
<1>0. /\ VideoTypeOK /\ player \in Players /\ stream \in Streams
      /\ wanted \in [play : BOOLEAN, loop : BOOLEAN, mute : BOOLEAN]
      /\ player.play \in BOOLEAN /\ player.mute \in BOOLEAN /\ wanted.play \in BOOLEAN /\ wanted.mute \in BOOLEAN
      /\ stream.at \in 0 .. Length
      /\ player.play => wanted.play
      /\ player.mute = wanted.mute
      /\ reached = "quiet" => thread = "done"
      /\ PausedStaysPaused
      /\ stream.volume # "none" => stream.mute = wanted.mute \/ stream.late
  BY DEF VideoInv, Players, Streams
<1> DEFINE Goal ==
      /\ player' \in Players /\ stream' \in Streams
      /\ wanted' \in [play : BOOLEAN, loop : BOOLEAN, mute : BOOLEAN]
      /\ player'.play => wanted'.play
      /\ player'.mute = wanted'.mute
      /\ reached' = "quiet" => thread' = "done"
      /\ stream'.state = "playing" => wanted'.play /\ reached' # "quiet"
      /\ stream'.volume # "none" => stream'.mute = wanted'.mute \/ stream'.late
      /\ thread' \in {"none", "wait", "next", "publish", "done"}
      /\ reached' \in {"new", "prepared", "started", "serving", "pump", "joining", "quiet"}
<1>g. ASSUME Goal PROVE VideoInv'
  <2>1. stream'.state \in {"none", "paused", "playing"} /\ stream'.at \in 0 .. Length
    BY <1>g DEF Streams
  <2> QED BY <1>g, <2>1 DEF VideoInv, VideoTypeOK, PausedStaysPaused
<1>1. CASE Prepares
  <2> DEFINE R == [stream EXCEPT !.state = "paused"]
  <2>1. R \in Streams
    BY <1>0 DEF Streams
  <2>2. Driven(R, player.play) \in Streams /\ (Driven(R, player.play).state = "playing" => player.play)
    BY <1>0, <2>1, DrivenStream
  <2>3. stream' = [Driven(R, player.play) EXCEPT !.volume = "asked", !.mute = player.mute]
    BY <1>1 DEF Prepares
  <2> HIDE DEF R
  <2>4. stream' \in Streams /\ (stream'.state = "playing" => player.play) /\ stream'.mute = player.mute
    BY <1>0, <2>2, <2>3, ZenonT(40) DEF Streams
  <2>5. Goal
    BY <1>0, <1>1, <2>4 DEF Prepares, Same, VideoTypeOK
  <2> QED BY <1>g, <2>5
<1>2. CASE StartsThread \/ SetsPump \/ StopsPump \/ ThreadWakes \/ Publishes
  <2>1. Goal
    BY <1>0, <1>2 DEF StartsThread, SetsPump, StopsPump, ThreadWakes, Publishes, Same, VideoTypeOK, PausedStaysPaused
  <2> QED BY <1>g, <2>1
<1>3. CASE RequestsFrame
  <2>1. stream' \in Streams /\ (stream'.state = "playing" => player.play)
        /\ stream'.volume = stream.volume /\ stream'.mute = stream.mute /\ stream'.late = stream.late
    BY <1>0, <1>3, DrivenStream DEF RequestsFrame, FrameRequested
  <2>2. Goal
    BY <1>0, <1>3, <2>1 DEF RequestsFrame, Same, VideoTypeOK
  <2> QED BY <1>g, <2>2
<1>4. ASSUME NEW play \in BOOLEAN, NEW mute \in BOOLEAN, SetsPlayback(play, mute)
      PROVE  VideoInv'
  <2>1. wanted' \in [play : BOOLEAN, loop : BOOLEAN, mute : BOOLEAN] /\ wanted'.play = play /\ wanted'.mute = mute
    BY <1>0, <1>4 DEF SetsPlayback
  <2>2. player' \in Players /\ player'.play = play /\ player'.mute = mute
    <3>1. PlayerSet(player, play) \in Players /\ PlayerSet(player, play).play = play
      BY <1>0, PlayerSetPlayer
    <3>2. player' = [PlayerSet(player, play) EXCEPT !.mute = mute]
      BY <1>4 DEF SetsPlayback
    <3> QED BY <3>1, <3>2 DEF Players
  <2> DEFINE R == Sounds(stream, mute)
  <2>3. R \in Streams /\ R.volume = stream.volume /\ (R.mute = mute \/ R.late)
    BY <1>0, SoundsStream
  <2>4. stream' = Driven(R, play)
    BY <1>4 DEF SetsPlayback
  <2> HIDE DEF R
  <2>5. stream' \in Streams /\ (stream'.state = "playing" => play) /\ stream'.mute = R.mute /\ stream'.late = R.late
    BY <2>3, <2>4, DrivenStream
  <2>6. Goal
    BY <1>0, <1>4, <2>1, <2>2, <2>3, <2>5 DEF SetsPlayback, Same, VideoTypeOK
  <2> QED BY <1>g, <2>6
<1>5. ASSUME NEW rep \in BOOLEAN, SetsRuntime(rep)
      PROVE  VideoInv'
  <2>1. wanted' \in [play : BOOLEAN, loop : BOOLEAN, mute : BOOLEAN] /\ wanted'.play = wanted.play /\ wanted'.mute = wanted.mute
    BY <1>0, <1>5 DEF SetsRuntime
  <2>2. player' \in Players /\ player'.play = wanted.play /\ player'.mute = wanted.mute
    <3>1. PlayerSet(player, wanted.play) \in Players /\ PlayerSet(player, wanted.play).play = wanted.play
      BY <1>0, PlayerSetPlayer
    <3>2. player' = [PlayerSet(player, wanted.play) EXCEPT !.loop = rep, !.mute = wanted.mute]
      BY <1>5 DEF SetsRuntime
    <3> QED BY <1>0, <3>1, <3>2 DEF Players
  <2> DEFINE R == Sounds(stream, wanted.mute)
             S == Driven(R, player.play)
  <2>3. R \in Streams /\ R.volume = stream.volume /\ (R.mute = wanted.mute \/ R.late)
    BY <1>0, SoundsStream
  <2>4. stream' = Driven(S, wanted.play)
    BY <1>5 DEF SetsRuntime
  <2> HIDE DEF R
  <2>5. S \in Streams /\ S.mute = R.mute /\ S.late = R.late
    BY <1>0, <2>3, DrivenStream
  <2> HIDE DEF S
  <2>6. stream' \in Streams /\ (stream'.state = "playing" => wanted.play) /\ stream'.mute = S.mute /\ stream'.late = S.late
    BY <1>0, <2>4, <2>5, DrivenStream
  <2>7. Goal
    BY <1>0, <1>5, <2>1, <2>2, <2>3, <2>5, <2>6 DEF SetsRuntime, Same, VideoTypeOK
  <2> QED BY <1>g, <2>7
<1>6. CASE Joined
  <2>1. player' \in Players /\ ~player'.play /\ player'.mute = player.mute
    BY <1>0, <1>6, PlayerSetPlayer DEF Joined
  <2>2. stream' \in Streams /\ stream'.state # "playing" /\ stream'.volume = stream.volume /\ stream'.mute = stream.mute
        /\ stream'.late = stream.late
    BY <1>0, <1>6, DrivenStream DEF Joined
  <2>3. Goal
    BY <1>0, <1>6, <2>1, <2>2 DEF Joined, Same, VideoTypeOK
  <2> QED BY <1>g, <2>3
<1>7. CASE Prerolls \/ Decodes \/ EndsStream \/ Stalls \/ Breaks \/ AudioFound
  <2>1. stream' \in Streams /\ stream'.state = stream.state /\ stream'.mute = stream.mute /\ stream'.late = stream.late
        /\ (stream'.volume = stream.volume \/ stream.volume = "asked")
    <3>1. CASE Prerolls
      BY <1>0, <3>1 DEF Prerolls, Gst, Streams
    <3>2. CASE Decodes
      <4> DEFINE n == stream.at + 1
      <4>1. n \in 0 .. Length
        BY <1>0, <3>2 DEF Decodes
      <4>2. stream' = [stream EXCEPT !.at = n, !.sample = TRUE, !.preroll = FALSE]
        BY <3>2 DEF Decodes, Gst
      <4> HIDE DEF n
      <4> QED BY <1>0, <4>1, <4>2 DEF Streams
    <3>3. CASE EndsStream
      BY <1>0, <3>3 DEF EndsStream, Gst, Streams
    <3>4. CASE Stalls \/ Breaks
      BY <1>0, <3>4, ZenonT(40) DEF Stalls, Breaks, Gst, Streams
    <3>5. CASE AudioFound
      BY <1>0, <3>5 DEF AudioFound, Gst, Streams
    <3> QED BY <1>7, <3>1, <3>2, <3>3, <3>4, <3>5
  <2>2. UNCHANGED << wanted, player, thread, reached >>
    BY <1>7 DEF Prerolls, Decodes, EndsStream, Stalls, Breaks, AudioFound, Gst, Same
  <2>3. Goal
    BY <1>0, <2>1, <2>2 DEF VideoTypeOK, PausedStaysPaused
  <2> QED BY <1>g, <2>3
<1>8. CASE NextFrame
  <2>1. /\ player' \in Players /\ stream' \in Streams
        /\ player'.play => player.play
        /\ player'.mute = player.mute
        /\ stream'.state = "playing" => stream.state = "playing" \/ player.play
        /\ stream'.volume = stream.volume /\ stream'.mute = stream.mute /\ stream'.late = stream.late
        /\ thread' \in {"wait", "publish"}
    BY <1>8, LooksKeep DEF VideoInv
  <2>2. thread = "next" /\ UNCHANGED << wanted, reached >>
    BY <1>8 DEF NextFrame, Same
  <2>3. Goal
    BY <1>0, <2>1, <2>2 DEF VideoTypeOK, PausedStaysPaused
  <2> QED BY <1>g, <2>3
<1>9. CASE UNCHANGED videoVars
  BY <1>0, <1>9 DEF videoVars, VideoInv, VideoTypeOK, PausedStaysPaused
<1> QED BY <1>1, <1>2, <1>3, <1>4, <1>5, <1>6, <1>7, <1>8, <1>9 DEF VideoNext

LEMMA VideoInvShows == VideoInv => VideoObeys
BY DEF VideoInv, VideoObeys, PausedStaysPaused, MutedIsSilent

-----------------------------------------------------------------------------
(* The scene worker.                                                        *)

Wishes    == [play : BOOLEAN, gfx : Nat, props : Nat, cover : Nat]
Producers == [play : BOOLEAN, gfx : Nat, props : Nat, loaded : BOOLEAN, render : BOOLEAN]
Scenes    == [play : BOOLEAN, gfx : Nat, props : Nat, cover : Nat, chain : {"none", "starting", "made"},
              asked : BOOLEAN]
Relays    == [stop : BOOLEAN, play : BOOLEAN, event : BOOLEAN, at : {"none", "wait", "next", "done"}]
Covers    == [digest : Nat, image : Nat]

SceneTypes ==
  /\ SceneTypeOK
  /\ files \in [good : BOOLEAN, cover : Nat]
  /\ desired \in Wishes /\ producer \in Producers /\ scene \in Scenes /\ relay \in Relays
  /\ covers \in Seq(Covers)
  /\ ordered \in Nat /\ rewrites \in Nat /\ ready \in BOOLEAN

\* The producer compares with what it handed on, so that is what the scene has; a cover
\* in the cache is the one its digest says; a frame that is ready was announced or will be.
SceneInv ==
  /\ SceneTypes
  /\ scene.gfx = producer.gfx /\ scene.props = producer.props
  /\ SceneKnows
  /\ loopAt \notin {"new", "failed", "quiet"} => producer.play = desired.play
  /\ CoversAreCurrent
  /\ \A i \in 1 .. Len(covers) : covers[i].digest = covers[i].image
  /\ ready => relay.event \/ relay.stop \/ render = "notify" \/ relay.at \in {"none", "next"}

LEMMA SceneInvInit == SceneInit => SceneInv
<1> SUFFICES ASSUME SceneInit PROVE SceneInv
  OBVIOUS
<1>1. /\ files \in [good : BOOLEAN, cover : Nat]
      /\ desired \in Wishes /\ producer \in Producers /\ scene \in Scenes /\ relay \in Relays
      /\ desired.cover = 0
  BY DEF SceneInit, Wishes, Producers, Scenes, Relays
<1>2. covers \in Seq(Covers) /\ Len(covers) = 0
  BY DEF SceneInit
<1>3. SceneTypes
  <2>1. loopAt = "new" /\ render = "idle" /\ ready = FALSE /\ ordered = 0 /\ rewrites = 0
    BY DEF SceneInit
  <2>2. relay.at = "none"
    BY DEF SceneInit
  <2>3. Len(covers) <= CacheLimit
    BY <1>2, SceneAssumption
  <2>4. SceneTypeOK
    BY <2>1, <2>2, <2>3 DEF SceneTypeOK
  <2>5. ordered \in Nat /\ rewrites \in Nat /\ ready \in BOOLEAN
    BY <2>1
  <2> QED BY <1>1, <1>2, <2>4, <2>5 DEF SceneTypes
<1>4. scene.gfx = producer.gfx /\ scene.props = producer.props /\ scene.cover = 0
  BY DEF SceneInit
<1> QED BY <1>1, <1>2, <1>3, <1>4 DEF SceneInit, SceneInv, SceneKnows, CoversAreCurrent

\* Wishes handed on: what the scene and the producer have then, if the project loads.
LEMMA ConfiguredHandsOn ==
  ASSUME SceneInv, NEW w \in Wishes, NEW next, Configured(w, next), w.cover = desired.cover
  PROVE  /\ desired' \in Wishes /\ producer' \in Producers /\ scene' \in Scenes
         /\ scene'.gfx = producer'.gfx /\ scene'.props = producer'.props
         /\ desired'.cover = desired.cover /\ scene'.cover = scene.cover
         /\ \/ loopAt' = "failed"
            \/ /\ loopAt' = next
               /\ scene'.gfx = desired'.gfx /\ scene'.props = desired'.props
               /\ scene'.play = desired'.play /\ producer'.play = desired'.play
<1>1. producer \in Producers /\ scene \in Scenes /\ desired \in Wishes
      /\ scene.gfx = producer.gfx /\ scene.props = producer.props
  BY DEF SceneInv, SceneTypes
<1>2. CASE ~Loadable
  BY <1>1, <1>2 DEF Configured
<1>3. CASE Loadable
  <2>1. /\ desired' = w /\ loopAt' = next
        /\ producer' = [producer EXCEPT !.play = w.play, !.gfx = w.gfx, !.props = w.props, !.loaded = TRUE]
        /\ scene' = [HandedOn(w) EXCEPT !.play = w.play]
    BY <1>3 DEF Configured
  <2>2. HandedOn(w) \in Scenes /\ HandedOn(w).gfx = w.gfx /\ HandedOn(w).props = w.props
        /\ HandedOn(w).cover = scene.cover
    BY <1>1 DEF HandedOn, Scenes, Producers, Wishes
  <2>3. scene' \in Scenes /\ scene'.gfx = w.gfx /\ scene'.props = w.props /\ scene'.cover = scene.cover
        /\ scene'.play = w.play
    BY <2>1, <2>2 DEF Scenes, Wishes
  <2>4. producer' \in Producers /\ producer'.gfx = w.gfx /\ producer'.props = w.props /\ producer'.play = w.play
    BY <1>1, <2>1 DEF Producers, Wishes
  <2> QED BY <2>1, <2>3, <2>4
<1> QED BY <1>2, <1>3

\* The cache gives a cover for its own digest only, and never grows beyond its limit.
LEMMA CacheKeeps ==
  ASSUME SceneInv, NEW cover \in Nat
  PROVE  /\ Decoded(cover) = cover
         /\ Cached(cover) \in Seq(Covers) /\ Len(Cached(cover)) <= CacheLimit
         /\ \A i \in 1 .. Len(Cached(cover)) : Cached(cover)[i].digest = Cached(cover)[i].image
<1>1. covers \in Seq(Covers) /\ Len(covers) <= CacheLimit
      /\ \A i \in 1 .. Len(covers) : covers[i].digest = covers[i].image
  BY DEF SceneInv, SceneTypes, SceneTypeOK
<1>2. Decoded(cover) = cover
  BY <1>1 DEF Decoded, Known, Digest
<1> DEFINE new == [digest |-> cover, image |-> cover]
           added == IF Known(cover) THEN covers ELSE Append(covers, new)
<1>3. new \in Covers /\ new.digest = new.image
  BY DEF Covers
<1>4. Cached(cover) = IF Len(added) > CacheLimit THEN Tail(added) ELSE added
  BY DEF Cached, Digest
<1> HIDE DEF new
<1>5. added \in Seq(Covers) /\ Len(added) \in {Len(covers), Len(covers) + 1}
      /\ \A i \in 1 .. Len(added) : added[i].digest = added[i].image
  BY <1>1, <1>3
<1> HIDE DEF added
<1>6. Len(Cached(cover)) <= CacheLimit /\ Cached(cover) \in Seq(Covers)
  BY <1>1, <1>4, <1>5, SceneAssumption
<1>7. \A i \in 1 .. Len(Cached(cover)) : Cached(cover)[i].digest = Cached(cover)[i].image
  BY <1>1, <1>4, <1>5, SceneAssumption
<1> QED BY <1>2, <1>6, <1>7

LEMMA SceneInvStep ==
  ASSUME SceneInv, [SceneNext]_sceneVars
  PROVE  SceneInv'
<1> USE SceneAssumption
<1>0. /\ SceneTypeOK
      /\ files \in [good : BOOLEAN, cover : Nat]
      /\ desired \in Wishes /\ producer \in Producers /\ scene \in Scenes /\ relay \in Relays
      /\ covers \in Seq(Covers)
      /\ ordered \in Nat /\ rewrites \in Nat /\ ready \in BOOLEAN
      /\ scene.gfx = producer.gfx /\ scene.props = producer.props
      /\ SceneKnows
      /\ loopAt \notin {"new", "failed", "quiet"} => producer.play = desired.play
      /\ scene.cover = desired.cover
      /\ \A i \in 1 .. Len(covers) : covers[i].digest = covers[i].image
      /\ ready => relay.event \/ relay.stop \/ render = "notify" \/ relay.at \in {"none", "next"}
  BY DEF SceneInv, SceneTypes, CoversAreCurrent
<1> DEFINE Loops ==
             /\ desired' \in Wishes /\ producer' \in Producers /\ scene' \in Scenes
             /\ loopAt' \in {"new", "configured", "polling", "pool", "serving", "pump", "joining", "quiet", "failed"}
             /\ scene'.gfx = producer'.gfx /\ scene'.props = producer'.props
             /\ loopAt' \notin {"new", "failed", "quiet"} =>
                  /\ scene'.gfx = desired'.gfx /\ scene'.props = desired'.props /\ scene'.play = desired'.play
                  /\ producer'.play = desired'.play
             /\ scene'.cover = desired'.cover
           Others ==
             /\ files' \in [good : BOOLEAN, cover : Nat] /\ ordered' \in Nat /\ rewrites' \in Nat
             /\ covers' \in Seq(Covers) /\ Len(covers') <= CacheLimit
             /\ \A i \in 1 .. Len(covers') : covers'[i].digest = covers'[i].image
           FramesFit ==
             /\ relay' \in Relays /\ ready' \in BOOLEAN
             /\ render' \in {"idle", "gate", "notify"}
             /\ ready' => relay'.event \/ relay'.stop \/ render' = "notify" \/ relay'.at \in {"none", "next"}
<1>g. ASSUME Loops, Others, FramesFit PROVE SceneInv'
  <2>1. relay'.at \in {"none", "wait", "next", "done"}
    BY <1>g DEF Relays
  <2>2. SceneTypes'
    BY <1>g, <2>1 DEF SceneTypes, SceneTypeOK
  <2> QED BY <1>g, <2>2 DEF SceneInv, SceneKnows, CoversAreCurrent
<1>o. ASSUME UNCHANGED << files, covers, ordered, rewrites >> PROVE Others
  BY <1>0, <1>o DEF SceneTypeOK
<1>p. ASSUME UNCHANGED << files, covers, rewrites >>, ordered' = ordered + 1 PROVE Others
  BY <1>0, <1>p DEF SceneTypeOK
<1>f. ASSUME UNCHANGED << relay, ready, render >> PROVE FramesFit
  BY <1>0, <1>f DEF SceneTypeOK
<1>l. ASSUME UNCHANGED << desired, producer, scene, loopAt >> PROVE Loops
  BY <1>0, <1>l DEF SceneTypeOK, SceneKnows
<1>1. CASE Initializes
  <2>1. Loops
    BY <1>0, <1>1, ConfiguredHandsOn DEF Initializes
  <2> QED BY <1>1, <2>1, <1>g, <1>o, <1>f DEF Initializes, Unmoved, loopOnly
<1>2. CASE StartsRenderer
  <2>1. producer' \in Producers /\ producer'.gfx = producer.gfx /\ producer'.props = producer.props
        /\ producer'.play = producer.play
    BY <1>0, <1>2 DEF StartsRenderer, Producers
  <2>2. scene' \in Scenes /\ scene'.gfx = scene.gfx /\ scene'.props = scene.props /\ scene'.cover = scene.cover
        /\ scene'.play = producer.play
    BY <1>0, <1>2 DEF StartsRenderer, Scenes, Producers
  <2>3. Loops
    BY <1>0, <1>2, <2>1, <2>2 DEF StartsRenderer, Unmoved, SceneKnows
  <2> QED BY <1>2, <2>3, <1>g, <1>o, <1>f DEF StartsRenderer, Unmoved, loopOnly
<1>3. CASE PollEnds
  <2>1. Loops
    BY <1>0, <1>3 DEF PollEnds, Unmoved, SceneKnows
  <2> QED BY <1>3, <2>1, <1>g, <1>o, <1>f DEF PollEnds, Unmoved, loopOnly
<1>4. CASE StartsRelay
  <2>1. scene' \in Scenes /\ scene'.gfx = scene.gfx /\ scene'.props = scene.props /\ scene'.cover = scene.cover
        /\ scene'.play = scene.play
    BY <1>0, <1>4 DEF StartsRelay, Scenes
  <2>2. Loops
    BY <1>0, <1>4, <2>1 DEF StartsRelay, Unmoved, SceneKnows
  <2>3. relay' \in Relays /\ relay'.event
    BY <1>0, <1>4 DEF StartsRelay, Relays
  <2>4. FramesFit
    BY <1>0, <1>4, <2>3 DEF StartsRelay, Unmoved, loopOnly, SceneTypeOK
  <2> QED BY <1>4, <2>2, <2>4, <1>g, <1>o DEF StartsRelay, Unmoved, loopOnly
<1>5. ASSUME NEW play \in BOOLEAN, ScenePlayback(play) PROVE SceneInv'
  <2> DEFINE w == [desired EXCEPT !.play = play]
  <2>1. w \in Wishes /\ w.cover = desired.cover
    BY <1>0 DEF Wishes
  <2>2. Configured(w, IF loopAt = "serving" THEN "pump" ELSE loopAt) /\ loopAt \in {"configured", "serving"}
    BY <1>5 DEF ScenePlayback, Serving
  <2> HIDE DEF w
  <2>3. Loops
    BY <1>0, <2>1, <2>2, ConfiguredHandsOn
  <2>4. relay' \in Relays /\ relay'.event = relay.event /\ relay'.stop = relay.stop /\ relay'.at = relay.at
    BY <1>0, <1>5 DEF ScenePlayback, Relays
  <2>5. FramesFit
    BY <1>0, <1>5, <2>4 DEF ScenePlayback, Unmoved, loopOnly, SceneTypeOK
  <2> QED BY <1>5, <2>3, <2>5, <1>g, <1>p DEF ScenePlayback, Serving, Unmoved, loopOnly
<1>6. CASE ScenePump
  <2>1. Loops
    BY <1>0, <1>6 DEF ScenePump, Unmoved, SceneKnows
  <2>2. relay' \in Relays /\ relay'.event = relay.event /\ relay'.stop = relay.stop /\ relay'.at = relay.at
    BY <1>0, <1>6 DEF ScenePump, Relays, Wishes
  <2>3. FramesFit
    BY <1>0, <1>6, <2>2 DEF ScenePump, Unmoved, loopOnly, SceneTypeOK
  <2> QED BY <1>6, <2>1, <2>3, <1>g, <1>o DEF ScenePump, Unmoved, loopOnly
<1>7. CASE SceneRuntime
  <2>1. PICK w \in {[desired EXCEPT !.gfx = ordered + 1], [desired EXCEPT !.props = ordered + 1]} : Configured(w, loopAt)
    BY <1>7 DEF SceneRuntime
  <2>2. w \in Wishes /\ w.cover = desired.cover
    <3> DEFINE n == ordered + 1
    <3>1. n \in Nat
      BY <1>0
    <3>2. w = [desired EXCEPT !.gfx = n] \/ w = [desired EXCEPT !.props = n]
      BY <2>1
    <3> HIDE DEF n
    <3> QED BY <1>0, <3>1, <3>2 DEF Wishes
  <2>3. loopAt \in {"configured", "serving"}
    BY <1>7 DEF SceneRuntime, Serving
  <2>4. Loops
    BY <1>0, <2>1, <2>2, <2>3, ConfiguredHandsOn
  <2>5. relay' \in Relays /\ relay'.event
    BY <1>0, <1>7 DEF SceneRuntime, Relays
  <2>6. FramesFit
    BY <1>0, <1>7, <2>5 DEF SceneRuntime, Unmoved, loopOnly, SceneTypeOK
  <2> QED BY <1>7, <2>4, <2>6, <1>g, <1>p DEF SceneRuntime, Serving, Unmoved, loopOnly
<1>8. CASE SceneMedia
  <2>1. files.cover \in Nat
    BY <1>0
  <2>2. desired' \in Wishes /\ desired'.cover = files.cover /\ desired'.gfx = desired.gfx
        /\ desired'.props = desired.props /\ desired'.play = desired.play
    BY <1>0, <1>8, <2>1 DEF SceneMedia, Wishes
  <2>3. scene' = [scene EXCEPT !.cover = files.cover] /\ covers' = Cached(files.cover)
    BY <1>8, <2>1, CacheKeeps DEF SceneMedia
  <2>4. scene' \in Scenes /\ scene'.cover = files.cover /\ scene'.gfx = scene.gfx /\ scene'.props = scene.props
        /\ scene'.play = scene.play
    BY <1>0, <2>1, <2>3 DEF Scenes
  <2>5. Loops
    BY <1>0, <1>8, <2>2, <2>4 DEF SceneMedia, SceneKnows, SceneTypeOK
  <2>6. Others
    BY <1>0, <1>8, <2>1, <2>3, CacheKeeps, SMTT(40) DEF SceneMedia, Serving, Unmoved, loopOnly
  <2> QED BY <1>8, <2>5, <2>6, <1>g, <1>f DEF SceneMedia, Unmoved, loopOnly
<1>9. CASE StopsRelay
  <2>1. Loops
    BY <1>0, <1>9 DEF StopsRelay, Unmoved, SceneKnows
  <2>2. relay' \in Relays /\ relay'.stop
    BY <1>0, <1>9 DEF StopsRelay, Relays
  <2>3. FramesFit
    BY <1>0, <1>9, <2>2 DEF StopsRelay, Unmoved, loopOnly, SceneTypeOK
  <2> QED BY <1>9, <2>1, <2>3, <1>g, <1>o DEF StopsRelay, Unmoved, loopOnly
<1>10. CASE RelayJoined
  <2>1. producer' \in Producers /\ producer'.gfx = producer.gfx /\ producer'.props = producer.props
    BY <1>0, <1>10 DEF RelayJoined, Producers
  <2>2. scene' \in Scenes /\ scene'.gfx = scene.gfx /\ scene'.props = scene.props /\ scene'.cover = scene.cover
    BY <1>0, <1>10 DEF RelayJoined, Scenes
  <2>3. Loops
    BY <1>0, <1>10, <2>1, <2>2 DEF RelayJoined, Unmoved
  <2> QED BY <1>10, <2>3, <1>g, <1>o, <1>f DEF RelayJoined, Unmoved, loopOnly
<1>11. CASE Rewritten
  <2>1. files' \in [good : BOOLEAN, cover : Nat] /\ rewrites' \in Nat
    <3> DEFINE n == rewrites + 1
    <3>1. n \in Nat /\ rewrites' = n
      BY <1>0, <1>11, SMTT(40) DEF Rewritten
    <3>2. files' = [files EXCEPT !.good = ~@] \/ files' = [files EXCEPT !.cover = n]
      BY <1>11 DEF Rewritten
    <3> HIDE DEF n
    <3> QED BY <1>0, <3>1, <3>2
  <2>2. Others
    BY <1>0, <1>11, <2>1 DEF Rewritten, Unmoved, SceneTypeOK
  <2> QED BY <1>11, <2>2, <1>g, <1>l, <1>f DEF Rewritten, Unmoved, threads
<1>12. CASE MakesSwapchain \/ StartsDrawing
  <2>1. scene' \in Scenes /\ scene'.gfx = scene.gfx /\ scene'.props = scene.props /\ scene'.cover = scene.cover
        /\ scene'.play = scene.play
    BY <1>0, <1>12 DEF MakesSwapchain, StartsDrawing, Library, Scenes
  <2>2. UNCHANGED << files, desired, producer, loopAt, covers, ordered, rewrites, relay, ready >>
    BY <1>12 DEF MakesSwapchain, StartsDrawing, Library, Unmoved, threads
  <2>3. Loops
    BY <1>0, <2>1, <2>2 DEF SceneTypeOK, SceneKnows
  <2>4. render' = render \/ (render = "idle" /\ render' \in {"gate", "idle"})
    BY <1>12 DEF MakesSwapchain, StartsDrawing, threads
  <2>5. FramesFit
    BY <1>0, <2>2, <2>4 DEF SceneTypeOK
  <2> QED BY <2>2, <2>3, <2>5, <1>g, <1>o
<1>13. CASE LeavesGate \/ Announces \/ RelayWakes \/ RelayTakes
  <2>1. UNCHANGED << scene, files, desired, producer, loopAt, covers, ordered, rewrites >>
    BY <1>13 DEF LeavesGate, Announces, RelayWakes, RelayTakes, Library, Unmoved
  <2>2. CASE LeavesGate
    <3>1. UNCHANGED relay
      BY <2>2 DEF LeavesGate
    <3>2. /\ render = "gate"
          /\ \/ render' = "notify" /\ ready' = TRUE
             \/ render' = "idle" /\ ready' = ready
      BY <2>2 DEF LeavesGate
    <3>3. ready' \in BOOLEAN /\ render' \in {"idle", "gate", "notify"} /\ relay' \in Relays
      BY <1>0, <3>1, <3>2
    <3>4. render # "notify"
      BY <3>2
    <3>5. FramesFit
      BY <1>0, <3>1, <3>2, <3>3, <3>4, Zenon
    <3> QED BY <2>1, <3>5, <1>g, <1>l, <1>o
  <2>3. CASE Announces
    <3>1. FramesFit
      BY <1>0, <2>3 DEF Announces, Relays
    <3> QED BY <2>1, <3>1, <1>g, <1>l, <1>o
  <2>4. CASE RelayWakes
    <3>1. FramesFit
      BY <1>0, <2>4, ZenonT(40) DEF RelayWakes, Relays, threads, SceneTypeOK
    <3> QED BY <2>1, <3>1, <1>g, <1>l, <1>o
  <2>5. CASE RelayTakes
    <3>1. FramesFit
      BY <1>0, <2>5 DEF RelayTakes, Relays, SceneTypeOK
    <3> QED BY <2>1, <3>1, <1>g, <1>l, <1>o
  <2> QED BY <1>13, <2>2, <2>3, <2>4, <2>5
<1>14. CASE UNCHANGED sceneVars
  BY <1>14, <1>g, <1>l, <1>o, <1>f DEF sceneVars
<1> QED BY <1>1, <1>2, <1>3, <1>4, <1>5, <1>6, <1>7, <1>8, <1>9, <1>10, <1>11, <1>12, <1>13, <1>14
  DEF SceneNext

LEMMA SceneInvShows == SceneInv => SceneObeys
BY DEF SceneInv, SceneTypes, SceneObeys, NoSceneForgotten

-----------------------------------------------------------------------------
(* The web renderer.                                                        *)

Docs     == {"none", "blank", "loading", "loaded", "dead"}
Stored   == [play : BOOLEAN, props : Nat, media : Nat, fps : Nat]
Pages    == [doc : Docs, paused : BOOLEAN, props : Nat, media : Nat]
Browsers == [state : {"none", "open", "closed"}, attached : BOOLEAN, hidden : BOOLEAN,
             frozen : BOOLEAN, once : BOOLEAN, fps : Nat]
WakeFlags    == [stop : BOOLEAN, play : BOOLEAN, event : BOOLEAN]
Numbers  == [name : {"create", "props", "media", "fps"}, value : Nat]
Switches == [name : {"suspend", "frame", "close"}, value : BOOLEAN]
Tasks    == Numbers \cup Switches

\* What the UI thread has still to do, in order.
Queue == tasks \o posting

\* No task of q is one of N.
Lacks(q, N) == \A i \in DOMAIN q : q[i].name \notin N

\* Tasks M of q that no task of N follows have the value v.
LastTells(q, M, N, v) ==
  \A i \in DOMAIN q : q[i].name \in M /\ (\A j \in i + 1 .. Len(q) : q[j].name \notin N) => q[i].value = v

\* There is one task at most that creates the browser.
One(q) == \A i, j \in DOMAIN q : q[i].name = "create" /\ q[j].name = "create" => i = j

LoopLives == loop \notin {"closing", "gone", "failed"}
Rest == ~stored.play

WebTypes ==
  /\ WebTypeOK
  /\ stored \in Stored /\ page \in Pages /\ browser \in Browsers /\ wake \in WakeFlags
  /\ tasks \in Seq(Tasks) /\ posting \in Seq(Tasks) /\ painted \in BOOLEAN
  /\ settings \in Nat

\* Where the loop is tells whether there is a browser; it is created once.
BrowserInv ==
  /\ browser.attached /\ browser.state # "closed" /\ Lacks(Queue, {"close"})
  /\ loop = "configured" => browser.state = "none" /\ Lacks(Queue, {"create"})
  /\ loop \in {"prepared", "serving", "pump", "joining", "quiet"} => browser.state = "open"
  /\ browser.state = "open" => Lacks(Queue, {"create"})
  /\ One(Queue)
  /\ browser.state = "none" =>
       /\ page = NoPage /\ ~browser.hidden /\ ~browser.frozen /\ ~browser.once
       /\ Lacks(Queue, {"props", "fps"})

\* The last task of each kind has the value that is stored.
TasksInv ==
  /\ LastTells(Queue, {"props"}, {"props"}, stored.props)
  /\ LastTells(Queue, {"media"}, {"media"}, stored.media)
  /\ LastTells(Queue, {"create", "fps"}, {"create", "fps"}, stored.fps)
  /\ LastTells(Queue, {"suspend", "frame"}, {"suspend"}, Rest)

\* Without a task of a kind, the page and the browser are as stored.
PageInv ==
  /\ page.doc \notin {"loading", "loaded"} => ~page.paused
  /\ page.doc = "loaded" /\ Lacks(Queue, {"props"}) => page.props = stored.props
  /\ page.doc = "loaded" /\ Lacks(Queue, {"media"}) => page.media = stored.media
  /\ browser.state = "open" /\ Lacks(Queue, {"create", "fps"}) => browser.fps = stored.fps
  /\ browser.state = "open" /\ Lacks(Queue, {"suspend"}) =>
       IF stored.play THEN ~browser.hidden /\ ~browser.frozen /\ ~browser.once /\ ~page.paused
       ELSE page.doc = "loaded" => page.paused /\ (browser.once \/ (browser.hidden /\ browser.frozen))

PaintInv ==
  /\ painted => wake.event \/ wake.stop \/ paint = "notify" \/ painter \in {"none", "next"}
  /\ loop \in {"closing", "gone"} => ~browser.attached /\ paint \in {"none", "due"}

WebInv == WebTypes /\ PaintInv /\ (LoopLives => BrowserInv /\ TasksInv /\ PageInv)

-----------------------------------------------------------------------------
LEMMA WebInitInv == WebInit => WebInv
<1> SUFFICES ASSUME WebInit PROVE WebInv
  OBVIOUS
<1>1. stored \in Stored /\ wake \in WakeFlags /\ stored.props = 0 /\ stored.media = 0 /\ stored.fps = 0
  BY DEF WebInit, Stored, WakeFlags
<1>2. page \in Pages /\ page = NoPage /\ page.doc = "none" /\ page.paused = FALSE
  BY DEF WebInit, Pages, NoPage, Docs
<1>3. browser \in Browsers /\ browser.state = "none" /\ browser.attached /\ ~browser.hidden /\ ~browser.frozen
      /\ ~browser.once
  BY DEF WebInit, Browsers
<1>4. loop = "configured" /\ paint = "none" /\ painted = FALSE /\ painter = "none" /\ settings = 0
  BY DEF WebInit
<1>5. tasks = << >> /\ posting = << >> /\ Queue = << >> /\ DOMAIN Queue = {}
  BY DEF WebInit, Queue
<1>6. WebTypes
  <2>1. WebTypeOK
    BY <1>2, <1>4 DEF WebTypeOK
  <2>2. tasks \in Seq(Tasks) /\ posting \in Seq(Tasks)
    BY <1>5
  <2> QED BY <1>1, <1>2, <1>3, <1>4, <2>1, <2>2 DEF WebTypes
<1>7. BrowserInv
  BY <1>2, <1>3, <1>4, <1>5 DEF BrowserInv, Lacks, One
<1>8. TasksInv
  BY <1>5 DEF TasksInv, LastTells
<1>9. PageInv
  BY <1>2, <1>3 DEF PageInv
<1> QED BY <1>4, <1>6, <1>7, <1>8, <1>9 DEF WebInv, PaintInv

LEMMA WebInvShows == WebInv => WebObeys
<1> SUFFICES ASSUME WebInv PROVE WebObeys
  OBVIOUS
<1>1. WebTypeOK /\ NoFrameForgotten /\ NoCallbackAfterFree
  BY DEF WebInv, WebTypes, PaintInv, NoFrameForgotten, NoCallbackAfterFree
<1>2. ASSUME PageIsTold, page.doc = "loaded"
      PROVE  /\ page.props = stored.props /\ page.media = stored.media
             /\ page.paused = ~stored.play /\ browser.fps = stored.fps
             /\ IF stored.play THEN ~(browser.hidden \/ browser.frozen \/ browser.once)
                ELSE browser.once \/ (browser.hidden /\ browser.frozen)
  <2>1. LoopLives /\ BrowserInv /\ PageInv
    BY <1>2 DEF PageIsTold, LoopLives, WebInv
  <2>2. Queue = << >> /\ DOMAIN Queue = {}
    BY <1>2 DEF PageIsTold, Queue
  <2>3. \A N : Lacks(Queue, N)
    BY <2>2, SMTT(40) DEF Lacks
  <2>4. browser.state = "open"
    <3>1. page # NoPage
      BY <1>2 DEF NoPage
    <3> QED BY <2>1, <3>1 DEF BrowserInv, WebInv, WebTypes, Browsers
  <2>5. page.paused \in BOOLEAN /\ stored.play \in BOOLEAN
    BY DEF WebInv, WebTypes, Pages, Stored
  <2>6. IF stored.play THEN ~browser.hidden /\ ~browser.frozen /\ ~browser.once /\ ~page.paused
        ELSE page.paused /\ (browser.once \/ (browser.hidden /\ browser.frozen))
    BY <1>2, <2>1, <2>3, <2>4 DEF PageInv
  <2>7. page.paused = ~stored.play
    BY <2>5, <2>6
  <2> QED BY <1>2, <2>1, <2>3, <2>4, <2>6, <2>7 DEF PageInv
<1>3. PageKnows /\ PageRests
  BY <1>2 DEF PageKnows, PageRests
<1> QED BY <1>1, <1>3 DEF WebObeys

-----------------------------------------------------------------------------
(* Tasks in order.                                                          *)

LEMMA TaskKinds ==
  ASSUME NEW t \in Tasks
  PROVE  /\ t.name \in {"create", "props", "media", "fps", "suspend", "frame", "close"}
         /\ t.name \in {"create", "props", "media", "fps"} => t.value \in Nat
         /\ t.name \in {"suspend", "frame", "close"} => t.value \in BOOLEAN
<1>1. CASE t \in Numbers
  BY <1>1 DEF Numbers
<1>2. CASE t \in Switches
  BY <1>2 DEF Switches
<1> QED BY <1>1, <1>2 DEF Tasks

\* A task more.
LEMMA TaskAdded ==
  ASSUME NEW q \in Seq(Tasks), NEW e \in Tasks, NEW M, NEW N, NEW v
  PROVE  /\ Lacks(Append(q, e), N) <=> Lacks(q, N) /\ e.name \notin N
         /\ LastTells(q, M, N, v) /\ (e.name \in M => e.value = v) => LastTells(Append(q, e), M, N, v)
         /\ e.name \in N /\ (e.name \in M => e.value = v) => LastTells(Append(q, e), M, N, v)
<1> DEFINE r == Append(q, e)
           n == Len(q)
<1>1. n \in Nat /\ DOMAIN q = 1 .. n /\ DOMAIN r = 1 .. n + 1 /\ Len(r) = n + 1 /\ r[n + 1] = e
      /\ \A i \in 1 .. n : r[i] = q[i]
  OBVIOUS
<1> HIDE DEF r, n
<1>2. Lacks(r, N) <=> Lacks(q, N) /\ e.name \notin N
  BY <1>1 DEF Lacks
<1>3. ASSUME NEW i \in 1 .. n + 1, r[i].name \in M, \A j \in i + 1 .. n + 1 : r[j].name \notin N,
             e.name \in M => e.value = v, LastTells(q, M, N, v) \/ e.name \in N
      PROVE  r[i].value = v
  <2>1. CASE i = n + 1
    BY <1>1, <1>3, <2>1
  <2>2. CASE i \in 1 .. n
    <3>1. n + 1 \in i + 1 .. n + 1
      BY <1>1, <2>2
    <3>2. e.name \notin N
      BY <1>1, <1>3, <3>1
    <3>3. \A j \in i + 1 .. n : q[j].name \notin N
      <4>1. \A j \in i + 1 .. n : j \in i + 1 .. n + 1 /\ r[j] = q[j]
        BY <1>1, <2>2
      <4> QED BY <1>3, <4>1
    <3>4. q[i].name \in M /\ r[i] = q[i]
      BY <1>1, <1>3, <2>2
    <3> QED BY <1>1, <1>3, <2>2, <3>2, <3>3, <3>4 DEF LastTells
  <2> QED BY <1>1, <2>1, <2>2
<1>4. LastTells(q, M, N, v) /\ (e.name \in M => e.value = v) => LastTells(r, M, N, v)
  BY <1>1, <1>3 DEF LastTells
<1>5. e.name \in N /\ (e.name \in M => e.value = v) => LastTells(r, M, N, v)
  BY <1>1, <1>3 DEF LastTells
<1> QED BY <1>2, <1>4, <1>5 DEF r

\* A task less.
LEMMA TaskTaken ==
  ASSUME NEW q \in Seq(Tasks), q # << >>, NEW M, NEW N, NEW v
  PROVE  /\ Head(q) \in Tasks /\ Tail(q) \in Seq(Tasks)
         /\ Lacks(q, N) <=> Lacks(Tail(q), N) /\ Head(q).name \notin N
         /\ LastTells(q, M, N, v) => LastTells(Tail(q), M, N, v)
         /\ LastTells(q, M, N, v) /\ Lacks(Tail(q), N) /\ Head(q).name \in M => Head(q).value = v
<1> DEFINE r == Tail(q)
           n == Len(q)
           h == Head(q)
<1>1. n \in Nat /\ n > 0 /\ r \in Seq(Tasks) /\ DOMAIN r = 1 .. n - 1 /\ Len(r) = n - 1 /\ DOMAIN q = 1 .. n
      /\ h = q[1] /\ h \in Tasks /\ \A i \in 1 .. n - 1 : r[i] = q[i + 1]
  OBVIOUS
<1> HIDE DEF r, n, h
<1>2. \A i \in 1 .. n - 1 : i + 1 \in 1 .. n
  BY <1>1
<1>3. \A i \in 1 .. n : i = 1 \/ (i - 1 \in 1 .. n - 1 /\ r[i - 1] = q[i])
  <2>1. \A i \in 1 .. n : i = 1 \/ (i - 1 \in 1 .. n - 1 /\ (i - 1) + 1 = i)
    BY <1>1
  <2> QED BY <1>1, <2>1
<1>4. 1 \in 1 .. n
  BY <1>1
<1>5. Lacks(q, N) => Lacks(r, N) /\ h.name \notin N
  BY <1>1, <1>2, <1>4 DEF Lacks
<1>6. Lacks(r, N) /\ h.name \notin N => Lacks(q, N)
  BY <1>1, <1>3 DEF Lacks
<1>7. ASSUME LastTells(q, M, N, v), NEW i \in 1 .. n - 1, r[i].name \in M,
             \A j \in i + 1 .. n - 1 : r[j].name \notin N
      PROVE  r[i].value = v
  <2>1. i + 1 \in 1 .. n /\ r[i] = q[i + 1]
    BY <1>1
  <2>2. \A j \in (i + 1) + 1 .. n : q[j].name \notin N
    <3>1. \A j \in (i + 1) + 1 .. n : j \in 1 .. n /\ j # 1 /\ j - 1 \in i + 1 .. n - 1
      BY <1>1
    <3> QED BY <1>3, <1>7, <3>1
  <2> QED BY <1>1, <1>7, <2>1, <2>2, SMTT(40) DEF LastTells
<1>8. LastTells(q, M, N, v) => LastTells(r, M, N, v)
  BY <1>1, <1>7 DEF LastTells
<1>9. ASSUME LastTells(q, M, N, v), Lacks(r, N), h.name \in M PROVE h.value = v
  <2>1. \A j \in 1 + 1 .. n : q[j].name \notin N
    <3>1. \A j \in 1 + 1 .. n : j \in 1 .. n /\ j # 1 /\ j - 1 \in 1 .. n - 1
      BY <1>1
    <3> QED BY <1>1, <1>3, <1>9, <3>1 DEF Lacks
  <2> QED BY <1>1, <1>4, <1>9, <2>1 DEF LastTells
<1> QED BY <1>1, <1>5, <1>6, <1>8, <1>9 DEF r, h

LEMMA OneAdded ==
  ASSUME NEW q \in Seq(Tasks), NEW e \in Tasks, One(q), e.name = "create" => Lacks(q, {"create"})
  PROVE  One(Append(q, e))
<1> DEFINE r == Append(q, e)
           n == Len(q)
<1>1. n \in Nat /\ DOMAIN q = 1 .. n /\ DOMAIN r = 1 .. n + 1 /\ r[n + 1] = e /\ \A i \in 1 .. n : r[i] = q[i]
  OBVIOUS
<1> HIDE DEF r, n
<1>2. \A i \in 1 .. n + 1 : i = n + 1 \/ i \in 1 .. n
  BY <1>1
<1> QED BY <1>1, <1>2 DEF One, Lacks, r

LEMMA OneTaken ==
  ASSUME NEW q \in Seq(Tasks), q # << >>, One(q)
  PROVE  One(Tail(q)) /\ (Head(q).name = "create" => Lacks(Tail(q), {"create"}))
<1> DEFINE r == Tail(q)
           n == Len(q)
           h == Head(q)
<1>1. n \in Nat /\ n > 0 /\ DOMAIN r = 1 .. n - 1 /\ DOMAIN q = 1 .. n
      /\ h = q[1] /\ \A i \in 1 .. n - 1 : r[i] = q[i + 1]
  OBVIOUS
<1> HIDE DEF r, n, h
<1>2. 1 \in 1 .. n /\ \A i \in 1 .. n - 1 : i + 1 \in 1 .. n /\ i + 1 # 1
  BY <1>1
<1>3. One(r)
  <2> SUFFICES ASSUME NEW i \in 1 .. n - 1, NEW j \in 1 .. n - 1, r[i].name = "create", r[j].name = "create"
               PROVE  i = j
    BY <1>1 DEF One
  <2>1. i + 1 = j + 1
    BY <1>1, <1>2 DEF One
  <2> QED BY <2>1
<1>4. h.name = "create" => Lacks(r, {"create"})
  <2> SUFFICES ASSUME h.name = "create", NEW i \in 1 .. n - 1, r[i].name = "create" PROVE FALSE
    BY <1>1 DEF Lacks
  <2>1. i + 1 = 1
    BY <1>1, <1>2 DEF One
  <2> QED BY <1>2, <2>1
<1> QED BY <1>3, <1>4 DEF r, h

\* What a step of the loop posts.
LEMMA PostedTask ==
  ASSUME WebTypes, BrowserInv, posting = << >>, NEW e \in Tasks, tasks' = tasks, posting' = << e >>,
         e.name # "close", e.name = "create" => Lacks(Queue, {"create"})
  PROVE  /\ tasks' \in Seq(Tasks) /\ posting' \in Seq(Tasks)
         /\ Queue' = Append(Queue, e) /\ Queue \in Seq(Tasks) /\ One(Queue') /\ Lacks(Queue', {"close"})
<1>1. Queue = tasks /\ Queue' = Append(Queue, e) /\ Queue \in Seq(Tasks)
  BY DEF Queue, WebTypes
<1>2. One(Queue')
  BY <1>1, OneAdded DEF BrowserInv
<1>3. Lacks(Queue', {"close"})
  BY <1>1, TaskAdded DEF BrowserInv
<1> QED BY <1>1, <1>2, <1>3 DEF WebTypes

LEMMA NothingPosted ==
  ASSUME WebTypes, posting = << >>, tasks' = tasks, posting' = << >>
  PROVE  Queue' = Queue /\ Queue \in Seq(Tasks) /\ tasks' \in Seq(Tasks) /\ posting' \in Seq(Tasks)
BY DEF Queue, WebTypes

\* Tasks that are the same as before, of the same settings.
LEMMA TasksStay ==
  ASSUME TasksInv, Queue' = Queue, stored' = stored PROVE TasksInv'
BY DEF TasksInv, Rest

\* The last task of those there were, and of one more.
LEMMA TasksMore ==
  ASSUME TasksInv, Queue \in Seq(Tasks), NEW e \in Tasks, Queue' = Append(Queue, e), stored' \in Stored, stored \in Stored,
         stored'.props = stored.props \/ e.name = "props",
         stored'.media = stored.media \/ e.name = "media",
         stored'.fps = stored.fps \/ e.name = "fps",
         stored'.play = stored.play \/ e.name = "suspend",
         e.name = "props" => e.value = stored'.props,
         e.name = "media" => e.value = stored'.media,
         e.name \in {"create", "fps"} => e.value = stored'.fps,
         e.name \in {"suspend", "frame"} => e.value = Rest'
  PROVE  TasksInv'
<1>1. LastTells(Queue', {"props"}, {"props"}, stored'.props)
  BY TaskAdded DEF TasksInv
<1>2. LastTells(Queue', {"media"}, {"media"}, stored'.media)
  BY TaskAdded DEF TasksInv
<1>3. LastTells(Queue', {"create", "fps"}, {"create", "fps"}, stored'.fps)
  BY TaskAdded DEF TasksInv
<1>4. LastTells(Queue', {"suspend", "frame"}, {"suspend"}, Rest')
  <2>1. CASE e.name = "suspend"
    BY <2>1, TaskAdded
  <2>2. CASE e.name # "suspend"
    <3>1. Rest' = Rest
      BY <2>2 DEF Rest
    <3> QED BY <3>1, TaskAdded DEF TasksInv
  <2> QED BY <2>1, <2>2
<1> QED BY <1>1, <1>2, <1>3, <1>4 DEF TasksInv

\* Pages and browsers that are the same, with more tasks.
LEMMA PageStays ==
  ASSUME PageInv, page' = page, browser' = browser,
         \A N : Lacks(Queue', N) => Lacks(Queue, N),
         stored'.props = stored.props \/ ~Lacks(Queue', {"props"}) \/ page.doc # "loaded",
         stored'.media = stored.media \/ ~Lacks(Queue', {"media"}) \/ page.doc # "loaded",
         stored'.fps = stored.fps \/ ~Lacks(Queue', {"create", "fps"}) \/ browser.state # "open",
         stored'.play = stored.play \/ ~Lacks(Queue', {"suspend"}) \/ browser.state # "open"
  PROVE  PageInv'
BY DEF PageInv

LEMMA BrowserStays ==
  ASSUME BrowserInv, page' = page, browser' = browser, One(Queue'), Lacks(Queue', {"close"}),
         Lacks(Queue, {"create"}) /\ (browser.state = "open" \/ loop' = "configured") => Lacks(Queue', {"create"}),
         Lacks(Queue, {"props", "fps"}) /\ browser.state = "none" => Lacks(Queue', {"props", "fps"}),
         loop' = loop \/ (loop = "configured" /\ loop' = "creating")
         \/ (loop' \in {"prepared", "serving", "pump", "joining", "quiet"} /\ browser.state = "open")
  PROVE  BrowserInv'
BY DEF BrowserInv

-----------------------------------------------------------------------------
(* The loop of the host.                                                    *)

LEMMA PostsTaskKeeps == ASSUME WebInv, PostsTask PROVE WebInv'
<1>1. tasks \in Seq(Tasks) /\ posting \in Seq(Tasks) /\ posting # << >>
  BY DEF WebInv, WebTypes, PostsTask
<1>2. Head(posting) \in Tasks /\ tasks' = Append(tasks, Head(posting)) /\ posting' = Tail(posting)
  BY <1>1 DEF PostsTask
<1>3. tasks' \in Seq(Tasks) /\ posting' \in Seq(Tasks)
  BY <1>1, <1>2
<1>4. Queue' = Queue
  BY <1>1, <1>2 DEF Queue
<1>5. UNCHANGED << stored, loop, browser, page, paint, painted, painterVars, settings, deaths >>
  BY DEF PostsTask, Settled
<1>6. WebTypes'
  BY <1>3, <1>5 DEF WebInv, WebTypes, WebTypeOK, painterVars
<1>7. BrowserInv => BrowserInv'
  BY <1>4, <1>5 DEF BrowserInv
<1>8. TasksInv => TasksInv'
  BY <1>4, <1>5, TasksStay
<1>9. PageInv => PageInv'
  BY <1>4, <1>5 DEF PageInv
<1> QED BY <1>5, <1>6, <1>7, <1>8, <1>9 DEF WebInv, LoopLives, PaintInv, painterVars

\* The paint and the frame thread, when a step of the loop leaves them.
LEMMA PaintStays ==
  ASSUME PaintInv, UNCHANGED << browser, paint, painted, painter >>,
         wake' = wake \/ (wake' \in WakeFlags /\ (wake'.event \/ wake'.stop))
         \/ (wake'.event = wake.event /\ wake'.stop = wake.stop),
         loop' \in {"closing", "gone"} => loop' = loop
  PROVE  PaintInv'
BY DEF PaintInv

LEMMA CreatesKeeps == ASSUME WebInv, CreatesBrowser PROVE WebInv'
<1> DEFINE e == Task("create", stored.fps)
<1>1. loop = "configured" /\ loop' = "creating" /\ posting = << >> /\ posting' = << e >>
      /\ UNCHANGED << stored, tasks, browser, page, paint, painted, deaths, wake, painter, settings >>
  BY DEF CreatesBrowser, At, Settled, uiVars, painterVars
<1>2. WebTypes /\ BrowserInv /\ TasksInv /\ PageInv /\ PaintInv
  BY <1>1 DEF WebInv, LoopLives
<1>3. stored \in Stored /\ e \in Tasks /\ e.name = "create" /\ e.value = stored.fps
  BY <1>2 DEF WebTypes, Stored, Task, Tasks, Numbers
<1> HIDE DEF e
<1>4. Lacks(Queue, {"create"}) /\ browser.state = "none"
  BY <1>1, <1>2 DEF BrowserInv
<1>5. /\ tasks' \in Seq(Tasks) /\ posting' \in Seq(Tasks) /\ Queue' = Append(Queue, e) /\ Queue \in Seq(Tasks)
      /\ One(Queue') /\ Lacks(Queue', {"close"})
  BY <1>1, <1>2, <1>3, <1>4, PostedTask
<1>6. \A N : Lacks(Queue', N) <=> Lacks(Queue, N) /\ e.name \notin N
  BY <1>3, <1>5, TaskAdded
<1>7. TasksInv'
  BY <1>1, <1>2, <1>3, <1>5, TasksMore
<1>8. PageInv'
  BY <1>1, <1>2, <1>6, PageStays
<1>9. BrowserInv'
  BY <1>1, <1>2, <1>3, <1>4, <1>5, <1>6, BrowserStays
<1>10. WebTypes' /\ PaintInv'
  BY <1>1, <1>2, <1>5, PaintStays DEF WebTypes, WebTypeOK
<1> QED BY <1>7, <1>8, <1>9, <1>10 DEF WebInv

LEMMA CreatedKeeps == ASSUME WebInv, BrowserCreated PROVE WebInv'
<1> DEFINE e == Task("suspend", ~stored.play)
<1>1. loop = "creating" /\ browser.state = "open" /\ loop' = "prepared" /\ posting = << >> /\ posting' = << e >>
      /\ UNCHANGED << stored, tasks, browser, page, paint, painted, deaths, wake, painter, settings >>
  BY DEF BrowserCreated, At, Settled, uiVars, painterVars
<1>2. WebTypes /\ BrowserInv /\ TasksInv /\ PageInv /\ PaintInv
  BY <1>1 DEF WebInv, LoopLives
<1>3. stored \in Stored /\ e \in Tasks /\ e.name = "suspend" /\ e.value = Rest
  BY <1>2 DEF WebTypes, Stored, Task, Tasks, Switches, Rest
<1>4. e.value = Rest'
  BY <1>1, <1>3 DEF Rest
<1> HIDE DEF e
<1>5. /\ tasks' \in Seq(Tasks) /\ posting' \in Seq(Tasks) /\ Queue' = Append(Queue, e) /\ Queue \in Seq(Tasks)
      /\ One(Queue') /\ Lacks(Queue', {"close"})
  BY <1>1, <1>2, <1>3, PostedTask
<1>6. \A N : Lacks(Queue', N) <=> Lacks(Queue, N) /\ e.name \notin N
  BY <1>3, <1>5, TaskAdded
<1>7. TasksInv'
  BY <1>1, <1>2, <1>3, <1>4, <1>5, TasksMore
<1>8. PageInv'
  BY <1>1, <1>2, <1>6, PageStays
<1>9. BrowserInv'
  BY <1>1, <1>2, <1>3, <1>5, <1>6, BrowserStays
<1>10. WebTypes' /\ PaintInv'
  BY <1>1, <1>2, <1>5, PaintStays DEF WebTypes, WebTypeOK
<1> QED BY <1>7, <1>8, <1>9, <1>10 DEF WebInv

LEMMA FailsKeeps == ASSUME WebInv, BrowserFails PROVE WebInv'
<1>1. loop' = "failed" /\ browser' = [browser EXCEPT !.attached = FALSE]
      /\ UNCHANGED << stored, posting, tasks, page, paint, painted, wake, painter, settings >>
  BY DEF BrowserFails, Settled, painterVars
<1>2. browser' \in Browsers
  BY <1>1 DEF WebInv, WebTypes, Browsers
<1>3. WebTypes'
  BY <1>1, <1>2 DEF WebInv, WebTypes, WebTypeOK
<1> QED BY <1>1, <1>3 DEF WebInv, LoopLives, PaintInv

LEMMA NegotiatesKeeps == ASSUME WebInv, Negotiates PROVE WebInv'
<1> DEFINE e == Task("frame", ~stored.play)
<1>1. loop = "prepared" /\ loop' = "serving" /\ posting = << >> /\ posting' = << e >>
      /\ wake' = [wake EXCEPT !.stop = FALSE, !.event = TRUE] /\ painter' = "wait"
      /\ UNCHANGED << stored, tasks, browser, page, paint, painted, deaths, settings >>
  BY DEF Negotiates, At, Settled, uiVars
<1>2. WebTypes /\ BrowserInv /\ TasksInv /\ PageInv /\ PaintInv
  BY <1>1 DEF WebInv, LoopLives
<1>3. stored \in Stored /\ e \in Tasks /\ e.name = "frame" /\ e.value = Rest
  BY <1>2 DEF WebTypes, Stored, Task, Tasks, Switches, Rest
<1>4. e.value = Rest'
  BY <1>1, <1>3 DEF Rest
<1> HIDE DEF e
<1>5. /\ tasks' \in Seq(Tasks) /\ posting' \in Seq(Tasks) /\ Queue' = Append(Queue, e) /\ Queue \in Seq(Tasks)
      /\ One(Queue') /\ Lacks(Queue', {"close"})
  BY <1>1, <1>2, <1>3, PostedTask
<1>6. \A N : Lacks(Queue', N) <=> Lacks(Queue, N) /\ e.name \notin N
  BY <1>3, <1>5, TaskAdded
<1>7. TasksInv'
  BY <1>1, <1>2, <1>3, <1>4, <1>5, TasksMore
<1>8. PageInv'
  BY <1>1, <1>2, <1>6, PageStays
<1>9. BrowserInv'
  <2>1. browser.state = "open"
    BY <1>1, <1>2 DEF BrowserInv
  <2> QED BY <1>1, <1>2, <1>3, <1>5, <1>6, <2>1, BrowserStays
<1>10. wake' \in WakeFlags /\ wake'.event
  BY <1>1, <1>2 DEF WebTypes, WakeFlags
<1>11. WebTypes'
  BY <1>1, <1>2, <1>5, <1>10 DEF WebTypes, WebTypeOK
<1>12. PaintInv'
  BY <1>1, <1>2, <1>10 DEF PaintInv
<1> QED BY <1>7, <1>8, <1>9, <1>11, <1>12 DEF WebInv

\* A command, with the task that tells the page of it.
LEMMA ToldKeeps ==
  ASSUME WebInv, LoopLives, posting = << >>, NEW e \in Tasks, posting' = << e >>, tasks' = tasks,
         UNCHANGED << browser, page, paint, painted, painter >>,
         wake' \in WakeFlags, wake'.event \/ (wake'.event = wake.event /\ wake'.stop = wake.stop),
         loop' = loop \/ (loop' \in {"serving", "pump", "joining", "quiet"} /\ browser.state = "open"),
         stored' \in Stored, settings' \in Nat, e.name \in {"props", "media", "fps", "suspend"},
         e.name \in {"props", "fps"} => browser.state = "open",
         stored'.props = stored.props \/ e.name = "props",
         stored'.media = stored.media \/ e.name = "media",
         stored'.fps = stored.fps \/ e.name = "fps",
         stored'.play = stored.play \/ e.name = "suspend",
         e.name = "props" => e.value = stored'.props,
         e.name = "media" => e.value = stored'.media,
         e.name = "fps" => e.value = stored'.fps,
         e.name = "suspend" => e.value = Rest'
  PROVE  WebInv'
<1>2. WebTypes /\ BrowserInv /\ TasksInv /\ PageInv /\ PaintInv
  BY DEF WebInv
<1>3. e.name \notin {"close", "create", "frame"}
  OBVIOUS
<1>4. /\ tasks' \in Seq(Tasks) /\ posting' \in Seq(Tasks) /\ Queue' = Append(Queue, e) /\ Queue \in Seq(Tasks)
      /\ One(Queue') /\ Lacks(Queue', {"close"})
  BY <1>2, <1>3, PostedTask
<1>5. \A N : Lacks(Queue', N) <=> Lacks(Queue, N) /\ e.name \notin N
  BY <1>4, TaskAdded
<1>6. stored \in Stored
  BY <1>2 DEF WebTypes
<1>7. TasksInv'
  BY <1>2, <1>3, <1>4, <1>6, TasksMore
<1>8. PageInv'
  BY <1>2, <1>5, PageStays
<1>9. BrowserInv'
  BY <1>2, <1>3, <1>4, <1>5, BrowserStays
<1>10. WebTypes'
  BY <1>2, <1>4 DEF WebTypes, WebTypeOK
<1>11. PaintInv'
  BY <1>2, PaintStays DEF LoopLives
<1> QED BY <1>7, <1>8, <1>9, <1>10, <1>11 DEF WebInv

\* A step of the loop that tells the page nothing.
LEMMA UntoldKeeps ==
  ASSUME WebInv, LoopLives, posting = << >>, posting' = << >>, tasks' = tasks,
         UNCHANGED << browser, page, paint, painted, painter >>,
         wake' \in WakeFlags, wake'.event \/ wake'.stop \/ (wake'.event = wake.event /\ wake'.stop = wake.stop),
         loop' = loop \/ (loop' \in {"serving", "pump", "joining", "quiet"} /\ browser.state = "open"),
         stored' \in Stored, settings' \in Nat,
         stored'.props = stored.props \/ browser.state # "open",
         stored'.media = stored.media, stored'.play = stored.play,
         stored'.fps = stored.fps \/ (browser.state # "open" /\ loop = "configured")
  PROVE  WebInv'
<1>1. WebTypes /\ BrowserInv /\ TasksInv /\ PageInv /\ PaintInv
  BY DEF WebInv
<1>2. Queue' = Queue /\ tasks' \in Seq(Tasks) /\ posting' \in Seq(Tasks)
  BY <1>1, NothingPosted
<1>3. browser.state # "open" => page.doc = "none" /\ Lacks(Queue, {"props", "fps"})
  <2>1. browser.state \in {"none", "open", "closed"}
    BY <1>1 DEF WebTypes, Browsers
  <2> QED BY <1>1, <2>1 DEF BrowserInv, NoPage
<1>4. TasksInv'
  <2>1. browser.state # "open" => LastTells(Queue, {"props"}, {"props"}, stored'.props)
    BY <1>3 DEF Lacks, LastTells
  <2>2. browser.state # "open" /\ loop = "configured" => LastTells(Queue, {"create", "fps"}, {"create", "fps"}, stored'.fps)
    <3>1. browser.state # "open" /\ loop = "configured" => Lacks(Queue, {"props", "fps"}) /\ Lacks(Queue, {"create"})
      BY <1>1, <1>3 DEF BrowserInv
    <3> QED BY <3>1 DEF Lacks, LastTells
  <2>3. Rest' = Rest
    BY DEF Rest
  <2> QED BY <1>1, <1>2, <2>1, <2>2, <2>3 DEF TasksInv
<1>5. PageInv'
  BY <1>1, <1>2, <1>3, PageStays
<1>6. BrowserInv'
  BY <1>1, <1>2 DEF BrowserInv
<1>7. WebTypes'
  BY <1>1, <1>2 DEF WebTypes, WebTypeOK
<1>8. PaintInv'
  BY <1>1, PaintStays DEF LoopLives
<1> QED BY <1>4, <1>5, <1>6, <1>7, <1>8 DEF WebInv

LEMMA PlaybackTold ==
  ASSUME WebInv, NEW play \in BOOLEAN, LoopLives, posting = << >>, tasks' = tasks, posting' = SuspendTasks(play),
         stored' = [stored EXCEPT !.play = play], UNCHANGED << browser, page, paint, painted, painter >>,
         wake' \in WakeFlags, wake'.event = wake.event /\ wake'.stop = wake.stop,
         loop' = loop \/ (loop' \in {"serving", "pump", "joining", "quiet"} /\ browser.state = "open"),
         settings' \in Nat
  PROVE  WebInv'
<1> DEFINE e == Task("suspend", ~play)
<1>1. stored \in Stored /\ stored' \in Stored /\ stored'.play = play
      /\ stored'.props = stored.props /\ stored'.media = stored.media /\ stored'.fps = stored.fps
  BY DEF WebInv, WebTypes, Stored
<1>2. CASE play # stored.play
  <2>1. posting' = << e >>
    BY <1>2 DEF SuspendTasks
  <2>2. e \in Tasks /\ e.name = "suspend" /\ e.value = Rest'
    BY <1>1 DEF Task, Tasks, Switches, Rest
  <2> HIDE DEF e
  <2> QED BY <1>1, <2>1, <2>2, ToldKeeps
<1>3. CASE play = stored.play
  <2>1. posting' = << >> /\ stored'.play = stored.play
    BY <1>1, <1>3 DEF SuspendTasks
  <2> QED BY <1>1, <2>1, UntoldKeeps
<1> QED BY <1>2, <1>3

LEMMA PlaybackKeeps == ASSUME WebInv, NEW play \in BOOLEAN, WebPlayback(play) PROVE WebInv'
<1>1. /\ loop \in {"configured", "serving"} /\ posting = << >> /\ settings' = settings + 1
      /\ stored' = [stored EXCEPT !.play = play] /\ posting' = SuspendTasks(play)
      /\ UNCHANGED << tasks, browser, page, paint, painted, deaths, painter >>
  BY DEF WebPlayback, Commanded, Settled, uiVars
<1>2. loop' = IF loop = "serving" THEN "pump" ELSE loop
  BY DEF WebPlayback
<1>3. wake' = IF loop = "serving" THEN wake ELSE [wake EXCEPT !.play = play]
  BY DEF WebPlayback
<1>4. wake \in WakeFlags /\ settings' \in Nat /\ LoopLives
  BY <1>1 DEF WebInv, WebTypes, LoopLives
<1>5. wake' \in WakeFlags /\ wake'.event = wake.event /\ wake'.stop = wake.stop
  BY <1>3, <1>4 DEF WakeFlags
<1>6. loop' = loop \/ (loop' \in {"serving", "pump", "joining", "quiet"} /\ browser.state = "open")
  BY <1>1, <1>2, <1>4 DEF WebInv, BrowserInv
<1> QED BY <1>1, <1>4, <1>5, <1>6, PlaybackTold

LEMMA JoinedKeeps == ASSUME WebInv, ThreadJoined PROVE WebInv'
<1> DEFINE play == FALSE
<1>1. /\ loop = "joining" /\ loop' = "quiet" /\ posting = << >>
      /\ stored' = [stored EXCEPT !.play = play] /\ posting' = SuspendTasks(play)
      /\ UNCHANGED << tasks, browser, page, paint, painted, deaths, wake, painter, settings >>
  BY DEF ThreadJoined, At, Settled, uiVars, painterVars
<1>2. wake' \in WakeFlags /\ wake'.event = wake.event /\ wake'.stop = wake.stop /\ settings' \in Nat /\ LoopLives
  BY <1>1 DEF WebInv, WebTypes, LoopLives
<1>3. loop' \in {"serving", "pump", "joining", "quiet"} /\ browser.state = "open"
  BY <1>1, <1>2 DEF WebInv, BrowserInv
<1>4. play \in BOOLEAN
  OBVIOUS
<1> HIDE DEF play
<1> QED BY <1>1, <1>2, <1>3, <1>4, PlaybackTold

LEMMA TellsPumpKeeps == ASSUME WebInv, TellsPump PROVE WebInv'
<1>1. /\ loop = "pump" /\ loop' = "serving" /\ posting = << >> /\ posting' = posting
      /\ wake' = [wake EXCEPT !.play = stored.play]
      /\ UNCHANGED << stored, tasks, browser, page, paint, painted, deaths, painter, settings >>
  BY DEF TellsPump, At, Settled, uiVars
<1>2. LoopLives /\ stored \in Stored /\ wake \in WakeFlags /\ settings \in Nat
  BY <1>1 DEF LoopLives, WebInv, WebTypes
<1>3. wake' \in WakeFlags /\ wake'.event = wake.event /\ wake'.stop = wake.stop
  BY <1>1, <1>2 DEF WakeFlags, Stored
<1>4. browser.state = "open"
  BY <1>1, <1>2 DEF WebInv, BrowserInv
<1> QED BY <1>1, <1>2, <1>3, <1>4, UntoldKeeps

LEMMA StopsKeeps == ASSUME WebInv, StopsThread PROVE WebInv'
<1>1. /\ loop = "serving" /\ loop' = "joining" /\ posting = << >> /\ posting' = posting
      /\ wake' = [wake EXCEPT !.stop = TRUE]
      /\ UNCHANGED << stored, tasks, browser, page, paint, painted, deaths, painter, settings >>
  BY DEF StopsThread, At, Settled, uiVars
<1>2. LoopLives /\ stored \in Stored /\ wake \in WakeFlags /\ settings \in Nat
  BY <1>1 DEF LoopLives, WebInv, WebTypes
<1>3. wake' \in WakeFlags /\ wake'.stop
  BY <1>1, <1>2 DEF WakeFlags
<1>4. browser.state = "open"
  BY <1>1, <1>2 DEF WebInv, BrowserInv
<1> QED BY <1>1, <1>2, <1>3, <1>4, UntoldKeeps

LEMMA RuntimeKeeps == ASSUME WebInv, WebRuntime PROVE WebInv'
<1> DEFINE n == settings + 1
           e == Task("props", n)
           d == Task("fps", n)
<1>1. /\ loop \in {"configured", "serving"} /\ posting = << >> /\ settings' = n /\ loop' = loop
      /\ wake' = [wake EXCEPT !.event = TRUE]
      /\ UNCHANGED << tasks, browser, page, paint, painted, deaths, painter >>
  BY DEF WebRuntime, Commanded, Settled, uiVars
<1>2. \/ stored' = [stored EXCEPT !.props = n] /\ posting' = IfOpen(<< e >>)
      \/ stored' = [stored EXCEPT !.fps = n] /\ posting' = IfOpen(<< d >>)
  BY DEF WebRuntime, Commanded
<1>3. LoopLives /\ stored \in Stored /\ wake \in WakeFlags /\ n \in Nat /\ browser.state \in {"none", "open", "closed"}
  BY <1>1 DEF LoopLives, WebInv, WebTypes, Browsers
<1>4. wake' \in WakeFlags /\ wake'.event
  BY <1>1, <1>3 DEF WakeFlags
<1>5. e \in Tasks /\ e.name = "props" /\ e.value = n /\ d \in Tasks /\ d.name = "fps" /\ d.value = n
  BY <1>3 DEF Task, Tasks, Numbers
<1>6. loop = "serving" => browser.state = "open"
  BY <1>3 DEF WebInv, BrowserInv
<1> HIDE DEF n, e, d
<1>7. CASE stored' = [stored EXCEPT !.props = n] /\ posting' = IfOpen(<< e >>)
  <2>1. stored' \in Stored /\ stored'.props = n /\ stored'.media = stored.media /\ stored'.fps = stored.fps
        /\ stored'.play = stored.play
    BY <1>3, <1>7 DEF Stored
  <2>2. CASE browser.state = "open"
    BY <1>1, <1>3, <1>4, <1>5, <1>7, <2>1, <2>2, ToldKeeps DEF IfOpen
  <2>3. CASE browser.state # "open"
    BY <1>1, <1>3, <1>4, <1>7, <2>1, <2>3, UntoldKeeps DEF IfOpen
  <2> QED BY <2>2, <2>3
<1>8. CASE stored' = [stored EXCEPT !.fps = n] /\ posting' = IfOpen(<< d >>)
  <2>1. stored' \in Stored /\ stored'.fps = n /\ stored'.media = stored.media /\ stored'.props = stored.props
        /\ stored'.play = stored.play
    BY <1>3, <1>8 DEF Stored
  <2>2. CASE browser.state = "open"
    BY <1>1, <1>3, <1>4, <1>5, <1>8, <2>1, <2>2, ToldKeeps DEF IfOpen
  <2>3. CASE browser.state # "open"
    BY <1>1, <1>3, <1>4, <1>6, <1>8, <2>1, <2>3, UntoldKeeps DEF IfOpen
  <2> QED BY <2>2, <2>3
<1> QED BY <1>2, <1>7, <1>8

LEMMA MediaKeeps == ASSUME WebInv, WebMedia PROVE WebInv'
<1> DEFINE n == settings + 1
           e == Task("media", n)
<1>1. /\ loop \in {"configured", "serving"} /\ posting = << >> /\ settings' = n /\ loop' = loop /\ wake' = wake
      /\ stored' = [stored EXCEPT !.media = n] /\ posting' = << e >>
      /\ UNCHANGED << tasks, browser, page, paint, painted, deaths, painter >>
  BY DEF WebMedia, Commanded, Settled, uiVars
<1>2. LoopLives /\ stored \in Stored /\ wake \in WakeFlags /\ n \in Nat
  BY <1>1 DEF LoopLives, WebInv, WebTypes
<1>3. e \in Tasks /\ e.name = "media" /\ e.value = n
  BY <1>2 DEF Task, Tasks, Numbers
<1>4. stored' \in Stored /\ stored'.media = n /\ stored'.props = stored.props /\ stored'.fps = stored.fps
      /\ stored'.play = stored.play
  BY <1>1, <1>2 DEF Stored
<1> HIDE DEF n, e
<1> QED BY <1>1, <1>2, <1>3, <1>4, ToldKeeps

LEMMA ClosesBrowserKeeps == ASSUME WebInv, Closes PROVE WebInv'
<1> DEFINE e == Task("close", FALSE)
<1>1. /\ loop' = "closing" /\ browser' = [browser EXCEPT !.attached = FALSE] /\ posting' = << e >>
      /\ paint \in {"none", "due"}
      /\ UNCHANGED << stored, tasks, page, paint, painted, wake, painter, settings >>
  BY DEF Closes, MayDetach, Settled, painterVars
<1>2. browser' \in Browsers /\ ~browser'.attached
  BY <1>1 DEF WebInv, WebTypes, Browsers
<1>3. e \in Tasks
  BY DEF Task, Tasks, Switches
<1> HIDE DEF e
<1>4. posting' \in Seq(Tasks)
  BY <1>1, <1>3
<1>5. WebTypes'
  BY <1>1, <1>2, <1>4 DEF WebInv, WebTypes, WebTypeOK
<1> QED BY <1>1, <1>2, <1>5 DEF WebInv, LoopLives, PaintInv

LEMMA FreesKeeps == ASSUME WebInv, Frees PROVE WebInv'
<1>1. /\ loop = "closing" /\ loop' = "gone"
      /\ UNCHANGED << stored, posting, tasks, browser, page, paint, painted, deaths, wake, painter, settings >>
  BY DEF Frees, At, Settled, uiVars, painterVars
<1> QED BY <1>1 DEF WebInv, WebTypes, WebTypeOK, LoopLives, PaintInv

-----------------------------------------------------------------------------
(* The UI thread.                                                           *)

\* A step that changes neither settings nor tasks, but the page, the browser or its paint.
LEMMA PageKeeps ==
  ASSUME WebInv, UNCHANGED << stored, loop, posting, tasks, settings >>,
         page' \in Pages, browser' \in Browsers, wake' \in WakeFlags, painted' \in BOOLEAN, WebTypeOK',
         browser'.attached = browser.attached, PaintInv',
         LoopLives => BrowserInv' /\ PageInv'
  PROVE  WebInv'
<1>1. Queue' = Queue
  BY DEF Queue
<1>2. TasksInv => TasksInv'
  BY <1>1, TasksStay
<1>3. WebTypes'
  BY DEF WebInv, WebTypes
<1> QED BY <1>2, <1>3 DEF WebInv, LoopLives

\* What a task makes of the browser and of the page.
LEMMA TaskDone ==
  ASSUME page \in Pages, browser \in Browsers, NEW t \in Tasks, Does(t)
  PROVE  /\ page' \in Pages /\ browser' \in Browsers /\ browser'.attached = browser.attached
         /\ t.name \notin {"create", "close"} => browser'.state = browser.state
<1>1. /\ t.name \in {"create", "props", "media", "fps"} => t.value \in Nat
      /\ t.name \in {"suspend", "frame", "close"} => t.value \in BOOLEAN
      /\ t.name \in {"create", "suspend", "frame", "props", "media", "fps", "close"}
  BY TaskKinds
<1>2. NoPage \in Pages /\ [NoPage EXCEPT !.doc = "blank"] \in Pages
  BY DEF NoPage, Pages, Docs
<1>3. CASE t.name = "create"
  <2>1. page' = [NoPage EXCEPT !.doc = "blank"] /\ browser' = [browser EXCEPT !.state = "open", !.fps = t.value]
    BY <1>3 DEF Does
  <2> QED BY <1>1, <1>2, <1>3, <2>1 DEF Browsers
<1>4. CASE t.name = "suspend"
  <2>1. page' = Paused(page, t.value) /\ browser' = Suspended(browser, t.value)
    BY <1>4 DEF Does
  <2>2. page' \in Pages
    BY <1>1, <1>4, <2>1 DEF Paused, Pages
  <2> QED BY <1>1, <1>4, <2>1, <2>2 DEF Suspended, Browsers
<1>5. CASE t.name = "frame"
  <2>1. page' = page /\ browser' = IF t.value THEN [browser EXCEPT !.once = TRUE, !.hidden = FALSE, !.frozen = FALSE]
                       ELSE [browser EXCEPT !.once = FALSE]
    BY <1>5 DEF Does
  <2> QED BY <1>1, <1>5, <2>1 DEF Browsers
<1>6. CASE t.name = "props"
  <2>1. browser' = browser /\ page' = IF Scripted(page) THEN [page EXCEPT !.props = t.value] ELSE page
    BY <1>6 DEF Does
  <2> QED BY <1>1, <1>6, <2>1 DEF Pages
<1>7. CASE t.name = "media"
  <2>1. browser' = browser /\ page' = IF Scripted(page) THEN [page EXCEPT !.media = t.value] ELSE page
    BY <1>7 DEF Does
  <2> QED BY <1>1, <1>7, <2>1 DEF Pages
<1>8. CASE t.name = "fps"
  <2>1. page' = page /\ browser' = [browser EXCEPT !.fps = t.value]
    BY <1>8 DEF Does
  <2> QED BY <1>1, <1>8, <2>1 DEF Browsers
<1>9. CASE t.name = "close"
  <2>1. page' = NoPage /\ browser' = [browser EXCEPT !.state = "closed", !.once = FALSE]
    BY <1>9 DEF Does
  <2> QED BY <1>2, <1>9, <2>1 DEF Browsers
<1> QED BY <1>1, <1>3, <1>4, <1>5, <1>6, <1>7, <1>8, <1>9

\* The page and the browser after a task, if the last of its kind.
LEMMA TaskTells ==
  ASSUME page \in Pages, browser \in Browsers, stored \in Stored, browser.state = "open",
         NEW q \in Seq(Tasks), q # << >>, Queue = q, Queue' = Tail(q), TasksInv, PageInv,
         Head(q).name \notin {"create", "close"}, Does(Head(q)), stored' = stored
  PROVE  PageInv'
<1> DEFINE t == Head(q)
           r == Tail(q)
<1>0. t \in Tasks /\ \A N : Lacks(q, N) <=> Lacks(r, N) /\ t.name \notin N
  BY TaskTaken
<1>1. t.name \in {"suspend", "frame", "props", "media", "fps"} /\ page' \in Pages /\ browser' \in Browsers
      /\ browser'.state = "open"
      /\ (t.name \in {"props", "media", "fps"} => t.value \in Nat)
      /\ (t.name \in {"suspend", "frame"} => t.value \in BOOLEAN)
  BY <1>0, TaskKinds, TaskDone
<1>2. /\ t.name = "props" /\ Lacks(r, {"props"}) => t.value = stored.props
      /\ t.name = "media" /\ Lacks(r, {"media"}) => t.value = stored.media
      /\ t.name = "fps" /\ Lacks(r, {"create", "fps"}) => t.value = stored.fps
      /\ t.name \in {"suspend", "frame"} /\ Lacks(r, {"suspend"}) => t.value = Rest
  <2>1. t.name = "props" /\ Lacks(r, {"props"}) => t.value = stored.props
    BY TaskTaken DEF TasksInv
  <2>2. t.name = "media" /\ Lacks(r, {"media"}) => t.value = stored.media
    BY TaskTaken DEF TasksInv
  <2>3. t.name = "fps" /\ Lacks(r, {"create", "fps"}) => t.value = stored.fps
    BY TaskTaken DEF TasksInv
  <2>4. t.name \in {"suspend", "frame"} /\ Lacks(r, {"suspend"}) => t.value = Rest
    BY TaskTaken DEF TasksInv
  <2> QED BY <2>1, <2>2, <2>3, <2>4
<1>3. Queue = q /\ Queue' = r
  OBVIOUS
<1> HIDE DEF t, r
<1> DEFINE Fields ==
             /\ page'.doc = page.doc
             /\ page.doc \notin {"loading", "loaded"} => page'.paused = page.paused
             /\ page'.props = IF t.name = "props" /\ page.doc = "loaded" THEN t.value ELSE page.props
             /\ page'.media = IF t.name = "media" /\ page.doc = "loaded" THEN t.value ELSE page.media
             /\ browser'.fps = IF t.name = "fps" THEN t.value ELSE browser.fps
           Sleeps ==
             Lacks(r, {"suspend"}) =>
               IF stored.play THEN ~browser'.hidden /\ ~browser'.frozen /\ ~browser'.once /\ ~page'.paused
               ELSE page.doc = "loaded" => page'.paused /\ (browser'.once \/ (browser'.hidden /\ browser'.frozen))
<1>4. Fields
  <2>1. CASE t.name = "suspend"
    <3>1. page' = Paused(page, t.value) /\ browser' = Suspended(browser, t.value)
      BY <2>1 DEF Does, t
    <3>2. page'.doc = page.doc /\ page'.props = page.props /\ page'.media = page.media
          /\ (page.doc \notin {"loading", "loaded"} => page'.paused = page.paused)
      BY <1>1, <3>1 DEF Paused, Pages
    <3>3. browser'.fps = browser.fps
      BY <1>1, <3>1 DEF Suspended, Browsers
    <3> QED BY <2>1, <3>2, <3>3
  <2>2. CASE t.name = "frame"
    <3>1. page' = page /\ browser' = IF t.value THEN [browser EXCEPT !.once = TRUE, !.hidden = FALSE, !.frozen = FALSE]
                         ELSE [browser EXCEPT !.once = FALSE]
      BY <2>2 DEF Does, t
    <3>2. browser'.fps = browser.fps
      BY <1>1, <3>1 DEF Browsers
    <3> QED BY <2>2, <3>1, <3>2
  <2>3. CASE t.name = "props"
    <3>1. browser' = browser /\ page' = IF Scripted(page) THEN [page EXCEPT !.props = t.value] ELSE page
      BY <2>3 DEF Does, t
    <3> QED BY <1>1, <2>3, <3>1 DEF Pages, Scripted
  <2>4. CASE t.name = "media"
    <3>1. browser' = browser /\ page' = IF Scripted(page) THEN [page EXCEPT !.media = t.value] ELSE page
      BY <2>4 DEF Does, t
    <3> QED BY <1>1, <2>4, <3>1 DEF Pages, Scripted
  <2>5. CASE t.name = "fps"
    <3>1. page' = page /\ browser' = [browser EXCEPT !.fps = t.value]
      BY <2>5 DEF Does, t
    <3> QED BY <1>1, <2>5, <3>1 DEF Browsers
  <2> QED BY <1>1, <2>1, <2>2, <2>3, <2>4, <2>5
<1>5. Sleeps
  <2>1. CASE t.name = "suspend"
    <3>1. page' = Paused(page, t.value) /\ browser' = Suspended(browser, t.value)
      BY <2>1 DEF Does, t
    <3>2. page.doc \in {"loading", "loaded"} => page'.paused = t.value
      BY <3>1 DEF Paused, Pages
    <3>3. page.doc \notin {"loading", "loaded"} => page'.paused = page.paused
      BY <3>1 DEF Paused, Pages
    <3>4. browser'.hidden = t.value /\ browser'.frozen = t.value /\ browser'.once = FALSE
      BY <3>1 DEF Suspended, Browsers
    <3>5. stored.play \in BOOLEAN
      BY DEF Stored
    <3>6. page.doc \notin {"loading", "loaded"} => ~page.paused
      BY DEF PageInv
    <3> QED BY <1>1, <1>2, <2>1, <3>2, <3>3, <3>4, <3>5, <3>6 DEF Rest
  <2>2. CASE t.name = "frame"
    <3>1. page' = page /\ browser' = IF t.value THEN [browser EXCEPT !.once = TRUE, !.hidden = FALSE, !.frozen = FALSE]
                         ELSE [browser EXCEPT !.once = FALSE]
      BY <2>2 DEF Does, t
    <3>2. t.value => browser'.once
      BY <3>1 DEF Browsers
    <3>3. ~t.value => browser'.once = FALSE /\ browser'.hidden = browser.hidden /\ browser'.frozen = browser.frozen
      BY <3>1 DEF Browsers
    <3>4. Lacks(r, {"suspend"}) => Lacks(q, {"suspend"})
      BY <1>0, <2>2
    <3> QED BY <1>1, <1>2, <1>3, <2>2, <3>1, <3>2, <3>3, <3>4 DEF PageInv, Rest, Stored
  <2>3. CASE t.name \in {"props", "media", "fps"}
    <3>1. Lacks(r, {"suspend"}) => Lacks(q, {"suspend"})
      BY <1>0, <2>3
    <3>2. page'.paused = page.paused
      <4>1. \/ page' = page \/ page' = [page EXCEPT !.props = t.value] \/ page' = [page EXCEPT !.media = t.value]
        BY <2>3 DEF Does, t
      <4> QED BY <4>1 DEF Pages
    <3>3. browser'.hidden = browser.hidden /\ browser'.frozen = browser.frozen /\ browser'.once = browser.once
      <4>1. \/ browser' = browser \/ browser' = [browser EXCEPT !.fps = t.value]
        BY <2>3 DEF Does, t
      <4> QED BY <4>1 DEF Browsers
    <3> QED BY <1>3, <3>1, <3>2, <3>3 DEF PageInv
  <2> QED BY <1>1, <2>1, <2>2, <2>3
<1> HIDE DEF Sleeps
<1>6. /\ page'.doc = "loaded" /\ Lacks(r, {"props"}) => page'.props = stored.props
      /\ page'.doc = "loaded" /\ Lacks(r, {"media"}) => page'.media = stored.media
      /\ Lacks(r, {"create", "fps"}) => browser'.fps = stored.fps
  <2>1. page'.doc = "loaded" /\ Lacks(r, {"props"}) => page'.props = stored.props
    BY <1>0, <1>2, <1>3, <1>4 DEF PageInv
  <2>2. page'.doc = "loaded" /\ Lacks(r, {"media"}) => page'.media = stored.media
    BY <1>0, <1>2, <1>3, <1>4 DEF PageInv
  <2>3. Lacks(r, {"create", "fps"}) => browser'.fps = stored.fps
    <3>1. CASE t.name = "fps"
      BY <1>2, <1>4, <3>1
    <3>2. CASE t.name # "fps"
      <4>1. Lacks(r, {"create", "fps"}) => Lacks(q, {"create", "fps"})
        BY <1>0, <1>1, <3>2
      <4> QED BY <1>3, <1>4, <3>2, <4>1 DEF PageInv
    <3> QED BY <3>1, <3>2
  <2> QED BY <2>1, <2>2, <2>3
<1>7. page'.doc = page.doc /\ (page'.doc \notin {"loading", "loaded"} => ~page'.paused)
  BY <1>4 DEF PageInv
<1> QED BY <1>1, <1>3, <1>5, <1>6, <1>7 DEF PageInv, Sleeps

LEMMA RunsTaskKeeps == ASSUME WebInv, RunsTask PROVE WebInv'
<1> DEFINE t == Head(tasks)
           q == Queue
           r == Tail(q)
<1>1. /\ paint \in {"none", "due"} /\ tasks # << >> /\ tasks' = Tail(tasks)
      /\ UNCHANGED << stored, loop, posting, painted, wake, painter, settings >>
  BY DEF RunsTask, UiFree, Settled, painterVars
<1>2. WebTypes /\ PaintInv /\ tasks \in Seq(Tasks) /\ posting \in Seq(Tasks)
      /\ page \in Pages /\ browser \in Browsers /\ stored \in Stored
  BY DEF WebInv, WebTypes
<1>3. t \in Tasks /\ tasks' \in Seq(Tasks) /\ q \in Seq(Tasks) /\ q # << >> /\ Head(q) = t /\ Queue' = r
  <2>1. t \in Tasks /\ tasks' \in Seq(Tasks)
    BY <1>1, <1>2
  <2>2. q \in Seq(Tasks) /\ Len(q) > 0 /\ Head(q) = t
    BY <1>1, <1>2 DEF Queue
  <2>3. Queue' = Tail(tasks \o posting)
    BY <1>1, <1>2 DEF Queue
  <2> QED BY <2>1, <2>2, <2>3 DEF Queue
<1>4. Does(t) \/ ((browser.state # "open" /\ t.name # "create") /\ UNCHANGED << browser, page >>)
  BY DEF RunsTask
<1>5. page' \in Pages /\ browser' \in Browsers /\ browser'.attached = browser.attached
  BY <1>2, <1>3, <1>4, TaskDone
<1>6. paint' = (IF browser'.state = "closed" THEN "none" ELSE paint) /\ paint' \in {"none", "due"}
  <2>1. paint' = IF browser'.state = "closed" THEN "none" ELSE paint
    BY DEF RunsTask
  <2> QED BY <1>1, <2>1
<1>7. WebTypes'
  <2>1. WebTypeOK'
    BY <1>1, <1>2, <1>5, <1>6 DEF WebTypes, WebTypeOK, Pages, Docs
  <2> QED BY <1>1, <1>2, <1>3, <1>5, <2>1 DEF WebTypes
<1>8. PaintInv'
  BY <1>1, <1>2, <1>5, <1>6 DEF PaintInv
<1>9. ASSUME LoopLives PROVE BrowserInv' /\ TasksInv' /\ PageInv'
  <2>0. BrowserInv /\ TasksInv /\ PageInv
    BY <1>9 DEF WebInv
  <2>1. \A N : Lacks(q, N) <=> Lacks(r, N) /\ t.name \notin N
    BY <1>3, TaskTaken
  <2>2. TasksInv'
    <3>1. Rest' = Rest
      BY <1>1 DEF Rest
    <3>2. LastTells(r, {"props"}, {"props"}, stored.props)
      BY <1>3, <2>0, TaskTaken DEF TasksInv
    <3>3. LastTells(r, {"media"}, {"media"}, stored.media)
      BY <1>3, <2>0, TaskTaken DEF TasksInv
    <3>4. LastTells(r, {"create", "fps"}, {"create", "fps"}, stored.fps)
      BY <1>3, <2>0, TaskTaken DEF TasksInv
    <3>5. LastTells(r, {"suspend", "frame"}, {"suspend"}, Rest)
      BY <1>3, <2>0, TaskTaken DEF TasksInv
    <3> HIDE DEF r
    <3> QED BY <1>1, <1>3, <3>1, <3>2, <3>3, <3>4, <3>5 DEF TasksInv
  <2>3. One(r) /\ (t.name = "create" => Lacks(r, {"create"})) /\ t.name # "close" /\ Lacks(r, {"close"})
    BY <1>3, <2>0, <2>1, OneTaken DEF BrowserInv
  <2>4. t.name = "create" => browser.state = "none" /\ loop \notin {"configured", "prepared", "serving", "pump", "joining", "quiet"}
    BY <1>2, <2>0, <2>1 DEF BrowserInv, Browsers
  <2>5. CASE t.name = "create"
    <3>1. Does(t)
      BY <1>4, <2>5
    <3>2. page' = [NoPage EXCEPT !.doc = "blank"] /\ browser' = [browser EXCEPT !.state = "open", !.fps = t.value]
      BY <2>5, <3>1 DEF Does
    <3>3. page'.doc = "blank" /\ page'.paused = FALSE
      BY <3>2 DEF NoPage
    <3>4. browser'.state = "open" /\ browser'.fps = t.value /\ browser'.hidden = browser.hidden
          /\ browser'.frozen = browser.frozen /\ browser'.once = browser.once
      BY <1>2, <3>2 DEF Browsers
    <3>5. ~browser.hidden /\ ~browser.frozen /\ ~browser.once
      BY <2>0, <2>4, <2>5 DEF BrowserInv
    <3>6. Lacks(r, {"create", "fps"}) => t.value = stored.fps
      BY <1>3, <2>0, <2>5, TaskTaken DEF TasksInv
    <3>7. PageInv'
      BY <1>1, <1>3, <3>3, <3>4, <3>5, <3>6 DEF PageInv
    <3>8. BrowserInv'
      <4>1. browser'.attached
        BY <1>5, <2>0 DEF BrowserInv
      <4> HIDE DEF r, q, t
      <4> QED BY <1>1, <1>3, <2>3, <2>4, <2>5, <3>4, <4>1 DEF BrowserInv
    <3> QED BY <2>2, <3>7, <3>8
  <2>6. CASE t.name # "create" /\ browser.state = "open"
    <3>1. Does(t)
      BY <1>4, <2>6
    <3>2. PageInv'
      <4> DEFINE u == q
      <4>1. u \in Seq(Tasks) /\ u # << >> /\ Queue = u /\ Queue' = Tail(u) /\ Head(u).name \notin {"create", "close"}
            /\ Does(Head(u))
        BY <1>3, <2>3, <2>6, <3>1
      <4> HIDE DEF u
      <4> QED BY <1>1, <1>2, <2>0, <2>6, <4>1, TaskTells
    <3>3. browser'.state = "open"
      BY <1>2, <1>3, <2>3, <2>6, <3>1, TaskDone
    <3>4. BrowserInv'
      <4>1. browser'.attached /\ Lacks(r, {"create"}) /\ loop # "configured"
        BY <1>5, <2>0, <2>1, <2>6 DEF BrowserInv
      <4> HIDE DEF r, q, t
      <4> QED BY <1>1, <1>3, <2>3, <3>3, <4>1 DEF BrowserInv
    <3> QED BY <2>2, <3>2, <3>4
  <2>7. CASE t.name # "create" /\ browser.state # "open"
    <3>1. UNCHANGED << browser, page >>
      BY <1>4, <2>7 DEF RunsTask
    <3>2. browser.state = "none" /\ page = NoPage
      BY <1>2, <2>0, <2>7 DEF BrowserInv, Browsers
    <3>3. page.doc = "none" /\ ~page.paused
      BY <3>2 DEF NoPage
    <3>4. PageInv'
      BY <2>7, <3>1, <3>3 DEF PageInv
    <3>5. BrowserInv'
      <4> HIDE DEF r, q, t
      <4>1. Lacks(r, {"props", "fps"}) /\ (loop = "configured" => Lacks(r, {"create"}))
        BY <2>0, <2>1, <2>7, <3>2 DEF BrowserInv, q
      <4> QED BY <1>1, <1>3, <2>0, <2>3, <3>1, <3>2, <4>1 DEF BrowserInv
    <3> QED BY <2>2, <3>4, <3>5
  <2> QED BY <2>5, <2>6, <2>7
<1> QED BY <1>1, <1>7, <1>8, <1>9 DEF WebInv, LoopLives

LEMMA CommitsKeeps == ASSUME WebInv, Commits PROVE WebInv'
<1>1. /\ page.doc \in {"blank", "dead"} /\ page' = [NoPage EXCEPT !.doc = "loading"]
      /\ UNCHANGED << stored, loop, posting, tasks, paint, painted, wake, painter, settings >>
  BY DEF Commits, Settled, painterVars
<1>2. PICK f \in {browser.frozen, FALSE} : browser' = [browser EXCEPT !.frozen = f]
  BY DEF Commits
<1>3. WebTypes /\ PaintInv /\ browser \in Browsers
  BY DEF WebInv, WebTypes
<1>4. page' \in Pages /\ page'.doc = "loading" /\ ~page'.paused
  BY <1>1 DEF NoPage, Pages, Docs
<1>5. /\ browser' \in Browsers /\ browser'.attached = browser.attached /\ browser'.state = browser.state
      /\ browser'.hidden = browser.hidden /\ browser'.once = browser.once /\ browser'.fps = browser.fps
      /\ (browser'.frozen => browser.frozen)
  BY <1>2, <1>3 DEF Browsers
<1>6. WebTypeOK' /\ PaintInv'
  BY <1>1, <1>3, <1>4, <1>5 DEF WebTypes, WebTypeOK, PaintInv
<1>7. Queue' = Queue
  BY <1>1 DEF Queue
<1>8. ASSUME LoopLives PROVE BrowserInv' /\ PageInv'
  <2>1. BrowserInv /\ PageInv
    BY <1>8 DEF WebInv
  <2>2. browser.state = "open"
    <3>1. page # NoPage
      BY <1>1 DEF NoPage
    <3> QED BY <1>3, <2>1, <3>1 DEF BrowserInv, Browsers
  <2>3. BrowserInv'
    BY <1>1, <1>5, <1>7, <2>1, <2>2 DEF BrowserInv
  <2>4. PageInv'
    BY <1>1, <1>4, <1>5, <1>7, <2>1, <2>2 DEF PageInv
  <2> QED BY <2>3, <2>4
<1> QED BY <1>1, <1>3, <1>4, <1>5, <1>6, <1>8, PageKeeps DEF WebTypes

\* A page that has loaded is told what is stored.
LEMMA PageLoadsKeeps == ASSUME WebInv, PageLoads PROVE WebInv'
<1> DEFINE p == [page EXCEPT !.doc = "loaded"]
<1>1. /\ page.doc = "loading"
      /\ UNCHANGED << stored, loop, posting, tasks, paint, painted, wake, painter, settings >>
  BY DEF PageLoads, Settled, painterVars
<1>2. WebTypes /\ PaintInv /\ browser \in Browsers /\ page \in Pages /\ stored \in Stored
  BY DEF WebInv, WebTypes
<1>3. /\ p \in Pages /\ p.doc = "loaded" /\ p.paused = page.paused
  BY <1>2 DEF Pages, Docs
<1> HIDE DEF p
<1>4. /\ PageState(p) \in Pages /\ PageState(p).doc = "loaded" /\ PageState(p).props = stored.props
      /\ PageState(p).media = stored.media /\ PageState(p).paused = (p.paused \/ ~stored.play)
  BY <1>2, <1>3 DEF PageState, Pages, Stored
<1>5. /\ Suspended(browser, TRUE) \in Browsers /\ Suspended(browser, TRUE).state = browser.state
      /\ Suspended(browser, TRUE).attached = browser.attached /\ Suspended(browser, TRUE).fps = browser.fps
      /\ Suspended(browser, TRUE).hidden /\ Suspended(browser, TRUE).frozen /\ ~Suspended(browser, TRUE).once
  BY <1>2 DEF Suspended, Browsers
<1>6. /\ browser.attached => page' = PageState(p)
      /\ ~browser.attached => page' = p
      /\ browser' = browser \/ (browser' = Suspended(browser, TRUE) /\ ~stored.play)
      /\ browser.attached /\ ~stored.play => browser' = Suspended(browser, TRUE)
  BY DEF PageLoads, p
<1>7. /\ page' \in Pages /\ page'.doc = "loaded" /\ browser' \in Browsers
      /\ browser'.attached = browser.attached /\ browser'.state = browser.state /\ browser'.fps = browser.fps
  BY <1>2, <1>3, <1>4, <1>5, <1>6
<1>8. WebTypeOK' /\ PaintInv'
  BY <1>1, <1>2, <1>7 DEF WebTypes, WebTypeOK, PaintInv
<1>9. Queue' = Queue
  BY <1>1 DEF Queue
<1>10. ASSUME LoopLives PROVE BrowserInv' /\ PageInv'
  <2>1. BrowserInv /\ PageInv /\ browser.attached
    BY <1>10 DEF WebInv, BrowserInv
  <2>2. browser.state = "open"
    <3>1. page # NoPage
      BY <1>1 DEF NoPage
    <3> QED BY <1>2, <2>1, <3>1 DEF BrowserInv, Browsers
  <2>3. BrowserInv'
    BY <1>1, <1>7, <1>9, <2>1, <2>2 DEF BrowserInv
  <2>4. page' = PageState(p) /\ page'.props = stored.props /\ page'.media = stored.media
        /\ page'.paused = (page.paused \/ ~stored.play)
    BY <1>3, <1>4, <1>6, <2>1
  <2>5. CASE stored.play
    <3>1. browser' = browser /\ page'.paused = page.paused
      BY <1>2, <1>6, <2>4, <2>5 DEF Pages
    <3> QED BY <1>1, <1>7, <1>9, <2>1, <2>3, <2>4, <2>5, <3>1 DEF PageInv
  <2>6. CASE ~stored.play
    <3>1. browser'.hidden /\ browser'.frozen /\ page'.paused
      BY <1>5, <1>6, <2>1, <2>4, <2>6
    <3> QED BY <1>1, <1>7, <1>9, <2>1, <2>3, <2>4, <2>6, <3>1 DEF PageInv
  <2> QED BY <2>5, <2>6
<1> QED BY <1>1, <1>2, <1>7, <1>8, <1>10, PageKeeps DEF WebTypes

LEMMA PageDiesKeeps == ASSUME WebInv, PageDies PROVE WebInv'
<1>1. /\ page.doc \in {"loading", "loaded"} /\ page' = [NoPage EXCEPT !.doc = "dead"]
      /\ UNCHANGED << stored, loop, posting, tasks, browser, paint, painted, wake, painter, settings >>
  BY DEF PageDies, Settled, painterVars
<1>2. WebTypes /\ PaintInv /\ browser \in Browsers
  BY DEF WebInv, WebTypes
<1>3. page' \in Pages /\ page'.doc = "dead" /\ ~page'.paused
  BY <1>1 DEF NoPage, Pages, Docs
<1>4. WebTypeOK' /\ PaintInv'
  BY <1>1, <1>2, <1>3 DEF WebTypes, WebTypeOK, PaintInv
<1>5. Queue' = Queue
  BY <1>1 DEF Queue
<1>6. ASSUME LoopLives PROVE BrowserInv' /\ PageInv'
  <2>1. BrowserInv /\ PageInv
    BY <1>6 DEF WebInv
  <2>2. browser.state = "open"
    <3>1. page # NoPage
      BY <1>1 DEF NoPage
    <3> QED BY <1>2, <2>1, <3>1 DEF BrowserInv, Browsers
  <2>3. BrowserInv'
    BY <1>1, <1>5, <2>1, <2>2 DEF BrowserInv
  <2>4. PageInv'
    BY <1>1, <1>3, <1>5, <2>1 DEF PageInv
  <2> QED BY <2>3, <2>4
<1> QED BY <1>1, <1>2, <1>3, <1>4, <1>6, PageKeeps DEF WebTypes

\* A browser that goes back to rest after the one paint it was woken for.
LEMMA RestoredKeeps ==
  ASSUME WebTypes, BrowserInv /\ PageInv,
         UNCHANGED << stored, loop, posting, tasks, page >>, browser' = browser \/ browser' = Restored(browser)
  PROVE  BrowserInv' /\ PageInv'
<1>1. Queue' = Queue
  BY DEF Queue
<1>2. CASE browser' = browser
  BY <1>1, <1>2 DEF BrowserInv, PageInv
<1>3. CASE browser' = Restored(browser) /\ browser.once
  <2>1. /\ browser'.hidden /\ browser'.frozen /\ ~browser'.once /\ browser'.state = browser.state
        /\ browser'.attached = browser.attached /\ browser'.fps = browser.fps
    BY <1>3 DEF Restored, WebTypes, Browsers
  <2>2. BrowserInv'
    BY <1>1, <1>3, <2>1 DEF BrowserInv
  <2>3. PageInv'
    BY <1>1, <1>3, <2>1 DEF PageInv
  <2> QED BY <2>2, <2>3
<1>4. CASE browser' = Restored(browser) /\ ~browser.once
  BY <1>2, <1>4 DEF Restored
<1> QED BY <1>2, <1>3, <1>4

LEMMA RestoredBrowser ==
  ASSUME browser \in Browsers
  PROVE  Restored(browser) \in Browsers /\ Restored(browser).attached = browser.attached
BY DEF Restored, Browsers

LEMMA PaintsKeeps ==
  ASSUME WebInv, Draws \/ BrowserPaints \/ PassesGate \/ Notifies PROVE WebInv'
<1>1. /\ UNCHANGED << stored, loop, posting, tasks, page, painter, settings >>
      /\ browser' = browser \/ browser' = Restored(browser)
  BY DEF Draws, BrowserPaints, PassesGate, Notifies, Settled, painterVars
<1>2. WebTypes /\ PaintInv /\ browser \in Browsers /\ wake \in WakeFlags
  BY DEF WebInv, WebTypes
<1>3. browser' \in Browsers /\ browser'.attached = browser.attached
  BY <1>1, <1>2, RestoredBrowser
<1>4. /\ wake' = wake \/ (wake' \in WakeFlags /\ wake'.event)
      /\ wake' \in WakeFlags
      /\ painted' = painted \/ (painted' = TRUE /\ paint' = "notify")
      /\ paint = "notify" => wake'.event \/ paint' = "notify"
      /\ paint' \in {"none", "due", "gate", "notify"}
      /\ paint' \in {"gate", "notify"} => browser.attached \/ paint \in {"gate", "notify"}
  <2>1. CASE Draws
    BY <1>2, <2>1 DEF Draws, Settled, painterVars
  <2>2. CASE BrowserPaints
    BY <1>2, <2>2 DEF BrowserPaints, Settled, painterVars
  <2>3. CASE PassesGate
    BY <1>2, <2>3 DEF PassesGate, Settled, painterVars
  <2>4. CASE Notifies
    <3>1. wake' = [wake EXCEPT !.event = TRUE] /\ paint' = "none" /\ painted' = painted
      BY <2>4 DEF Notifies, Settled
    <3>2. wake' \in WakeFlags /\ wake'.event
      BY <1>2, <3>1 DEF WakeFlags
    <3> QED BY <3>1, <3>2
  <2> QED BY <2>1, <2>2, <2>3, <2>4
<1>5. WebTypeOK' /\ painted' \in BOOLEAN
  BY <1>1, <1>2, <1>4 DEF WebTypes, WebTypeOK
<1>6. PaintInv'
  BY <1>1, <1>2, <1>3, <1>4 DEF PaintInv
<1>7. LoopLives => BrowserInv' /\ PageInv'
  BY <1>1, <1>2, RestoredKeeps DEF WebInv
<1> QED BY <1>1, <1>2, <1>3, <1>4, <1>5, <1>6, <1>7, PageKeeps DEF WebTypes

-----------------------------------------------------------------------------
(* The frame thread.                                                        *)

LEMMA ThreadKeeps == ASSUME WebInv, ThreadWaits \/ ThreadTakes PROVE WebInv'
<1>1. UNCHANGED << stored, loop, posting, tasks, browser, page, paint, settings >>
  BY DEF ThreadWaits, ThreadTakes, Settled, uiVars
<1>2. WebTypes /\ PaintInv /\ wake \in WakeFlags
  BY DEF WebInv, WebTypes
<1>3. CASE ThreadWaits
  <2>1. \/ wake.stop /\ painter' = "done" /\ wake' = wake
        \/ painter' = "next" /\ wake' = [wake EXCEPT !.event = FALSE]
    BY <1>3 DEF ThreadWaits
  <2>2. painted' = painted
    BY <1>3 DEF ThreadWaits, Settled, uiVars
  <2>3. wake' \in WakeFlags
    BY <1>2, <2>1 DEF WakeFlags
  <2>4. WebTypeOK' /\ PaintInv'
    BY <1>1, <1>2, <2>1, <2>2 DEF WebTypes, WebTypeOK, PaintInv
  <2>5. LoopLives => BrowserInv' /\ PageInv'
    BY <1>1 DEF WebInv, BrowserInv, PageInv, Queue
  <2> QED BY <1>1, <1>2, <2>2, <2>3, <2>4, <2>5, PageKeeps DEF WebTypes
<1>4. CASE ThreadTakes
  <2>1. painter' = "wait" /\ painted' = FALSE /\ wake' = wake
    BY <1>4 DEF ThreadTakes, Settled
  <2>2. WebTypeOK' /\ PaintInv'
    BY <1>1, <1>2, <2>1 DEF WebTypes, WebTypeOK, PaintInv
  <2>3. LoopLives => BrowserInv' /\ PageInv'
    BY <1>1 DEF WebInv, BrowserInv, PageInv, Queue
  <2> QED BY <1>1, <1>2, <2>1, <2>2, <2>3, PageKeeps DEF WebTypes
<1> QED BY <1>3, <1>4

LEMMA WebInvStep == ASSUME WebInv, WebNext PROVE WebInv'
<1>1. CASE PostsTask \/ CreatesBrowser \/ BrowserCreated \/ BrowserFails \/ Negotiates
  BY <1>1, PostsTaskKeeps, CreatesKeeps, CreatedKeeps, FailsKeeps, NegotiatesKeeps
<1>2. ASSUME NEW play \in BOOLEAN, WebPlayback(play) PROVE WebInv'
  BY <1>2, PlaybackKeeps
<1>3. CASE TellsPump \/ WebRuntime \/ WebMedia \/ StopsThread
  BY <1>3, TellsPumpKeeps, RuntimeKeeps, MediaKeeps, StopsKeeps
<1>4. CASE ThreadJoined \/ Closes \/ Frees
  BY <1>4, JoinedKeeps, ClosesBrowserKeeps, FreesKeeps
<1>5. CASE RunsTask \/ Commits \/ PageLoads \/ PageDies
  BY <1>5, RunsTaskKeeps, CommitsKeeps, PageLoadsKeeps, PageDiesKeeps
<1>6. CASE Draws \/ BrowserPaints \/ PassesGate \/ Notifies
  BY <1>6, PaintsKeeps
<1>7. CASE ThreadWaits \/ ThreadTakes
  BY <1>7, ThreadKeeps
<1> QED BY <1>1, <1>2, <1>3, <1>4, <1>5, <1>6, <1>7 DEF WebNext

-----------------------------------------------------------------------------
(* The parts together.                                                      *)

\* What a part has stays when the part stands still.
LEMMA GnomeStays == ASSUME GnomeInv, UNCHANGED gnomeVars PROVE GnomeInv'
<1>1. UNCHANGED << wedged, daemonSide, toOutput, importVars, reads, fate, replies >>
  BY DEF gnomeVars
<1>2. /\ UNCHANGED << wedged, session, accepted, bindings, lastGen, toOutput, known, configured, imageSets, leaked,
                      reads, fate, replies >>
  BY <1>1 DEF daemonSide, importVars
<1>3. Generations' = Generations /\ Base' = Base /\ Done' = Done
  BY <1>2 DEF Generations, Base, Done
<1>4. Owned' = Owned
  BY <1>2, <1>3 DEF Owned
<1>5. \A n, last : Newer(n, last)' <=> Newer(n, last)
  BY <1>2, <1>3 DEF Newer
<1>6. OrderedEvents(toOutput, lastGen)'
  BY <1>2, <1>3, <1>5 DEF GnomeInv, OrderedEvents
<1>7. SessionInv'
  BY <1>2, <1>3 DEF GnomeInv, SessionInv
<1>8. ImagesHaveOwners' /\ CopiesHaveImages'
  BY <1>2, <1>3 DEF GnomeInv, OwnersInv, ImagesHaveOwners, CopiesHaveImages
<1>9. OwnersInv'
  BY <1>2, <1>3, <1>4, <1>8 DEF GnomeInv, OwnersInv
<1> QED BY <1>6, <1>7, <1>9 DEF GnomeInv

LEMMA WebStays == ASSUME WebInv, UNCHANGED webVars PROVE WebInv'
<1>1. UNCHANGED << stored, loop, posting, tasks, browser, page, paint, painted, wake, painter, settings >>
  BY DEF webVars
<1>2. Queue' = Queue /\ (LoopLives' <=> LoopLives) /\ (Rest' <=> Rest)
  BY <1>1 DEF Queue, LoopLives, Rest
<1>3. WebTypes' /\ PaintInv'
  BY <1>1 DEF WebInv, WebTypes, WebTypeOK, PaintInv
<1>4. BrowserInv => BrowserInv'
  BY <1>1, <1>2 DEF BrowserInv
<1>5. TasksInv => TasksInv'
  BY <1>1, <1>2, Zenon DEF TasksInv, Rest
<1>6. PageInv => PageInv'
  BY <1>1, <1>2 DEF PageInv
<1> QED BY <1>2, <1>3, <1>4, <1>5, <1>6 DEF WebInv

LEMMA SurfaceStays == ASSUME SurfaceInv, UNCHANGED surfaceVars PROVE SurfaceInv'
BY DEF SurfaceInv, surfaceVars

LEMMA OutputsStay == ASSUME OutputsInv, UNCHANGED outputsVars PROVE OutputsInv'
<1>1. UNCHANGED << slots, plugs, turns, transport, transports, hearing, requests, accepts, daemonHas, pointer,
                   unsent, untold, muddled >>
  BY DEF outputsVars, lapses
<1>2. \A s \in DOMAIN slots : /\ Told(slots, s)' <=> Told(slots, s)
                              /\ Answered(slots, s)' <=> Answered(slots, s)
                              /\ Enlisted(slots, s)' <=> Enlisted(slots, s)
  BY <1>1 DEF Told, Answered, Enlisted
<1>3. LinkTypes'
  BY <1>1 DEF OutputsInv, LinkTypes
<1>4. LinkedSlots(slots)' <=> LinkedSlots(slots)
  BY <1>1, <1>2 DEF LinkedSlots
<1>5. OrderlySlots(slots)' <=> OrderlySlots(slots)
  BY <1>1, <1>2 DEF OrderlySlots
<1>6. OutputsLinked(slots)'
  BY <1>1, <1>4, <1>5 DEF OutputsInv, OutputsLinked, OffSlots
<1>7. PointerFits(slots)'
  BY <1>1 DEF OutputsInv, PointerFits
<1> QED BY <1>1, <1>3, <1>6, <1>7 DEF OutputsInv

\* A step of the parts is one of a part, or none.
LEMMA StepOfPart ==
  [PartsNext]_partVars =>
    /\ [RingNext]_allRing /\ [KdeNext]_kdeVars /\ [HelperNext]_helperVars
    /\ [GnomeNext]_gnomeVars /\ [SurfaceNext]_surfaceVars /\ [OutputsNext]_outputsVars
    /\ [VideoNext]_videoVars /\ [WebNext]_webVars /\ [SceneNext]_sceneVars
<1>1. CASE UNCHANGED partVars
  BY <1>1, Zenon DEF partVars
<1>2. CASE PartsNext
  <2>1. CASE Step("ring", RingNext)
    BY <2>1, Zenon DEF Step, Still
  <2>2. CASE Step("kde", KdeNext)
    BY <2>2, Zenon DEF Step, Still
  <2>3. CASE Step("helper", HelperNext)
    BY <2>3, Zenon DEF Step, Still
  <2>4. CASE Step("gnome", GnomeNext)
    BY <2>4, Zenon DEF Step, Still
  <2>5. CASE Step("surface", SurfaceNext)
    BY <2>5, Zenon DEF Step, Still
  <2>6. CASE Step("outputs", OutputsNext)
    BY <2>6, Zenon DEF Step, Still
  <2>7. CASE Step("video", VideoNext)
    BY <2>7, Zenon DEF Step, Still
  <2>8. CASE Step("web", WebNext)
    BY <2>8, Zenon DEF Step, Still
  <2>9. CASE Step("scene", SceneNext)
    BY <2>9, Zenon DEF Step, Still
  <2> QED BY <1>2, <2>1, <2>2, <2>3, <2>4, <2>5, <2>6, <2>7, <2>8, <2>9, Zenon DEF PartsNext
<1> QED BY <1>1, <1>2

(* In the KDE consumer and the shadow copies no image is reused or          *)
(* destroyed while it is read or written, every frame is given back once    *)
(* and no import is kept that nobody holds (drainPendingGenerationResources *)
(* and takeFinalGpuCleanup of vivid_display.cpp, acquire_ring_slot and      *)
(* ww_vk_blitter_ensure_shadow of vivid_kde_vulkan_blit.c).                 *)
THEOREM ImagesKept == PartsSafety => []ImagesAreKept
<1>1. PartsInit => RingInv /\ KdeInv
  BY RingInvInit, KdeInitInv DEF PartsInit
<1>2. RingInv /\ KdeInv /\ [PartsNext]_partVars => RingInv' /\ KdeInv'
  BY StepOfPart, RingInvStep, KdeInvStep
<1>3. RingInv /\ KdeInv => ImagesAreKept
  BY RingInvShows, KdeInvShows DEF ImagesAreKept
<1> QED BY <1>1, <1>2, <1>3, PTL DEF PartsSafety

(* In the GNOME consumer one helper at a time speaks for the Shell, and an *)
(* output keeps the images it shows or copies from, however processes, bus *)
(* calls and events of the daemon interleave (_spawn of displayHelper.js,  *)
(* _queueFrame and showFrame of display-helper.js, remove_generation of    *)
(* vivid_display_consumer_buffer_paintable.c).                             *)
THEOREM GnomeKept == PartsSafety => []GnomeAgrees
<1>1. PartsInit => HelperInv /\ GnomeInv
  BY HelperInitInv, GnomeInitInv DEF PartsInit
<1>2. HelperInv /\ GnomeInv /\ [PartsNext]_partVars => HelperInv' /\ GnomeInv'
  BY StepOfPart, HelperInvStep, GnomeInvStep, GnomeStays
<1>3. HelperInv /\ GnomeInv => GnomeAgrees
  BY HelperInvShows, GnomeInvShows DEF GnomeAgrees
<1> QED BY <1>1, <1>2, <1>3, PTL DEF PartsSafety

(* The layer-shell consumer settles each frame once and draws from buffers *)
(* it is bound to, and knows the same outputs as the daemon, each with the *)
(* id of its own monitor, over any number of connections, closed surfaces  *)
(* and sends that fail: but for the outputs a failing loop marked, changes *)
(* before an answer, and answers due to numbers that move or are shared    *)
(* (vivid_wayland_producer.c and renumber_outputs of vivid_wayland_app.c). *)
THEOREM LayerShellKept == PartsSafety => []LayerShellAgrees
<1>1. PartsInit => SurfaceInv /\ OutputsInv
  BY SurfaceInitInv, OutputsInitInv DEF PartsInit
<1>2. SurfaceInv /\ OutputsInv /\ [PartsNext]_partVars => SurfaceInv' /\ OutputsInv'
  BY StepOfPart, SurfaceInvStep, SurfaceStays, OutputsInvStep, OutputsStay
<1>3. SurfaceInv /\ OutputsInv => LayerShellAgrees
  BY SurfaceInvShows, OutputsInvShows DEF LayerShellAgrees
<1> QED BY <1>1, <1>2, <1>3, PTL DEF PartsSafety

(* The page, the browser and the painter of the web renderer follow the    *)
(* last settings of the daemon across crashes of the page, and no callback *)
(* reaches a renderer that is gone (vivid_web_producer.cpp).               *)
THEOREM WebKept == PartsSafety => []WebObeys
<1>1. PartsInit => WebInv
  BY WebInitInv DEF PartsInit
<1>2. WebInv /\ [PartsNext]_partVars => WebInv'
  BY StepOfPart, WebInvStep, WebStays
<1>3. WebInv => WebObeys
  BY WebInvShows
<1> QED BY <1>1, <1>2, <1>3, PTL DEF PartsSafety

(* The video player and the scene worker play, pause, mute and show as the *)
(* daemon asks, over errors, ends of the stream and reloads: but for a     *)
(* volume asked for before the audio stream is found (apply_audio_state    *)
(* and demux_pad_added of vivid_video_producer.cpp), until the next one.   *)
THEOREM NativeWorkersKept == PartsSafety => []NativeWorkersObey
<1>1. PartsInit => VideoInv /\ SceneInv
  BY VideoInvInit, SceneInvInit DEF PartsInit
<1>2. VideoInv /\ SceneInv /\ [PartsNext]_partVars => VideoInv' /\ SceneInv'
  BY StepOfPart, VideoInvStep, SceneInvStep
<1>3. VideoInv /\ SceneInv => NativeWorkersObey
  BY VideoInvShows, SceneInvShows DEF NativeWorkersObey
<1> QED BY <1>1, <1>2, <1>3, PTL DEF PartsSafety
=============================================================================
