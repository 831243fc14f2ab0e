--------------------------- MODULE Releases_proofs ---------------------------
(***************************************************************************)
(* Frames come back.  A buffer is written again only when its consumers    *)
(* are done with it, and a coordinator that stops leaves no point behind,  *)
(* for any number of outputs, buffers and frames.  The timeline of a       *)
(* worker never passes a frame that a consumer uses, and nothing is kept   *)
(* back, for any number of workers, frames and faults.                     *)
(***************************************************************************)
EXTENDS ReleaseLedger, WorkerTimeline, FiniteSetTheorems, TLAPS

-----------------------------------------------------------------------------
(* The ledger of a route and its reaper.                                   *)

Records == [frame : Frames, screen : Screens, at : {"queued"}]
Reapings == [frame : Frames, screen : Screens, at : {"wait", "stop", "count", "report"}]

LedgerTypes ==
  /\ linked \subseteq Screens
  /\ bufferOf \in Seq(Buffers) /\ Len(bufferOf) <= MaxFrames
  /\ sending \in [frame : 0 .. MaxFrames, left : SUBSET Screens]
  /\ sending = Idle \/ (sending.frame = Len(bufferOf) /\ sending.frame >= 1 /\ sending.left # {})
  /\ expected \in [Frames -> Nat] /\ completed \in [Frames -> Nat]
  /\ queue \in Seq(Records \cup {Shutdown})
  /\ reaping \in Reapings \cup {NoRecord}
  /\ released \subseteq Frames \X Screens /\ reading \subseteq Frames \X Screens
  /\ forced \subseteq reading /\ reported \subseteq Frames
  /\ stopping \in BOOLEAN /\ running \in BOOLEAN

\* The record of the frame f for the output s waits in the queue.
Queued(f, s) == \E i \in 1 .. Len(queue) : queue[i].frame = f /\ queue[i].screen = s
Unsent(f, s) == sending.frame = f /\ s \in sending.left
Reaped(f, s) == reaping.frame = f /\ reaping.screen = s
Pending(f, s) == Unsent(f, s) \/ Queued(f, s) \/ (Reaped(f, s) /\ reaping.at # "report")

\* Outputs whose release of the frame f is still to be counted.
Outstanding(f) == {s \in Screens : Pending(f, s)}

\* An output is unsent, or in the queue, or with the reaper, and in one place only.
Apart ==
  /\ \A i, j \in 1 .. Len(queue) : queue[i] = queue[j] => i = j
  /\ \A i \in 1 .. Len(queue) : ~Unsent(queue[i].frame, queue[i].screen)
  /\ \A i \in 1 .. Len(queue) : ~Reaped(queue[i].frame, queue[i].screen)
  /\ ~Unsent(reaping.frame, reaping.screen)

\* A group counts what is outstanding; at nought its point has been reported, or
\* is about to be.
Counted ==
  /\ \A f \in Frames : expected[f] = completed[f] + Cardinality(Outstanding(f))
  /\ \A f \in Frames : Outstanding(f) = {} =>
       f > Len(bufferOf) \/ f \in reported \/ (reaping.frame = f /\ reaping.at = "report")
  /\ \A f \in reported : f <= Len(bufferOf) /\ Outstanding(f) = {}
  /\ \A f \in Frames : reaping.frame = f /\ reaping.at = "report" => Outstanding(f) = {}
  /\ \A f \in Frames : f > Len(bufferOf) => Outstanding(f) = {} /\ expected[f] = 0 /\ reaping.frame # f

\* A frame that is read and was not given up on is one the reaper still waits for.
Guarded ==
  /\ \A r \in reading \ forced :
       Queued(r[1], r[2]) \/ (Reaped(r[1], r[2]) /\ reaping.at \in {"wait", "stop"})
  /\ \A r \in reading \cup released : r[1] <= Len(bufferOf) /\ ~Unsent(r[1], r[2])
  /\ reading \cap released = {}

\* The shutdown record is the last one.
Closing ==
  /\ stopping => sending = Idle
  /\ \A i \in 1 .. Len(queue) : queue[i] = Shutdown => stopping /\ i = Len(queue)
  /\ stopping /\ running => Len(queue) > 0 /\ queue[Len(queue)] = Shutdown
  /\ ~running => stopping /\ queue = << >> /\ reaping = NoRecord

LedgerInv == LedgerTypes /\ Apart /\ Counted /\ Guarded /\ Closing

-----------------------------------------------------------------------------
(* The queue and the sets.                                                 *)

LEMMA Positive == \A f \in Frames : f >= 1 /\ f \in Nat /\ f # 0
BY LedgerAssumption DEF Frames

LEMMA Popped ==
  ASSUME LedgerTypes, queue # << >>
  PROVE  /\ Tail(queue) \in Seq(Records \cup {Shutdown}) /\ Len(Tail(queue)) = Len(queue) - 1
         /\ Head(queue) = queue[1] /\ Head(queue) \in Records \cup {Shutdown}
         /\ \A i \in 1 .. Len(Tail(queue)) : Tail(queue)[i] = queue[i + 1]
BY DEF LedgerTypes

LEMMA Pushed ==
  ASSUME LedgerTypes, NEW m \in Records \cup {Shutdown}
  PROVE  LET q == Append(queue, m) IN
         /\ q \in Seq(Records \cup {Shutdown}) /\ Len(q) = Len(queue) + 1 /\ q[Len(queue) + 1] = m
         /\ \A i \in 1 .. Len(queue) : q[i] = queue[i]
BY DEF LedgerTypes

LEMMA OutstandingFinite ==
  \A f : IsFiniteSet(Outstanding(f)) /\ Cardinality(Outstanding(f)) \in Nat
         /\ (Cardinality(Outstanding(f)) = 0 <=> Outstanding(f) = {})
<1> TAKE f
<1>1. Outstanding(f) \in SUBSET Screens
  BY DEF Outstanding
<1>2. IsFiniteSet(Outstanding(f))
  BY <1>1, LedgerAssumption, FS_Subset
<1> QED BY <1>2, FS_CardinalityType, FS_EmptySet

\* A count of an outstanding output: the group counts one more, and it was the last
\* one exactly if none is left.
LEMMA OneLess ==
  ASSUME LedgerTypes, Counted, NEW f \in Frames, NEW s \in Outstanding(f), Completes(f)
  PROVE  /\ completed' = [completed EXCEPT ![f] = @ + 1]
         /\ Cardinality(Outstanding(f) \ {s}) = Cardinality(Outstanding(f)) - 1
         /\ LastOf(f) <=> Outstanding(f) \ {s} = {}
<1>1. /\ IsFiniteSet(Outstanding(f)) /\ Cardinality(Outstanding(f)) \in Nat
      /\ Cardinality(Outstanding(f)) # 0
  BY OutstandingFinite
<1>2. /\ IsFiniteSet(Outstanding(f) \ {s})
      /\ Cardinality(Outstanding(f) \ {s}) = Cardinality(Outstanding(f)) - 1
  BY <1>1, FS_RemoveElement
<1>3. Cardinality(Outstanding(f) \ {s}) = 0 <=> Outstanding(f) \ {s} = {}
  BY <1>2, FS_EmptySet
<1>4. expected[f] = completed[f] + Cardinality(Outstanding(f)) /\ expected[f] \in Nat /\ completed[f] \in Nat
  BY DEF LedgerTypes, Counted
<1>5. completed[f] < expected[f]
  BY <1>1, <1>4
<1> QED BY <1>1, <1>2, <1>3, <1>4, <1>5 DEF Completes, LastOf

-----------------------------------------------------------------------------
(* Types.                                                                  *)

LEMMA LedgerInitInv == LedgerInit => LedgerInv
<1> SUFFICES ASSUME LedgerInit PROVE LedgerInv
  OBVIOUS
<1> USE LedgerAssumption
<1>1. LedgerTypes
  <2>1. Idle \in [frame : 0 .. MaxFrames, left : SUBSET Screens]
    BY DEF Idle
  <2>2. << >> \in Seq(Buffers) /\ Len(<< >>) = 0 /\ << >> \in Seq(Records \cup {Shutdown})
    OBVIOUS
  <2>3. linked \subseteq Screens
    BY DEF LedgerInit
  <2>4. expected \in [Frames -> Nat] /\ completed \in [Frames -> Nat]
    BY DEF LedgerInit
  <2>5. bufferOf \in Seq(Buffers) /\ Len(bufferOf) <= MaxFrames /\ queue \in Seq(Records \cup {Shutdown})
    BY <2>2 DEF LedgerInit
  <2> QED BY <2>1, <2>3, <2>4, <2>5 DEF LedgerInit, LedgerTypes
<1>2. \A f \in Frames : Outstanding(f) = {}
  BY Positive DEF LedgerInit, Outstanding, Pending, Unsent, Queued, Reaped, Idle, NoRecord
<1>3. Apart
  BY DEF LedgerInit, Apart, Unsent, Idle, NoRecord
<1>4. Counted
  <2>1. Cardinality({}) = 0 /\ Len(<< >>) = 0
    BY FS_EmptySet
  <2>2. \A f \in Frames : expected[f] = 0 /\ completed[f] = 0 /\ f > Len(bufferOf) /\ reaping.frame # f
    BY <2>1, Positive DEF LedgerInit, NoRecord
  <2>3. \A f \in Frames : expected[f] = completed[f] + Cardinality(Outstanding(f))
    <3> TAKE f \in Frames
    <3>1. Outstanding(f) = {}
      BY <1>2
    <3>2. Cardinality(Outstanding(f)) = 0
      BY <2>1, <3>1
    <3> QED BY <2>2, <3>2
  <2>4. reported = {}
    BY DEF LedgerInit
  <2> QED BY <1>2, <2>2, <2>3, <2>4 DEF Counted
<1>5. Guarded /\ Closing
  BY DEF LedgerInit, Guarded, Closing
<1> QED BY <1>1, <1>3, <1>4, <1>5 DEF LedgerInv

LEMMA LedgerTypesStep == LedgerTypes /\ [LedgerNext]_ledgerVars => LedgerTypes'
<1> SUFFICES ASSUME LedgerTypes, [LedgerNext]_ledgerVars PROVE LedgerTypes'
  OBVIOUS
<1> USE LedgerAssumption DEF mainVars, reaperVars
<1>1. ASSUME NEW b \in Buffers, LedgerTakes(b) PROVE LedgerTypes'
  <2>1. Append(bufferOf, b) \in Seq(Buffers) /\ Len(Append(bufferOf, b)) = Len(bufferOf) + 1
    BY DEF LedgerTypes
  <2>2. /\ Len(bufferOf) + 1 \in Frames /\ Len(bufferOf) + 1 <= MaxFrames /\ Len(bufferOf) + 1 >= 1
        /\ Cardinality(linked) \in Nat /\ linked # {}
    BY <1>1, FS_Subset, FS_CardinalityType DEF LedgerTakes, Frames, LedgerTypes
  <2>3. sending' = Idle \/ (sending'.frame = Len(bufferOf') /\ sending'.frame >= 1 /\ sending'.left # {})
    BY <1>1, <2>1, <2>2 DEF LedgerTakes
  <2>4. expected' \in [Frames -> Nat] /\ reported' \subseteq Frames
        /\ sending' \in [frame : 0 .. MaxFrames, left : SUBSET Screens]
    <3>1. expected' = expected \/ expected' = [expected EXCEPT ![Len(bufferOf) + 1] = Cardinality(linked)]
      BY <1>1 DEF LedgerTakes
    <3>2. expected' \in [Frames -> Nat]
      BY <2>2, <3>1 DEF LedgerTypes
    <3>3. reported' = reported \/ reported' = reported \cup {Len(bufferOf) + 1}
      BY <1>1 DEF LedgerTakes
    <3>4. sending' = sending \/ sending' = [frame |-> Len(bufferOf) + 1, left |-> linked]
      BY <1>1 DEF LedgerTakes
    <3>5. Len(bufferOf) + 1 \in 0 .. MaxFrames
      BY <2>2 DEF LedgerTypes
    <3> QED BY <2>2, <3>2, <3>3, <3>4, <3>5 DEF LedgerTypes
  <2> QED BY <1>1, <2>1, <2>2, <2>3, <2>4 DEF LedgerTakes, LedgerTypes
<1>2. ASSUME NEW s \in Screens, s \in sending.left, GoesTo(s)
      PROVE  /\ sending.frame \in Frames
             /\ sending' \in [frame : 0 .. MaxFrames, left : SUBSET Screens]
             /\ sending' = Idle \/ (sending'.frame = Len(bufferOf) /\ sending'.frame >= 1 /\ sending'.left # {})
  BY <1>2 DEF LedgerTypes, GoesTo, Idle, Frames
<1>3. ASSUME NEW f \in Frames, Completes(f) PROVE completed' \in [Frames -> Nat]
  BY <1>3 DEF Completes, LedgerTypes
<1>4. ASSUME NEW s \in Screens, Send(s) PROVE LedgerTypes'
  <2>1. Record(sending.frame, s) \in Records \cup {Shutdown} /\ << sending.frame, s >> \in Frames \X Screens
    BY <1>2, <1>4 DEF Send, Record, Records
  <2>2. queue' \in Seq(Records \cup {Shutdown})
    BY <1>4, <2>1, Pushed DEF Send
  <2> QED BY <1>2, <1>4, <2>1, <2>2 DEF Send, LedgerTypes
<1>5. ASSUME NEW s \in Screens, SendFails(s) PROVE LedgerTypes'
  BY <1>2, <1>3, <1>5 DEF SendFails, LedgerTypes
<1>6. ASSUME NEW s \in Screens, ScreenLeaves(s) PROVE LedgerTypes'
  BY <1>6 DEF ScreenLeaves, LedgerTypes
<1>7. CASE Stop
  <2>1. queue' \in Seq(Records \cup {Shutdown})
    BY <1>7, Pushed DEF Stop
  <2> QED BY <1>7, <2>1 DEF Stop, LedgerTypes
<1>8. CASE Pop
  <2>1. [Head(queue) EXCEPT !.at = IF stopping THEN "stop" ELSE "wait"] \in Reapings
        \/ Head(queue) = Shutdown
    BY <1>8, Popped DEF Pop, Records, Reapings
  <2> QED BY <1>8, <2>1, Popped DEF Pop, LedgerTypes
<1>9. CASE Observe
  <2>1. reaping \in Reapings /\ reaping' = [reaping EXCEPT !.at = "count"]
    BY <1>9 DEF Observe, LedgerTypes, NoRecord
  <2>2. reaping' \in Reapings
    BY <2>1 DEF Reapings
  <2> QED BY <1>9, <2>2 DEF Observe, LedgerTypes
<1>10. CASE GivesUp
  <2>1. reaping \in Reapings /\ reaping' = [reaping EXCEPT !.at = "count"]
    BY <1>10 DEF GivesUp, LedgerTypes, NoRecord
  <2>2. reaping' \in Reapings
    BY <2>1 DEF Reapings
  <2> QED BY <1>10, <2>2 DEF GivesUp, LedgerTypes
<1>11. ASSUME reaping.at \in {"count", "report"} PROVE reaping.frame \in Frames /\ reaping \in Reapings
  BY <1>11 DEF LedgerTypes, Reapings, NoRecord
<1>12. CASE Count
  <2>1. completed' \in [Frames -> Nat]
    BY <1>3, <1>11, <1>12 DEF Count
  <2>2. [reaping EXCEPT !.at = "report"] \in Reapings
    BY <1>11, <1>12 DEF Count, Reapings
  <2> QED BY <1>12, <2>1, <2>2 DEF Count, LedgerTypes
<1>13. CASE Report
  BY <1>11, <1>13 DEF Report, LedgerTypes
<1>14. ASSUME NEW s \in Screens, NEW f \in Frames, Release(f, s) PROVE LedgerTypes'
  BY <1>14 DEF Release, LedgerTypes
<1>15. ASSUME NEW s \in Screens, Die(s) PROVE LedgerTypes'
  BY <1>15 DEF Die, LedgerTypes
<1>16. CASE UNCHANGED ledgerVars
  BY <1>16 DEF ledgerVars, LedgerTypes
<1> QED BY <1>1, <1>4, <1>5, <1>6, <1>7, <1>8, <1>9, <1>10, <1>12, <1>13, <1>14, <1>15, <1>16
        DEF LedgerNext, MainStep, ReaperStep, Consumer

-----------------------------------------------------------------------------
(* The main loop's steps.                                                  *)

LEMMA TakesKeeps ==
  ASSUME LedgerInv, NEW b \in Buffers, LedgerTakes(b)
  PROVE  (Apart /\ Counted /\ Guarded /\ Closing)'
<1> PICK g : g = Len(bufferOf) + 1
  OBVIOUS
<1>0. UNCHANGED << completed, queue, released, reading, forced, reaping, stopping, running >>
  BY DEF LedgerTakes, reaperVars
<1>1. g \in Frames /\ Len(bufferOf') = g /\ Len(bufferOf) \in Nat /\ sending = Idle
  BY DEF LedgerInv, LedgerTypes, LedgerTakes
<1>2. /\ Outstanding(g) = {} /\ expected[g] = 0 /\ reaping.frame # g /\ g \notin reported /\ completed[g] = 0
      /\ \A s \in Screens : ~Queued(g, s)
  <2>1. Outstanding(g) = {} /\ expected[g] = 0 /\ reaping.frame # g /\ g \notin reported
    BY <1>0, <1>1 DEF LedgerInv, Counted
  <2>2. completed[g] = 0
    BY <1>1, <2>1, OutstandingFinite DEF LedgerInv, Counted, LedgerTypes
  <2> QED BY <2>1, <2>2 DEF Outstanding, Pending
<1>3. ASSUME NEW f \in Frames, f # g PROVE Outstanding(f)' = Outstanding(f)
  <2>1. \A t : ~Unsent(f, t) /\ ~Unsent(f, t)'
    BY <1>1, <1>3, Positive DEF LedgerTakes, Unsent, Idle
  <2>2. \A t : (Queued(f, t)' <=> Queued(f, t)) /\ (Reaped(f, t)' <=> Reaped(f, t)) /\ reaping' = reaping
    BY <1>0 DEF Queued, Reaped
  <2> QED BY <2>1, <2>2 DEF Outstanding, Pending
<1>4. CASE sending' = [frame |-> g, left |-> linked] /\ expected' = [expected EXCEPT ![g] = Cardinality(linked)]
           /\ UNCHANGED reported
  <2>1. Outstanding(g)' = linked
    BY <1>0, <1>1, <1>2, <1>4 DEF Outstanding, Pending, Unsent, Queued, Reaped, LedgerInv, LedgerTypes
  <2>2. Cardinality(linked) \in Nat /\ linked # {}
    BY FS_Subset, FS_CardinalityType, LedgerAssumption DEF LedgerTakes, LedgerInv, LedgerTypes
  <2>3. Apart'
    <3>1. \A i \in 1 .. Len(queue) : queue[i].frame # g
      <4>1. \A i \in 1 .. Len(queue) : queue[i] \in Records \cup {Shutdown}
        BY DEF LedgerInv, LedgerTypes
      <4> QED BY <1>1, <1>2, <4>1, Positive DEF Queued, Records, Shutdown
    <3> QED BY <1>0, <1>2, <1>4, <3>1 DEF LedgerInv, Apart, Unsent, Reaped
  <2>4. Counted'
    <3>1. \A f \in Frames : expected'[f] = completed'[f] + Cardinality(Outstanding(f)')
      BY <1>0, <1>1, <1>2, <1>3, <1>4, <2>1, <2>2 DEF LedgerInv, LedgerTypes, Counted
    <3>2. \A f \in Frames : expected'[f] = expected[f] \/ f = g
      BY <1>0, <1>4 DEF LedgerInv, LedgerTypes
    <3>3. \A f \in Frames : f # g => (Outstanding(f)' = {} <=> Outstanding(f) = {})
      BY <1>3
    <3>4. \A f \in Frames : f > g => f # g /\ f > Len(bufferOf)
      BY <1>1, Positive
    <3>5. \A f \in Frames : f # g /\ f > Len(bufferOf) => f > g
      BY <1>1, Positive
    <3>6. \A f \in reported : f \in Frames /\ f # g /\ f <= g
      BY <1>1, <1>2, Positive DEF LedgerInv, LedgerTypes, Counted
    <3> QED BY <1>0, <1>1, <1>2, <1>4, <2>1, <2>2, <3>1, <3>2, <3>3, <3>4, <3>5, <3>6 DEF LedgerInv, Counted
  <2>5. Guarded'
    <3>1. \A r \in reading \cup released : r[1] \in Nat /\ r[1] <= Len(bufferOf) /\ r[1] # g
      BY <1>1, Positive DEF LedgerInv, LedgerTypes, Guarded
    <3>2. \A r \in reading \cup released : r[1] <= Len(bufferOf') /\ ~Unsent(r[1], r[2])'
      BY <1>1, <1>4, <3>1 DEF Unsent
    <3>3. \A f, t : (Queued(f, t)' <=> Queued(f, t)) /\ (Reaped(f, t)' <=> Reaped(f, t))
      BY <1>0 DEF Queued, Reaped
    <3> QED BY <1>0, <3>2, <3>3 DEF LedgerInv, Guarded
  <2>6. Closing'
    BY <1>0, <1>4 DEF LedgerTakes, LedgerInv, Closing
  <2> QED BY <2>3, <2>4, <2>5, <2>6
<1>5. CASE reported' = reported \cup {g} /\ UNCHANGED << sending, expected >>
  <2>1. Outstanding(g)' = {}
    BY <1>0, <1>2, <1>5 DEF Outstanding, Pending, Unsent, Queued, Reaped
  <2>2. Apart'
    BY <1>0, <1>5 DEF LedgerInv, Apart, Unsent, Reaped
  <2>3. Counted'
    <3>1. \A f \in Frames : f # g => Outstanding(f)' = Outstanding(f)
      BY <1>3
    <3>2. \A f \in Frames : f # g => (f > g <=> f > Len(bufferOf))
      BY <1>1, Positive
    <3>3. \A f \in reported : f \in Frames /\ f # g /\ f <= g
      BY <1>1, <1>2, Positive DEF LedgerInv, LedgerTypes, Counted
    <3>4. expected'[g] = completed'[g] + Cardinality(Outstanding(g)')
      <4>1. Cardinality(Outstanding(g)') = 0
        BY <2>1, FS_EmptySet
      <4> QED BY <1>0, <1>2, <1>5, <4>1
    <3>5. g <= Len(bufferOf') /\ ~(g > Len(bufferOf'))
      BY <1>1
    <3> QED BY <1>0, <1>1, <1>2, <1>5, <2>1, <3>1, <3>2, <3>3, <3>4, <3>5 DEF LedgerInv, Counted
  <2>4. Guarded' /\ Closing'
    <3>1. \A r \in reading \cup released : r[1] <= Len(bufferOf')
      BY <1>1, Positive DEF LedgerInv, LedgerTypes, Guarded
    <3>2. \A f, t : (Queued(f, t)' <=> Queued(f, t)) /\ (Reaped(f, t)' <=> Reaped(f, t)) /\ (Unsent(f, t)' <=> Unsent(f, t))
      BY <1>0, <1>5 DEF Queued, Reaped, Unsent
    <3> QED BY <1>0, <1>5, <3>1, <3>2 DEF LedgerInv, Guarded, Closing
  <2> QED BY <2>2, <2>3, <2>4
<1> QED BY <1>4, <1>5 DEF LedgerTakes

LEMMA SendKeeps ==
  ASSUME LedgerInv, NEW s \in Screens, Send(s)
  PROVE  (Apart /\ Counted /\ Guarded /\ Closing)'
<1> PICK g : g = sending.frame
  OBVIOUS
<1>1. g \in Frames /\ g = Len(bufferOf) /\ sending # Idle /\ s \in sending.left
  BY DEF LedgerInv, LedgerTypes, Send, Idle, Frames
<1>2. Record(g, s) \in Records
  BY <1>1 DEF Record, Records
<1>3. /\ Len(queue') = Len(queue) + 1 /\ queue'[Len(queue) + 1] = Record(g, s) /\ Len(queue) \in Nat
      /\ \A i \in 1 .. Len(queue) : queue'[i] = queue[i]
  BY <1>2, Pushed DEF Send, LedgerInv, LedgerTypes
<1>4. \A f \in Frames, t \in Screens : Unsent(f, t)' <=> Unsent(f, t) /\ t # s
  BY <1>1, Positive DEF Send, GoesTo, Unsent, Idle, LedgerInv, LedgerTypes
<1>5. ASSUME NEW f, NEW t PROVE Queued(f, t)' <=> Queued(f, t) \/ (f = g /\ t = s)
  <2>1. Queued(f, t) => Queued(f, t)'
    BY <1>3 DEF Queued
  <2>2. f = g /\ t = s => Queued(f, t)'
    BY <1>3 DEF Queued, Record
  <2>3. Queued(f, t)' => Queued(f, t) \/ (f = g /\ t = s)
    BY <1>3 DEF Queued, Record
  <2> QED BY <2>1, <2>2, <2>3
<1>6. \A f, t : Reaped(f, t)' <=> Reaped(f, t)
  BY DEF Send, Reaped, reaperVars
<1>7. \A f \in Frames : Outstanding(f)' = Outstanding(f)
  BY <1>1, <1>4, <1>5, <1>6 DEF Outstanding, Pending, Unsent, Send, reaperVars
<1>8. \A i \in 1 .. Len(queue') : i \in 1 .. Len(queue) \/ i = Len(queue) + 1
  BY <1>3
<1>9. Unsent(g, s) /\ ~Queued(g, s) /\ ~Reaped(g, s)
  BY <1>1, Positive DEF LedgerInv, Apart, Unsent, Queued, Reaped, Records, Shutdown
<1>10. Apart'
  <2>1. \A i, j \in 1 .. Len(queue') : queue'[i] = queue'[j] => i = j
    <3>1. \A i \in 1 .. Len(queue) : queue[i] # Record(g, s)
      BY <1>9 DEF Queued, Record
    <3> QED BY <1>3, <1>8, <3>1 DEF LedgerInv, Apart
  <2>2. \A f, t : Unsent(f, t)' => Unsent(f, t) /\ ~(f = g /\ t = s)
    BY <1>1, Positive DEF Send, GoesTo, Unsent, Idle, LedgerInv, LedgerTypes
  <2>3. (\A i \in 1 .. Len(queue) : ~Unsent(queue[i].frame, queue[i].screen))'
    BY <1>3, <1>8, <2>2 DEF LedgerInv, Apart, Record
  <2>4. (\A i \in 1 .. Len(queue) : ~Reaped(queue[i].frame, queue[i].screen))'
    BY <1>3, <1>8, <1>6, <1>9 DEF LedgerInv, Apart, Record
  <2>5. (~Unsent(reaping.frame, reaping.screen))'
    BY <2>2 DEF LedgerInv, Apart, Send, reaperVars
  <2> QED BY <2>1, <2>3, <2>4, <2>5 DEF Apart
<1>11. Counted'
  BY <1>7 DEF Send, reaperVars, LedgerInv, LedgerTypes, Counted
<1>12. Guarded'
  <2>1. \A r \in reading' \ forced' : r \in reading \ forced \/ r = << g, s >>
    BY DEF Send
  <2>2. \A r \in reading \ forced : r[1] \in Frames /\ r[2] \in Screens
    BY DEF LedgerInv, LedgerTypes
  <2>3. \A r \in reading' \ forced' :
          Queued(r[1], r[2])' \/ (Reaped(r[1], r[2])' /\ reaping' .at \in {"wait", "stop"})
    BY <1>5, <1>6, <2>1, <2>2 DEF LedgerInv, Guarded, Send, reaperVars
  <2>4. << g, s >> \notin reading \cup released
    BY <1>9 DEF LedgerInv, Guarded
  <2>5. \A r \in reading' \cup released' : r[1] <= Len(bufferOf') /\ ~Unsent(r[1], r[2])'
    <3>1. \A r \in reading' \cup released' : r \in reading \cup released \/ r = << g, s >>
      BY DEF Send
    <3>2. \A r \in reading' \cup released' : r[1] \in Frames /\ r[2] \in Screens
      BY <1>1, <3>1 DEF LedgerInv, LedgerTypes
    <3> QED BY <1>1, <1>4, <3>1, <3>2, Positive DEF Send, LedgerInv, Guarded
  <2>6. reading' \cap released' = {}
    BY <2>4 DEF Send, LedgerInv, Guarded
  <2> QED BY <2>3, <2>5, <2>6 DEF Guarded
<1>13. Closing'
  <2>1. ~stopping
    BY <1>1 DEF LedgerInv, Closing
  <2>2. running
    BY <2>1 DEF LedgerInv, Closing
  <2>3. Record(g, s) # Shutdown
    BY <1>1, Positive DEF Record, Shutdown
  <2> QED BY <1>3, <1>8, <2>1, <2>2, <2>3 DEF Send, reaperVars, LedgerInv, Closing
<1> QED BY <1>10, <1>11, <1>12, <1>13

\* What a count of an outstanding output changes in the groups.
LEMMA CountOne ==
  ASSUME LedgerInv, NEW g \in Frames, NEW s \in Outstanding(g), Completes(g), UNCHANGED << expected, bufferOf >>,
         Outstanding(g)' = Outstanding(g) \ {s},
         \A f \in Frames \ {g} : Outstanding(f)' = Outstanding(f),
         \A f \in Frames : reaping'.frame = f => reaping.frame = f \/ f = g
  PROVE  /\ \A f \in Frames : expected'[f] = completed'[f] + Cardinality(Outstanding(f)')
         /\ \A f \in Frames : f > Len(bufferOf') => Outstanding(f)' = {} /\ expected'[f] = 0 /\ reaping'.frame # f
         /\ g <= Len(bufferOf) /\ g \notin reported
         /\ LastOf(g) <=> Outstanding(g)' = {}
<1>1. LedgerTypes /\ Counted
  BY DEF LedgerInv
<1>2. /\ completed' = [completed EXCEPT ![g] = @ + 1]
      /\ Cardinality(Outstanding(g) \ {s}) = Cardinality(Outstanding(g)) - 1
      /\ LastOf(g) <=> Outstanding(g) \ {s} = {}
  BY <1>1, OneLess
<1>3. Cardinality(Outstanding(g)) \in Nat
  BY OutstandingFinite
<1>4. g <= Len(bufferOf) /\ g \notin reported
  BY <1>1, Positive DEF Counted, LedgerTypes
<1>5. ASSUME NEW f \in Frames PROVE expected'[f] = completed'[f] + Cardinality(Outstanding(f)')
  <2>1. CASE f = g
    <3>1. expected[g] = completed[g] + Cardinality(Outstanding(g)) /\ completed[g] \in Nat
      BY <1>1 DEF Counted, LedgerTypes
    <3>2. completed'[g] = completed[g] + 1
      BY <1>1, <1>2 DEF LedgerTypes
    <3>3. Cardinality(Outstanding(g)') = Cardinality(Outstanding(g)) - 1
      BY <1>2
    <3>4. expected'[g] = completed'[g] + Cardinality(Outstanding(g)')
      BY <1>3, <3>1, <3>2, <3>3
    <3> QED BY <2>1, <3>4
  <2>2. CASE f # g
    BY <1>1, <1>2, <2>2 DEF Counted, LedgerTypes
  <2> QED BY <2>1, <2>2
<1>6. ASSUME NEW f \in Frames, f > Len(bufferOf)
      PROVE Outstanding(f)' = {} /\ expected'[f] = 0 /\ reaping'.frame # f
  BY <1>1, <1>4, <1>6, Positive DEF Counted, LedgerTypes
<1> QED BY <1>2, <1>4, <1>5, <1>6

LEMMA SendFailsKeeps ==
  ASSUME LedgerInv, NEW s \in Screens, SendFails(s)
  PROVE  (Apart /\ Counted /\ Guarded /\ Closing)'
<1> PICK g : g = sending.frame
  OBVIOUS
<1>1. g \in Frames /\ g = Len(bufferOf) /\ sending # Idle /\ s \in sending.left
  BY DEF LedgerInv, LedgerTypes, SendFails, Idle, Frames
<1>2. \A f, t : Unsent(f, t)' => Unsent(f, t) /\ ~(f = g /\ t = s)
  BY <1>1, Positive DEF SendFails, GoesTo, Unsent, Idle, LedgerInv, LedgerTypes
<1>3. \A f \in Frames, t \in Screens : Unsent(f, t)' <=> Unsent(f, t) /\ t # s
  BY <1>1, Positive DEF SendFails, GoesTo, Unsent, Idle, LedgerInv, LedgerTypes
<1>4. \A f, t : (Queued(f, t)' <=> Queued(f, t)) /\ (Reaped(f, t)' <=> Reaped(f, t))
  BY DEF SendFails, Queued, Reaped, reaperVars
<1>5. Unsent(g, s) /\ ~Queued(g, s) /\ ~Reaped(g, s)
  BY <1>1, Positive DEF LedgerInv, Apart, Unsent, Queued, Reaped
<1>6. s \in Outstanding(g)
  BY <1>5 DEF Outstanding, Pending
<1>7. Outstanding(g)' = Outstanding(g) \ {s}
  BY <1>1, <1>3, <1>4, <1>5 DEF Outstanding, Pending, SendFails, reaperVars
<1>8. \A f \in Frames \ {g} : Outstanding(f)' = Outstanding(f)
  BY <1>3, <1>4 DEF Outstanding, Pending, SendFails, reaperVars, Unsent
<1>9. Completes(g) /\ UNCHANGED << expected, bufferOf, reaping, queue, stopping, running, reading, released, forced >>
      /\ reported' = IF LastOf(g) THEN reported \cup {g} ELSE reported
  BY DEF SendFails, reaperVars
<1>10. /\ \A f \in Frames : expected'[f] = completed'[f] + Cardinality(Outstanding(f)')
       /\ \A f \in Frames : f > Len(bufferOf') => Outstanding(f)' = {} /\ expected'[f] = 0 /\ reaping'.frame # f
       /\ g <= Len(bufferOf) /\ g \notin reported
       /\ LastOf(g) <=> Outstanding(g)' = {}
  BY <1>1, <1>6, <1>7, <1>8, <1>9, CountOne
<1>11. Counted'
  BY <1>1, <1>7, <1>8, <1>9, <1>10 DEF LedgerInv, LedgerTypes, Counted
<1>12. Apart'
  BY <1>2, <1>4, <1>9 DEF LedgerInv, Apart
<1>13. Guarded'
  BY <1>2, <1>4, <1>9 DEF LedgerInv, Guarded
<1>14. Closing'
  BY <1>1, <1>9 DEF LedgerInv, Closing
<1> QED BY <1>11, <1>12, <1>13, <1>14

LEMMA LeavesKeeps ==
  ASSUME LedgerInv, NEW s \in Screens, ScreenLeaves(s)
  PROVE  (Apart /\ Counted /\ Guarded /\ Closing)'
<1>1. UNCHANGED << bufferOf, sending, expected, completed, queue, released, reading, forced, reported, reaping, stopping, running >>
  BY DEF ScreenLeaves, reaperVars
<1>2. \A f : Outstanding(f)' = Outstanding(f)
  BY <1>1 DEF Outstanding, Pending, Unsent, Queued, Reaped
<1> QED BY <1>1, <1>2 DEF LedgerInv, Apart, Counted, Guarded, Closing, Unsent, Queued, Reaped

LEMMA StopKeeps ==
  ASSUME LedgerInv, Stop
  PROVE  (Apart /\ Counted /\ Guarded /\ Closing)'
<1>1. /\ Len(queue') = Len(queue) + 1 /\ queue'[Len(queue) + 1] = Shutdown /\ Len(queue) \in Nat
      /\ \A i \in 1 .. Len(queue) : queue'[i] = queue[i]
  BY Pushed DEF Stop, LedgerInv, LedgerTypes
<1>2. \A i \in 1 .. Len(queue') : i \in 1 .. Len(queue) \/ i = Len(queue) + 1
  BY <1>1
<1>3. UNCHANGED << bufferOf, sending, expected, completed, released, reading, forced, reported, reaping, running >>
      /\ sending = Idle /\ ~stopping /\ stopping'
  BY DEF Stop, mainVars
<1>4. \A f \in Frames : \A t : Queued(f, t)' <=> Queued(f, t)
  BY <1>1, <1>2, Positive DEF Queued, Shutdown
<1>5. \A f \in Frames : Outstanding(f)' = Outstanding(f)
  BY <1>3, <1>4 DEF Outstanding, Pending, Unsent, Reaped
<1>6. \A i \in 1 .. Len(queue) : queue[i] # Shutdown
  BY <1>3 DEF LedgerInv, Closing
<1>7. Apart'
  <2>1. \A i, j \in 1 .. Len(queue') : queue'[i] = queue'[j] => i = j
    BY <1>1, <1>2, <1>6 DEF LedgerInv, Apart
  <2>2. \A f, t : ~Unsent(f, t)'
    BY <1>3 DEF Unsent, Idle
  <2>3. ~Reaped(Shutdown.frame, Shutdown.screen)
    BY Positive DEF Reaped, Shutdown, LedgerInv, LedgerTypes, Reapings, NoRecord
  <2>4. (\A i \in 1 .. Len(queue) : ~Reaped(queue[i].frame, queue[i].screen))'
    BY <1>1, <1>2, <1>3, <2>3 DEF LedgerInv, Apart, Reaped
  <2> QED BY <2>1, <2>2, <2>4 DEF Apart
<1>8. Counted'
  BY <1>3, <1>5 DEF LedgerInv, LedgerTypes, Counted
<1>9. Guarded'
  BY <1>3, <1>4 DEF LedgerInv, LedgerTypes, Guarded, Unsent, Reaped
<1>10. Closing'
  BY <1>1, <1>2, <1>3, <1>6 DEF LedgerInv, Closing
<1> QED BY <1>7, <1>8, <1>9, <1>10

-----------------------------------------------------------------------------
(* The steps of the reaper thread and of the consumers.                    *)

LEMMA PopKeeps ==
  ASSUME LedgerInv, Pop
  PROVE  (Apart /\ Counted /\ Guarded /\ Closing)'
<1> PICK m : m = queue[1]
  OBVIOUS
<1>1. /\ Len(queue') = Len(queue) - 1 /\ Len(queue) \in Nat /\ Len(queue) > 0
      /\ \A i \in 1 .. Len(queue') : queue'[i] = queue[i + 1]
      /\ Head(queue) = m /\ m \in Records \cup {Shutdown}
  BY Popped DEF Pop, LedgerInv, LedgerTypes
<1>2. UNCHANGED << bufferOf, sending, expected, completed, released, reading, forced, reported, stopping >>
      /\ reaping = NoRecord /\ running
  BY DEF Pop, mainVars
<1>3. \A f, t : Unsent(f, t)' <=> Unsent(f, t)
  BY <1>2 DEF Unsent
<1>4. \A i \in 1 .. Len(queue') : i + 1 \in 1 .. Len(queue) /\ i + 1 # 1
  BY <1>1
<1>5. \A i \in 1 .. Len(queue) : i = 1 \/ (i - 1 \in 1 .. Len(queue') /\ queue[i] = queue'[i - 1])
  BY <1>1
<1>6. \A f, t : Queued(f, t) <=> Queued(f, t)' \/ (m.frame = f /\ m.screen = t)
  <2>1. ASSUME NEW f, NEW t, Queued(f, t) PROVE Queued(f, t)' \/ (m.frame = f /\ m.screen = t)
    BY <1>5, <2>1 DEF Queued
  <2>2. ASSUME NEW f, NEW t, Queued(f, t)' PROVE Queued(f, t)
    BY <1>1, <1>4, <2>2 DEF Queued
  <2>3. ASSUME NEW f, NEW t, m.frame = f, m.screen = t PROVE Queued(f, t)
    <3>1. 1 \in 1 .. Len(queue)
      BY <1>1
    <3> QED BY <2>3, <3>1 DEF Queued
  <2> QED BY <2>1, <2>2, <2>3
<1>7. \A i, j \in 1 .. Len(queue') : queue'[i] = queue'[j] => i = j
  BY <1>1, <1>4 DEF LedgerInv, Apart
<1>8. \A i \in 1 .. Len(queue') : queue'[i] # m
  BY <1>1, <1>4 DEF LedgerInv, Apart
<1>9. (\A i \in 1 .. Len(queue) : ~Unsent(queue[i].frame, queue[i].screen))'
  BY <1>1, <1>3, <1>4 DEF LedgerInv, Apart
<1>10. CASE m = Shutdown
  <2>1. running' = FALSE /\ reaping' = reaping
    BY <1>1, <1>10 DEF Pop
  <2>2. \A f \in Frames, t \in Screens : Pending(f, t)' <=> Pending(f, t)
    BY <1>2, <1>3, <1>6, <1>10, <2>1, Positive DEF Pending, Reaped, Shutdown
  <2>3. \A f \in Frames : Outstanding(f)' = Outstanding(f)
    BY <2>2 DEF Outstanding
  <2>4. Apart'
    BY <1>1, <1>2, <1>3, <1>4, <1>7, <1>9, <2>1 DEF LedgerInv, Apart, Reaped
  <2>5. Counted'
    BY <1>2, <2>1, <2>3 DEF LedgerInv, LedgerTypes, Counted
  <2>6. \A f \in Frames : \A t : Queued(f, t)' <=> Queued(f, t)
    BY <1>6, <1>10, Positive DEF Shutdown
  <2>7. Guarded'
    BY <1>2, <1>3, <2>1, <2>6 DEF LedgerInv, LedgerTypes, Guarded, Reaped
  <2>8. Len(queue) = 1 /\ stopping
    BY <1>1, <1>10 DEF LedgerInv, Closing
  <2>9. queue' = << >>
    BY <1>1, <2>8, Popped DEF Pop, LedgerInv, LedgerTypes
  <2>10. Closing'
    BY <1>1, <1>2, <2>1, <2>8, <2>9 DEF LedgerInv, Closing
  <2> QED BY <2>4, <2>5, <2>7, <2>10
<1>11. CASE m # Shutdown
  <2>1. m \in Records
    BY <1>1, <1>11
  <2>2. running' = running /\ reaping'.frame = m.frame /\ reaping'.screen = m.screen
        /\ reaping'.at \in {"wait", "stop"}
    BY <1>1, <1>11, <2>1 DEF Pop, Records
  <2>3. \A f, t : Reaped(f, t)' <=> (m.frame = f /\ m.screen = t)
    BY <2>2 DEF Reaped
  <2>4. \A f \in Frames : \A t : ~Reaped(f, t)
    BY <1>2, Positive DEF Reaped, NoRecord
  <2>5. \A f \in Frames, t \in Screens : Pending(f, t)' <=> Pending(f, t)
    BY <1>3, <1>6, <2>2, <2>3, <2>4 DEF Pending
  <2>6. \A f \in Frames : Outstanding(f)' = Outstanding(f)
    BY <2>5 DEF Outstanding
  <2>7. (\A i \in 1 .. Len(queue) : ~Reaped(queue[i].frame, queue[i].screen))'
    <3> SUFFICES ASSUME NEW i \in 1 .. Len(queue'), queue'[i].frame = m.frame, queue'[i].screen = m.screen
                 PROVE FALSE
      BY <2>3
    <3>1. queue'[i] \in Records \cup {Shutdown}
      <4>1. \A j \in 1 .. Len(queue) : queue[j] \in Records \cup {Shutdown}
        BY DEF LedgerInv, LedgerTypes
      <4> QED BY <1>1, <1>4, <4>1
    <3>2. queue'[i] \in Records
      BY <2>1, <3>1, Positive DEF Records, Shutdown
    <3>3. queue'[i] = m
      BY <2>1, <3>2 DEF Records
    <3> QED BY <1>8, <3>3
  <2>8. (~Unsent(reaping.frame, reaping.screen))'
    BY <1>1, <1>3, <2>2 DEF LedgerInv, Apart
  <2>9. Apart'
    BY <1>7, <1>9, <2>7, <2>8 DEF Apart
  <2>10. Outstanding(m.frame) # {} /\ m.frame \in Frames /\ m.screen \in Screens
    BY <1>6, <2>1 DEF Outstanding, Pending, Records
  <2>11. Counted'
    <3>1. \A f \in Frames : ~(reaping.frame = f /\ reaping.at = "report") /\ ~(reaping'.frame = f /\ reaping'.at = "report")
      BY <1>2, <2>2 DEF NoRecord
    <3>2. \A f \in Frames : f > Len(bufferOf) => reaping'.frame # f
      BY <2>2, <2>10 DEF LedgerInv, Counted
    <3> QED BY <1>2, <2>6, <3>1, <3>2 DEF LedgerInv, LedgerTypes, Counted
  <2>12. Guarded'
    <3>1. \A r \in reading \ forced : Queued(r[1], r[2])
      BY <1>2, <2>4 DEF LedgerInv, LedgerTypes, Guarded
    <3>2. \A r \in reading \ forced : Queued(r[1], r[2])' \/ Reaped(r[1], r[2])'
      BY <1>6, <2>3, <3>1
    <3> QED BY <1>2, <1>3, <2>2, <3>2 DEF LedgerInv, Guarded
  <2>13. Closing'
    <3>1. stopping => Len(queue) > 1
      BY <1>1, <1>2, <1>11 DEF LedgerInv, Closing
    <3>2. \A i \in 1 .. Len(queue') : queue'[i] = Shutdown => stopping /\ i = Len(queue')
      BY <1>1, <1>4 DEF LedgerInv, Closing
    <3>3. stopping => Len(queue') > 0 /\ queue'[Len(queue')] = Shutdown
      BY <1>1, <1>2, <3>1 DEF LedgerInv, Closing
    <3> QED BY <1>2, <2>2, <3>2, <3>3 DEF LedgerInv, Closing
  <2> QED BY <2>9, <2>11, <2>12, <2>13
<1> QED BY <1>10, <1>11

\* The reaper goes on with its record, without counting it yet.
LEMMA WaitKeeps ==
  ASSUME LedgerInv, Observe \/ GivesUp
  PROVE  (Apart /\ Counted /\ Guarded /\ Closing)'
<1>1. /\ UNCHANGED << bufferOf, sending, expected, completed, queue, released, reading, reported, stopping, running >>
      /\ reaping' = [reaping EXCEPT !.at = "count"] /\ reaping.at \in {"wait", "stop"}
  <2>1. CASE Observe
    BY <2>1 DEF Observe, mainVars
  <2>2. CASE GivesUp
    BY <2>2 DEF GivesUp, mainVars
  <2> QED BY <2>1, <2>2
<1>2. reaping \in Reapings
  BY <1>1 DEF LedgerInv, LedgerTypes, NoRecord
<1>3. reaping'.frame = reaping.frame /\ reaping'.screen = reaping.screen /\ reaping'.at = "count"
  BY <1>1, <1>2 DEF Reapings
<1>4. \A f, t : /\ Unsent(f, t)' <=> Unsent(f, t)
                /\ Queued(f, t)' <=> Queued(f, t)
                /\ Reaped(f, t)' <=> Reaped(f, t)
  BY <1>1, <1>3 DEF Unsent, Queued, Reaped
<1>5. \A f \in Frames : Outstanding(f)' = Outstanding(f)
  BY <1>1, <1>3, <1>4 DEF Outstanding, Pending
<1>6. Apart'
  BY <1>1, <1>3, <1>4 DEF LedgerInv, Apart
<1>7. Counted'
  BY <1>1, <1>3, <1>5 DEF LedgerInv, LedgerTypes, Counted
<1>8. \A r \in reading' \ forced' : r \in reading \ forced /\ r # Current
  <2>1. CASE Observe
    BY <1>1, <2>1 DEF Observe, LedgerInv, Guarded
  <2>2. CASE GivesUp
    BY <1>1, <2>2 DEF GivesUp, LedgerInv, LedgerTypes
  <2> QED BY <2>1, <2>2
<1>9. \A r \in reading \ forced : Reaped(r[1], r[2]) => r = Current
  BY DEF Reaped, Current, LedgerInv, LedgerTypes
<1>10. \A r \in reading' \ forced' : Queued(r[1], r[2])'
  BY <1>4, <1>8, <1>9 DEF LedgerInv, Guarded
<1>11. Guarded'
  BY <1>1, <1>4, <1>10 DEF LedgerInv, Guarded
<1>12. Closing'
  BY <1>1, <1>2 DEF LedgerInv, Closing, Reapings, NoRecord
<1> QED BY <1>6, <1>7, <1>11, <1>12

LEMMA CountKeeps ==
  ASSUME LedgerInv, Count
  PROVE  (Apart /\ Counted /\ Guarded /\ Closing)'
<1> PICK g, s : g = reaping.frame /\ s = reaping.screen
  OBVIOUS
<1>1. /\ UNCHANGED << bufferOf, sending, expected, queue, reading, forced, reported, stopping, running >>
      /\ Completes(g) /\ reaping.at = "count" /\ released' = released \ {Current}
  BY DEF Count, mainVars
<1>2. reaping \in Reapings /\ g \in Frames /\ s \in Screens /\ reaping # NoRecord
  BY <1>1 DEF LedgerInv, LedgerTypes, NoRecord, Reapings
<1>3. reaping' = NoRecord \/ (reaping'.frame = g /\ reaping'.screen = s /\ reaping'.at = "report")
  BY <1>2 DEF Count, Reapings
<1>4. \A f, t : (Unsent(f, t)' <=> Unsent(f, t)) /\ (Queued(f, t)' <=> Queued(f, t))
  BY <1>1 DEF Unsent, Queued
<1>5. Reaped(g, s) /\ ~Unsent(g, s) /\ ~Queued(g, s)
  BY DEF Reaped, LedgerInv, Apart, Queued
<1>6. s \in Outstanding(g)
  BY <1>1, <1>2, <1>5 DEF Outstanding, Pending
<1>7. \A f \in Frames, t \in Screens : Pending(f, t)' <=> Pending(f, t) /\ ~(f = g /\ t = s)
  BY <1>1, <1>2, <1>3, <1>4, <1>5, Positive DEF Pending, Reaped, NoRecord
<1>8. Outstanding(g)' = Outstanding(g) \ {s}
  BY <1>2, <1>7 DEF Outstanding
<1>9. \A f \in Frames \ {g} : Outstanding(f)' = Outstanding(f)
  BY <1>7 DEF Outstanding
<1>10. \A f \in Frames : reaping'.frame = f => reaping.frame = f \/ f = g
  BY <1>3, Positive DEF NoRecord
<1>11. /\ \A f \in Frames : expected'[f] = completed'[f] + Cardinality(Outstanding(f)')
       /\ \A f \in Frames : f > Len(bufferOf') => Outstanding(f)' = {} /\ expected'[f] = 0 /\ reaping'.frame # f
       /\ g <= Len(bufferOf) /\ g \notin reported
       /\ LastOf(g) <=> Outstanding(g)' = {}
  BY <1>1, <1>2, <1>6, <1>8, <1>9, <1>10, CountOne
<1>12. IF Outstanding(g)' = {} THEN reaping'.frame = g /\ reaping'.at = "report" ELSE reaping' = NoRecord
  BY <1>2, <1>11 DEF Count, Reapings
<1>13. Counted'
  <2>1. \A f \in Frames : Outstanding(f)' = {} =>
          f > Len(bufferOf) \/ f \in reported \/ (reaping'.frame = f /\ reaping'.at = "report")
    BY <1>1, <1>9, <1>12 DEF LedgerInv, Counted
  <2>2. \A f \in reported : f <= Len(bufferOf) /\ Outstanding(f)' = {}
    BY <1>9, <1>11 DEF LedgerInv, LedgerTypes, Counted
  <2>3. \A f \in Frames : reaping'.frame = f /\ reaping'.at = "report" => Outstanding(f)' = {}
    BY <1>3, <1>12, Positive DEF NoRecord
  <2> QED BY <1>1, <1>11, <2>1, <2>2, <2>3 DEF Counted
<1>14. \A f \in Frames : \A t : Reaped(f, t)' => Reaped(f, t)
  BY <1>3, Positive DEF Reaped, NoRecord
<1>15. Apart'
  <2>1. \A f, t : Reaped(f, t)' => Reaped(f, t) \/ (f = 0 /\ t = "none")
    BY <1>3 DEF Reaped, NoRecord
  <2>2. \A i \in 1 .. Len(queue) : ~(queue[i].frame = 0 /\ queue[i].screen = "none")
    BY Positive DEF LedgerInv, LedgerTypes, Records, Shutdown
  <2>3. ~Unsent(0, "none")
    BY DEF LedgerInv, LedgerTypes, Unsent, Idle
  <2>4. (~Unsent(reaping.frame, reaping.screen))'
    BY <1>3, <1>4, <1>5, <2>3 DEF NoRecord
  <2> QED BY <1>1, <1>4, <2>1, <2>2, <2>4 DEF LedgerInv, Apart
<1>16. Guarded'
  <2>1. \A r \in reading \ forced : Queued(r[1], r[2])
    BY <1>1 DEF LedgerInv, Guarded
  <2> QED BY <1>1, <1>4, <2>1 DEF LedgerInv, Guarded
<1>17. Closing'
  BY <1>1, <1>2 DEF LedgerInv, Closing
<1> QED BY <1>13, <1>15, <1>16, <1>17

LEMMA ReportKeeps ==
  ASSUME LedgerInv, Report
  PROVE  (Apart /\ Counted /\ Guarded /\ Closing)'
<1> PICK g : g = reaping.frame
  OBVIOUS
<1>1. /\ UNCHANGED << bufferOf, sending, expected, completed, queue, released, reading, forced, stopping, running >>
      /\ reaping.at = "report" /\ reaping' = NoRecord /\ reported' = reported \cup {g}
  BY DEF Report, mainVars
<1>2. g \in Frames /\ reaping # NoRecord
  BY <1>1 DEF LedgerInv, LedgerTypes, NoRecord, Reapings
<1>3. \A f, t : (Unsent(f, t)' <=> Unsent(f, t)) /\ (Queued(f, t)' <=> Queued(f, t))
  BY <1>1 DEF Unsent, Queued
<1>4. \A f \in Frames : Outstanding(f)' = Outstanding(f)
  BY <1>1, <1>3, Positive DEF Outstanding, Pending, Reaped, NoRecord
<1>5. Apart'
  <2>1. \A f, t : Reaped(f, t)' => f = 0 /\ t = "none"
    BY <1>1 DEF Reaped, NoRecord
  <2>2. \A i \in 1 .. Len(queue) : ~(queue[i].frame = 0 /\ queue[i].screen = "none")
    BY Positive DEF LedgerInv, LedgerTypes, Records, Shutdown
  <2>3. ~Unsent(0, "none")
    BY DEF LedgerInv, LedgerTypes, Unsent, Idle
  <2>4. (~Unsent(reaping.frame, reaping.screen))'
    BY <1>1, <1>3, <2>3 DEF NoRecord
  <2> QED BY <1>1, <1>3, <2>1, <2>2, <2>4 DEF LedgerInv, Apart
<1>6. Counted'
  <2>1. g <= Len(bufferOf) /\ Outstanding(g) = {}
    BY <1>1, <1>2, Positive DEF LedgerInv, LedgerTypes, Counted
  <2>2. \A f \in Frames : reaping'.frame # f
    BY <1>1, Positive DEF NoRecord
  <2>3. \A f \in reported' : f <= Len(bufferOf) /\ Outstanding(f) = {} /\ f \in Frames
    BY <1>1, <1>2, <2>1 DEF LedgerInv, LedgerTypes, Counted
  <2>4. \A f \in Frames : Outstanding(f)' = {} => f > Len(bufferOf) \/ f \in reported'
    BY <1>1, <1>4 DEF LedgerInv, Counted
  <2> QED BY <1>1, <1>4, <2>2, <2>3, <2>4 DEF LedgerInv, Counted
<1>7. Guarded'
  <2>1. \A r \in reading \ forced : Queued(r[1], r[2])
    BY <1>1 DEF LedgerInv, Guarded
  <2> QED BY <1>1, <1>3, <2>1 DEF LedgerInv, Guarded
<1>8. Closing'
  BY <1>1 DEF LedgerInv, Closing
<1> QED BY <1>5, <1>6, <1>7, <1>8

\* A consumer only reads less.
LEMMA ConsumerKeeps ==
  ASSUME LedgerInv, NEW s \in Screens, Die(s) \/ \E f \in Frames : Release(f, s)
  PROVE  (Apart /\ Counted /\ Guarded /\ Closing)'
<1>1. UNCHANGED << bufferOf, sending, expected, completed, queue, reported, reaping, stopping, running >>
  BY DEF Die, Release, mainVars, reaperVars
<1>2. \A f, t : /\ Unsent(f, t)' <=> Unsent(f, t)
                /\ Queued(f, t)' <=> Queued(f, t)
                /\ Reaped(f, t)' <=> Reaped(f, t)
  BY <1>1 DEF Unsent, Queued, Reaped
<1>3. \A f \in Frames : Outstanding(f)' = Outstanding(f)
  BY <1>1, <1>2 DEF Outstanding, Pending
<1>4. /\ reading' \ forced' \subseteq reading \ forced
      /\ reading' \cup released' \subseteq reading \cup released
      /\ reading' \cap released' = {}
  BY DEF Die, Release, LedgerInv, Guarded
<1>5. Apart' /\ Closing'
  BY <1>1, <1>2 DEF LedgerInv, Apart, Closing
<1>6. Counted'
  BY <1>1, <1>3 DEF LedgerInv, LedgerTypes, Counted
<1>7. Guarded'
  BY <1>1, <1>2, <1>4 DEF LedgerInv, Guarded
<1> QED BY <1>5, <1>6, <1>7

-----------------------------------------------------------------------------
LEMMA LedgerInvStep == LedgerInv /\ [LedgerNext]_ledgerVars => LedgerInv'
<1> SUFFICES ASSUME LedgerInv, [LedgerNext]_ledgerVars PROVE LedgerInv'
  OBVIOUS
<1>1. LedgerTypes'
  BY LedgerTypesStep DEF LedgerInv
<1> SUFFICES (Apart /\ Counted /\ Guarded /\ Closing)'
  BY <1>1 DEF LedgerInv
<1>2. CASE MainStep
  BY <1>2, TakesKeeps, SendKeeps, SendFailsKeeps, LeavesKeeps, StopKeeps DEF MainStep
<1>3. CASE ReaperStep
  BY <1>3, PopKeeps, WaitKeeps, CountKeeps, ReportKeeps DEF ReaperStep
<1>4. CASE Consumer
  BY <1>4, ConsumerKeeps DEF Consumer
<1>5. CASE UNCHANGED ledgerVars
  <2>1. UNCHANGED << bufferOf, sending, expected, completed, queue, released, reading, forced, reported, reaping, stopping, running >>
    BY <1>5 DEF ledgerVars, mainVars, reaperVars
  <2>2. \A f : Outstanding(f)' = Outstanding(f)
    BY <2>1 DEF Outstanding, Pending, Unsent, Queued, Reaped
  <2> QED BY <2>1, <2>2 DEF LedgerInv, Apart, Counted, Guarded, Closing, Unsent, Queued, Reaped
<1> QED BY <1>2, <1>3, <1>4, <1>5 DEF LedgerNext

\* What the invariant says of the reaper is what the worker may rely on.
LEMMA InvKeepsReleases == LedgerInv => ReleasesKept
<1> SUFFICES ASSUME LedgerInv PROVE ReleasesKept
  OBVIOUS
<1>1. LedgerTypeOK
  <2>1. \A f \in Frames : completed[f] <= expected[f]
    BY OutstandingFinite DEF LedgerInv, LedgerTypes, Counted
  <2> QED BY <2>1 DEF LedgerInv, LedgerTypes, LedgerTypeOK
<1>2. ReusedWhenReleased
  <2> SUFFICES ASSUME NEW r \in reading \ forced, AllBack(r[1]) PROVE FALSE
    BY DEF ReusedWhenReleased
  <2>1. r[1] \in Frames /\ r[2] \in Screens
    BY DEF LedgerInv, LedgerTypes
  <2>2. r[1] \in reported
    BY <2>1, Positive DEF AllBack
  <2>3. Outstanding(r[1]) # {}
    BY <2>1 DEF LedgerInv, Guarded, Outstanding, Pending
  <2> QED BY <2>2, <2>3 DEF LedgerInv, Counted
<1>3. StopLeavesNothing
  <2> SUFFICES ASSUME ~running PROVE AllBack(Len(bufferOf)) /\ queue = << >>
    BY DEF StopLeavesNothing
  <2>1. sending = Idle /\ queue = << >> /\ reaping = NoRecord
    BY DEF LedgerInv, Closing
  <2>2. \A f \in Frames : Outstanding(f) = {}
    BY <2>1, Positive DEF Outstanding, Pending, Unsent, Queued, Reaped, Idle, NoRecord
  <2>3. \A f \in 1 .. Len(bufferOf) : f \in Frames /\ f <= Len(bufferOf)
    BY LedgerAssumption DEF LedgerInv, LedgerTypes, Frames
  <2>4. \A f \in 1 .. Len(bufferOf) : f \in reported
    BY <2>1, <2>2, <2>3, Positive DEF LedgerInv, LedgerTypes, Counted, NoRecord
  <2> QED BY <2>1, <2>4 DEF AllBack
<1> QED BY <1>1, <1>2, <1>3 DEF ReleasesKept

\* For any number of outputs, buffers and frames: the worker gets the point of a
\* frame back only when each consumer it was sent to has released it or was given
\* up on (release_group_complete), and a coordinator that has stopped has returned
\* all points (producer_release_coordinator_stop).
THEOREM ReleasesHold == LedgerSpec => []ReleasesKept
BY LedgerInitInv, LedgerInvStep, InvKeepsReleases, PTL DEF LedgerSpec

-----------------------------------------------------------------------------
(* The timeline of a worker.                                               *)

\* Max of FiniteSetsExt is that of two numbers.
LEMMA MaxOfTwo ==
  ASSUME NEW m \in Int, NEW n \in Int
  PROVE  Max({m, n}) = IF m >= n THEN m ELSE n
<1> DEFINE top == IF m >= n THEN m ELSE n
<1>1. top \in {m, n} /\ \A y \in {m, n} : top >= y
  OBVIOUS
<1>2. \A x \in {m, n} : (\A y \in {m, n} : x >= y) => x = top
  OBVIOUS
<1> QED BY <1>1, <1>2 DEF Max

\* What a signalled point does to the timelines.
LEMMA SignalsShape ==
  ASSUME TimelineTypeOK, process # 0, NEW p \in 0 .. MaxPoints, NEW ok \in BOOLEAN, Signals(p, ok)
  PROVE  /\ timeline' \in [Instance -> 0 .. MaxPoints] /\ faults' \in 0 .. MaxFaults
         /\ \A i \in Instance : i # process => timeline'[i] = timeline[i]
         /\ ok => timeline'[process] = (IF timeline[process] >= p THEN timeline[process] ELSE p)
                  /\ faults' = faults
         /\ ~ok => timeline' = timeline /\ faults' = faults + 1
<1>1. process \in Instance /\ MaxPoints \in Nat /\ MaxFaults \in Nat
  BY TimelineAssumption DEF TimelineTypeOK, Instance
<1>2. timeline[process] \in 0 .. MaxPoints
  BY <1>1 DEF TimelineTypeOK
<1>3. Max({timeline[process], p}) = IF timeline[process] >= p THEN timeline[process] ELSE p
  BY <1>1, <1>2, MaxOfTwo
<1>4. CASE ok
  BY <1>1, <1>2, <1>3, <1>4 DEF Signals, TimelineTypeOK
<1>5. CASE ~ok
  BY <1>1, <1>5 DEF Signals, TimelineTypeOK
<1> QED BY <1>4, <1>5

-----------------------------------------------------------------------------
(* Types.                                                                  *)

LEMMA FinalType ==
  ASSUME TimelineTypeOK
  PROVE  Final \in 0 .. MaxPoints /\ Final = (IF published >= lastPoint THEN published ELSE lastPoint)
BY MaxOfTwo, TimelineAssumption DEF Final, TimelineTypeOK

LEMMA TypeStep == TimelineTypeOK /\ [TimelineNext]_timelineVars => TimelineTypeOK'
<1> SUFFICES ASSUME TimelineTypeOK, [TimelineNext]_timelineVars PROVE TimelineTypeOK'
  OBVIOUS
<1> USE TimelineAssumption DEF Instance, Point
<1>1. CASE SpawnsInstance
  BY <1>1 DEF SpawnsInstance, TimelineTypeOK, Consumers
<1>2. CASE AcceptsFrame
  BY <1>2 DEF AcceptsFrame, TimelineTypeOK, Consumers
<1>3. CASE PublishesFrame
  <2>1. << process, published + 1 >> \in Instance \X Point
    BY <1>3 DEF PublishesFrame, TimelineTypeOK
  <2> QED BY <1>3, <2>1 DEF PublishesFrame, TimelineTypeOK
<1>4. CASE ReapsInstance
  BY <1>4 DEF ReapsInstance, TimelineTypeOK, Consumers
<1>5. ASSUME NEW h \in held, GivesBack(h) PROVE TimelineTypeOK'
  BY <1>5 DEF GivesBack, TimelineTypeOK
<1>6. ASSUME NEW ok \in BOOLEAN, CompletesUnbind(ok) PROVE TimelineTypeOK'
  <2>1. CASE process = 0 \/ health = "failed"
    BY <1>6, <2>1 DEF CompletesUnbind, TimelineTypeOK, Consumers
  <2>2. CASE ~(process = 0 \/ health = "failed")
    <3>1. timeline' \in [Instance -> 0 .. MaxPoints] /\ faults' \in 0 .. MaxFaults
      <4>1. CASE Final = 0
        BY <1>6, <2>2, <4>1 DEF CompletesUnbind, TimelineTypeOK
      <4>2. CASE Final # 0
        BY <1>6, <2>2, <4>2, FinalType, SignalsShape DEF CompletesUnbind
      <4> QED BY <4>1, <4>2
    <3> QED BY <1>6, <2>2, <3>1, FinalType DEF CompletesUnbind, TimelineTypeOK, Consumers
  <2> QED BY <2>1, <2>2
<1>7. ASSUME NEW ok \in BOOLEAN, NEW r \in returns, CompletesRelease(r, ok) PROVE TimelineTypeOK'
  <2> DEFINE known == donePoints \cup {r[2]}
  <2>1. r[2] \in Point /\ known \subseteq Point
    BY DEF TimelineTypeOK
  <2>2. CASE OfProcess(r[1]) /\ r[2] > signaled
    <3>1. PICK up \in signaled .. MaxPoints :
            IF up = signaled THEN ok /\ donePoints' = known /\ UNCHANGED << signaled, timeline, faults >>
            ELSE /\ donePoints' = known \ ((signaled + 1) .. up)
                 /\ Signals(up, ok)
                 /\ signaled' = IF ok THEN up ELSE signaled
      BY <1>7, <2>2 DEF CompletesRelease
    <3>2. up \in 0 .. MaxPoints /\ process # 0
      BY <2>2 DEF OfProcess, TimelineTypeOK
    <3>3. timeline' \in [Instance -> 0 .. MaxPoints] /\ faults' \in 0 .. MaxFaults
      BY <3>1, <3>2, SignalsShape DEF TimelineTypeOK
    <3>4. donePoints' \subseteq Point /\ signaled' \in 0 .. MaxPoints
      BY <2>1, <3>1, <3>2 DEF TimelineTypeOK
    <3> QED BY <1>7, <3>3, <3>4 DEF CompletesRelease, TimelineTypeOK
  <2>3. CASE ~(OfProcess(r[1]) /\ r[2] > signaled)
    BY <1>7, <2>3 DEF CompletesRelease, TimelineTypeOK
  <2> QED BY <2>2, <2>3
<1>8. ASSUME NEW next \in {"unbinding", "failed"}, Retires(next) PROVE TimelineTypeOK'
  BY <1>8 DEF Retires, TimelineTypeOK, Consumers
<1>9. CASE UNCHANGED timelineVars
  BY <1>9 DEF timelineVars, TimelineTypeOK
<1> QED BY <1>1, <1>2, <1>3, <1>4, <1>5, <1>6, <1>7, <1>8, <1>9 DEF TimelineNext

-----------------------------------------------------------------------------
(* The inductive invariant.                                                *)

Known == held \cup returns

\* Workers not started yet have no frames; a frame is used or on its way back.
\* Behind the barrier a worker that serves has shown nothing.
Started ==
  /\ \A h \in Known : h[1] <= instances
  /\ \A i \in Instance : i > instances => timeline[i] = 0
  /\ held \cap returns = {}
  /\ process # 0 /\ barrier /\ health = "serving" => lastPoint = 0

\* The frames of the worker that runs: those up to signaled are free, the complete
\* ones are neither used nor on their way.
PointsCounted ==
  process # 0 =>
    /\ timeline[process] = signaled /\ signaled <= lastPoint /\ published <= lastPoint
    /\ health = "serving" => signaled <= published
    /\ \A h \in Known : h[1] = process => h[2] <= published
    /\ \A p \in donePoints : p <= published /\ << process, p >> \notin Known

\* Without faults each frame shown is free, complete, used or on its way, and the
\* first that is not free is not complete.
Traced ==
  faults = 0 /\ process # 0 =>
    /\ health = "serving" =>
         /\ signaled + 1 \notin donePoints
         /\ \A p \in (signaled + 1) .. published : p \in donePoints \/ << process, p >> \in Known
    /\ health = "shutting" => signaled = lastPoint

TimelineInv == NothingHeldIsPassed /\ Started /\ PointsCounted /\ Traced

LEMMA InvInit == TimelineInit => TimelineTypeOK /\ TimelineInv
<1> SUFFICES ASSUME TimelineInit PROVE TimelineTypeOK /\ TimelineInv
  OBVIOUS
<1>1. 0 \in 0 .. MaxPoints /\ 0 \in 0 .. MaxInstances /\ 0 \in 0 .. MaxFaults
  BY TimelineAssumption
<1>2. TimelineTypeOK
  <2>1. process \in 0 .. instances
    BY DEF TimelineInit
  <2>2. timeline \in [Instance -> 0 .. MaxPoints]
    BY <1>1 DEF TimelineInit
  <2> QED BY <1>1, <2>1, <2>2 DEF TimelineInit, TimelineTypeOK
<1>3. TimelineInv
  BY DEF TimelineInit, TimelineInv, NothingHeldIsPassed, Started, PointsCounted, Traced, Known
<1> QED BY <1>2, <1>3

LEMMA InvStep == TimelineTypeOK /\ TimelineInv /\ [TimelineNext]_timelineVars => TimelineInv'
<1> SUFFICES ASSUME TimelineTypeOK, TimelineInv, [TimelineNext]_timelineVars PROVE TimelineInv'
  OBVIOUS
<1> USE TimelineAssumption DEF TimelineInv, Known
<1>0. TimelineTypeOK'
  BY TypeStep
<1>1. CASE SpawnsInstance
  <2>1. process' # 0 /\ process' = instances' /\ process' \in Instance /\ timeline[process'] = 0
    BY <1>1 DEF SpawnsInstance, Started, TimelineTypeOK, Instance
  <2>2. \A h \in Known : h[1] # process' /\ h \in Instance \X Point
    BY <1>1 DEF SpawnsInstance, Started, TimelineTypeOK, Instance
  <2> QED BY <1>1, <2>1, <2>2 DEF SpawnsInstance, Consumers, NothingHeldIsPassed, Started, PointsCounted, Traced,
             TimelineTypeOK, Instance
<1>2. CASE AcceptsFrame
  BY <1>2 DEF AcceptsFrame, Consumers, NothingHeldIsPassed, Started, PointsCounted, Traced, TimelineTypeOK
<1>3. CASE PublishesFrame
  <2> DEFINE new == << process, published + 1 >>
  <2>1. process \in Instance /\ process <= instances /\ published + 1 \in Point /\ published' = published + 1
    BY <1>3 DEF PublishesFrame, TimelineTypeOK, Instance, Point
  <2>2. held' = held \cup {new} /\ returns' = returns /\ Known' = Known \cup {new}
    BY <1>3 DEF PublishesFrame
  <2>3. new \notin returns /\ published + 1 \notin donePoints /\ timeline[process] < published + 1
    BY <1>3, <2>1 DEF PublishesFrame, PointsCounted, TimelineTypeOK
  <2>4. NothingHeldIsPassed'
    BY <1>3, <2>2, <2>3 DEF PublishesFrame, NothingHeldIsPassed
  <2>5. Started'
    BY <1>3, <2>1, <2>2, <2>3 DEF PublishesFrame, Started
  <2>6. PointsCounted'
    <3>1. \A h \in Known' : h[1] = process => h[2] <= published + 1
      BY <1>3, <2>1, <2>2 DEF PublishesFrame, PointsCounted, TimelineTypeOK, Point
    <3>2. \A p \in donePoints : p <= published + 1 /\ << process, p >> \notin Known'
      BY <1>3, <2>1, <2>2, <2>3 DEF PublishesFrame, PointsCounted, TimelineTypeOK, Point
    <3> QED BY <1>3, <2>1, <3>1, <3>2 DEF PublishesFrame, PointsCounted, TimelineTypeOK
  <2>7. Traced'
    BY <1>3, <2>1, <2>2, <1>0 DEF PublishesFrame, Traced, TimelineTypeOK, Point
  <2> QED BY <2>4, <2>5, <2>6, <2>7
<1>4. CASE ReapsInstance
  BY <1>4 DEF ReapsInstance, Consumers, NothingHeldIsPassed, Started, PointsCounted, Traced
<1>5. ASSUME NEW h \in held, GivesBack(h) PROVE TimelineInv'
  <2>1. Known' = Known /\ held' \subseteq held /\ held' \cap returns' = {}
    BY <1>5 DEF GivesBack, Started
  <2>2. UNCHANGED << process, instances, health, lastPoint, published, signaled, donePoints, barrier, timeline, faults >>
    BY <1>5 DEF GivesBack
  <2> QED BY <2>1, <2>2 DEF NothingHeldIsPassed, Started, PointsCounted, Traced
<1>6. ASSUME NEW ok \in BOOLEAN, CompletesUnbind(ok) PROVE TimelineInv'
  <2>1. CASE process = 0 \/ health = "failed"
    BY <1>6, <2>1 DEF CompletesUnbind, Consumers, NothingHeldIsPassed, Started, PointsCounted, Traced
  <2>2. CASE ~(process = 0 \/ health = "failed") /\ ok
    <3>1. process \in Instance /\ process <= instances /\ Final = lastPoint /\ lastPoint \in 0 .. MaxPoints
      BY <2>2, FinalType DEF PointsCounted, TimelineTypeOK, Instance
    <3>2. /\ timeline'[process] = lastPoint /\ faults' = faults
          /\ \A i \in Instance : i # process => timeline'[i] = timeline[i]
      <4>1. CASE Final = 0
        BY <1>6, <2>2, <3>1, <4>1 DEF CompletesUnbind, PointsCounted, TimelineTypeOK
      <4>2. CASE Final # 0
        <5>1. Signals(lastPoint, TRUE)
          BY <1>6, <2>2, <3>1, <4>2 DEF CompletesUnbind
        <5>2. timeline[process] \in Int /\ timeline[process] <= lastPoint
          BY <2>2, <3>1 DEF PointsCounted, TimelineTypeOK
        <5>3. /\ \A i \in Instance : i # process => timeline'[i] = timeline[i]
              /\ timeline'[process] = (IF timeline[process] >= lastPoint THEN timeline[process] ELSE lastPoint)
              /\ faults' = faults
          BY <2>2, <3>1, <5>1, SignalsShape
        <5> QED BY <3>1, <5>2, <5>3
      <4> QED BY <4>1, <4>2
    <3>3. /\ held = {} /\ signaled' = lastPoint /\ donePoints' = {} /\ ~barrier'
          /\ health' = (IF health = "unbinding" THEN "shutting" ELSE health)
          /\ UNCHANGED << process, instances, lastPoint, published, held, returns >>
      BY <1>6, <2>2, <3>1 DEF CompletesUnbind, Consumers
    <3>4. health' = "serving" => lastPoint = 0 /\ published = 0
      BY <1>6, <2>2, <3>3 DEF CompletesUnbind, Started, PointsCounted, TimelineTypeOK
    <3> QED BY <2>2, <3>1, <3>2, <3>3, <3>4 DEF NothingHeldIsPassed, Started, PointsCounted, Traced, TimelineTypeOK
  <2>3. CASE ~(process = 0 \/ health = "failed") /\ ~ok
    <3>1. Signals(Final, FALSE)
      BY <1>6, <2>3 DEF CompletesUnbind
    <3>2. timeline' = timeline /\ faults' = faults + 1
      BY <2>3, <3>1, FinalType, SignalsShape
    <3>3. faults \in Nat /\ held = {} /\ barrier
          /\ UNCHANGED << process, instances, health, lastPoint, published, signaled, donePoints, held, returns >>
      BY <1>6, <2>3 DEF CompletesUnbind, Consumers, TimelineTypeOK
    <3> QED BY <3>2, <3>3 DEF NothingHeldIsPassed, Started, PointsCounted, Traced
  <2> QED BY <2>1, <2>2, <2>3
<1>7. ASSUME NEW ok \in BOOLEAN, NEW r \in returns, CompletesRelease(r, ok) PROVE TimelineInv'
  <2> DEFINE known == donePoints \cup {r[2]}
  <2>1. /\ returns' = returns \ {r} /\ Known' = Known \ {r}
        /\ UNCHANGED << process, instances, health, lastPoint, published, barrier, held >>
    BY <1>7 DEF CompletesRelease, Started
  <2>2. r = << r[1], r[2] >> /\ r[1] \in Instance /\ r[2] \in Point
    BY DEF TimelineTypeOK
  <2>3. CASE OfProcess(r[1]) /\ r[2] > signaled
    <3>1. PICK up \in signaled .. MaxPoints :
            /\ EndsPrefix(known, up)
            /\ IF up = signaled THEN ok /\ donePoints' = known /\ UNCHANGED << signaled, timeline, faults >>
               ELSE /\ donePoints' = known \ ((signaled + 1) .. up)
                    /\ Signals(up, ok)
                    /\ signaled' = IF ok THEN up ELSE signaled
      BY <1>7, <2>3 DEF CompletesRelease
    <3>2. process # 0 /\ r[1] = process /\ process \in Instance /\ up \in 0 .. MaxPoints
      BY <2>2, <2>3 DEF OfProcess, TimelineTypeOK
    <3>3. \A p \in known : p <= published /\ << process, p >> \notin Known'
      BY <2>1, <2>2, <3>2 DEF PointsCounted
    <3>4. \A p \in (signaled + 1) .. up : p \in known
      BY <3>1 DEF EndsPrefix
    <3>5. signaled < r[2] /\ r[2] <= published
      BY <2>3, <3>3
    <3>6. up <= published
      <4>1. up = signaled \/ up \in (signaled + 1) .. up
        BY <3>1, <3>2 DEF TimelineTypeOK
      <4>2. CASE up = signaled
        <5>1. signaled \in Int /\ r[2] \in Int /\ published \in Int
          BY <2>2 DEF TimelineTypeOK, Point
        <5> QED BY <3>5, <4>2, <5>1
      <4>3. CASE up \in (signaled + 1) .. up
        <5> HIDE DEF known
        <5> QED BY <3>3, <3>4, <4>3
      <4> QED BY <4>1, <4>2, <4>3
    <3>7. /\ \A i \in Instance : i # process => timeline'[i] = timeline[i]
          /\ timeline'[process] = signaled' /\ signaled' \in {signaled, up}
          /\ faults' = faults => signaled' = up
          /\ faults' \in {faults, faults + 1}
      <4>1. CASE up = signaled
        BY <3>1, <3>2, <4>1 DEF PointsCounted
      <4>2. CASE up # signaled /\ ok
        <5>1. Signals(up, TRUE) /\ signaled' = up
          BY <3>1, <4>2
        <5>2. /\ \A i \in Instance : i # process => timeline'[i] = timeline[i]
              /\ timeline'[process] = (IF timeline[process] >= up THEN timeline[process] ELSE up)
              /\ faults' = faults
          BY <3>2, <5>1, SignalsShape
        <5>3. timeline[process] = signaled /\ signaled <= up
          BY <3>1, <3>2 DEF PointsCounted, TimelineTypeOK
        <5> QED BY <3>2, <5>1, <5>2, <5>3 DEF TimelineTypeOK
      <4>3. CASE up # signaled /\ ~ok
        BY <3>1, <3>2, <4>3, SignalsShape DEF PointsCounted, TimelineTypeOK
      <4> QED BY <4>1, <4>2, <4>3
    <3>8. NothingHeldIsPassed'
      <4> SUFFICES ASSUME NEW h \in held PROVE timeline'[h[1]] < h[2]
        BY <2>1 DEF NothingHeldIsPassed
      <4>1. h = << h[1], h[2] >> /\ h[1] \in Instance /\ h[2] \in Point /\ timeline[h[1]] < h[2] /\ h # r
        BY DEF TimelineTypeOK, NothingHeldIsPassed, Started
      <4>2. CASE h[1] # process
        BY <3>7, <4>1, <4>2
      <4>3. CASE h[1] = process
        <5>1. h[2] \notin known
          BY <2>1, <3>3, <4>1, <4>3
        <5>2. signaled < h[2] /\ h[2] \notin (signaled + 1) .. up
          BY <3>2, <3>4, <4>1, <4>3, <5>1 DEF PointsCounted
        <5> QED BY <3>1, <3>2, <3>7, <4>1, <4>3, <5>2 DEF Point, TimelineTypeOK
      <4> QED BY <4>2, <4>3
    <3>9. Started'
      BY <2>1, <3>2, <3>7 DEF Started, TimelineTypeOK
    <3>10. PointsCounted'
      <4>1. donePoints' \subseteq known
        BY <3>1
      <4>2. signaled' <= lastPoint /\ (health = "serving" => signaled' <= published)
        BY <3>2, <3>6, <3>7 DEF PointsCounted, TimelineTypeOK
      <4> QED BY <2>1, <3>2, <3>3, <3>7, <4>1, <4>2 DEF PointsCounted
    <3>11. Traced'
      <4> SUFFICES ASSUME faults' = 0 PROVE Traced'
        BY DEF Traced
      <4>1. faults = 0 /\ signaled' = up
        BY <1>0, <3>7 DEF TimelineTypeOK
      <4>2. donePoints' = known \ ((signaled + 1) .. up) /\ up + 1 \notin known
        BY <3>1, <3>2 DEF EndsPrefix, TimelineTypeOK
      <4>3. health # "shutting"
        BY <2>2, <3>2, <3>5, <4>1 DEF Traced, PointsCounted, TimelineTypeOK, Point
      <4>4. ASSUME health = "serving", NEW p \in (up + 1) .. published
            PROVE  p \in donePoints' \/ << process, p >> \in Known'
        <5>1. p \in (signaled + 1) .. published /\ p \notin (signaled + 1) .. up
          BY <3>1, <3>2, <4>4 DEF TimelineTypeOK
        <5>2. p \in donePoints \/ << process, p >> \in Known
          BY <3>2, <4>1, <4>4, <5>1 DEF Traced
        <5>3. CASE << process, p >> = r
          BY <2>2, <4>2, <5>1, <5>3
        <5>4. CASE << process, p >> # r
          BY <2>1, <4>2, <5>1, <5>2, <5>4
        <5> QED BY <5>3, <5>4
      <4> QED BY <2>1, <3>2, <4>1, <4>2, <4>3, <4>4 DEF Traced
    <3> QED BY <3>8, <3>9, <3>10, <3>11
  <2>4. CASE ~(OfProcess(r[1]) /\ r[2] > signaled)
    <3>1. UNCHANGED << donePoints, signaled, timeline, faults >>
      BY <1>7, <2>4 DEF CompletesRelease
    <3>2. NothingHeldIsPassed' /\ Started' /\ PointsCounted'
      BY <2>1, <3>1 DEF NothingHeldIsPassed, Started, PointsCounted
    <3>3. Traced'
      <4> SUFFICES ASSUME faults = 0, process # 0 PROVE Traced'
        BY <2>1, <3>1 DEF Traced
      <4>1. \A p \in (signaled + 1) .. published : << process, p >> # r
        BY <2>2, <2>4 DEF OfProcess, TimelineTypeOK
      <4> QED BY <2>1, <3>1, <4>1 DEF Traced
    <3> QED BY <3>2, <3>3
  <2> QED BY <2>3, <2>4
<1>8. ASSUME NEW next \in {"unbinding", "failed"}, Retires(next) PROVE TimelineInv'
  BY <1>8 DEF Retires, Consumers, NothingHeldIsPassed, Started, PointsCounted, Traced
<1>9. CASE UNCHANGED timelineVars
  BY <1>9 DEF timelineVars, NothingHeldIsPassed, Started, PointsCounted, Traced
<1> QED BY <1>1, <1>2, <1>3, <1>4, <1>5, <1>6, <1>7, <1>8, <1>9 DEF TimelineNext

\* Whatever the invariant says of the table, the property says of the worker.
LEMMA InvTells == TimelineTypeOK /\ TimelineInv => TimelineTells
<1> SUFFICES ASSUME TimelineTypeOK, TimelineInv PROVE NothingIsKeptBack
  BY DEF TimelineInv, TimelineTells
<1> SUFFICES ASSUME faults = 0, process # 0
             PROVE  /\ health = "serving" /\ held = {} /\ returns = {} => timeline[process] = published
                    /\ health = "shutting" => timeline[process] = lastPoint
  BY DEF NothingIsKeptBack
<1>1. CASE health = "serving" /\ held = {} /\ returns = {}
  <2>1. \A p \in (signaled + 1) .. published : p \in donePoints
    BY <1>1 DEF TimelineInv, Traced, Known
  <2>2. signaled + 1 \notin (signaled + 1) .. published
    BY <1>1, <2>1 DEF TimelineInv, Traced
  <2> QED BY <1>1, <2>2 DEF TimelineInv, PointsCounted, TimelineTypeOK
<1>2. CASE health = "shutting"
  BY <1>2 DEF TimelineInv, PointsCounted, Traced
<1> QED BY <1>1, <1>2

\* For any number of workers, frames and failing signals: a worker's timeline never
\* passes a frame a consumer uses, whatever order frames come back in and whichever
\* worker they were of (vivid_producer_renderer_complete_frame_release), and without
\* failures it passes all others.
THEOREM TimelineHolds == TimelineSpec => []TimelineTells
<1>1. TimelineTypeOK /\ TimelineInv /\ [TimelineNext]_timelineVars => (TimelineTypeOK /\ TimelineInv)'
  BY TypeStep, InvStep
<1> QED BY <1>1, InvInit, InvTells, PTL DEF TimelineSpec
=============================================================================
