-------------------------- MODULE DaemonParts_proofs --------------------------
(***************************************************************************)
(* What parts of the daemon promise, for any number of displays, requests, *)
(* workers and formats.                                                    *)
(***************************************************************************)
EXTENDS MCDaemonParts, DaemonService_proofs, FiniteSetTheorems, TLAPS

-----------------------------------------------------------------------------
(* SET_STATE as a transaction.  At most the newest one waits.              *)

Waiters    == [client : Askers, request : Requests, device : BOOLEAN]
WorkerRecs == [phase : {"none", "starting", "active", "stopping"}, blamed : BOOLEAN, error : BOOLEAN]
Verdicts   == {"none", "pending", "acked", "failed", "superseded", "refused", "dropped"}

\* Requests are numbered as they come.
AskedInOrder == \E n \in 0 .. MaxRequests : Asked = 1 .. n

\* A request is acknowledged only while every display left runs what it wants.
AckedRight(A) ==
  \A q \in Requests : answers'[q] = "acked" /\ A[q] = "pending" =>
    \A d \in Displays \cap connected' : workerOf'[d].phase = "active"

LEMMA WorkerTypes == NoWorker \in WorkerRecs /\ Spawned \in WorkerRecs /\ ~NoWorker.error /\ NoWorker.phase # "active"
BY DEF NoWorker, Spawned, WorkerRecs

LEMMA NextIsNew ==
  ASSUME AskedInOrder
  PROVE  /\ NextRequest \in Nat \ Asked
         /\ NextRequest \in Requests => Asked \cup {NextRequest} = 1 .. NextRequest
<1> PICK n \in 0 .. MaxRequests : Asked = 1 .. n
  BY DEF AskedInOrder
<1>1. n \in Nat /\ Cardinality(1 .. n) = n
  BY FS_Interval, ControlAssumption
<1> QED BY <1>1, ControlAssumption DEF NextRequest

\* Workers W, clients C, queue Q and answers A that belong together, as at most one
\* request waits.
Consistent(W, C, Q, A) ==
  /\ W \in [Displays -> WorkerRecs] /\ C \subseteq Askers /\ Q \subseteq Waiters
  /\ A \in [Requests -> Verdicts]
  /\ \A d \in Displays \ C : W[d] = NoWorker
  /\ \A p \in Q : p.client \in C
  /\ \A p, r \in Q : p = r
  /\ \A q \in Requests : A[q] = "pending" <=> \E p \in Q : p.request = q

\* What a pass leaves: the same fits, no other request was answered, and an
\* acknowledgement was right.
Passed(C, Q, A) ==
  /\ Consistent(workerOf', connected', pending', answers')
  /\ connected' \subseteq C /\ pending' \subseteq Q
  /\ \A q \in Requests : answers'[q] = "none" <=> A[q] = "none"
  /\ \A q \in Requests : answers'[q] = A[q] \/ \E p \in Q : p.request = q
  /\ AckedRight(A)

\* What waits is the newest SET_STATE.
Newest ==
  /\ sets \in Seq(Requests)
  /\ \A p \in pending : Len(sets) > 0 /\ p.request = sets[Len(sets)]
  /\ \A i, j \in 1 .. Len(sets) : sets[i] = sets[j] => i = j
  /\ \A i \in 1 .. Len(sets) : sets[i] \in Asked

ControlInv ==
  /\ Consistent(workerOf, connected, pending, answers)
  /\ crashes \in 0 .. MaxCrashes
  /\ AskedInOrder /\ Newest

LEMMA EvaluateShape ==
  ASSUME NEW W, NEW C, NEW Q, NEW A, Consistent(W, C, Q, A), Evaluate(W, C, Q, A)
  PROVE  Passed(C, Q, A)
<1>1. CASE Q = {} \/ ~(Failed(W, C) \/ AllReady(W, C))
  BY <1>1 DEF Evaluate, AckedRight, Passed, Consistent
<1>2. CASE Q # {} /\ (Failed(W, C) \/ AllReady(W, C))
  <2> DEFINE ends == ~Failed(W, C) /\ \E p \in Q : p.device
             done == IF ends THEN {p \in Q : p.request <= FirstDevice(Q).request} ELSE Q
             gone == IF ends THEN Routed(C) \ {FirstDevice(Q).client} ELSE {}
  <2>1. ASSUME ends PROVE FirstDevice(Q) \in Q
    <3>1. PICK p \in Q : p.device
      BY <2>1
    <3>2. \A r \in Q : r.device => p.request <= r.request
      <4> TAKE r \in Q
      <4>1. p.request = r.request /\ r.request \in Int
        BY DEF Consistent, Waiters, Requests
      <4> QED BY <4>1
    <3> QED BY <3>1, <3>2 DEF FirstDevice
  <2>2. done = Q
    <3>1. ASSUME ends, NEW p \in Q PROVE p.request <= FirstDevice(Q).request
      <4>1. p.request = FirstDevice(Q).request /\ p.request \in Int
        BY <2>1, <3>1 DEF Consistent, Waiters, Requests
      <4> QED BY <4>1
    <3> QED BY <3>1
  <2>3. /\ answers' = AnswersDropped(Marked(A, Q, Verdict(W, C)), {}, gone)
        /\ pending' = Forgets({}, gone)
        /\ connected' = C \ gone
        /\ workerOf' = Freed(gone, W)
    <3>1. Q \ done = {}
      BY <2>2
    <3> HIDE DEF ends, gone
    <3> QED BY <1>2, <2>2, <3>1 DEF Evaluate, ends, gone, done
  <2>4. pending' = {} /\ answers' = Marked(A, Q, Verdict(W, C))
    BY <2>3 DEF Forgets, AnswersDropped, Marked
  <2>5. Verdict(W, C) \in {"failed", "acked"}
    BY DEF Verdict
  <2>6. \A q \in Requests : answers'[q] = IF \E p \in Q : p.request = q THEN Verdict(W, C) ELSE A[q]
    BY <2>4 DEF Marked
  <2>7. workerOf' \in [Displays -> WorkerRecs] /\ \A d \in Displays \ connected' : workerOf'[d] = NoWorker
    BY <2>3, WorkerTypes DEF Consistent, Freed
  <2>8. \A q \in Requests : answers'[q] # "pending"
    <3> TAKE q \in Requests
    <3>1. A[q] = "pending" <=> \E p \in Q : p.request = q
      BY DEF Consistent
    <3> QED BY <2>5, <2>6, <3>1
  <2>9. AckedRight(A)
    <3> SUFFICES ASSUME NEW q \in Requests, answers'[q] = "acked", A[q] = "pending",
                        NEW d \in Displays \cap connected'
                 PROVE  workerOf'[d].phase = "active"
      BY DEF AckedRight
    <3>1. Verdict(W, C) = "acked"
      BY <2>6
    <3>2. W[d].phase = "active"
      BY <1>2, <2>3, <3>1 DEF Verdict, AllReady, Routed
    <3>3. d \notin gone
      BY <2>3
    <3> QED BY <2>3, <3>2, <3>3 DEF Freed
  <2>10. answers' \in [Requests -> Verdicts]
    BY <2>4, <2>5 DEF Consistent, Marked, Verdicts
  <2>11. \A q \in Requests : answers'[q] = "none" <=> A[q] = "none"
    <3> TAKE q \in Requests
    <3>1. A[q] = "pending" <=> \E p \in Q : p.request = q
      BY DEF Consistent
    <3> QED BY <2>5, <2>6, <3>1
  <2>12. \A q \in Requests : answers'[q] = A[q] \/ \E p \in Q : p.request = q
    BY <2>6
  <2>13. Consistent(workerOf', connected', pending', answers')
    BY <2>3, <2>4, <2>7, <2>8, <2>10 DEF Consistent
  <2> QED BY <2>3, <2>4, <2>9, <2>11, <2>12, <2>13 DEF Passed
<1> QED BY <1>1, <1>2

AckStep ==
  \A i \in DOMAIN sets :
    answers[sets[i]] = "pending" /\ answers'[sets[i]] = "acked"
      => /\ i = Len(sets')
         /\ \A d \in Displays \cap connected' : workerOf'[d].phase = "active"

\* A step that starts no SET_STATE.
LEMMA SameSets ==
  ASSUME ControlInv, UNCHANGED sets, AckedRight(answers)
  PROVE  AckStep
<1>1. \A i \in DOMAIN sets : sets[i] \in Requests /\ i \in 1 .. Len(sets) /\ Len(sets) \in Nat
  BY DEF ControlInv, Consistent, Newest
<1>2. \A i \in DOMAIN sets : answers[sets[i]] = "pending" => i = Len(sets)
  <2> TAKE i \in DOMAIN sets
  <2> HAVE answers[sets[i]] = "pending"
  <2>1. PICK p \in pending : p.request = sets[i]
    BY <1>1 DEF ControlInv, Consistent
  <2>2. sets[i] = sets[Len(sets)] /\ Len(sets) \in 1 .. Len(sets)
    BY <1>1, <2>1 DEF ControlInv, Newest
  <2> QED BY <1>1, <2>2 DEF ControlInv, Newest
<1> QED BY <1>1, <1>2 DEF AckedRight, AckStep

LEMMA SameNumbers ==
  ASSUME ControlInv, \A q \in Requests : answers'[q] = "none" <=> answers[q] = "none"
  PROVE  AskedInOrder' /\ Asked' = Asked
<1>1. Asked' = Asked
  BY DEF Asked
<1> QED BY <1>1 DEF ControlInv, AskedInOrder

LEMMA EdgeKeeps ==
  ASSUME ControlInv, NEW d \in Displays, NEW w \in WorkerRecs, Edge(d, w),
         UNCHANGED sets, crashes' \in 0 .. MaxCrashes
  PROVE  ControlInv' /\ AckStep
<1>1. Consistent([workerOf EXCEPT ![d] = w], connected, pending, answers)
  BY DEF ControlInv, Consistent, Edge
<1>2. Passed(connected, pending, answers)
  BY <1>1, EvaluateShape DEF Edge
<1>3. AskedInOrder' /\ Asked' = Asked
  BY <1>2, SameNumbers DEF Passed
<1>4. Newest'
  BY <1>2, <1>3 DEF Passed, ControlInv, Newest
<1>5. ControlInv'
  BY <1>2, <1>3, <1>4 DEF Passed, ControlInv
<1> QED BY <1>2, <1>5, SameSets DEF Passed

LEMMA WorkerEdgeKeeps ==
  ASSUME ControlInv, NEW d \in Displays, WorkerEdge(d)
  PROVE  ControlInv' /\ AckStep
<1>1. workerOf[d] \in WorkerRecs /\ crashes \in 0 .. MaxCrashes /\ MaxCrashes \in Nat
  BY ControlAssumption DEF ControlInv, Consistent, Newest
<1>2. [workerOf[d] EXCEPT !.phase = "active", !.blamed = FALSE] \in WorkerRecs
  BY <1>1 DEF WorkerRecs
<1>3. WorkerRetired(workerOf[d], FALSE) \in WorkerRecs
  BY <1>1 DEF WorkerRetired, WorkerRecs
<1>4. Erred(WorkerRetired(workerOf[d], FALSE)) \in WorkerRecs
  BY <1>3 DEF Erred, WorkerRecs
<1>5. [workerOf[d] EXCEPT !.phase = "none"] \in WorkerRecs
  BY <1>1 DEF WorkerRecs
<1>6. Erred([workerOf[d] EXCEPT !.phase = "none"]) \in WorkerRecs
  BY <1>5 DEF Erred, WorkerRecs
<1>7. CASE FirstFrame(d)
  BY <1>1, <1>2, <1>7, EdgeKeeps DEF FirstFrame
<1>8. CASE StartFails(d)
  <2>1. crashes' \in 0 .. MaxCrashes
    BY <1>1, <1>8 DEF StartFails
  <2> QED BY <1>4, <1>8, <2>1, EdgeKeeps DEF StartFails, FailedEdge
<1>9. CASE Crashes(d)
  <2>1. crashes' \in 0 .. MaxCrashes
    BY <1>1, <1>9 DEF Crashes
  <2> QED BY <1>3, <1>9, <2>1, EdgeKeeps DEF Crashes
<1>10. CASE WorkerReaped(d)
  BY <1>1, <1>5, <1>10, WorkerTypes, EdgeKeeps DEF WorkerReaped
<1>11. CASE SpawnFails(d)
  <2>1. crashes' \in 0 .. MaxCrashes
    BY <1>1, <1>11 DEF SpawnFails
  <2> QED BY <1>6, <1>11, <2>1, EdgeKeeps DEF SpawnFails
<1> QED BY <1>7, <1>8, <1>9, <1>10, <1>11 DEF WorkerEdge

LEMMA AppliedTypes ==
  ASSUME NEW W \in [Displays -> WorkerRecs], NEW R, NEW Qs, \A d \in Displays \ connected : W[d] = NoWorker
  PROVE  Applied(W, R, Qs) \in [Displays -> WorkerRecs]
         /\ \A d \in Displays \ connected : Applied(W, R, Qs)[d] = NoWorker
<1>1. ASSUME NEW w \in WorkerRecs, NEW changed \in BOOLEAN, NEW quiesced \in BOOLEAN
      PROVE  Reapplied(w, changed, quiesced) \in WorkerRecs
  <2>1. \A crashed \in BOOLEAN : WorkerRetired(w, crashed) \in WorkerRecs
    BY DEF WorkerRetired, WorkerRecs
  <2>2. [w EXCEPT !.error = FALSE] \in WorkerRecs
    BY DEF WorkerRecs
  <2> QED BY <2>1, <2>2, WorkerTypes DEF Reapplied
<1>2. \A d \in Displays : Reapplied(W[d], d \in R, d \in Qs) \in WorkerRecs
  <2> TAKE d \in Displays
  <2>1. (d \in R) \in BOOLEAN /\ (d \in Qs) \in BOOLEAN /\ W[d] \in WorkerRecs
    OBVIOUS
  <2> QED BY <1>1, <2>1
<1> QED BY <1>2 DEF Applied

LEMMA ClearedTypes ==
  ASSUME ControlInv
  PROVE  Cleared(workerOf) \in [Displays -> WorkerRecs]
         /\ \A d \in Displays \ connected : Cleared(workerOf)[d] = NoWorker
<1>1. \A w \in WorkerRecs : [w EXCEPT !.error = FALSE] \in WorkerRecs
  BY DEF WorkerRecs
<1>2. [NoWorker EXCEPT !.error = FALSE] = NoWorker
  BY WorkerTypes DEF WorkerRecs, NoWorker
<1> QED BY <1>1, <1>2 DEF Cleared, ControlInv, Consistent

\* A new SET_STATE is the newest, and the only one that may be acknowledged.
LEMMA SetStateKeeps ==
  ASSUME ControlInv, NEW asker \in Askers, NEW R \in SUBSET Displays, NEW Qs \in SUBSET Displays,
         NEW device \in BOOLEAN, SetState(asker, R, Qs, device)
  PROVE  ControlInv' /\ AckStep
<1> DEFINE noted == Marked([answers EXCEPT ![NextRequest] = "pending"], pending, "superseded")
           W == Applied(Cleared(workerOf), R, Qs)
<1> PICK n : n = NextRequest
  OBVIOUS
<1> DEFINE new == [client |-> asker, request |-> n, device |-> device]
<1>1. n \in Requests /\ n \notin Asked /\ Asked \cup {n} = 1 .. n /\ asker \in connected /\ sets' = Append(sets, n)
  BY NextIsNew DEF SetState, ControlInv
<1>2. Evaluate(W, connected, {new}, noted) /\ crashes' = crashes
  BY DEF SetState, Cancelled
<1>3. W \in [Displays -> WorkerRecs] /\ \A d \in Displays \ connected : W[d] = NoWorker
  BY ClearedTypes, AppliedTypes
<1>4. \A p \in pending : p.request \in Requests /\ answers[p.request] = "pending" /\ p.request \in Asked
  BY DEF ControlInv, Consistent, Newest, Waiters, Asked
<1>5. noted \in [Requests -> Verdicts]
  BY <1>1 DEF Marked, Verdicts, ControlInv, Consistent, Newest
<1>6. \A q \in Requests : noted[q] = IF \E p \in pending : p.request = q THEN "superseded"
                                    ELSE IF q = n THEN "pending" ELSE answers[q]
  BY <1>1 DEF Marked, ControlInv, Consistent, Newest
<1>7. \A q \in Requests : noted[q] = "pending" <=> q = n
  <2> TAKE q \in Requests
  <2>1. (\E p \in pending : p.request = q) => q # n /\ noted[q] = "superseded"
    <3>1. (\E p \in pending : p.request = q) => q \in Asked
      BY <1>4
    <3> QED BY <1>1, <1>6, <3>1
  <2>2. ~(\E p \in pending : p.request = q) => answers[q] # "pending"
    BY DEF ControlInv, Consistent
  <2> QED BY <1>6, <2>1, <2>2
<1>8. \A q \in Requests : noted[q] # "none" <=> q \in Asked \cup {n}
  BY <1>4, <1>6 DEF Asked
<1>9. new \in Waiters /\ new.request = n /\ new.client = asker
  BY <1>1 DEF Waiters
<1>10. Passed(connected, {new}, noted)
  <2> HIDE DEF noted, W, new
  <2>1. \A q \in Requests : noted[q] = "pending" <=> \E p \in {new} : p.request = q
    BY <1>7, <1>9
  <2>2. (\A p \in {new} : p.client \in connected) /\ (\A p, r \in {new} : p = r) /\ {new} \subseteq Waiters
    BY <1>1, <1>9
  <2>3. connected \subseteq Askers
    BY DEF ControlInv, Consistent
  <2>4. Consistent(W, connected, {new}, noted)
    BY <1>3, <1>5, <2>1, <2>2, <2>3 DEF Consistent
  <2> QED BY <1>2, <2>4, EvaluateShape
<1>11. Asked' = Asked \cup {n} /\ AskedInOrder'
  <2>1. Asked' = Asked \cup {n}
    <3>1. \A q \in Requests : answers'[q] # "none" <=> noted[q] # "none"
      BY <1>10 DEF Passed
    <3>2. \A q \in Requests : answers'[q] # "none" <=> q \in Asked \cup {n}
      BY <1>8, <3>1
    <3>3. Asked' = {q \in Requests : answers'[q] # "none"} /\ Asked \subseteq Requests
      BY DEF Asked
    <3> QED BY <1>1, <3>2, <3>3
  <2>2. n \in 0 .. MaxRequests
    BY <1>1, ControlAssumption DEF Requests
  <2> QED BY <1>1, <2>1, <2>2 DEF AskedInOrder
<1>12. /\ sets' \in Seq(Requests) /\ Len(sets') = Len(sets) + 1 /\ sets'[Len(sets')] = n /\ Len(sets) \in Nat
       /\ \A i \in 1 .. Len(sets) : sets'[i] = sets[i] /\ sets[i] # n
  BY <1>1 DEF ControlInv, Consistent, Newest
<1>13. Newest'
  <2>1. \A p \in pending' : Len(sets') > 0 /\ p.request = sets'[Len(sets')]
    BY <1>9, <1>10, <1>12 DEF Passed
  <2>2. \A i \in 1 .. Len(sets') : i \in 1 .. Len(sets) \/ i = Len(sets')
    BY <1>12
  <2>3. \A i \in 1 .. Len(sets') : sets'[i] \in Asked'
    BY <1>11, <1>12, <2>2 DEF ControlInv, Newest
  <2>4. \A i, j \in 1 .. Len(sets') : sets'[i] = sets'[j] => i = j
    BY <1>12, <2>2 DEF ControlInv, Newest
  <2> QED BY <1>12, <2>1, <2>3, <2>4 DEF Newest
<1>14. AckStep
  <2> SUFFICES ASSUME NEW i \in DOMAIN sets, answers[sets[i]] = "pending", answers'[sets[i]] = "acked"
               PROVE  FALSE
    BY DEF AckStep
  <2>1. sets[i] \in Requests /\ sets[i] # n
    BY <1>12 DEF ControlInv, Newest
  <2>2. noted[sets[i]] = "superseded"
    BY <1>6, <2>1 DEF ControlInv, Consistent
  <2>3. answers'[sets[i]] = noted[sets[i]]
    BY <1>9, <1>10, <2>1 DEF Passed
  <2> QED BY <2>2, <2>3
<1> QED BY <1>2, <1>10, <1>11, <1>13, <1>14 DEF ControlInv, Passed

LEMMA FreedTypes ==
  ASSUME NEW W \in [Displays -> WorkerRecs], NEW S, \A d \in Displays \ connected : W[d] = NoWorker
  PROVE  Freed(S, W) \in [Displays -> WorkerRecs]
         /\ \A d \in Displays \ (connected \ S) : Freed(S, W)[d] = NoWorker
BY WorkerTypes DEF Freed

\* Clients that leave take their requests and their workers with them.
LEMMA DroppedShape ==
  ASSUME NEW W, NEW C, NEW Q, NEW A, NEW S, Consistent(W, C, Q, A),
         workerOf' = Freed(S, W), connected' = C \ S,
         pending' = Forgets(Q, S), answers' = AnswersDropped(A, Q, S)
  PROVE  /\ Consistent(workerOf', connected', pending', answers')
         /\ pending' \subseteq Q
         /\ \A q \in Requests : answers'[q] = "none" <=> A[q] = "none"
         /\ \A q \in Requests : answers'[q] = A[q] \/ answers'[q] = "dropped"
<1>1. \A q \in Requests :
        answers'[q] = IF \E p \in Q : p.client \in S /\ p.request = q THEN "dropped" ELSE A[q]
  BY DEF AnswersDropped, Marked
<1>2. answers' \in [Requests -> Verdicts]
  BY DEF AnswersDropped, Marked, Consistent, Verdicts
<1>3. pending' \subseteq Q /\ \A p \in Q : p \in pending' <=> p.client \notin S
  BY DEF Forgets
<1>4. workerOf' \in [Displays -> WorkerRecs] /\ \A d \in Displays \ connected' : workerOf'[d] = NoWorker
  BY WorkerTypes DEF Freed, Consistent
<1>5. \A q \in Requests : answers'[q] = "pending" <=> \E p \in pending' : p.request = q
  <2> TAKE q \in Requests
  <2>1. A[q] = "pending" <=> \E p \in Q : p.request = q
    BY DEF Consistent
  <2>2. \A p, r \in Q : p = r
    BY DEF Consistent
  <2>3. CASE \E p \in Q : p.request = q
    <3>1. PICK p \in Q : p.request = q
      BY <2>3
    <3>2. answers'[q] = IF p.client \in S THEN "dropped" ELSE A[q]
      BY <1>1, <2>2, <3>1
    <3>3. (\E r \in pending' : r.request = q) <=> p.client \notin S
      BY <1>3, <2>2, <3>1
    <3> QED BY <2>1, <2>3, <3>2, <3>3
  <2>4. CASE ~\E p \in Q : p.request = q
    BY <1>1, <1>3, <2>1, <2>4
  <2> QED BY <2>3, <2>4
<1>6. \A q \in Requests : answers'[q] = "none" <=> A[q] = "none"
  <2> TAKE q \in Requests
  <2>1. A[q] = "pending" <=> \E p \in Q : p.request = q
    BY DEF Consistent
  <2> QED BY <1>1, <2>1
<1>7. (\A p \in pending' : p.client \in connected') /\ (\A p, r \in pending' : p = r)
      /\ pending' \subseteq Waiters /\ connected' \subseteq Askers
  BY <1>3 DEF Consistent
<1>8. Consistent(workerOf', connected', pending', answers')
  BY <1>2, <1>4, <1>5, <1>7 DEF Consistent
<1> QED BY <1>1, <1>3, <1>6, <1>8

\* A step that only takes requests out of the queue leaves the newest one there.
LEMMA NewestKept ==
  ASSUME Newest, UNCHANGED sets, pending' \subseteq pending, Asked \subseteq Asked'
  PROVE  Newest'
BY DEF Newest

LEMMA ControlKeeps ==
  ASSUME ControlInv, NEW asker \in Askers, NEW R \in SUBSET Displays, NEW Qs \in SUBSET Displays,
         NEW device \in BOOLEAN, Control(asker, R, Qs, device)
  PROVE  ControlInv' /\ AckStep
<1> PICK n : n = NextRequest
  OBVIOUS
<1> PICK S : S = IF device THEN Routed(connected) \ {asker} ELSE {}
  OBVIOUS
<1> DEFINE noted == [answers EXCEPT ![n] = "acked"]
           W == Applied(workerOf, R, Qs)
<1>1. n \in Requests /\ n \notin Asked /\ Asked \cup {n} = 1 .. n
  BY NextIsNew DEF Control, ControlInv
<1>2. /\ connected' = connected \ S /\ workerOf' = Freed(S, W) /\ pending' = Forgets(pending, S)
      /\ answers' = AnswersDropped(noted, pending, S) /\ sets' = sets /\ crashes' = crashes
  BY DEF Control
<1>3. W \in [Displays -> WorkerRecs] /\ \A d \in Displays \ connected : W[d] = NoWorker
  BY AppliedTypes DEF ControlInv, Consistent
<1>4. noted \in [Requests -> Verdicts] /\ noted[n] = "acked" /\ \A q \in Requests \ {n} : noted[q] = answers[q]
  BY <1>1 DEF Verdicts, ControlInv, Consistent
<1>5. answers[n] = "none"
  BY <1>1 DEF Asked
<1>6. \A q \in Requests : noted[q] = "pending" <=> \E p \in pending : p.request = q
  <2> TAKE q \in Requests
  <2>1. answers[q] = "pending" <=> \E p \in pending : p.request = q
    BY DEF ControlInv, Consistent
  <2> QED BY <1>4, <1>5, <2>1
<1>7. Consistent(W, connected, pending, noted)
  <2> HIDE DEF noted, W
  <2> QED BY <1>3, <1>4, <1>6 DEF ControlInv, Consistent
<1>8. /\ Consistent(workerOf', connected', pending', answers')
      /\ pending' \subseteq pending
      /\ \A q \in Requests : answers'[q] = "none" <=> noted[q] = "none"
      /\ \A q \in Requests : answers'[q] = noted[q] \/ answers'[q] = "dropped"
  <2> HIDE DEF noted, W
  <2> QED BY <1>2, <1>7, DroppedShape
<1>9. Asked' = Asked \cup {n} /\ AskedInOrder'
  <2>1. \A q \in Requests : answers'[q] # "none" <=> q \in Asked \cup {n}
    <3> TAKE q \in Requests
    <3> QED BY <1>1, <1>4, <1>8 DEF Asked
  <2>2. Asked' = {q \in Requests : answers'[q] # "none"} /\ Asked \subseteq Requests
    BY DEF Asked
  <2>3. Asked' = Asked \cup {n}
    BY <1>1, <2>1, <2>2
  <2>4. n \in 0 .. MaxRequests
    BY <1>1, ControlAssumption DEF Requests
  <2> QED BY <1>1, <2>3, <2>4 DEF AskedInOrder
<1>10. Newest'
  BY <1>2, <1>8, <1>9, NewestKept DEF ControlInv
<1>11. AckedRight(answers)
  <2>1. \A q \in Requests : answers[q] = "pending" => answers'[q] # "acked"
    BY <1>4, <1>5, <1>8
  <2> QED BY <2>1 DEF AckedRight
<1>12. AckStep
  BY <1>2, <1>11, SameSets
<1> QED BY <1>2, <1>8, <1>9, <1>10, <1>12 DEF ControlInv

LEMMA RefusedKeeps ==
  ASSUME ControlInv, NEW asker \in Askers, Refused(asker)
  PROVE  ControlInv' /\ AckStep
<1> PICK n : n = NextRequest
  OBVIOUS
<1>1. n \in Requests /\ n \notin Asked /\ Asked \cup {n} = 1 .. n
  BY NextIsNew DEF Refused, ControlInv
<1>2. answers' = [answers EXCEPT ![n] = "refused"]
      /\ UNCHANGED << connected, workerOf, pending, sets, crashes >>
  BY DEF Refused
<1>3. answers' \in [Requests -> Verdicts] /\ answers'[n] = "refused"
      /\ \A q \in Requests \ {n} : answers'[q] = answers[q]
  BY <1>1, <1>2 DEF Verdicts, ControlInv, Consistent
<1>4. answers[n] = "none"
  BY <1>1 DEF Asked
<1>5. \A q \in Requests : answers'[q] = "pending" <=> \E p \in pending : p.request = q
  <2> TAKE q \in Requests
  <2>1. answers[q] = "pending" <=> \E p \in pending : p.request = q
    BY DEF ControlInv, Consistent
  <2> QED BY <1>3, <1>4, <2>1
<1>6. Consistent(workerOf', connected', pending', answers')
  BY <1>2, <1>3, <1>5 DEF ControlInv, Consistent
<1>7. Asked' = Asked \cup {n} /\ AskedInOrder'
  <2>1. \A q \in Requests : answers'[q] # "none" <=> q \in Asked \cup {n}
    <3> TAKE q \in Requests
    <3> QED BY <1>1, <1>3 DEF Asked
  <2>2. Asked' = {q \in Requests : answers'[q] # "none"} /\ Asked \subseteq Requests
    BY DEF Asked
  <2>3. Asked' = Asked \cup {n}
    BY <1>1, <2>1, <2>2
  <2>4. n \in 0 .. MaxRequests
    BY <1>1, ControlAssumption DEF Requests
  <2> QED BY <1>1, <2>3, <2>4 DEF AskedInOrder
<1>8. Newest'
  BY <1>2, <1>7, NewestKept DEF ControlInv
<1>9. AckedRight(answers)
  <2>1. \A q \in Requests : answers[q] = "pending" => answers'[q] # "acked"
    BY <1>3, <1>4
  <2> QED BY <2>1 DEF AckedRight
<1> QED BY <1>2, <1>6, <1>7, <1>8, <1>9, SameSets DEF ControlInv

LEMMA AskersKeep ==
  ASSUME ControlInv, NEW asker \in Askers, AskerConnects(asker) \/ AskerLeaves(asker)
  PROVE  ControlInv' /\ AckStep
<1>1. CASE AskerConnects(asker)
  <2>1. Consistent(workerOf', connected', pending', answers')
    BY <1>1, WorkerTypes DEF AskerConnects, ControlInv, Consistent
  <2>2. AskedInOrder' /\ Asked' = Asked
    BY <1>1, SameNumbers DEF AskerConnects
  <2>3. Newest'
    BY <1>1, <2>2, NewestKept DEF AskerConnects, ControlInv
  <2>4. AckedRight(answers)
    BY <1>1 DEF AskerConnects, AckedRight
  <2> QED BY <1>1, <2>1, <2>2, <2>3, <2>4, SameSets DEF AskerConnects, ControlInv
<1>2. CASE AskerLeaves(asker)
  <2>1. /\ Consistent(workerOf', connected', pending', answers')
        /\ pending' \subseteq pending
        /\ \A q \in Requests : answers'[q] = "none" <=> answers[q] = "none"
        /\ \A q \in Requests : answers'[q] = answers[q] \/ answers'[q] = "dropped"
    BY <1>2, DroppedShape DEF AskerLeaves, ControlInv
  <2>2. AskedInOrder' /\ Asked' = Asked
    BY <2>1, SameNumbers
  <2>3. Newest'
    BY <1>2, <2>1, <2>2, NewestKept DEF AskerLeaves, ControlInv
  <2>4. AckedRight(answers)
    BY <2>1 DEF AckedRight
  <2> QED BY <1>2, <2>1, <2>2, <2>3, <2>4, SameSets DEF AskerLeaves, ControlInv
<1> QED BY <1>1, <1>2

LEMMA ControlInitInv == ControlInit => ControlInv
<1> SUFFICES ASSUME ControlInit PROVE ControlInv
  OBVIOUS
<1>1. Consistent(workerOf, connected, pending, answers)
  BY WorkerTypes DEF ControlInit, Consistent, Verdicts
<1>2. Asked = 1 .. 0 /\ 0 \in 0 .. MaxRequests
  BY ControlAssumption DEF ControlInit, Asked
<1>3. AskedInOrder
  BY <1>2 DEF AskedInOrder
<1>4. sets = << >> /\ pending = {} /\ << >> \in Seq(Requests) /\ Len(<< >>) = 0
  BY DEF ControlInit
<1>5. Newest
  BY <1>4 DEF Newest
<1> QED BY <1>1, <1>3, <1>5, ControlAssumption DEF ControlInit, ControlInv

LEMMA ControlInvStep == ControlInv /\ [ControlNext]_controlVars => ControlInv' /\ [AckStep]_controlVars
<1> SUFFICES ASSUME ControlInv, [ControlNext]_controlVars PROVE ControlInv' /\ [AckStep]_controlVars
  OBVIOUS
<1>1. ASSUME NEW d \in Displays, WorkerEdge(d) PROVE ControlInv' /\ AckStep
  BY <1>1, WorkerEdgeKeeps
<1>2. ASSUME NEW asker \in Askers, Request(asker) PROVE ControlInv' /\ AckStep
  <2>1. CASE Refused(asker)
    BY <2>1, RefusedKeeps
  <2>2. ASSUME NEW R \in SUBSET Displays, NEW Qs \in SUBSET Displays, NEW device \in BOOLEAN,
               SetState(asker, R, Qs, device) \/ Control(asker, R, Qs, device)
        PROVE  ControlInv' /\ AckStep
    BY <2>2, SetStateKeeps, ControlKeeps
  <2> QED BY <1>2, <2>1, <2>2 DEF Request
<1>3. ASSUME NEW asker \in Askers, AskerConnects(asker) \/ AskerLeaves(asker) PROVE ControlInv' /\ AckStep
  BY <1>3, AskersKeep
<1>4. CASE UNCHANGED controlVars
  BY <1>4 DEF controlVars, ControlInv, Consistent, AskedInOrder, Newest, Asked
<1> QED BY <1>1, <1>2, <1>3, <1>4 DEF ControlNext

LEMMA ControlInvTyped == ControlInv => ControlTypeOK
<1> SUFFICES ASSUME ControlInv PROVE ControlTypeOK
  OBVIOUS
<1>1. \A p \in pending : p.client \in connected /\ p.request \in Asked
  BY DEF ControlInv, Consistent, Waiters, Asked
<1>2. \A q \in Requests : answers[q] \in Verdicts
  BY DEF ControlInv, Consistent
<1>3. \A d \in Displays : workerOf[d] \in WorkerRecs /\ (d \notin connected => workerOf[d] = NoWorker)
  BY DEF ControlInv, Consistent
<1> QED BY <1>1, <1>2, <1>3 DEF ControlInv, Consistent, ControlTypeOK, Verdicts, WorkerRecs

(* A SET_STATE is acknowledged only while it is the newest one, and only in  *)
(* a step after which every display left runs a worker of the settings      *)
(* wanted then (producer_evaluate_pending_control_acks).                    *)
THEOREM AckHolds == ControlSpec => AckIsCurrent
<1>1. ControlInit => ControlInv
  BY ControlInitInv
<1>2. ControlInv /\ [ControlNext]_controlVars => ControlInv' /\ [AckStep]_controlVars
  BY ControlInvStep
<1>3. ControlInv => ControlTypeOK
  BY ControlInvTyped
<1> QED BY <1>1, <1>2, <1>3, PTL DEF ControlSpec, AckIsCurrent, AckStep
-----------------------------------------------------------------------------
(* Automatic playback.  The policy is what the linked displays' last       *)
(* reports ask for, as long as it has been made since they were linked and *)
(* no new binding lost a report before.                                    *)

Replays(d) == [raw : 0 .. 3, requested : 0 .. 3, timer : BOOLEAN, gen : 0 .. d]
Policies   == [mute : BOOLEAN, pause : BOOLEAN, stop : BOOLEAN]
Orders     == [mute : BOOLEAN, paused : BOOLEAN, stopped : BOOLEAN]
Places     == {"gone", "off", "own", "shared"}

\* A replay state is of what its output contributes: what holds playback is requested at
\* once, and what does not may wait for the end of a delay or have outlived one.
OfReport(p, A) ==
  /\ p.raw = Rank(A)
  /\ p.raw >= 2 => p.requested = p.raw /\ ~p.timer
  /\ p.raw < 2 => p.requested \in {p.raw, 3}
  /\ p.timer => p.requested = 3 /\ p.gen > 0

RepliesTyped ==
  /\ replay \in [Monitors -> [raw : 0 .. 3, requested : 0 .. 3, timer : BOOLEAN, gen : Nat]]
  /\ \A m \in Monitors : replay[m] \in Replays(MaxDelays[m])
  /\ \A m \in Monitors : OfReport(replay[m], asks[m])

LateTyped ==
  /\ late \in [Monitors -> Seq(Nat)]
  /\ \A m \in Monitors : late[m] \in Seq(1 .. MaxDelays[m]) /\ Len(late[m]) <= MaxLate[m]

\* Displays share a route or have one each.
PlacesTyped ==
  /\ shared \in BOOLEAN /\ served \in [Monitors -> Places]
  /\ \A m \in Monitors : served[m] = "shared" => shared
  /\ \A m, n \in Monitors : ~(served[m] = "shared" /\ served[n] = "own")

PolicyTyped ==
  /\ playing \in BOOLEAN /\ lapsed \in BOOLEAN /\ unheard \in SUBSET Monitors
  /\ asks \in [Monitors -> SUBSET Flags] /\ wants \in [Monitors -> SUBSET Flags]
  /\ \A m \in Monitors : asks[m] \in {wants[m], {}}
  /\ policy \in Policies /\ routePause \in [Routes -> BOOLEAN]
  /\ told \in [Routes -> Orders]

\* What a renderer is told follows from the policy and its route.
TellsRoute(r, o) ==
  LET idle == Members(r, served) = {}
  IN /\ o.mute <=> policy.mute
     /\ o.stopped <=> policy.stop \/ idle
     /\ o.paused <=> idle \/ policy.pause \/ (r # Clone /\ routePause[r]) \/ policy.stop \/ ~playing

\* The policy has what display m asks for.
Covered(m) ==
  /\ "mute" \in wants[m] => policy.mute
  /\ "stop" \in wants[m] => policy.stop
  /\ "all" \in wants[m] => policy.pause
  /\ "one" \in wants[m] => IF served[m] = "shared" THEN policy.pause ELSE routePause[m]
Covers == \A m \in On(served) \ unheard : Covered(m)

\* Everything in the policy is asked for.
AskedOf(r) == \E m \in On(served) : "all" \in wants[m] \/ (m \in Members(r, served) /\ "one" \in wants[m])
Needed ==
  /\ policy.mute => \E m \in On(served) : "mute" \in wants[m]
  /\ policy.stop => \E m \in On(served) : "stop" \in wants[m] \/ CutShort(replay[m])
  /\ policy.pause => \E m \in On(served) : "all" \in wants[m] \/ (served[m] = "shared" /\ "one" \in wants[m])
  /\ \A r \in Routes : routePause[r] => AskedOf(r)

PolicyInv ==
  /\ PolicyTyped /\ PlacesTyped /\ RepliesTyped /\ LateTyped
  /\ \A r \in Routes : TellsRoute(r, told[r])
  /\ Covers
  /\ ~lapsed => Needed

\* What a replay state does to the policy, beside what its output contributes.
Counts(p, A, isCut) ==
  /\ Effective(p) = 3 => "stop" \in A \/ isCut
  /\ Effective(p) = 1 => "mute" \in A

LEMMA ReportCounts ==
  ASSUME NEW A \in SUBSET Flags, NEW d, NEW p \in Replays(d), OfReport(p, A)
  PROVE  Counts(p, A, CutShort(p))
<1>1. p.raw \in 0 .. 3 /\ p.requested \in 0 .. 3 /\ p.timer \in BOOLEAN /\ p.raw = Rank(A)
  BY DEF OfReport, Replays
<1>2. (p.raw = 3 => "stop" \in A) /\ (p.raw = 1 => "mute" \in A)
  BY <1>1 DEF Rank
<1>3. CASE p.timer
  BY <1>1, <1>2, <1>3 DEF OfReport, Effective, Counts
<1>4. CASE ~p.timer
  <2>1. Effective(p) = p.requested
    BY <1>4 DEF Effective
  <2>2. CASE p.raw >= 2
    BY <1>1, <1>2, <2>1, <2>2 DEF OfReport, Counts
  <2>3. CASE p.raw < 2
    BY <1>1, <1>2, <1>4, <2>1, <2>3 DEF OfReport, CutShort, Counts
  <2> QED BY <1>1, <2>2, <2>3
<1> QED BY <1>1, <1>3, <1>4

LEMMA UpdatedFollows ==
  ASSUME NEW A, NEW B, NEW d \in Nat, NEW p \in Replays(d), OfReport(p, A), NEW other \in BOOLEAN,
         Updated(p, Rank(B), other).gen <= d
  PROVE  Updated(p, Rank(B), other) \in Replays(d) /\ OfReport(Updated(p, Rank(B), other), B)
<1> DEFINE u == Updated(p, Rank(B), other)
<1>1. Rank(B) \in 0 .. 3
  BY DEF Rank
<1>2. /\ p.raw \in 0 .. 3 /\ p.requested \in 0 .. 3 /\ p.timer \in BOOLEAN /\ p.gen \in 0 .. d
      /\ p = [raw |-> p.raw, requested |-> p.requested, timer |-> p.timer, gen |-> p.gen]
  BY DEF Replays
<1>3. CASE Rank(B) = p.raw /\ ~other
  <2>1. u = p
    BY <1>3 DEF Updated
  <2> QED BY <1>3, <2>1 DEF OfReport
<1>4. CASE (Rank(B) # p.raw \/ other) /\ Rank(B) < 2 /\ p.requested = 3
  <2>1. u = [raw |-> Rank(B), requested |-> 3, timer |-> TRUE, gen |-> p.gen + 1]
    BY <1>4 DEF Updated
  <2>2. u.gen <= d
    OBVIOUS
  <2> QED BY <1>1, <1>2, <1>4, <2>1, <2>2 DEF Replays, OfReport
<1>5. CASE ~(Rank(B) = p.raw /\ ~other) /\ ~((Rank(B) # p.raw \/ other) /\ Rank(B) < 2 /\ p.requested = 3)
  <2>1. u = [raw |-> Rank(B), requested |-> Rank(B), timer |-> FALSE, gen |-> p.gen]
    BY <1>5 DEF Updated
  <2> QED BY <1>1, <1>2, <2>1 DEF Replays, OfReport
<1> QED BY <1>3, <1>4, <1>5

\* The order to a renderer of route r, muted as t was.
Ordered(o, t, idle, P, halted, play) ==
  /\ o \in Orders /\ o.mute = t.mute
  /\ o.stopped <=> P.stop \/ idle
  /\ o.paused <=> idle \/ P.pause \/ halted \/ P.stop \/ ~play

LEMMA PlaybackTells ==
  ASSUME NEW L, NEW P \in Policies, NEW RP \in [Routes -> BOOLEAN], NEW play \in BOOLEAN,
         NEW T \in [Routes -> Orders], NEW r \in Routes
  PROVE  Ordered(Playback(L, P, RP, play, T)[r], T[r], Members(r, L) = {}, P, r # Clone /\ RP[r], play)
  BY DEF Playback, Orders, Policies, Ordered

LEMMA PlaybackTypes ==
  ASSUME NEW L, NEW P \in Policies, NEW RP \in [Routes -> BOOLEAN], NEW play \in BOOLEAN,
         NEW T \in [Routes -> Orders]
  PROVE  Playback(L, P, RP, play, T) \in [Routes -> Orders]
<1>1. \A r \in Routes : Playback(L, P, RP, play, T)[r] \in Orders
  BY PlaybackTells DEF Ordered
<1> QED BY <1>1 DEF Playback

LEMMA MutedTypes ==
  ASSUME NEW P \in Policies, NEW T \in [Routes -> Orders]
  PROVE  /\ Muted(P, T) \in [Routes -> Orders]
         /\ \A r \in Routes : Muted(P, T)[r].mute = P.mute
  BY DEF Muted, Orders, Policies

LEMMA LinkedAreMonitors == ASSUME NEW L PROVE On(L) \in SUBSET Monitors
BY DEF On

LEMMA MergedShape ==
  ASSUME NEW L, NEW A \in [Monitors -> SUBSET Flags], NEW R, NEW C,
         \A m \in Monitors : Counts(R[m], A[m], m \in C)
  PROVE  LET P == Merged(L, A, R)
         IN /\ P \in Policies
            /\ P.mute <=> \E m \in On(L) : "mute" \in A[m]
            /\ P.pause <=> \E m \in On(L) : "all" \in A[m] \/ (L[m] = "shared" /\ "one" \in A[m])
            /\ P.stop => \E m \in On(L) : "stop" \in A[m] \/ m \in C
            /\ (\E m \in On(L) : "stop" \in A[m]) => P.stop
<1>1. \A m \in On(L) : /\ Effective(R[m]) = 3 => "stop" \in A[m] \/ m \in C
                       /\ Effective(R[m]) = 1 => "mute" \in A[m]
  BY LinkedAreMonitors DEF Counts
<1> QED BY <1>1 DEF Merged, Policies

\* Making the policy again makes it true of the reports.
LEMMA SynthesizeKeeps ==
  ASSUME PolicyInv, UNCHANGED << shared, served, playing >>,
         asks' \in [Monitors -> SUBSET Flags], wants' \in [Monitors -> SUBSET Flags],
         \A m \in Monitors : asks'[m] \in {wants'[m], {}}, RepliesTyped', LateTyped',
         NEW R, \A m \in Monitors : Counts(R[m], asks'[m], CutShort(replay'[m])),
         Synthesize(asks', R)
  PROVE  PolicyInv'
<1> PICK A : A = asks'
  OBVIOUS
<1> PICK P : P = Merged(served, A, R)
  OBVIOUS
<1> PICK RP : RP = [r \in Routes |-> PausesRoute(r, served, A)]
  OBVIOUS
<1> PICK C : C = {m \in Monitors : CutShort(replay'[m])}
  OBVIOUS
<1>0. PolicyTyped /\ PlacesTyped /\ \A m \in Monitors : Counts(R[m], A[m], m \in C)
  BY DEF PolicyInv, Counts
<1>1. /\ P \in Policies
      /\ P.mute <=> \E m \in On(served) : "mute" \in A[m]
      /\ P.pause <=> \E m \in On(served) : "all" \in A[m] \/ (served[m] = "shared" /\ "one" \in A[m])
      /\ P.stop => \E m \in On(served) : "stop" \in A[m] \/ m \in C
      /\ (\E m \in On(served) : "stop" \in A[m]) => P.stop
  BY <1>0, MergedShape
<1>2. RP \in [Routes -> BOOLEAN] /\ \A r \in Routes : RP[r] <=> PausesRoute(r, served, A)
  BY DEF PausesRoute
<1>3. /\ Commit(P, RP) /\ policy' = P /\ routePause' = RP
      /\ unheard' = {m \in Monitors : A[m] # wants'[m]} /\ lapsed' = FALSE
  BY DEF Synthesize, Commit
<1>4. told' \in [Routes -> Orders] /\ \A r \in Routes : TellsRoute(r, told[r])'
  <2>1. CASE P = policy /\ ~RoutesChange(RP)
    <3>1. told' = told /\ policy' = policy
      BY <1>3, <2>1 DEF Commit
    <3>2. \A r \in Routes : ~routePause[r] /\ ~RP[r]
      BY <2>1 DEF RoutesChange
    <3>3. ASSUME NEW r \in Routes PROVE TellsRoute(r, told[r])'
      <4>1. TellsRoute(r, told[r]) /\ (routePause[r] <=> routePause'[r])
        BY <1>3, <3>2 DEF PolicyInv
      <4> QED BY <3>1, <4>1 DEF TellsRoute
    <3> QED BY <1>0, <3>1, <3>3 DEF PolicyTyped
  <2>2. CASE ~(P = policy /\ ~RoutesChange(RP))
    <3> PICK T : T = IF P.mute # policy.mute THEN Muted(P, told) ELSE told
      OBVIOUS
    <3>1. told' = Playback(served, P, RP, playing, T)
      BY <1>3, <2>2 DEF Commit
    <3>2. T \in [Routes -> Orders] /\ \A r \in Routes : T[r].mute <=> P.mute
      <4>1. CASE P.mute # policy.mute
        BY <1>0, <1>1, <4>1, MutedTypes DEF PolicyTyped
      <4>2. CASE P.mute = policy.mute
        <5>1. \A r \in Routes : told[r].mute <=> policy.mute
          BY DEF PolicyInv, TellsRoute
        <5> QED BY <1>0, <4>2, <5>1 DEF PolicyTyped
      <4> QED BY <4>1, <4>2
    <3>3. told' \in [Routes -> Orders]
      BY <1>0, <1>1, <1>2, <3>1, <3>2, PlaybackTypes DEF PolicyTyped
    <3>4. ASSUME NEW r \in Routes PROVE TellsRoute(r, told[r])'
      <4>1. Ordered(told'[r], T[r], Members(r, served) = {}, P, r # Clone /\ RP[r], playing)
        BY <1>0, <1>1, <1>2, <3>1, <3>2, PlaybackTells DEF PolicyTyped
      <4> QED BY <1>3, <3>2, <4>1 DEF TellsRoute, Ordered
    <3> QED BY <3>3, <3>4
  <2> QED BY <2>1, <2>2
<1>5. PolicyTyped' /\ PlacesTyped'
  BY <1>0, <1>1, <1>2, <1>3, <1>4 DEF PolicyTyped, PlacesTyped
<1>6. Covers'
  <2> SUFFICES ASSUME NEW m \in On(served), m \notin unheard' PROVE Covered(m)'
    BY DEF Covers, On
  <2>1. m \in Monitors /\ wants'[m] = A[m] /\ served[m] \in {"own", "shared"}
    BY <1>3 DEF On
  <2>2. served[m] # "shared" /\ "one" \in A[m] => RP[m]
    <3>1. served[m] # "shared" => m \in Routes /\ m \in Members(m, served)
      BY <2>1 DEF Routes, Members, RouteFor
    <3> QED BY <1>2, <3>1 DEF PausesRoute
  <2> QED BY <1>1, <1>3, <2>1, <2>2 DEF Covered
<1>7. Needed'
  <2>1. \A m \in On(served) : A[m] \subseteq wants'[m]
    BY LinkedAreMonitors
  <2>2. ASSUME NEW r \in Routes, RP[r] PROVE AskedOf(r)'
    <3>1. PICK m \in On(served) : "all" \in A[m] \/ (m \in Members(r, served) /\ "one" \in A[m])
      BY <1>2, <2>2 DEF PausesRoute
    <3> QED BY <2>1, <3>1 DEF AskedOf, On, Members, RouteFor
  <2>3. P.stop => \E m \in On(served) : "stop" \in wants'[m] \/ CutShort(replay'[m])
    BY <1>1, <2>1, LinkedAreMonitors
  <2>4. P.mute => \E m \in On(served) : "mute" \in wants'[m]
    BY <1>1, <2>1
  <2>5. P.pause => \E m \in On(served) : "all" \in wants'[m] \/ (served[m] = "shared" /\ "one" \in wants'[m])
    BY <1>1, <2>1
  <2>6. On(served)' = On(served) /\ \A m : CutShort(replay[m])' <=> CutShort(replay'[m])
    BY DEF On, CutShort
  <2>7. policy' = P /\ routePause' = RP /\ served' = served
    BY <1>3
  <2> QED BY <2>2, <2>3, <2>4, <2>5, <2>6, <2>7 DEF Needed
<1> QED BY <1>3, <1>4, <1>5, <1>6, <1>7 DEF PolicyInv

LEMMA ReportsKeeps ==
  ASSUME PolicyInv, NEW m \in Monitors, NEW flags \in SUBSET Flags, NEW other \in BOOLEAN, Reports(m, flags, other)
  PROVE  PolicyInv'
<1>0. PolicyTyped /\ RepliesTyped /\ LateTyped /\ MaxDelays \in [Monitors -> Nat]
  BY PolicyAssumption DEF PolicyInv
<1> DEFINE u == Updated(replay[m], Rank(flags), other)
<1>1. /\ asks' = [asks EXCEPT ![m] = flags] /\ wants' = [wants EXCEPT ![m] = flags]
      /\ replay' = [replay EXCEPT ![m] = u] /\ replay'[m].gen <= MaxDelays[m]
      /\ UNCHANGED << shared, served, playing, late >>
  BY DEF Reports
<1>2. u \in Replays(MaxDelays[m]) /\ OfReport(u, flags)
  <2>1. replay'[m] = u
    BY <1>0, <1>1 DEF RepliesTyped
  <2>2. u.gen <= MaxDelays[m] /\ MaxDelays[m] \in Nat
    BY <1>0, <1>1, <2>1
  <2> QED BY <1>0, <2>2, UpdatedFollows DEF RepliesTyped
<1> HIDE DEF u
<1>3. RepliesTyped'
  <2>1. u \in [raw : 0 .. 3, requested : 0 .. 3, timer : BOOLEAN, gen : Nat]
    BY <1>2 DEF Replays
  <2>2. replay' \in [Monitors -> [raw : 0 .. 3, requested : 0 .. 3, timer : BOOLEAN, gen : Nat]]
    BY <1>0, <1>1, <2>1 DEF RepliesTyped
  <2>3. ASSUME NEW n \in Monitors PROVE replay'[n] \in Replays(MaxDelays[n]) /\ OfReport(replay'[n], asks'[n])
    <3>1. CASE n = m
      <4>1. replay'[n] = u /\ asks'[n] = flags
        BY <1>0, <1>1, <3>1 DEF RepliesTyped, PolicyTyped
      <4> QED BY <1>2, <3>1, <4>1
    <3>2. CASE n # m
      <4>1. replay'[n] = replay[n] /\ asks'[n] = asks[n]
        BY <1>0, <1>1, <3>2 DEF RepliesTyped, PolicyTyped
      <4> QED BY <1>0, <4>1 DEF RepliesTyped
    <3> QED BY <3>1, <3>2
  <2> QED BY <2>2, <2>3 DEF RepliesTyped, OfReport
<1>4. asks' \in [Monitors -> SUBSET Flags] /\ wants' \in [Monitors -> SUBSET Flags] /\ \A n \in Monitors : asks'[n] \in {wants'[n], {}}
  BY <1>0, <1>1 DEF PolicyTyped
<1>5. \A n \in Monitors : Counts(replay'[n], asks'[n], CutShort(replay'[n]))
  <2> TAKE n \in Monitors
  <2>1. replay'[n] \in Replays(MaxDelays[n]) /\ OfReport(replay'[n], asks'[n]) /\ asks'[n] \in SUBSET Flags
    BY <1>3, <1>4 DEF RepliesTyped, OfReport
  <2> QED BY <2>1, ReportCounts
<1>6. LateTyped'
  BY <1>0, <1>1 DEF LateTyped
<1>7. Synthesize(asks', replay')
  BY DEF Reports
<1> QED BY <1>1, <1>3, <1>4, <1>5, <1>6, <1>7, SynthesizeKeeps

\* A timer that is of the replay state ends its delay.
LEMMA DelayEnds ==
  ASSUME PolicyInv, NEW m \in Monitors, UNCHANGED << shared, served, asks, wants, playing >>, LateTyped',
         Synthesize(asks, [replay EXCEPT ![m].requested = replay[m].raw]),
         replay' = [replay EXCEPT ![m].requested = replay[m].raw, ![m].timer = FALSE]
  PROVE  PolicyInv'
<1> DEFINE Q == [raw : 0 .. 3, requested : 0 .. 3, timer : BOOLEAN, gen : Nat]
<1> PICK R : R = [replay EXCEPT ![m].requested = replay[m].raw]
  OBVIOUS
<1>0. PolicyTyped /\ RepliesTyped
  BY DEF PolicyInv
<1>1. /\ replay \in [Monitors -> Q]
      /\ \A n \in Monitors : replay[n] \in Replays(MaxDelays[n]) /\ OfReport(replay[n], asks[n]) /\ asks[n] \in SUBSET Flags
  BY <1>0 DEF RepliesTyped, PolicyTyped
<1>2. \A n \in Monitors \ {m} : replay'[n] = replay[n] /\ R[n] = replay[n]
  BY <1>1
<1>3. /\ replay'[m] = [replay[m] EXCEPT !.requested = replay[m].raw, !.timer = FALSE]
      /\ R[m] = [replay[m] EXCEPT !.requested = replay[m].raw]
      /\ replay' \in [Monitors -> Q]
  BY <1>1
<1>4. replay'[m] \in Replays(MaxDelays[m]) /\ OfReport(replay'[m], asks[m])
  BY <1>1, <1>3 DEF Replays, OfReport
<1>5. RepliesTyped'
  <2>1. \A n \in Monitors : replay'[n] \in Replays(MaxDelays[n]) /\ OfReport(replay'[n], asks'[n])
    BY <1>1, <1>2, <1>4
  <2> QED BY <1>3, <2>1 DEF RepliesTyped, OfReport
<1>6. \A n \in Monitors : Counts(R[n], asks'[n], CutShort(replay'[n]))
  <2>1. ASSUME NEW n \in Monitors \ {m} PROVE Counts(R[n], asks'[n], CutShort(replay'[n]))
    BY <1>1, <1>2, ReportCounts
  <2>2. Counts(R[m], asks'[m], CutShort(replay'[m]))
    <3>1. Effective(R[m]) = Rank(asks[m])
      BY <1>1, <1>3 DEF Effective, OfReport, Replays
    <3> QED BY <3>1 DEF Counts, Rank
  <2> QED BY <2>1, <2>2
<1>7. Synthesize(asks', R)
  OBVIOUS
<1>8. asks' \in [Monitors -> SUBSET Flags] /\ wants' \in [Monitors -> SUBSET Flags] /\ \A n \in Monitors : asks'[n] \in {wants'[n], {}}
  BY <1>0 DEF PolicyTyped
<1> QED BY <1>5, <1>6, <1>7, <1>8, SynthesizeKeeps

\* Whoever is linked, wanted and told stays so, and a stop stays asked for.
LEMMA QuietKeeps ==
  ASSUME PolicyInv, UNCHANGED << shared, served, wants, policy, routePause, playing, told, unheard, lapsed >>,
         asks' \in [Monitors -> SUBSET Flags], \A m \in Monitors : asks'[m] \in {wants[m], {}},
         RepliesTyped', LateTyped',
         policy.stop => \A m \in On(served) : CutShort(replay[m]) => CutShort(replay'[m])
  PROVE  PolicyInv'
<1>1. PolicyTyped' /\ PlacesTyped' /\ Covers' /\ \A r \in Routes : TellsRoute(r, told[r])'
  BY DEF PolicyInv, PolicyTyped, PlacesTyped, Covers, Covered, TellsRoute, On, Members, RouteFor
<1>2. ~lapsed' => Needed'
  <2>1. ASSUME ~lapsed PROVE Needed'
    <3>1. Needed
      BY <2>1 DEF PolicyInv
    <3>2. On(served)' = On(served) /\ \A m : CutShort(replay[m])' <=> CutShort(replay'[m])
      BY DEF On, CutShort
    <3>3. \A r \in Routes : AskedOf(r)' <=> AskedOf(r)
      BY DEF AskedOf, On, Members, RouteFor
    <3> QED BY <3>1, <3>2, <3>3 DEF Needed
  <2> QED BY <2>1
<1> QED BY <1>1, <1>2 DEF PolicyInv

LEMMA ExpiryKeeps ==
  ASSUME PolicyInv, NEW m \in Monitors, ResumeExpires(m)
  PROVE  PolicyInv'
<1>1. LateTyped'
  BY DEF ResumeExpires, PolicyInv, LateTyped
<1> QED BY <1>1, DelayEnds DEF ResumeExpires

LEMMA LateKeeps ==
  ASSUME PolicyInv, NEW m \in Monitors, LateResume(m)
  PROVE  PolicyInv'
<1>0. PolicyTyped /\ RepliesTyped /\ LateTyped /\ MaxDelays \in [Monitors -> Nat] /\ MaxLate \in [Monitors -> Nat]
  BY PolicyAssumption DEF PolicyInv
<1> DEFINE Q == [raw : 0 .. 3, requested : 0 .. 3, timer : BOOLEAN, gen : Nat]
           l == Tail(late[m]) \o IF replay[m].timer THEN << replay[m].gen >> ELSE << >>
<1>1. late' = [late EXCEPT ![m] = l] /\ late[m] # << >> /\ UNCHANGED << shared, served, asks, playing, wants >>
  BY DEF LateResume
<1>2. l \in Seq(1 .. MaxDelays[m]) /\ Len(l) <= Len(late[m])
  <2>1. late[m] \in Seq(1 .. MaxDelays[m]) /\ Len(late[m]) \in Nat
    BY <1>0 DEF LateTyped
  <2>2. Tail(late[m]) \in Seq(1 .. MaxDelays[m]) /\ Len(Tail(late[m])) = Len(late[m]) - 1
    <3>1. ASSUME NEW S, NEW q \in Seq(S), q # << >> PROVE Tail(q) \in Seq(S) /\ Len(Tail(q)) = Len(q) - 1
      BY <3>1, HeadTailProperties
    <3> QED BY <1>1, <2>1, <3>1
  <2>3. CASE replay[m].timer
    <3>1. replay[m].gen \in 1 .. MaxDelays[m]
      BY <1>0, <2>3 DEF RepliesTyped, OfReport, Replays
    <3>2. << replay[m].gen >> \in Seq(1 .. MaxDelays[m]) /\ Len(<< replay[m].gen >>) = 1
      BY <3>1
    <3>3. l = Tail(late[m]) \o << replay[m].gen >>
      BY <2>3
    <3> HIDE DEF l
    <3> QED BY <2>1, <2>2, <3>2, <3>3
  <2>4. CASE ~replay[m].timer
    <3>1. l = Tail(late[m]) \o << >>
      BY <2>4
    <3> HIDE DEF l
    <3> QED BY <2>1, <2>2, <3>1
  <2> QED BY <2>3, <2>4
<1> HIDE DEF l
<1>3. LateTyped'
  <2>1. ASSUME NEW n \in Monitors PROVE late'[n] \in Seq(1 .. MaxDelays[n]) /\ Len(late'[n]) <= MaxLate[n]
    <3>1. CASE n = m
      <4>1. late'[n] = l /\ Len(late[m]) <= MaxLate[m] /\ Len(late[m]) \in Nat /\ Len(l) \in Nat /\ MaxLate[m] \in Nat
        BY <1>0, <1>1, <1>2, <3>1 DEF LateTyped
      <4> QED BY <1>2, <3>1, <4>1
    <3>2. CASE n # m
      <4>1. late'[n] = late[n]
        BY <1>0, <1>1, <3>2 DEF LateTyped
      <4> QED BY <1>0, <4>1 DEF LateTyped
    <3> QED BY <3>1, <3>2
  <2>2. \A n \in Monitors : Seq(1 .. MaxDelays[n]) \subseteq Seq(Nat)
    BY <1>0
  <2>3. late' \in [Monitors -> Seq(Nat)]
    <3>1. l \in Seq(Nat)
      BY <1>2, <2>2
    <3> QED BY <1>0, <1>1, <3>1 DEF LateTyped
  <2> QED BY <2>1, <2>3 DEF LateTyped
<1>4. CASE Head(late[m]) = replay[m].gen
  <2>1. /\ Synthesize(asks, [replay EXCEPT ![m].requested = replay[m].raw])
        /\ replay' = [replay EXCEPT ![m].requested = replay[m].raw, ![m].timer = FALSE]
    BY <1>4 DEF LateResume
  <2> QED BY <1>1, <1>3, <2>1, DelayEnds
<1>5. CASE Head(late[m]) # replay[m].gen
  <2>1. replay' = [replay EXCEPT ![m].timer = FALSE] /\ UNCHANGED << policy, routePause, told, unheard, lapsed >>
    BY <1>5 DEF LateResume
  <2>2. replay \in [Monitors -> Q] /\ \A n \in Monitors : replay[n] \in Replays(MaxDelays[n]) /\ OfReport(replay[n], asks[n])
    BY <1>0 DEF RepliesTyped
  <2>3. /\ replay'[m] = [replay[m] EXCEPT !.timer = FALSE] /\ replay' \in [Monitors -> Q]
        /\ \A n \in Monitors \ {m} : replay'[n] = replay[n]
    BY <2>1, <2>2
  <2>4. replay'[m] \in Replays(MaxDelays[m]) /\ OfReport(replay'[m], asks[m]) /\ (CutShort(replay[m]) => CutShort(replay'[m]))
    BY <2>2, <2>3 DEF Replays, OfReport, CutShort
  <2>5. RepliesTyped'
    <3>1. \A n \in Monitors : replay'[n] \in Replays(MaxDelays[n]) /\ OfReport(replay'[n], asks'[n])
      BY <1>1, <2>2, <2>3, <2>4
    <3> QED BY <2>3, <3>1 DEF RepliesTyped, OfReport
  <2>6. \A n \in On(served) : CutShort(replay[n]) => CutShort(replay'[n])
    BY <2>3, <2>4, LinkedAreMonitors
  <2>7. asks' \in [Monitors -> SUBSET Flags] /\ \A n \in Monitors : asks'[n] \in {wants[n], {}}
    BY <1>0, <1>1 DEF PolicyTyped
  <2> QED BY <1>1, <1>3, <2>1, <2>5, <2>6, <2>7, QuietKeeps
<1> QED BY <1>4, <1>5

\* Telling the renderers the policy there is: who shows, how and whether the user
\* plays may have changed.
LEMMA ToldAgain ==
  ASSUME PolicyTyped, playing' \in BOOLEAN, routePause' \in [Routes -> BOOLEAN], policy' = policy,
         NEW T \in [Routes -> Orders], \A r \in Routes : T[r].mute <=> policy.mute,
         told' = Playback(served', policy, routePause', playing', T)
  PROVE  told' \in [Routes -> Orders] /\ \A r \in Routes : TellsRoute(r, told[r])'
<1>0. policy \in Policies
  BY DEF PolicyTyped
<1>1. told' \in [Routes -> Orders]
  BY <1>0, PlaybackTypes
<1>2. ASSUME NEW r \in Routes PROVE TellsRoute(r, told[r])'
  <2>1. Ordered(told'[r], T[r], Members(r, served') = {}, policy, r # Clone /\ routePause'[r], playing')
    BY <1>0, PlaybackTells
  <2> QED BY <2>1 DEF TellsRoute, Members, Ordered, On, RouteFor
<1> QED BY <1>1, <1>2

\* What the policy needs is there as long as no linked display loses its place.
LEMMA NeededKept ==
  ASSUME NEW L, Needed, wants' = wants, policy' = policy, replay' = replay, served' = L,
         \A r \in Routes : routePause'[r] => routePause[r], \A m \in On(served) : L[m] = served[m]
  PROVE  Needed'
<1>1. \A m \in On(served) : m \in On(served')
  BY DEF On
<1>2. \A r \in Routes, m \in On(served) : m \in Members(r, served) => m \in Members(r, served)'
  BY <1>1 DEF Members, RouteFor, On
<1>3. \A r \in Routes : AskedOf(r) => AskedOf(r)'
  <2> SUFFICES ASSUME NEW r \in Routes, AskedOf(r) PROVE AskedOf(r)'
    OBVIOUS
  <2>1. PICK m \in On(served) : "all" \in wants[m] \/ (m \in Members(r, served) /\ "one" \in wants[m])
    BY DEF AskedOf
  <2>2. m \in On(served)' /\ (m \in Members(r, served) => m \in Members(r, served)')
    BY <1>1, <1>2 DEF On
  <2> QED BY <2>1, <2>2 DEF AskedOf
<1>4. On(served) \subseteq On(served)' /\ \A m \in On(served) : served'[m] = served[m]
  BY <1>1 DEF On
<1>5. \A m : CutShort(replay[m])' <=> CutShort(replay[m])
  BY DEF CutShort
<1> QED BY <1>3, <1>4, <1>5 DEF Needed

LEMMA RelinkedKeeps ==
  ASSUME PolicyInv, NEW L \in [Monitors -> Places], Relinked(L), UNCHANGED << asks, replay, late, wants >>, PlacesTyped'
  PROVE  PolicyInv'
<1>0. PolicyTyped /\ RepliesTyped /\ LateTyped /\ PlacesTyped
  BY DEF PolicyInv
<1>1. /\ served' = L
      /\ unheard' = unheard \cup {m \in Monitors : L[m] # served[m] /\ wants[m] # {}}
      /\ lapsed' = (lapsed \/ \E m \in On(served) : L[m] # served[m])
      /\ UNCHANGED << policy, playing >>
  BY DEF Relinked
<1>2. PICK gone \in SUBSET {r \in Routes : routePause[r] /\ Members(r, served) = {}} :
        routePause' = [r \in Routes |-> routePause[r] /\ r \notin gone]
  BY DEF Relinked
<1>3. routePause' \in [Routes -> BOOLEAN] /\ \A r \in Routes : routePause'[r] => routePause[r]
  BY <1>0, <1>2 DEF PolicyTyped
<1>4. \A r \in Routes : Members(r, served) # {} => (routePause'[r] <=> routePause[r])
  BY <1>2
<1>5. told' \in [Routes -> Orders] /\ \A r \in Routes : TellsRoute(r, told[r])'
  <2>1. Muted(policy, told) \in [Routes -> Orders] /\ \A r \in Routes : Muted(policy, told)[r].mute <=> policy.mute
    BY <1>0, MutedTypes DEF PolicyTyped
  <2>2. told' = Playback(served', policy, routePause', playing', Muted(policy, told))
    BY <1>1 DEF Relinked
  <2> QED BY <1>0, <1>1, <1>3, <2>1, <2>2, ToldAgain DEF PolicyTyped
<1>6. PolicyTyped'
  <2>1. lapsed' \in BOOLEAN /\ unheard' \in SUBSET Monitors
    BY <1>0, <1>1 DEF PolicyTyped
  <2> QED BY <1>0, <1>1, <1>3, <1>5, <2>1 DEF PolicyTyped
<1>7. Covers'
  <2> SUFFICES ASSUME NEW m \in On(L), m \notin unheard' PROVE Covered(m)'
    BY <1>1 DEF Covers, On
  <2>1. m \in Monitors /\ L[m] \in {"own", "shared"} /\ m \notin unheard
    BY <1>1 DEF On
  <2>2. CASE wants[m] = {}
    BY <2>2 DEF Covered
  <2>3. CASE L[m] = served[m]
    <3>1. m \in On(served) /\ Covered(m)
      BY <2>1, <2>3 DEF On, PolicyInv, Covers
    <3>2. served[m] = "own" => (routePause'[m] <=> routePause[m])
      <4>1. served[m] = "own" => m \in Routes /\ m \in Members(m, served)
        BY <2>1, <3>1 DEF Routes, Members, RouteFor
      <4> QED BY <1>4, <4>1
    <3> QED BY <1>1, <2>1, <2>3, <3>1, <3>2 DEF Covered
  <2> QED BY <1>1, <2>1, <2>2, <2>3
<1>8. ~lapsed' => Needed'
  <2> HAVE ~lapsed'
  <2>1. ~lapsed /\ \A m \in On(served) : L[m] = served[m]
    BY <1>1
  <2>2. Needed
    BY <2>1 DEF PolicyInv
  <2> QED BY <1>1, <1>3, <2>1, <2>2, NeededKept
<1>9. RepliesTyped' /\ LateTyped'
  BY <1>0 DEF RepliesTyped, LateTyped, OfReport
<1> QED BY <1>5, <1>6, <1>7, <1>8, <1>9 DEF PolicyInv

\* What a relayout may leave: the places there were, or one place for all.
LEMMA LaidPlaces ==
  ASSUME NEW L \in [Monitors -> Places], NEW newLaid \in LaidShared(L)
  PROVE  /\ newLaid \in [Monitors -> Places]
         /\ newLaid = L \/ \A m \in Monitors : newLaid[m] # "own"
<1>1. CASE newLaid = L
  BY <1>1
<1>2. CASE newLaid # L
  <2>1. PICK x \in {"off", "shared"} : newLaid = [m \in Monitors |-> IF L[m] = "gone" THEN "gone" ELSE x]
    BY <1>2 DEF LaidShared
  <2> QED BY <2>1 DEF Places
<1> QED BY <1>1, <1>2

LEMMA JoinsKeeps ==
  ASSUME PolicyInv, NEW m \in Monitors, Joins(m)
  PROVE  PolicyInv'
<1> PICK L : L = [served EXCEPT ![m] = "off"]
  OBVIOUS
<1>0. PlacesTyped /\ shared' = shared /\ UNCHANGED << asks, replay, late, wants >>
  BY DEF PolicyInv, Joins
<1>1. L \in [Monitors -> Places] /\ L[m] = "off" /\ \A n \in Monitors \ {m} : L[n] = served[n]
  BY <1>0 DEF PlacesTyped, Places
<1>2. PICK newLaid \in (IF shared THEN LaidShared(L) ELSE {L, [L EXCEPT ![m] = "own"]}) : Relinked(newLaid)
  BY DEF Joins
<1>3. served' = newLaid
  BY <1>2 DEF Relinked
<1>4. CASE shared
  <2>1. newLaid \in [Monitors -> Places] /\ (newLaid = L \/ \A n \in Monitors : newLaid[n] # "own")
    BY <1>1, <1>2, <1>4, LaidPlaces
  <2>2. PlacesTyped'
    BY <1>0, <1>1, <1>3, <1>4, <2>1 DEF PlacesTyped
  <2> QED BY <1>0, <1>2, <2>1, <2>2, RelinkedKeeps
<1>5. CASE ~shared
  <2>1. newLaid \in [Monitors -> Places] /\ \A n \in Monitors : newLaid[n] # "shared"
    BY <1>0, <1>1, <1>2, <1>5 DEF PlacesTyped, Places
  <2>2. PlacesTyped'
    BY <1>0, <1>3, <2>1 DEF PlacesTyped
  <2> QED BY <1>0, <1>2, <2>1, <2>2, RelinkedKeeps
<1> QED BY <1>4, <1>5

LEMMA RearrangesKeeps ==
  ASSUME PolicyInv, NEW sh \in BOOLEAN, Rearranges(sh)
  PROVE  PolicyInv'
<1>0. PlacesTyped /\ shared' = sh /\ UNCHANGED << asks, replay, late, wants >> /\ served \in [Monitors -> Places]
  BY DEF PolicyInv, PlacesTyped, Rearranges
<1>1. PICK newLaid \in (IF sh THEN LaidShared(served)
                     ELSE {L \in [Monitors -> {"gone", "off", "own"}] :
                             \A m \in Monitors : L[m] = "gone" <=> served[m] = "gone"}) : Relinked(newLaid)
  BY DEF Rearranges
<1>2. served' = newLaid
  BY <1>1 DEF Relinked
<1>3. CASE sh
  <2>1. newLaid \in [Monitors -> Places] /\ (newLaid = served \/ \A n \in Monitors : newLaid[n] # "own")
    BY <1>0, <1>1, <1>3, LaidPlaces
  <2>2. PlacesTyped'
    BY <1>0, <1>2, <1>3, <2>1 DEF PlacesTyped
  <2> QED BY <1>0, <1>1, <2>1, <2>2, RelinkedKeeps
<1>4. CASE ~sh
  <2>1. newLaid \in [Monitors -> {"gone", "off", "own"}]
    BY <1>1, <1>4
  <2>2. newLaid \in [Monitors -> Places] /\ \A n \in Monitors : newLaid[n] # "shared"
    BY <2>1 DEF Places
  <2>3. PlacesTyped'
    BY <1>0, <1>2, <2>2 DEF PlacesTyped
  <2> QED BY <1>0, <1>1, <2>2, <2>3, RelinkedKeeps
<1> QED BY <1>3, <1>4

LEMMA NoReplayFollows ==
  ASSUME NEW d \in Nat
  PROVE  /\ OfReport(NoReplay, {}) /\ NoReplay \in Replays(d)
         /\ NoReplay \in [raw : 0 .. 3, requested : 0 .. 3, timer : BOOLEAN, gen : Nat]
BY DEF OfReport, NoReplay, Replays, Rank

LEMMA ForgottenTyped ==
  ASSUME PolicyTyped, RepliesTyped, NEW m \in Monitors,
         asks' = [asks EXCEPT ![m] = {}], replay' = [replay EXCEPT ![m] = NoReplay]
  PROVE  RepliesTyped'
<1>0. MaxDelays[m] \in Nat
  BY PolicyAssumption
<1>1. \A n \in Monitors : n # m => replay'[n] = replay[n] /\ asks'[n] = asks[n]
  BY DEF PolicyTyped, RepliesTyped
<1>2. replay'[m] = NoReplay /\ asks'[m] = {}
  BY DEF PolicyTyped, RepliesTyped
<1>3. OfReport(NoReplay, {}) /\ NoReplay \in Replays(MaxDelays[m]) /\ NoReplay \in [raw : 0 .. 3, requested : 0 .. 3, timer : BOOLEAN, gen : Nat]
  BY <1>0, NoReplayFollows
<1>4. \A n \in Monitors : replay'[n] \in Replays(MaxDelays[n]) /\ OfReport(replay'[n], asks'[n])
  BY <1>1, <1>2, <1>3 DEF RepliesTyped
<1>5. replay' \in [Monitors -> [raw : 0 .. 3, requested : 0 .. 3, timer : BOOLEAN, gen : Nat]]
  BY <1>3 DEF RepliesTyped
<1> QED BY <1>4, <1>5 DEF RepliesTyped, OfReport

LEMMA DepartureKeeps ==
  ASSUME PolicyInv, NEW m \in Monitors, Leaves(m)
  PROVE  PolicyInv'
<1>0. PolicyTyped /\ PlacesTyped /\ RepliesTyped /\ LateTyped
  BY DEF PolicyInv
<1>1. /\ served' = [served EXCEPT ![m] = "gone"] /\ unheard' = unheard \ {m}
      /\ lapsed' = (lapsed \/ m \in On(served))
      /\ asks' = [asks EXCEPT ![m] = {}] /\ wants' = [wants EXCEPT ![m] = {}]
      /\ replay' = [replay EXCEPT ![m] = NoReplay] /\ late' = [late EXCEPT ![m] = << >>]
      /\ told' = Playback(served', policy, routePause, playing, told)
      /\ UNCHANGED << shared, policy, routePause, playing >>
  BY DEF Leaves
<1>2. RepliesTyped'
  BY <1>0, <1>1, ForgottenTyped
<1>3. LateTyped'
  <2>1. << >> \in Seq(1 .. MaxDelays[m]) /\ << >> \in Seq(Nat) /\ Len(<< >>) = 0 /\ MaxLate[m] \in Nat
    BY PolicyAssumption
  <2>2. \A n \in Monitors : late'[n] = IF n = m THEN << >> ELSE late[n]
    BY <1>0, <1>1 DEF LateTyped
  <2>3. late' \in [Monitors -> Seq(Nat)]
    BY <1>0, <1>1, <2>1 DEF LateTyped
  <2>4. ASSUME NEW n \in Monitors PROVE late'[n] \in Seq(1 .. MaxDelays[n]) /\ Len(late'[n]) <= MaxLate[n]
    <3>1. CASE n = m
      <4>1. late'[n] = << >>
        BY <2>2, <3>1
      <4>2. 0 <= MaxLate[m]
        BY <2>1
      <4> QED BY <2>1, <3>1, <4>1, <4>2
    <3>2. CASE n # m
      BY <1>0, <2>2, <3>2 DEF LateTyped
    <3> QED BY <3>1, <3>2
  <2> QED BY <2>3, <2>4 DEF LateTyped
<1>4. told' \in [Routes -> Orders] /\ \A r \in Routes : TellsRoute(r, told[r])'
  <2>1. \A r \in Routes : told[r].mute <=> policy.mute
    BY DEF PolicyInv, TellsRoute
  <2> QED BY <1>0, <1>1, <2>1, ToldAgain DEF PolicyTyped
<1>5. PolicyTyped' /\ PlacesTyped'
  <2>1. lapsed' \in BOOLEAN /\ unheard' \in SUBSET Monitors
    BY <1>0, <1>1 DEF PolicyTyped
  <2>2. PlacesTyped'
    BY <1>0, <1>1 DEF PlacesTyped, Places
  <2> QED BY <1>0, <1>1, <1>4, <2>1, <2>2 DEF PolicyTyped
<1>6. \A n \in Monitors \ {m} : served'[n] = served[n] /\ wants'[n] = wants[n]
  BY <1>0, <1>1 DEF PlacesTyped, PolicyTyped
<1>7. On(served)' = On(served) \ {m}
  BY <1>0, <1>1, <1>6 DEF PlacesTyped, On
<1>8. Covers'
  <2> SUFFICES ASSUME NEW n \in On(served) \ {m}, n \notin unheard' PROVE Covered(n)'
    BY <1>7 DEF Covers
  <2>1. n \in Monitors \ {m} /\ n \in On(served) \ unheard
    BY <1>1, LinkedAreMonitors
  <2> QED BY <1>1, <1>6, <2>1 DEF Covered, Covers, PolicyInv
<1>9. ~lapsed' => Needed'
  <2> HAVE ~lapsed'
  <2>1. Needed /\ m \notin On(served) /\ On(served)' = On(served)
    BY <1>1, <1>7 DEF PolicyInv
  <2>2. \A n \in On(served) : n \in Monitors \ {m} /\ wants'[n] = wants[n] /\ served'[n] = served[n] /\ replay'[n] = replay[n]
    BY <1>0, <1>1, <1>6, <2>1, LinkedAreMonitors DEF RepliesTyped
  <2>3. \A n \in On(served) : CutShort(replay[n])' <=> CutShort(replay[n])
    BY <2>2 DEF CutShort
  <2>4. \A r \in Routes : AskedOf(r) => AskedOf(r)'
    <3> SUFFICES ASSUME NEW r \in Routes, AskedOf(r) PROVE AskedOf(r)'
      OBVIOUS
    <3>1. PICK n \in On(served) : "all" \in wants[n] \/ (n \in Members(r, served) /\ "one" \in wants[n])
      BY DEF AskedOf
    <3>2. n \in Members(r, served) => n \in Members(r, served)'
      BY <2>1, <2>2 DEF Members, RouteFor
    <3> QED BY <2>1, <2>2, <3>1, <3>2 DEF AskedOf
  <2> QED BY <1>1, <2>1, <2>2, <2>3, <2>4 DEF Needed
<1> QED BY <1>2, <1>3, <1>4, <1>5, <1>8, <1>9 DEF PolicyInv

\* A display is not bound anew while the policy stops it, so that no delay that was cut
\* short is forgotten before the policy is made again.
LEMMA ReboundKeeps ==
  ASSUME PolicyInv, NEW m \in Monitors, Rebound(m)
  PROVE  PolicyInv'
<1>0. PolicyTyped /\ RepliesTyped /\ LateTyped /\ MaxDelays \in [Monitors -> Nat]
  BY PolicyAssumption DEF PolicyInv
<1> DEFINE l == IF replay[m].timer THEN Append(late[m], replay[m].gen) ELSE late[m]
<1>1. /\ m \in On(served) /\ ~told[RouteFor(m, served)].stopped
      /\ asks' = [asks EXCEPT ![m] = {}] /\ replay' = [replay EXCEPT ![m] = NoReplay]
      /\ late' = [late EXCEPT ![m] = l] /\ Len(late'[m]) <= MaxLate[m]
      /\ UNCHANGED << shared, served, policy, routePause, playing, told, wants, unheard, lapsed >>
  BY DEF Rebound
<1>2. RepliesTyped'
  BY <1>0, <1>1, ForgottenTyped
<1>3. l \in Seq(1 .. MaxDelays[m])
  <2>1. late[m] \in Seq(1 .. MaxDelays[m])
    BY <1>0 DEF LateTyped
  <2>2. replay[m].timer => replay[m].gen \in 1 .. MaxDelays[m]
    BY <1>0 DEF RepliesTyped, OfReport, Replays
  <2>3. ASSUME NEW g \in 1 .. MaxDelays[m] PROVE Append(late[m], g) \in Seq(1 .. MaxDelays[m])
    BY <2>1, AppendProperties
  <2>4. CASE replay[m].timer
    BY <2>2, <2>3, <2>4
  <2>5. CASE ~replay[m].timer
    BY <2>1, <2>5
  <2> QED BY <2>4, <2>5
<1> HIDE DEF l
<1>4. LateTyped'
  <2>1. late'[m] = l /\ \A n \in Monitors \ {m} : late'[n] = late[n]
    BY <1>0, <1>1 DEF LateTyped
  <2>2. Seq(1 .. MaxDelays[m]) \subseteq Seq(Nat)
    BY <1>0
  <2>3. late' \in [Monitors -> Seq(Nat)]
    BY <1>0, <1>1, <1>3, <2>2 DEF LateTyped
  <2>4. ASSUME NEW n \in Monitors PROVE late'[n] \in Seq(1 .. MaxDelays[n]) /\ Len(late'[n]) <= MaxLate[n]
    <3>1. CASE n = m
      BY <1>1, <1>3, <2>1, <3>1
    <3>2. CASE n # m
      BY <1>0, <2>1, <3>2 DEF LateTyped
    <3> QED BY <3>1, <3>2
  <2> QED BY <2>3, <2>4 DEF LateTyped
<1>5. ~policy.stop
  <2>1. RouteFor(m, served) \in Routes
    BY DEF RouteFor, Routes
  <2>2. TellsRoute(RouteFor(m, served), told[RouteFor(m, served)])
    BY <2>1 DEF PolicyInv
  <2> QED BY <1>1, <2>2 DEF TellsRoute
<1>6. asks' \in [Monitors -> SUBSET Flags] /\ \A n \in Monitors : asks'[n] \in {wants[n], {}}
  BY <1>0, <1>1 DEF PolicyTyped
<1> QED BY <1>1, <1>2, <1>4, <1>5, <1>6, QuietKeeps

LEMMA PlayingKeeps ==
  ASSUME PolicyInv, NEW play \in BOOLEAN, SetPlaying(play)
  PROVE  PolicyInv'
<1>0. PolicyTyped /\ \A r \in Routes : told[r].mute <=> policy.mute
  BY DEF PolicyInv, TellsRoute
<1>1. told' \in [Routes -> Orders] /\ \A r \in Routes : TellsRoute(r, told[r])'
  BY <1>0, ToldAgain DEF SetPlaying, PolicyTyped
<1>2. PolicyTyped'
  BY <1>0, <1>1 DEF SetPlaying, PolicyTyped
<1>3. PlacesTyped' /\ RepliesTyped' /\ LateTyped' /\ Covers'
  BY DEF SetPlaying, PolicyInv, PlacesTyped, RepliesTyped, LateTyped, OfReport, Covers, Covered, On
<1>4. ~lapsed' => Needed'
  <2>1. ASSUME ~lapsed PROVE Needed'
    <3>1. Needed /\ wants' = wants /\ policy' = policy /\ replay' = replay /\ served' = served /\ routePause' = routePause
      BY <2>1 DEF PolicyInv, SetPlaying
    <3> QED BY <3>1, NeededKept
  <2> QED BY <2>1 DEF SetPlaying
<1> QED BY <1>1, <1>2, <1>3, <1>4 DEF PolicyInv

LEMMA PolicyInitInv == PolicyInit => PolicyInv
<1> SUFFICES ASSUME PolicyInit PROVE PolicyInv
  OBVIOUS
<1>0. \A m \in Monitors : MaxDelays[m] \in Nat /\ MaxLate[m] \in Nat
  BY PolicyAssumption
<1>1. PolicyTyped /\ PlacesTyped
  BY DEF PolicyInit, PolicyTyped, PlacesTyped, Places, Policies, Orders
<1>2. RepliesTyped
  <2>1. \A m \in Monitors : OfReport(NoReplay, {}) /\ NoReplay \in Replays(MaxDelays[m]) /\ NoReplay \in [raw : 0 .. 3, requested : 0 .. 3, timer : BOOLEAN, gen : Nat]
    BY <1>0, NoReplayFollows
  <2>2. replay = [m \in Monitors |-> NoReplay] /\ asks = [m \in Monitors |-> {}]
    BY DEF PolicyInit
  <2> HIDE DEF NoReplay
  <2> QED BY <2>1, <2>2 DEF RepliesTyped
<1>3. LateTyped
  <2>1. late = [m \in Monitors |-> << >>]
    BY DEF PolicyInit
  <2> QED BY <1>0, <2>1 DEF LateTyped
<1>4. On(served) = {}
  BY DEF PolicyInit, On
<1>5. \A r \in Routes : TellsRoute(r, told[r])
  BY <1>4 DEF PolicyInit, TellsRoute, Members
<1>6. Covers /\ Needed
  BY <1>4 DEF PolicyInit, Covers, Needed
<1> QED BY <1>1, <1>2, <1>3, <1>5, <1>6 DEF PolicyInv

LEMMA PolicyInvStep == PolicyInv /\ [PolicyNext]_policyVars => PolicyInv'
<1> SUFFICES ASSUME PolicyInv, [PolicyNext]_policyVars PROVE PolicyInv'
  OBVIOUS
<1>1. CASE UNCHANGED policyVars
  <2>1. UNCHANGED << shared, served, asks, replay, late, policy, routePause, playing, told, wants, unheard, lapsed >>
    BY <1>1 DEF policyVars
  <2>2. PolicyTyped /\ RepliesTyped' /\ LateTyped'
    BY <2>1 DEF PolicyInv, RepliesTyped, LateTyped, OfReport
  <2> QED BY <2>1, <2>2, QuietKeeps DEF PolicyTyped
<1>2. ASSUME NEW m \in Monitors, NEW flags \in Contributions, NEW other \in BOOLEAN, Reports(m, flags, other) PROVE PolicyInv'
  <2>1. flags \in SUBSET Flags
    BY PolicyAssumption DEF Flags
  <2> QED BY <1>2, <2>1, ReportsKeeps
<1>3. ASSUME NEW m \in Monitors, ResumeExpires(m) \/ LateResume(m) \/ Joins(m) \/ Leaves(m) \/ Rebound(m) PROVE PolicyInv'
  BY <1>3, ExpiryKeeps, LateKeeps, JoinsKeeps, DepartureKeeps, ReboundKeeps
<1>4. ASSUME NEW play \in BOOLEAN, SetPlaying(play) \/ Rearranges(play) PROVE PolicyInv'
  BY <1>4, PlayingKeeps, RearrangesKeeps
<1> QED BY <1>1, <1>2, <1>3, <1>4 DEF PolicyNext

LEMMA PolicyInvShows == PolicyInv => PolicyFollowsReports
<1> SUFFICES ASSUME PolicyInv PROVE PolicyFollowsReports
  OBVIOUS
<1>0. PolicyTyped /\ PlacesTyped /\ RepliesTyped /\ LateTyped
  BY DEF PolicyInv
<1>1. PolicyTypeOK
  <2>1. \A m \in Monitors :
          /\ replay[m] \in [raw : 0 .. 3, requested : 0 .. 3, timer : BOOLEAN, gen : 0 .. MaxDelays[m]]
          /\ replay[m].raw = Rank(asks[m])
          /\ late[m] \in Seq(1 .. MaxDelays[m]) /\ Len(late[m]) <= MaxLate[m]
    BY <1>0 DEF RepliesTyped, LateTyped, OfReport, Replays
  <2> QED BY <1>0, <2>1 DEF PolicyTyped, PlacesTyped, Places, PolicyTypeOK, Policies, Orders
<1>2. \A m \in On(served) :
        /\ Told(m).mute <=> policy.mute
        /\ Told(m).stopped <=> policy.stop
        /\ Told(m).paused <=> policy.pause \/ (served[m] = "own" /\ routePause[m]) \/ policy.stop \/ ~playing
  <2> TAKE m \in On(served)
  <2>1. m \in Monitors /\ served[m] \in {"own", "shared"} /\ m # Clone
    BY PolicyAssumption DEF On
  <2>2. RouteFor(m, served) \in Routes /\ m \in Members(RouteFor(m, served), served)
    BY <2>1 DEF RouteFor, Routes, Members
  <2>3. TellsRoute(RouteFor(m, served), told[RouteFor(m, served)])
    BY <2>2 DEF PolicyInv
  <2>4. served[m] = "own" => RouteFor(m, served) = m /\ RouteFor(m, served) # Clone
    BY <2>1 DEF RouteFor
  <2>5. served[m] = "shared" => RouteFor(m, served) = Clone
    BY DEF RouteFor
  <2> QED BY <2>1, <2>2, <2>3, <2>4, <2>5 DEF TellsRoute, Told
<1>3. ReportsAreHeeded
  <2> SUFFICES ASSUME NEW m \in On(served) \ unheard
               PROVE  /\ "stop" \in wants[m] => Told(m).stopped
                      /\ wants[m] \cap Holds # {} => Told(m).paused
                      /\ "mute" \in wants[m] => Told(m).mute
    BY DEF ReportsAreHeeded
  <2>1. Covered(m) /\ served[m] \in {"own", "shared"}
    BY DEF PolicyInv, Covers, On
  <2>2. wants[m] \cap Holds # {} => "one" \in wants[m] \/ "all" \in wants[m]
    BY DEF Holds
  <2> QED BY <1>2, <2>1, <2>2 DEF Covered
<1>4. NothingHeldForNobody
  <2> SUFFICES ASSUME ~lapsed, NEW m \in On(served)
               PROVE  /\ Told(m).stopped => \E n \in On(served) : "stop" \in wants[n] \/ CutShort(replay[n])
                      /\ Told(m).paused => \/ ~playing \/ Told(m).stopped
                                           \/ \E n \in On(served) : "all" \in wants[n]
                                           \/ \E n \in On(served) : RouteFor(n, served) = RouteFor(m, served) /\ "one" \in wants[n]
                      /\ Told(m).mute => \E n \in On(served) : "mute" \in wants[n]
    BY DEF NothingHeldForNobody
  <2>1. Needed /\ m \in Monitors /\ served[m] \in {"own", "shared"}
    BY DEF PolicyInv, On
  <2>2. served[m] = "own" /\ routePause[m] =>
          \/ \E n \in On(served) : "all" \in wants[n]
          \/ \E n \in On(served) : RouteFor(n, served) = RouteFor(m, served) /\ "one" \in wants[n]
    <3> HAVE served[m] = "own" /\ routePause[m]
    <3>1. m \in Routes /\ RouteFor(m, served) = m
      BY <2>1 DEF Routes, RouteFor
    <3>2. AskedOf(m)
      BY <2>1, <3>1 DEF Needed
    <3> QED BY <3>1, <3>2 DEF AskedOf, Members
  <2>3. policy.pause =>
          \/ \E n \in On(served) : "all" \in wants[n]
          \/ \E n \in On(served) : RouteFor(n, served) = RouteFor(m, served) /\ "one" \in wants[n]
    <3> HAVE policy.pause
    <3>1. PICK n \in On(served) : "all" \in wants[n] \/ (served[n] = "shared" /\ "one" \in wants[n])
      BY <2>1 DEF Needed
    <3>2. served[n] = "shared" => RouteFor(n, served) = RouteFor(m, served)
      <4>1. n \in Monitors
        BY LinkedAreMonitors
      <4>2. served[n] = "shared" => served[m] = "shared"
        BY <1>0, <2>1, <4>1 DEF PlacesTyped
      <4> QED BY <4>2 DEF RouteFor
    <3> QED BY <3>1, <3>2
  <2>4. Told(m).mute => \E n \in On(served) : "mute" \in wants[n]
    BY <1>2, <2>1 DEF Needed
  <2>5. Told(m).stopped => \E n \in On(served) : "stop" \in wants[n] \/ CutShort(replay[n])
    BY <1>2, <2>1 DEF Needed
  <2> QED BY <1>2, <2>2, <2>3, <2>4, <2>5
<1> QED BY <1>1, <1>3, <1>4 DEF PolicyFollowsReports

-----------------------------------------------------------------------------
(* The daemon as one system: a step of one part leaves the others alone, so *)
(* what a part keeps is kept.                                               *)

\* To each of these parts, every step of the daemon is one of its own or none.
LEMMA StepOfPart ==
  [PartsNext]_partVars =>
    /\ [PolicyNext]_policyVars /\ [RulesNext]_rulesVars
    /\ [OutboxNext]_outboxVars /\ [InboxNext]_inboxVars
    /\ [DaemonNext]_daemonVars /\ [ConfigNext]_configVars
<1>1. CASE UNCHANGED partVars
  BY <1>1, Zenon DEF partVars
<1>2. CASE PartsNext
  BY <1>2, Zenon DEF PartsNext, Step, Still
<1> QED BY <1>1, <1>2

(* Every display is judged by the last report of windows and its own rules *)
(* of now, what the displays ask for is what the renderers behind them do, *)
(* and they hold for nothing else; new bindings, which lose the policy of  *)
(* an output, take that away only where it is said (window_state,          *)
(* producer_synthesize_policy_from_outputs, producer_apply_playback_policy, *)
(* client_rebind_output).                                                  *)
THEOREM PlaybackHolds == PartsSafety => []PlaybackFollowsWindows
<1>1. PartsInit => PolicyInv /\ RulesInv
  BY PolicyInitInv, RulesInitInv DEF PartsInit
<1>2. PolicyInv /\ RulesInv /\ [PartsNext]_partVars => PolicyInv' /\ RulesInv'
  BY StepOfPart, PolicyInvStep, RulesInvStep
<1>3. PolicyInv /\ RulesInv => PlaybackFollowsWindows
  BY PolicyInvShows, RulesInvShows DEF PlaybackFollowsWindows
<1> QED BY <1>1, <1>2, <1>3, PTL DEF PartsSafety

(* A client reads whole frames in the order they were sent, and while the  *)
(* daemon waits for an acknowledgement, in a tick or in the handler of a   *)
(* request, it sees the one that comes and keeps the rest; only a request  *)
(* whose own handler waited comes twice (client_queue_frame_bytes,         *)
(* client_fd_ready, client_wait_unbind_ack, client_process_deferred_frames). *)
THEOREM ClientHolds == PartsSafety => []ClientServed
<1>1. PartsInit => OutboxInv /\ InboxInv
  BY OutboxInitInv, InboxInitInv DEF PartsInit
<1>2. OutboxInv /\ InboxInv /\ [PartsNext]_partVars => OutboxInv' /\ InboxInv'
  BY StepOfPart, OutboxInvStep, InboxInvStep
<1>3. OutboxInv /\ InboxInv => ClientServed
  BY OutboxInvShows, InboxInvShows DEF ClientServed
<1> QED BY <1>1, <1>2, <1>3, PTL DEF PartsSafety

(* One daemon process at a time owns the path and the workers, the settings *)
(* pass from one to the next, loading undoes saving, every renderer knows  *)
(* the settings of its own display, and a change of what a display shows   *)
(* rebinds it (main, producer_stop, vivid_producer_config.c, handle_control). *)
THEOREM SettingsHold == PartsSafety => []DaemonsKeepSettings
<1>1. PartsInit => DaemonInv /\ ConfigInv
  BY DaemonInitInv, ConfigInitInv DEF PartsInit
<1>2. DaemonInv /\ ConfigInv /\ [PartsNext]_partVars => DaemonInv' /\ ConfigInv'
  BY StepOfPart, DaemonInvStep, ConfigInvStep
<1>3. DaemonInv /\ ConfigInv => DaemonsKeepSettings
  BY DaemonInvShows, ConfigInvShows DEF DaemonsKeepSettings
<1> QED BY <1>1, <1>2, <1>3, PTL DEF PartsSafety
=============================================================================
