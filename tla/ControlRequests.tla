---------------------------- MODULE ControlRequests ----------------------------
(***************************************************************************)
(* Control requests and their answers.  SET_STATE is a transaction: it      *)
(* applies the settings at once, supersedes the requests still waiting, and *)
(* is answered when every linked route runs a worker of the wanted identity *)
(* that has shown a frame, or when one of them failed to start.  A change   *)
(* of the render device then closes the displays' connections.              *)
(*                                                                         *)
(* Displays are independent: the route of a display is named by it.  The    *)
(* workers are seen through their owner's edges only; RendererOwner has     *)
(* the protocol behind them, and the barrier of a stopped worker is inside  *)
(* its "stopping" phase here.                                               *)
(***************************************************************************)
EXTENDS Integers, Sequences, FiniteSets

CONSTANTS
  Displays,    \* clients with an output, each with the route of its name
  Controls,    \* clients with no output
  MaxRequests, \* requests sent in a behaviour
  MaxCrashes   \* workers that crash or fail in a behaviour

ASSUME ControlAssumption ==
  Displays \cap Controls = {} /\ MaxRequests \in Nat /\ MaxCrashes \in Nat

VARIABLES
  connected, \* clients connected
  workerOf,  \* worker[d]: phase, identity and startup error of the route of d
  pending,   \* pending_control_acks; their numbers give the order
  answers,   \* answers[q]: what request q was answered
  sets,      \* the requests that were SET_STATE, oldest first
  crashes

controlVars == << connected, workerOf, pending, answers, sets, crashes >>
Askers == Displays \cup Controls
Requests == 1 .. MaxRequests
Asked == {q \in Requests : answers[q] # "none"}
NextRequest == Cardinality(Asked) + 1

\* blamed: the worker's failure would be recorded as the error of the route.  A
\* worker whose identity is no longer wanted is stopped in the same step, so one
\* that is active runs the wanted identity (worker_is_active compares them).
NoWorker == [phase |-> "none", blamed |-> FALSE, error |-> FALSE]
Spawned  == [phase |-> "starting", blamed |-> TRUE, error |-> FALSE]
WorkerRetired(w, blamed) == [w EXCEPT !.phase = "stopping", !.blamed = blamed]
Erred(w) == [w EXCEPT !.error = TRUE, !.blamed = FALSE]

ControlInit ==
  /\ connected \in SUBSET Askers
  /\ workerOf = [d \in Displays |-> IF d \in connected THEN Spawned ELSE NoWorker]
  /\ pending = {} /\ answers = [q \in Requests |-> "none"] /\ sets = << >> /\ crashes = 0

-----------------------------------------------------------------------------
(* producer_renderer_startup_state over the linked routes. *)

Routed(C) == Displays \cap C
\* Mutant of Failed: startup errors are not looked at.
NeverFailed(W, C) == FALSE
Failed(W, C) == \E d \in Routed(C) : W[d].error
AllReady(W, C)  == ~Failed(W, C) /\ \A d \in Routed(C) : W[d].phase = "active"

Marked(A, Q, verdict) ==
  [q \in Requests |-> IF \E p \in Q : p.request = q THEN verdict ELSE A[q]]

\* client_free of a set of clients: requests forgotten, workers left to orphan routes.
Freed(S, W) == [d \in Displays |-> IF d \in S THEN NoWorker ELSE W[d]]
Forgets(Q, S) == {p \in Q : p.client \notin S}
AnswersDropped(A, Q, S) == Marked(A, {p \in Q : p.client \in S}, "dropped")

\* producer_evaluate_pending_control_acks: answer the queue up to the first
\* request that disconnects the displays, which ends the pass.
FirstDevice(Q) == CHOOSE p \in Q : p.device /\ \A r \in Q : r.device => p.request <= r.request
Verdict(W, C)  == IF Failed(W, C) THEN "failed" ELSE "acked"

Evaluate(W, C, Q, A) ==
  IF Q = {} \/ ~(Failed(W, C) \/ AllReady(W, C))
  THEN connected' = C /\ workerOf' = W /\ pending' = Q /\ answers' = A
  ELSE LET ends == ~Failed(W, C) /\ \E p \in Q : p.device
           done == IF ends THEN {p \in Q : p.request <= FirstDevice(Q).request} ELSE Q
           gone == IF ends THEN Routed(C) \ {FirstDevice(Q).client} ELSE {}
       IN /\ answers' = AnswersDropped(Marked(A, done, Verdict(W, C)), Q \ done, gone)
          /\ pending' = Forgets(Q \ done, gone)
          /\ connected' = C \ gone
          /\ workerOf' = Freed(gone, W)

-----------------------------------------------------------------------------
(* Requests. *)

\* vivid_producer_renderer_apply_config of a route whose identity changes: a
\* worker that runs is stopped (with its failure on record if it was only asked
\* to quiesce), one that failed is replaced once it is reaped.
Reapplied(w, changed, quiesced) ==
  CASE w.phase = "none" /\ (changed \/ ~w.error) -> Spawned
    [] w.phase = "starting" /\ changed -> WorkerRetired(w, quiesced)
    [] w.phase = "active" /\ changed -> WorkerRetired(w, FALSE)
    [] w.phase = "stopping" /\ changed -> [w EXCEPT !.error = FALSE]
    [] OTHER -> w

Applied(W, R, Qs) ==
  [d \in Displays |-> IF d \in connected THEN Reapplied(W[d], d \in R, d \in Qs) ELSE W[d]]

\* producer_clear_renderer_startup_errors.
Cleared(W) == [d \in Displays |-> [W[d] EXCEPT !.error = FALSE]]

\* Mutant of Cancelled: the older requests stay in the queue.
KeptWaiting(Q) == Q
\* producer_cancel_pending_control_acks.
Cancelled(Q) == {}

SetState(c, R, Qs, device) ==
  LET q == NextRequest
      left == Cancelled(pending)
      told == Marked([answers EXCEPT ![q] = "pending"], pending \ left, "superseded")
  IN /\ c \in connected /\ q \in Requests
     /\ sets' = Append(sets, q)
     /\ Evaluate(Applied(Cleared(workerOf), R, Qs), connected,
                 left \cup {[client |-> c, request |-> q, device |-> device]}, told)
     /\ UNCHANGED crashes

\* Any other control: answered before the workers follow.  A refused one
\* changes nothing.
Control(c, R, Qs, device) ==
  /\ c \in connected /\ NextRequest \in Requests
  /\ LET gone == IF device THEN Routed(connected) \ {c} ELSE {}
     IN /\ connected' = connected \ gone
        /\ workerOf' = Freed(gone, Applied(workerOf, R, Qs))
        /\ pending' = Forgets(pending, gone)
        /\ answers' = AnswersDropped([answers EXCEPT ![NextRequest] = "acked"], pending, gone)
  /\ UNCHANGED << sets, crashes >>

Refused(c) ==
  /\ c \in connected /\ NextRequest \in Requests
  /\ answers' = [answers EXCEPT ![NextRequest] = "refused"]
  /\ UNCHANGED << connected, workerOf, pending, sets, crashes >>

-----------------------------------------------------------------------------
(* Edges of the workers: route_renderer_progress evaluates the queue. *)

Edge(d, w) == d \in connected /\ Evaluate([workerOf EXCEPT ![d] = w], connected, pending, answers)

FirstFrame(d) ==
  /\ workerOf[d].phase = "starting"
  /\ Edge(d, [workerOf[d] EXCEPT !.phase = "active", !.blamed = FALSE])
  /\ UNCHANGED << sets, crashes >>

\* A worker that is starting fails, or one that was asked to quiesce before it
\* had shown a frame.
FailedEdge(d) == Edge(d, Erred(WorkerRetired(workerOf[d], FALSE)))
StartFails(d) ==
  /\ workerOf[d].blamed /\ crashes < MaxCrashes
  /\ crashes' = crashes + 1
  /\ FailedEdge(d)
  /\ UNCHANGED sets

Crashes(d) ==
  /\ workerOf[d].phase = "active" /\ crashes < MaxCrashes
  /\ crashes' = crashes + 1
  /\ Edge(d, WorkerRetired(workerOf[d], FALSE))
  /\ UNCHANGED sets

\* Reaped and unbound; the next worker is spawned unless the route has an error.
WorkerReaped(d) ==
  /\ workerOf[d].phase = "stopping"
  /\ Edge(d, IF workerOf[d].error THEN [workerOf[d] EXCEPT !.phase = "none"] ELSE Spawned)
  /\ UNCHANGED << sets, crashes >>

SpawnFails(d) ==
  /\ workerOf[d].phase = "stopping" /\ ~workerOf[d].error /\ crashes < MaxCrashes
  /\ crashes' = crashes + 1
  /\ Edge(d, Erred([workerOf[d] EXCEPT !.phase = "none"]))
  /\ UNCHANGED sets

-----------------------------------------------------------------------------
(* Clients come and go: neither looks at the queue. *)

AskerConnects(c) ==
  /\ c \notin connected
  /\ connected' = connected \cup {c}
  /\ workerOf' = IF c \in Displays THEN [workerOf EXCEPT ![c] = Spawned] ELSE workerOf
  /\ UNCHANGED << pending, answers, sets, crashes >>

AskerLeaves(c) ==
  /\ c \in connected
  /\ connected' = connected \ {c}
  /\ pending' = Forgets(pending, {c})
  /\ answers' = AnswersDropped(answers, pending, {c})
  /\ workerOf' = Freed({c}, workerOf)
  /\ UNCHANGED << sets, crashes >>

WorkerEdge(d) == FirstFrame(d) \/ StartFails(d) \/ Crashes(d) \/ WorkerReaped(d) \/ SpawnFails(d)
Request(c) ==
  \/ \E R, Qs \in SUBSET Displays, device \in BOOLEAN :
       Qs \subseteq R /\ (SetState(c, R, Qs, device) \/ Control(c, R, Qs, device))
  \/ Refused(c)
ControlNext ==
  \/ \E d \in Displays : WorkerEdge(d)
  \/ \E c \in Askers : Request(c) \/ AskerConnects(c) \/ AskerLeaves(c)

\* A worker that is starting shows a frame or fails, and one that is stopping
\* is reaped: their deadlines see to it.
Settles == \A d \in Displays : WF_controlVars(FirstFrame(d) \/ StartFails(d))
                               /\ WF_controlVars(WorkerReaped(d) \/ SpawnFails(d))
ControlSpec == ControlInit /\ [][ControlNext]_controlVars /\ Settles

-----------------------------------------------------------------------------

ControlTypeOK ==
  /\ connected \subseteq Askers
  /\ \A d \in Displays :
       /\ workerOf[d] \in [phase : {"none", "starting", "active", "stopping"}, blamed : BOOLEAN, error : BOOLEAN]
       /\ d \notin connected => workerOf[d] = NoWorker
  /\ \A p \in pending : p.client \in connected /\ p.request \in Asked
  /\ \A q \in Requests : answers[q] \in {"none", "pending", "acked", "failed", "superseded", "refused", "dropped"}
  /\ crashes \in 0 .. MaxCrashes

\* A SET_STATE is acknowledged only while it is the newest one, and only when
\* every display still linked runs a worker of the settings wanted then: an
\* old worker still showing frames, or an older request left in the queue, is
\* never reported as success (producer_evaluate_pending_control_acks).
AckIsCurrent ==
  []ControlTypeOK /\
  [][\A i \in DOMAIN sets :
       answers[sets[i]] = "pending" /\ answers'[sets[i]] = "acked"
         => /\ i = Len(sets')
            /\ \A d \in Displays \cap connected' : workerOf'[d].phase = "active"
    ]_controlVars

\* A SET_STATE that waits is settled, with success, failure or a newer request,
\* unless a display it waits for leaves: a departure is no edge of a route that
\* stays, and only another edge looks at the queue again.
SetStateSettles ==
  \A q \in Requests :
    (answers[q] = "pending")
      ~> (answers[q] # "pending" \/ \E d \in Displays : d \notin connected)
=============================================================================
