----------------------------- MODULE BufferLease -----------------------------
(***************************************************************************)
(* What the owner of a route promises about render workers and the pools   *)
(* of buffers they lend to display outputs, without saying how:            *)
(*   - a worker starts only when no earlier worker's process group exists; *)
(*   - a worker begins to lend only when no output holds a buffer of an    *)
(*     earlier worker;                                                     *)
(*   - a retired worker lends nothing any more and never serves again.     *)
(* The detailed design is RendererOwner.                                   *)
(***************************************************************************)
EXTENDS Integers

CONSTANTS
  Workers, \* worker numbers in the order of their starts, an interval from 1
  Users    \* the outputs a pool is lent to

VARIABLES
  worker, \* the newest worker, 0 before the first
  phase,  \* what the newest worker may do: "starting", "serving" or "retired"
  holds,  \* worker whose buffers a user holds, 0 for none
  groups  \* workers of whose process group some process is running

leaseVars == << worker, phase, holds, groups >>

Init ==
  /\ worker = 0 /\ phase = "retired"
  /\ holds = [u \in Users |-> 0]
  /\ groups = {}

Start ==
  /\ phase = "retired" /\ groups = {}
  /\ worker + 1 \in Workers
  /\ worker' = worker + 1 /\ phase' = "starting" /\ groups' = {worker + 1}
  /\ UNCHANGED holds

\* Mutant of Serve: the buffers of an earlier worker are not waited for.
ServeEarly ==
  /\ phase = "starting"
  /\ phase' = "serving"
  /\ UNCHANGED << worker, holds, groups >>

Serve ==
  /\ phase = "starting"
  /\ \A u \in Users : holds[u] = 0
  /\ phase' = "serving"
  /\ UNCHANGED << worker, holds, groups >>

Lend(u) ==
  /\ phase = "serving"
  /\ holds' = [holds EXCEPT ![u] = worker]
  /\ UNCHANGED << worker, phase, groups >>

Return(u) ==
  /\ holds[u] # 0
  /\ holds' = [holds EXCEPT ![u] = 0]
  /\ UNCHANGED << worker, phase, groups >>

Retire ==
  /\ phase # "retired"
  /\ phase' = "retired"
  /\ UNCHANGED << worker, holds, groups >>

GroupEnds ==
  /\ groups # {}
  /\ groups' = {}
  /\ UNCHANGED << worker, phase, holds >>

Next ==
  \/ Start \/ Serve \/ Retire \/ GroupEnds
  \/ \E u \in Users : Lend(u) \/ Return(u)

Spec == Init /\ [][Next]_leaseVars
=============================================================================
