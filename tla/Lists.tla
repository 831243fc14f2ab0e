--------------------------------- MODULE Lists ---------------------------------
(***************************************************************************)
(* Parts of a list, by the positions that are picked: what remains of it   *)
(* after others are erased, in the order they had.                         *)
(***************************************************************************)
EXTENDS Integers, Sequences, FiniteSets

\* How many of the numbers S are up to n.
UpTo(S, n) == Cardinality({r \in S : r <= n})

\* A set of numbers as a list, the least first.
InOrder(S) == [k \in 1 .. Cardinality(S) |-> CHOOSE s \in S : UpTo(S, s) = k]

\* The elements of a list at the positions K.
Picked(list, K) == [k \in 1 .. Cardinality(K) |-> list[InOrder(K)[k]]]
=============================================================================
