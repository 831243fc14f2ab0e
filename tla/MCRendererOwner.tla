--------------------------- MODULE MCRendererOwner ---------------------------
(***************************************************************************)
(* RendererOwner for TLC: two configurations to switch between and two     *)
(* outputs on the route.  Identities and outputs are model values.         *)
(***************************************************************************)
EXTENDS RendererOwner, TLC

CONSTANTS
  A, B,      \* two wallpaper identities
  Out1, Out2 \* two display outputs

\* Outputs and identities are interchangeable; used by the safety runs only.
Symmetry == Permutations({A, B}) \cup Permutations({Out1, Out2})
=============================================================================
