-------------------------- MODULE MCRendererSession --------------------------
(***************************************************************************)
(* Values of RendererSession for TLC: one wallpaper and at most one        *)
(* output, so that sessions differ only by what the two sides do.          *)
(***************************************************************************)
EXTENDS RendererSession

CONSTANTS A, Out1

\* Both kinds of backend.  The painter of the one that paints aside multiplies the
\* states, so it has no output, no disturbances and two release points.
BothNext ==
  /\ Calm \/ (~aside /\ Disturbance)
  /\ aside => boundTo' = boundTo /\ nextPoint' <= 2

BothKinds == SessionInit /\ [][BothNext]_sessionVars
=============================================================================
