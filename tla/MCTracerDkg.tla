---------------------------- MODULE MCTracerDkg -----------------------------
(***************************************************************************)
(* Instances of TracerDkg: the shares a run makes inconsistent with their  *)
(* dealer's commitments.                                                   *)
(***************************************************************************)
EXTENDS TracerDkg

NoShare == {{}}

\* Either every share is good, or tracer 1 discards tracer 0 and nobody else does.
PerhapsOneBadShare == {{}, {<<0, 1>>}}
=============================================================================
