--------------------------- MODULE MCCaptureTick ---------------------------
(***************************************************************************)
(* Instances of CaptureTick for TLC.  Ticks are model values.              *)
(***************************************************************************)
EXTENDS CaptureTick, TLC

\* Ticks are interchangeable.
TickSymmetry == Permutations(Ticks)
=============================================================================
