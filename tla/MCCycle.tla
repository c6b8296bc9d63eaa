------------------------------ MODULE MCCycle ------------------------------
(***************************************************************************)
(* Instances of Cycle for TLC.  The constants are small integers and sets  *)
(* of model values given in the cfg files; the slots of the trigger are    *)
(* not declared symmetric, the run also checks liveness.                   *)
(***************************************************************************)
EXTENDS Cycle, TLC
=============================================================================
