--------------------------- MODULE CaptureLedger ---------------------------
(***************************************************************************)
(* What the capture side promises about the evidence of each tick: it      *)
(* appears whole, may be reduced once to thumbnail and text, and is never  *)
(* lost.  CaptureTick implements it.                                       *)
(***************************************************************************)
CONSTANT Ticks
VARIABLE evidence

Init == evidence = [t \in Ticks |-> "none"]

\* A capture is committed with its full picture.
Take(t) ==
  /\ evidence[t] = "none"
  /\ evidence' = [evidence EXCEPT ![t] = "full"]

\* The budget pipeline has replaced the picture.
Reduce(t) ==
  /\ evidence[t] = "full"
  /\ evidence' = [evidence EXCEPT ![t] = "reduced"]

Next == \E t \in Ticks : Take(t) \/ Reduce(t)

Spec == Init /\ [][Next]_evidence
=============================================================================
