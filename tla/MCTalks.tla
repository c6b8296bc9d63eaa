------------------------------ MODULE MCTalks ------------------------------
(* Talks for TLC: two commands of any kind at a time. *)
EXTENDS Talks
=============================================================================
