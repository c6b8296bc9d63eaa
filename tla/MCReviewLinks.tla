---------------------------- MODULE MCReviewLinks ----------------------------
(* ReviewLinks for TLC: recommendations, calls and ports are model values. *)
EXTENDS ReviewLinks
==============================================================================
