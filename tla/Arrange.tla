------------------------------ MODULE Arrange ------------------------------
(***************************************************************************)
(* Sorting and filtering by position: what Rust's slice::sort_by and       *)
(* Iterator::filter return, said without a loop.  SortSeq and SelectSeq    *)
(* give the same sequences, but take operators, so nothing can be proved   *)
(* about them for every argument; these take sets.                         *)
(***************************************************************************)
EXTENDS Integers, Sequences, FiniteSets

\* The elements of a finite set S one after the other, R a strict total order
\* on them: the k-th is the one with k - 1 before it.
Arranged(S, R) ==
    [k \in 1..Cardinality(S) |->
        CHOOSE x \in S : Cardinality({y \in S : <<y, x>> \in R}) = k - 1]

\* The smaller of two positions comes first.
Rising(S) == {p \in S \X S : p[1] < p[2]}

\* The entries of s at some of its positions, in the order they have in s.
Picked(s, at) ==
    LET order == Arranged(at, Rising(at))
    IN  [k \in 1..Cardinality(at) |-> s[order[k]]]
=============================================================================
