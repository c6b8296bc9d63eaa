------------------------------ MODULE Ranking -------------------------------
(***************************************************************************)
(* Stage 4 (analysis/scoring.rs) and the part of the email that says which *)
(* recommendations are on top (email/template.rs).                         *)
(*                                                                         *)
(* name and further are sets of words of three letters or more: those of   *)
(* the name and those only the description has.  Confidence is in tenths,  *)
(* a score in tenths of a point; a missing number is 0, as unwrap_or(0.0)  *)
(* makes it.                                                               *)
(***************************************************************************)
EXTENDS Integers, Sequences, SequencesExt, FiniteSetsExt, Arrange

CONSTANTS
    Tiers,      \* tier-definitions.json: [id, weight, scoring, multiplier, enabled]
    Threshold,  \* confidence_suppression_threshold, in tenths
    TopCount    \* 5 in the program

\* What TierConfig and the settings may hold, in whole numbers.
ASSUME TiersAssumption ==
    /\ Tiers \in Seq([id : STRING, weight : Int, scoring : STRING, multiplier : Int,
                      enabled : BOOLEAN])
    /\ Threshold \in Int /\ TopCount \in Nat

Final == {"not_interested", "implemented"}
Actions == Final \union {"maybe_later"}

\* ease_factor, in tenths.
Ease(complexity) ==
    CASE complexity = "low" -> 10
      [] complexity = "medium" -> 6
      [] complexity = "high" -> 3
      [] OTHER -> 5

\* jaccard(a, b) >= 0.4; two names without words are not similar.
Similar(a, b) ==
    /\ a \union b # {}
    /\ 10 * Cardinality(a \intersect b) >= 4 * Cardinality(a \union b)

\* Fault: what was implemented may come back.
DedupRefusedOnly(recs, prior) ==
    Picked(recs, {i \in DOMAIN recs : \A p \in prior :
        ~(p.verdict = "not_interested" /\ Similar(recs[i].name \union recs[i].further, p.name))})

\* dedup_against_dispositions at its threshold of 0.4
Dedup(recs, prior) ==
    Picked(recs, {i \in DOMAIN recs : \A p \in prior :
        ~(p.verdict \in Final /\ Similar(recs[i].name \union recs[i].further, p.name))})

\* score_recommendation; tiers are found by id, the first one counts.
Score(r) ==
    LET found == {i \in DOMAIN Tiers : Tiers[i].id = r.tier}
        first == Tiers[Min(found)]
    IN  IF found = {} \/ ~first.enabled THEN 0
        ELSE IF first.scoring = "quantitative"
        THEN r.frequency * r.minutes * Ease(r.complexity) * first.weight
        ELSE r.confidence * first.weight * first.multiplier

Suppressed(r) == r.confidence < Threshold

\* Fault: what is suppressed keeps its place by score.
PrecedesByScore(r, q) == Score(r) > Score(q)

\* The comparison of rank_recommendations.
Precedes(r, q) ==
    \/ ~Suppressed(r) /\ Suppressed(q)
    \/ Suppressed(r) = Suppressed(q) /\ Score(r) > Score(q)

\* sort_by is stable: equals stay as they came.
Rank(recs) ==
    LET at == DOMAIN recs
        First(i, j) == \/ Precedes(recs[i], recs[j])
                       \/ i < j /\ ~Precedes(recs[j], recs[i])
        order == Arranged(at, {p \in at \X at : First(p[1], p[2])})
    IN  [k \in at |-> recs[order[k]]]

\* render: what is not suppressed, the best of it on top.
Render(recs) ==
    LET visible == Picked(recs, {i \in DOMAIN recs : ~Suppressed(recs[i])})
        top == Min({TopCount, Len(visible)})
    IN  [top |-> SubSeq(visible, 1, top), rest |-> SubSeq(visible, top + 1, Len(visible))]
=============================================================================
