----------------------------- MODULE Clustering -----------------------------
(***************************************************************************)
(* Stage 1 of the analysis (analysis/cluster.rs): captures become work     *)
(* sessions.  A capture is a record [id, at, app, title]; app is "" when   *)
(* none was seen, and a title is a sequence of words and separators, in    *)
(* lower case and trimmed.                                                 *)
(***************************************************************************)
EXTENDS Integers, Sequences, SequencesExt, Arrange

CONSTANTS MaxGap, MaxDuration, MinCaptures

\* ClusterConfig::default, the only one run_cycle uses: min_captures is 2, so a
\* session that is dropped never held two captures.
ASSUME LimitsAssumption ==
    MaxGap \in Nat /\ MaxDuration \in Nat /\ MinCaptures \in 0..2

Separators == <<"~", "-", "|">>

\* The part behind the last separator of the first kind that has one.
TitleContext(title) ==
    LET Cuts(n) == {i \in 1..Len(title) - 1 : title[i] = Separators[n]}
        kinds == {n \in DOMAIN Separators : Cuts(n) # {}}
    IN  IF kinds = {} THEN title
        ELSE SubSeq(title, 1 + Max(Cuts(Min(kinds))), Len(title))

\* The apps whose titles end in something stable.
Bucketed == {"code", "figma", "slack"}

AppSignature(cap) ==
    LET app == IF cap.app = "" THEN "unknown" ELSE cap.app
    IN  IF app \in Bucketed /\ cap.title # <<>>
        THEN <<app, TitleContext(cap.title)>>
        ELSE <<app>>

\* sort_by_key on the timestamp is stable, and the rows come in the order of
\* their ids.
Earlier(c, d) == c.at < d.at \/ (c.at = d.at /\ c.id < d.id)
InOrder(caps) == Arranged(caps, {p \in caps \X caps : Earlier(p[1], p[2])})

-----------------------------------------------------------------------------
Opened(cap) ==
    [signature |-> AppSignature(cap), start |-> cap.at, end |-> cap.at, ids |-> <<cap.id>>]
Extended(c, cap) == [c EXCEPT !.end = cap.at, !.ids = Append(@, cap.id)]

\* Fault: the gap is measured from where the session began.
SplitsFromStart(c, cap) ==
    \/ c.signature # AppSignature(cap)
    \/ cap.at - c.start > MaxGap

Splits(c, cap) ==
    \/ c.signature # AppSignature(cap)
    \/ cap.at - c.end > MaxGap
    \/ cap.at - c.start > MaxDuration

\* The session under way is the last of acc; it is weighed against MinCaptures
\* when the next one opens, or at the end.
Weighed(acc) ==
    IF acc = <<>> \/ Len(Last(acc).ids) >= MinCaptures THEN acc ELSE Front(acc)

\* One turn of the loop of cluster_captures.
Join(acc, cap) ==
    IF acc = <<>> \/ Splits(Last(acc), cap)
    THEN Append(Weighed(acc), Opened(cap))
    ELSE Append(Front(acc), Extended(Last(acc), cap))

\* cluster_captures after each of its turns, and at its end.
Turns(day) ==
    LET acc[n \in 0..Len(day)] == IF n = 0 THEN <<>> ELSE Join(acc[n - 1], day[n])
    IN  acc
ClusterCaptures(caps) ==
    LET day == InOrder(caps) IN Weighed(Turns(day)[Len(day)])
=============================================================================
