----------------------------- MODULE MCAnalysis -----------------------------
(* Analysis for TLC: every day of four captures in three windows, some longer *)
(* ones, and answers cut at every token, for the first run; a few for the next. *)
EXTENDS Analysis

Windows == {[app |-> "chrome", title |-> <<"mail">>],
            [app |-> "code", title |-> <<"main", "-", "scout">>],
            [app |-> "code", title |-> <<"mail", "-", "notes", "~", "lib", "-", "scout">>]}
Day(w, g) ==
    {[id |-> i, at |-> FoldLeft(LAMBDA x, y : x + y, 0, SubSeq(g, 1, i - 1)),
      app |-> w[i].app, title |-> w[i].title] : i \in DOMAIN w}
AnyDay == {Day(w, g) : w \in [1..4 -> Windows], g \in [1..3 -> {0, 2, 3}]}
LongDay == {Day(<<w, w, v, v, v>>, <<2, 0, 2, 1>>) : w \in Windows, v \in Windows}
QuietDay == {Day(<<w, w>>, <<1>>) : w \in Windows}
MCDaysSeen == <<AnyDay \union LongDay, QuietDay>>

Rec(name, further, tier, confidence, cites) ==
    [valid |-> TRUE, name |-> name, further |-> further, tier |-> tier, frequency |-> 2,
     minutes |-> 3, complexity |-> "medium", confidence |-> confidence, cites |-> cites]
MCProposal ==
    [triage |-> Rec({"triage", "mail"}, {"sorts"}, "delegate", 6, <<0>>),
     again |-> Rec({"triage", "mail"}, {"reads", "sorts", "files", "sent"}, "think", 7, <<1, 0, 9>>),
     guess |-> Rec({"guess"}, {}, "think", 3, <<0>>),
     dream |-> Rec({"dream"}, {}, "think", 9, <<4, 5>>),
     broken |-> [Rec({}, {}, "think", 9, <<0>>) EXCEPT !.valid = FALSE],
     idle |-> Rec({"idle"}, {}, "off", 8, <<0, 0>>)]
MCEntries == DOMAIN MCProposal
MCTiers == <<[id |-> "delegate", scoring |-> "quantitative", weight |-> 2, multiplier |-> 0, enabled |-> TRUE],
             [id |-> "think", scoring |-> "qualitative", weight |-> 1, multiplier |-> 10, enabled |-> TRUE],
             [id |-> "off", scoring |-> "qualitative", weight |-> 9, multiplier |-> 10, enabled |-> FALSE]>>

Lists == {<<>>, <<"triage">>, <<"again">>, <<"broken">>, <<"dream", "triage">>,
          <<"guess", "again">>, <<"idle", "triage">>, <<"guess", "idle", "again">>}
Later == {<<"again">>, <<"guess", "triage">>}
Reply(l, c, f) == [list |-> l, cut |-> c, fenced |-> f]
MCReplies ==
    <<UNION {{Reply(l, c, FALSE) : c \in 0..Len(ArrayText(l))}
             \union {Reply(l, c, TRUE) : c \in 0..Len(ArrayText(l)) + 2} : l \in Lists},
      {Reply(l, Len(ArrayText(l)), FALSE) : l \in Later}>>
=============================================================================
