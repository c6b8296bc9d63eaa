------------------------------ MODULE Answers -------------------------------
(***************************************************************************)
(* Stage 3's reading of the model's answer (parse_recommendations,         *)
(* strip_markdown_fence and salvage_truncated_array of                     *)
(* analysis/synthesize.rs).                                                *)
(*                                                                         *)
(* An answer is a sequence of tokens.  An entry's text holds what the scan *)
(* has to survive: a nested array, and a string with a brace after an      *)
(* escaped quote.  Its data are one token e, and Proposal[e] what they     *)
(* say; valid is FALSE when a field RawRecommendation demands is missing.  *)
(***************************************************************************)
EXTENDS Integers, Sequences, SequencesExt, Arrange

CONSTANTS
    Entries,    \* what the model may propose, as it stands in the text
    Proposal    \* what each says

\* The tokens the scan tells apart, one for every other datum, and the fence.
Marks == {"lbrace", "rbrace", "lbracket", "rbracket", "comma", "quote", "backslash",
          "datum", "fence"}

\* The fields of RawRecommendation; names are short texts, so their words are
\* finitely many.  No entry is a token of the text around it.
ASSUME ProposalAssumption ==
    /\ Proposal \in [Entries -> [valid : BOOLEAN, name : SUBSET STRING, further : SUBSET STRING,
                                 tier : STRING, frequency : Int, minutes : Int,
                                 complexity : STRING, confidence : Int, cites : Seq(Int)]]
    /\ \A e \in Entries : IsFiniteSet(Proposal[e].name) /\ IsFiniteSet(Proposal[e].further)
    /\ Entries \intersect Marks = {}

Text(e) ==
    <<"lbrace", "quote", "backslash", "quote", "rbrace", "quote",
      "lbracket", "datum", "rbracket", e, "rbrace">>

ArrayText(list) ==
    LET Upto[n \in 0..Len(list)] ==
            IF n = 0 THEN <<"lbracket">>
            ELSE Upto[n - 1] \o (IF n = 1 THEN <<>> ELSE <<"comma">>) \o Text(list[n])
    IN  Append(Upto[Len(list)], "rbracket")

Fence(text) == <<"fence">> \o text \o <<"fence">>

\* strip_markdown_fence: the one in front, and then the one at the end.
StripFence(raw) ==
    IF raw = <<>> \/ Head(raw) # "fence" THEN raw
    ELSE LET rest == Tail(raw)
         IN  IF rest # <<>> /\ Last(rest) = "fence" THEN Front(rest) ELSE rest

\* serde_json::from_str: the list a text is the text of, if there is one.
Reads(text) ==
    LET list == Picked(text, {i \in DOMAIN text : text[i] \in Entries})
    IN  {l \in {list} : ArrayText(l) = text}

-----------------------------------------------------------------------------
Unscanned ==
    [at |-> 0, braces |-> 0, brackets |-> 0, string |-> FALSE, escape |-> FALSE, close |-> 0]

\* Fault: the scan counts what is inside strings.
ScanThroughStrings(scan, t) ==
    LET s == [scan EXCEPT !.at = @ + 1] IN
    CASE t = "lbrace" -> [s EXCEPT !.braces = @ + 1]
      [] t = "rbrace" -> [s EXCEPT !.braces = @ - 1,
                              !.close = IF scan.braces = 1 /\ scan.brackets = 1 THEN s.at ELSE @]
      [] t = "lbracket" -> [s EXCEPT !.brackets = @ + 1]
      [] t = "rbracket" -> [s EXCEPT !.brackets = @ - 1]
      [] OTHER -> s

\* One turn of the loop of salvage_truncated_array.
Scan(scan, t) ==
    LET s == [scan EXCEPT !.at = @ + 1] IN
    IF scan.escape THEN [s EXCEPT !.escape = FALSE]
    ELSE IF scan.string THEN [s EXCEPT !.escape = (t = "backslash"), !.string = (t # "quote")]
    ELSE CASE t = "quote" -> [s EXCEPT !.string = TRUE]
           [] t = "lbrace" -> [s EXCEPT !.braces = @ + 1]
           [] t = "rbrace" ->
                [s EXCEPT !.braces = @ - 1,
                          !.close = IF scan.braces = 1 /\ scan.brackets = 1 THEN s.at ELSE @]
           [] t = "lbracket" -> [s EXCEPT !.brackets = @ + 1]
           [] t = "rbracket" -> [s EXCEPT !.brackets = @ - 1]
           [] OTHER -> s

\* What a text that is no JSON can still be read as, at most one list.
Salvage(text) ==
    LET Upto[n \in 0..Len(text)] ==
            IF n = 0 THEN Unscanned ELSE Scan(Upto[n - 1], text[n])
        close == Upto[Len(text)].close
    IN  IF text = <<>> \/ Head(text) # "lbracket" \/ close = 0 THEN {}
        ELSE Reads(Append(SubSeq(text, 1, close), "rbracket"))

\* The list an answer is read as, or nothing and synthesis has failed.
ReadAnswer(raw) ==
    LET text == StripFence(raw)
        whole == Reads(text)
    IN  IF whole # {} THEN whole ELSE Salvage(text)

\* Fault: an entry's clusters are taken as the model counts, from one.
RestingFromOne(list, clusters) ==
    LET Rests(e) ==
            [Proposal[e] EXCEPT !.cites = Picked(@, {k \in DOMAIN @ : @[k] \in 1..clusters})]
        rests == [i \in DOMAIN list |-> Rests(list[i])]
    IN  Picked(rests, {i \in DOMAIN rests : rests[i].valid /\ rests[i].cites # <<>>})

\* The rest of parse_recommendations: malformed entries are dropped, then the
\* citations of clusters that do not exist, then entries left with none.
Resting(list, clusters) ==
    LET Rests(e) ==
            [Proposal[e] EXCEPT !.cites = Picked(@, {k \in DOMAIN @ : @[k] \in 0..clusters - 1})]
        rests == [i \in DOMAIN list |-> Rests(list[i])]
    IN  Picked(rests, {i \in DOMAIN rests : rests[i].valid /\ rests[i].cites # <<>>})
=============================================================================
