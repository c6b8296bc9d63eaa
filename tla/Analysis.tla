------------------------------ MODULE Analysis ------------------------------
(***************************************************************************)
(* What run_cycle (analysis/orchestrator.rs) computes: captures become     *)
(* clusters, clusters summaries under the cost ceiling, the summaries one  *)
(* synthesis, its answer recommendations, and those an email.  The user    *)
(* gives verdicts meanwhile.  Crashes, retries and two runs at once are in *)
(* Cycle; prices are whole numbers of a small unit.                        *)
(***************************************************************************)
EXTENDS Clustering, Answers, Ranking

CONSTANTS
    MaxRuns,        \* bound: runs of run_cycle
    DaysSeen,       \* the captures each of them may find
    Replies,        \* the answers each may get: [list, cut, fenced]
    PerCall,        \* the estimate of a summary of no capture
    PerCapture,     \* what a capture adds to it
    Ceiling,        \* cost_ceiling_per_cycle_usd
    SynthesisPrice, \* the estimate of the synthesis
    PriorLimit      \* 200 in the program

\* Rows have a time and ids of their own; a cycle's are finitely many.
GoodDay(caps) ==
    /\ IsFiniteSet(caps)
    /\ \A c \in caps : c.at \in Int /\ c.id \in Nat /\ \A d \in caps : c.id = d.id => c = d
ASSUME DaysAssumption ==
    MaxRuns \in Nat /\ \A n \in 1..MaxRuns : \A day \in DaysSeen[n] : GoodDay(day)
\* An answer is the text of a list, as far as it came.
GoodReply(a) ==
    /\ a \in [list : Seq(Entries), cut : Nat, fenced : BOOLEAN]
    /\ a.cut <= Len(ArrayText(a.list)) + (IF a.fenced THEN 2 ELSE 0)
ASSUME RepliesAssumption == \A n \in 1..MaxRuns : \A a \in Replies[n] : GoodReply(a)
ASSUME LimitAssumption == PriorLimit \in Nat
ASSUME PricesAssumption ==
    PerCall \in Nat /\ PerCapture \in Nat /\ Ceiling \in Nat /\ SynthesisPrice \in Nat

VARIABLES
    stage,      \* where run_cycle is
    run,        \* how many there were
    captures,   \* the rows it loaded
    clusters,   \* input.clusters
    summaries,  \* how many of them have one
    spent,      \* the estimates of the calls it made, summed up
    prior,      \* prior_dispositions
    answer,     \* the model's answer, where max_tokens cut it, and its fence
    recs,       \* recs
    saved,      \* the rows the last finished run wrote, in their order
    email,      \* and its email
    verdicts    \* the rows with a disposition, the newest first

vars == <<stage, run, captures, clusters, summaries, spent, prior, answer, recs,
          saved, email, verdicts>>
local == <<run, captures, clusters, summaries, spent, prior, answer, recs>>
world == <<saved, email, verdicts>>

NoAnswer == [list |-> <<>>, cut |-> 0, fenced |-> FALSE]

\* The text of an answer, as far as it came.
Raw(a) ==
    LET text == ArrayText(a.list)
    IN  SubSeq(IF a.fenced THEN Fence(text) ELSE text, 1, a.cut)

Init ==
    /\ stage = "idle"
    /\ run = 0
    /\ captures = {}
    /\ clusters = <<>>
    /\ summaries = 0
    /\ spent = 0
    /\ prior = {}
    /\ answer = NoAnswer
    /\ recs = <<>>
    /\ saved = [run |-> 0, list |-> <<>>]
    /\ email = [top |-> <<>>, rest |-> <<>>]
    /\ verdicts = <<>>

-----------------------------------------------------------------------------
\* Fault: the oldest verdicts are the ones that fit.
PriorOldest ==
    LET n == Len(verdicts) IN ToSet(SubSeq(verdicts, n - Min({PriorLimit, n}) + 1, n))

\* list_prior_dispositions: the newest, as many as LIMIT lets.
Prior == ToSet(SubSeq(verdicts, 1, Min({PriorLimit, Len(verdicts)})))

\* run_cycle up to its first call: captures and verdicts are read once.  A
\* cycle without captures ends before (LoadCaptures of Cycle).
Begin ==
    /\ stage = "idle"
    /\ run < MaxRuns
    /\ stage' = "summarise"
    /\ run' = run + 1
    /\ captures' \in DaysSeen[run']
    /\ clusters' = ClusterCaptures(captures')
    /\ prior' = Prior
    /\ UNCHANGED <<summaries, spent, answer, recs, world>>

\* run_cycle returns, and its own state is gone.
Return ==
    /\ stage' = "idle"
    /\ captures' = {}
    /\ clusters' = <<>>
    /\ summaries' = 0
    /\ spent' = 0
    /\ prior' = {}
    /\ answer' = NoAnswer
    /\ recs' = <<>>
    /\ UNCHANGED run

\* estimate_request of the next summary.
Estimate == PerCall + PerCapture * Len(clusters[summaries + 1].ids)

\* Fault: a call is made as long as the ceiling has not been passed yet.
SummariseUntilPassed ==
    /\ stage = "summarise"
    /\ summaries < Len(clusters)
    /\ spent <= Ceiling
    /\ spent' = spent + Estimate
    /\ summaries' = summaries + 1
    /\ UNCHANGED <<stage, run, captures, clusters, prior, answer, recs, world>>

\* One turn of the loop of summarize_clusters, the ceiling first.
Summarise ==
    /\ stage = "summarise"
    /\ summaries < Len(clusters)
    /\ spent + Estimate <= Ceiling
    /\ spent' = spent + Estimate
    /\ summaries' = summaries + 1
    /\ UNCHANGED <<stage, run, captures, clusters, prior, answer, recs, world>>

\* The ceiling, a model without a price, or a call that fails.
SummaryFails ==
    /\ stage = "summarise"
    /\ summaries < Len(clusters)
    /\ Return
    /\ UNCHANGED world

\* synthesize_recommendations up to its call, whose estimate is compared with
\* nothing.  Of the clusters only the numbers they got matter from here.
Compose ==
    /\ stage = "summarise"
    /\ summaries = Len(clusters)
    /\ stage' = "synthesise"
    /\ spent' = spent + SynthesisPrice
    /\ captures' = {}
    /\ clusters' = <<>>
    /\ UNCHANGED <<run, summaries, prior, answer, recs, world>>

\* The answer arrives, whole or cut by max_tokens.
Answered ==
    /\ stage = "synthesise"
    /\ stage' = "parse"
    /\ answer' \in Replies[run]
    /\ UNCHANGED <<run, captures, clusters, summaries, spent, prior, recs, world>>

\* The call fails, or has no price.
SynthesisFails ==
    /\ stage = "synthesise"
    /\ Return
    /\ UNCHANGED world

\* parse_recommendations on an answer that can be read, if need be salvaged.
Parse ==
    /\ stage = "parse"
    /\ \E list \in ReadAnswer(Raw(answer)) : recs' = Resting(list, summaries)
    /\ stage' = "rank"
    /\ UNCHANGED <<run, captures, clusters, summaries, spent, prior, answer, world>>

ParseFails ==
    /\ stage = "parse"
    /\ ReadAnswer(Raw(answer)) = {}
    /\ Return
    /\ UNCHANGED world

\* Dedup, the tiers, rank, the rows and the email.
Deliver ==
    /\ stage = "rank"
    /\ saved' = [run |-> run, list |-> Rank(Dedup(recs, prior))]
    /\ email' = Render(saved'.list)
    /\ Return
    /\ UNCHANGED verdicts

\* parse_tier_configs fails when everything has been paid for.
TiersUnreadable ==
    /\ stage = "rank"
    /\ Return
    /\ UNCHANGED world

\* The user disposes of a saved recommendation; its row gets the verdict and
\* the time, here the run that began last.
Dispose(i, v) ==
    /\ LET id == <<saved.run, i>>
           row == [id |-> id, name |-> saved.list[i].name, verdict |-> v, asof |-> run]
       IN  verdicts' = <<row>> \o Picked(verdicts, {k \in DOMAIN verdicts : verdicts[k].id # id})
    /\ UNCHANGED <<stage, local, saved, email>>

Next ==
    \/ Begin \/ Summarise \/ SummaryFails
    \/ Compose \/ Answered \/ SynthesisFails \/ Parse \/ ParseFails
    \/ Deliver \/ TiersUnreadable
    \/ \E i \in DOMAIN saved.list, v \in Actions : Dispose(i, v)

Spec == Init /\ [][Next]_vars

-----------------------------------------------------------------------------
(* Properties *)

\* What a run spends on summaries stays below the ceiling, and of all its calls
\* the synthesis alone can go beyond it (summarize_clusters' running total).
WithinCeiling ==
    /\ stage = "summarise" => spent <= Ceiling
    /\ stage \in {"synthesise", "parse", "rank"} => spent - SynthesisPrice <= Ceiling

\* Two captures in a row of a day that belong together, and a stretch of it that
\* is longer than a session may be; where a cluster's captures are in it.
Alike(day, i) ==
    /\ AppSignature(day[i]) = AppSignature(day[i + 1])
    /\ day[i + 1].at - day[i].at <= MaxGap
Long(day, i, j) == day[j].at - day[i].at > MaxDuration
PlaceOf(day, id) == CHOOSE i \in DOMAIN day : day[i].id = id
PlacesOf(day, c) == {PlaceOf(day, c.ids[k]) : k \in DOMAIN c.ids}

\* Clusters are stretches of the day: one signature, no gap and no length beyond
\* the limits, each capture in one of them; and two neighbours that belong
\* together are apart only where a session had reached its length
\* (cluster_captures, including the last session and the ones it drops).
SessionsAreWhole ==
    stage = "summarise" =>
        LET day == InOrder(captures)
            Session(k) == PlacesOf(day, clusters[k])
        IN  /\ \A k \in DOMAIN clusters :
                LET s == Session(k) IN
                /\ s = Min(s)..Max(s) /\ Cardinality(s) >= MinCaptures
                /\ \A i \in Min(s)..Max(s) - 1 : Alike(day, i)
                /\ ~Long(day, Min(s), Max(s))
                /\ \A l \in 1..k - 1 : Max(Session(l)) < Min(s)
            /\ \A i \in 1..Len(day) - 1 : Alike(day, i) =>
                \/ \E k \in DOMAIN clusters : {i, i + 1} \subseteq Session(k)
                \/ \E j \in 1..i : Long(day, j, i + 1) /\ \A l \in j..i : Alike(day, l)

\* However far an answer came, the entries that came whole are the ones that are
\* read, and only an answer without one fails (the salvage keeps the rest when
\* max_tokens cuts the last).  What comes of them cites clusters the model was
\* shown, by the numbers synthesis_user_message gave them, which begin with 0.
WholeEntriesSurvive ==
    [][ stage = "parse" /\ stage' # "parse" =>
            LET open == IF answer.fenced THEN 2 ELSE 1
                width == Len(Text(CHOOSE e \in Entries : TRUE)) + 1
                whole == {n \in 1..Len(answer.list) : open - 1 + n * width <= answer.cut}
                kept == SubSeq(answer.list, 1, Cardinality(whole))
            IN  IF whole # {} \/ (answer.list = <<>> /\ answer.cut > open)
                THEN /\ stage' = "rank" /\ recs' = Resting(kept, summaries)
                     /\ \A i \in DOMAIN recs' :
                          recs'[i].cites # <<>> /\ ToSet(recs'[i].cites) \subseteq 0..summaries - 1
                ELSE stage' = "idle" ]_vars

\* The email holds what is not suppressed and nothing else, no more than
\* TopCount on top and none below that is worth more; what is suppressed is at
\* the end of what is saved (rank_recommendations and render together).
BestOnTop ==
    LET shown == email.top \o email.rest IN
    /\ Len(email.top) <= TopCount /\ (email.rest # <<>> => Len(email.top) = TopCount)
    /\ IsPrefix(shown, saved.list)
    /\ \A i \in DOMAIN saved.list : saved.list[i].confidence < Threshold <=> i > Len(shown)
    /\ \A r \in ToSet(email.top), q \in ToSet(email.rest) : Score(r) >= Score(q)

\* What the user refused or has built is not recommended under its name by a run
\* that began later, as long as its verdict is among the newest PriorLimit,
\* unless the description brings more than half as many further words again as
\* the name has: then the similarity falls below 0.4 (dedup_against_dispositions).
RefusedStaysAway ==
    \A i \in 1..Min({PriorLimit, Len(verdicts)}), r \in ToSet(saved.list) :
        LET p == verdicts[i] IN
        /\ p.verdict \in Final /\ p.asof < saved.run
        /\ p.name = r.name /\ r.name # {}
        => 2 * Cardinality(r.further \ r.name) > 3 * Cardinality(r.name)
=============================================================================
