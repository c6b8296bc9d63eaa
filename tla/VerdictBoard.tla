---------------------------- MODULE VerdictBoard ----------------------------
(***************************************************************************)
(* What the user is promised about the verdicts on recommendations: every  *)
(* request to record one takes effect once, at some moment between asking  *)
(* and the page that answers, or not at all and the page says so.  A       *)
(* process that dies takes its open requests with it.                      *)
(***************************************************************************)
CONSTANTS Recs, Actions, Calls, None

VARIABLES
    verdict,    \* the recorded verdict of every recommendation, or None
    request     \* what each call asks for and how far it is

vars == <<verdict, request>>

Idle == [rec |-> None, action |-> None, state |-> "none"]

Init ==
    /\ verdict = [r \in Recs |-> None]
    /\ request = [c \in Calls |-> Idle]

Ask(c, r, a) ==
    /\ request[c].state = "none"
    /\ request' = [request EXCEPT ![c] = [rec |-> r, action |-> a, state |-> "open"]]
    /\ UNCHANGED verdict

TakeEffect(c) ==
    /\ request[c].state = "open"
    /\ request[c].rec \in Recs
    /\ request[c].action \in Actions
    /\ verdict' = [verdict EXCEPT ![request[c].rec] = request[c].action]
    /\ request' = [request EXCEPT ![c].state = "done"]

Refuse(c) ==
    /\ request[c].state = "open"
    /\ request' = [request EXCEPT ![c].state = "refused"]
    /\ UNCHANGED verdict

Answer(c) ==
    /\ request[c].state \in {"done", "refused"}
    /\ request' = [request EXCEPT ![c] = Idle]
    /\ UNCHANGED verdict

Die ==
    /\ request' = [c \in Calls |-> Idle]
    /\ UNCHANGED verdict

Next ==
    \/ \E c \in Calls, r \in Recs \union {None}, a \in Actions \union {None} : Ask(c, r, a)
    \/ \E c \in Calls : TakeEffect(c) \/ Refuse(c) \/ Answer(c)
    \/ Die

Spec == Init /\ [][Next]_vars
=============================================================================
