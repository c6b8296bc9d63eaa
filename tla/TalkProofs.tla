----------------------------- MODULE TalkProofs -----------------------------
(***************************************************************************)
(* Proofs about Talks, for any number of commands, conversations, replies, *)
(* faults and page loads: type correctness, that an answer goes into the   *)
(* transcript it was asked about, that a written conversation is in no     *)
(* slot, and which conversation a click on a finish button writes.         *)
(***************************************************************************)
EXTENDS Talks, TLAPS

Points == {"idle", "clicked", "waiting", "asking", "hung", "writing", "answered", "error"}
Ops == {"start", "reply", "finish"}
Turns == Seq({"user", "assistant"})
Talk == [id : 1..MaxTalks, turns : Turns]
Command == [pc : Points, kind : Kinds \union {None},
            op : Ops \union {None},
            talk : 0..MaxTalks, sent : Turns, watched : BOOLEAN]
Buttons == [start : BOOLEAN, input : BOOLEAN, finish : BOOLEAN, finishShown : BOOLEAN,
            talk : 0..MaxTalks]

Shapes ==
    /\ slot \in [Kinds -> Talk \union {None}]
    /\ lock \in [Kinds -> Calls \union {None}]
    /\ file \in [Kinds -> [state : {"absent", "torn", "whole"}, by : 0..MaxTalks, json : BOOLEAN]]
    /\ page \in [Kinds -> Buttons]
    /\ call \in [Calls -> Command]
    /\ talks \in 0..MaxTalks /\ earlier \in 0..MaxTalks
    /\ begun \in [Kinds -> SUBSET (1..MaxTalks)]
    /\ replies \in 0..MaxReplies
    /\ faults \in 0..MaxFaults /\ reloads \in 0..MaxReloads
    /\ \A c \in Calls :
        /\ call[c].pc # "idle" => call[c].kind \in Kinds /\ call[c].op \in Ops
        /\ call[c].pc \in {"asking", "hung"} => call[c].op \in {"reply", "finish"}
        /\ call[c].pc = "writing" => call[c].op = "finish"
        /\ call[c].pc # "idle" /\ call[c].op = "start" => call[c].talk # 0
        /\ call[c].pc = "idle" => ~call[c].watched

\* Between the question and its answer a command has the lock of its kind, and
\* the transcript is the one it sent.
Holds(c, k) == call[c].kind = k /\ call[c].pc \in {"asking", "hung", "writing"}

LockInv ==
    \A k \in Kinds, c \in Calls : Holds(c, k) =>
        /\ lock[k] = c
        /\ slot[k] # None /\ slot[k].turns = call[c].sent

\* A file that is being written is the slot's; one left torn has a cause.
FileInv ==
    /\ \A k \in Kinds, c \in Calls : Holds(c, k) /\ call[c].pc = "writing" =>
        /\ file[k].state = "torn" /\ file[k].by = slot[k].id
        /\ file[k].json = (k = "tiers")
    /\ \A k \in Kinds : file[k].state = "torn" =>
        faults > 0 \/ \E c \in Calls : Holds(c, k) /\ call[c].pc = "writing"
    /\ file["tiers"].state = "whole" => file["tiers"].json

\* The conversation a start will put into the slot is in no slot and no file
\* yet, and no two starts will put in the same.
Starting(c) == call[c].op = "start" /\ call[c].pc \in {"clicked", "waiting"}

FreshInv ==
    /\ \A k \in Kinds : file[k].by <= talks /\ (slot[k] # None => slot[k].id <= talks)
    /\ \A c \in Calls : Starting(c) =>
        /\ call[c].talk <= talks
        /\ \A k \in Kinds : file[k].by # call[c].talk /\ (slot[k] # None => slot[k].id # call[c].talk)
        /\ \A d \in Calls : Starting(d) /\ call[d].talk = call[c].talk => d = c

\* The commands whose result the page still waits for, and whether a slot has
\* nothing that this load of the page asked for.
WatchedStart(c, k) ==
    /\ call[c].watched /\ call[c].kind = k /\ call[c].op = "start"
    /\ call[c].pc \in {"clicked", "waiting", "error"}

WatchedFinish(c, k) == call[c].watched /\ call[c].kind = k /\ call[c].op = "finish"

NothingNew(k) == slot[k] = None \/ slot[k].id <= earlier

\* A kind's page is done with finishing, or it starts one conversation at a
\* time, shows the newest, and each it showed before has not begun.
Over(k) == ~page[k].finish /\ \A c \in Calls : ~WatchedFinish(c, k)

Going(k) ==
    /\ page[k].start => NothingNew(k) /\ page[k].talk \notin begun[k]
    /\ NothingNew(k) \/ slot[k].id = page[k].talk
    /\ \A c \in Calls : WatchedStart(c, k) =>
        /\ ~page[k].start /\ NothingNew(k)
        /\ call[c].talk = page[k].talk /\ page[k].talk \notin begun[k]
        /\ \A d \in Calls : WatchedStart(d, k) => d = c
    /\ \A c \in Calls : WatchedFinish(c, k) =>
        /\ call[c].talk <= page[k].talk
        /\ call[c].talk < page[k].talk => call[c].talk \notin begun[k]

\* Which conversations this load of the page asked for.
LoadInv ==
    /\ earlier <= talks /\ \A k \in Kinds : \A t \in begun[k] : t <= talks
    /\ \A k \in Kinds :
        /\ page[k].talk = 0 \/ page[k].talk > earlier
        /\ page[k].talk <= talks
        /\ page[k].finishShown => page[k].talk # 0
    /\ \A c \in Calls : Starting(c) =>
        IF call[c].watched THEN call[c].talk > earlier ELSE call[c].talk <= earlier

\* One finish at a time.
FinishInv ==
    \A c \in Calls, k \in Kinds : WatchedFinish(c, k) =>
        /\ ~page[k].finish /\ call[c].talk > earlier
        /\ \A d \in Calls : WatchedFinish(d, k) => d = c

ButtonInv == LoadInv /\ FinishInv /\ \A k \in Kinds : Over(k) \/ Going(k)

TalkInv ==
    /\ Shapes /\ LockInv /\ FileInv /\ FreshInv
    /\ FinishedIsGone
    /\ ButtonInv

\* The steps of Next, one disjunct per action.
LEMMA NextCases ==
  ASSUME Next
  PROVE  \/ \E c \in Calls, k \in Kinds : ClickStart(c, k)
         \/ \E c \in Calls, k \in Kinds : Send(c, k)
         \/ \E c \in Calls, k \in Kinds : ClickFinish(c, k)
         \/ \E c \in Calls : Build(c) \/ ReadKey(c)
         \/ \E c \in Calls : NoProfile(c)
         \/ \E c \in Calls : NoKey(c)
         \/ \E c \in Calls : Start(c)
         \/ \E c \in Calls : NoTalk(c)
         \/ \E c \in Calls : AskReply(c)
         \/ \E c \in Calls : Reply(c)
         \/ \E c \in Calls : AskFinish(c)
         \/ \E c \in Calls : AskFails(c) \/ NotJson(c) \/ WriteFails(c)
         \/ \E c \in Calls : ApiHangs(c)
         \/ \E c \in Calls : OpenFile(c)
         \/ \E c \in Calls : WriteFile(c)
         \/ \E c \in Calls : Return(c)
         \/ Reload \/ Crash
BY DEF Next

-----------------------------------------------------------------------------
(* Types *)

LEMMA EmptyTurns == <<>> \in Turns /\ <<"assistant">> \in Turns
BY DEF Turns

LEMMA AppendTurns ==
  ASSUME NEW s \in Turns, NEW who \in {"user", "assistant"}
  PROVE  Append(s, who) \in Turns
BY DEF Turns

LEMMA ShapeStep ==
  ASSUME Shapes, LockInv, [Next]_vars
  PROVE  Shapes'
<1> USE TalkAssumption DEF Shapes, counts, Ops
<1>0. CASE UNCHANGED vars
  BY <1>0 DEF vars
\* A step that makes a command what r says.
<1>i. ASSUME NEW c \in Calls, NEW r \in Command, call' = [call EXCEPT ![c] = r],
             r.kind \in Kinds, r.op \in Ops, r.op = "start" => r.talk # 0,
             r.pc \notin {"idle", "hung"},
             r.pc = "asking" => r.op \in {"reply", "finish"}, r.pc # "writing"
      PROVE  /\ call' \in [Calls -> Command]
             /\ \A d \in Calls :
                  /\ call'[d].pc # "idle" => call'[d].kind \in Kinds /\ call'[d].op \in Ops
                  /\ call'[d].pc \in {"asking", "hung"} => call'[d].op \in {"reply", "finish"}
                  /\ call'[d].pc = "writing" => call'[d].op = "finish"
                  /\ call'[d].pc # "idle" /\ call'[d].op = "start" => call'[d].talk # 0
                  /\ call'[d].pc = "idle" => ~call'[d].watched
  <2>1. call' \in [Calls -> Command]
    BY <1>i
  <2>2. call'[c] = r /\ \A d \in Calls \ {c} : call'[d] = call[d]
    BY <1>i
  <2> QED BY <2>1, <2>2, <1>i
<1>1. ASSUME NEW c \in Calls, NEW k \in Kinds, ClickStart(c, k) PROVE Shapes'
  <2>1. talks + 1 \in 1..MaxTalks /\ talks' = talks + 1
    BY <1>1 DEF ClickStart, NewTalk
  <2>2. [pc |-> "clicked", kind |-> k, op |-> "start", talk |-> talks + 1,
         sent |-> <<>>, watched |-> TRUE] \in Command
    BY <2>1, EmptyTurns DEF Command, Points
  <2>3. call' = [call EXCEPT ![c] = [pc |-> "clicked", kind |-> k, op |-> "start",
                                     talk |-> talks + 1, sent |-> <<>>, watched |-> TRUE]]
    BY <1>1 DEF ClickStart, NewTalk, Invoke
  <2>4. page' \in [Kinds -> Buttons]
    <3>1. page \in [Kinds -> Buttons]
      OBVIOUS
    <3> DEFINE b == [page[k] EXCEPT !.start = FALSE, !.input = TRUE, !.finishShown = TRUE,
                                    !.talk = talks + 1]
    <3>2. page' = [page EXCEPT ![k] = b]
      BY <1>1, <3>1 DEF ClickStart
    <3>3. page[k] \in Buttons /\ talks + 1 \in 0..MaxTalks
      BY <3>1, <2>1
    <3> HIDE DEF Shapes
    <3>4. b \in Buttons
      BY <3>3 DEF Buttons
    <3> HIDE DEF b
    <3> QED BY <3>1, <3>2, <3>4
  <2> QED BY <1>1, <2>1, <2>2, <2>3, <2>4, <1>i DEF ClickStart, NewTalk
<1>2. ASSUME NEW c \in Calls, NEW k \in Kinds, Send(c, k) PROVE Shapes'
  <2>1. [pc |-> "clicked", kind |-> k, op |-> "reply", talk |-> page[k].talk,
         sent |-> <<>>, watched |-> TRUE] \in Command
    BY EmptyTurns DEF Buttons, Command, Points
  <2>2. call' = [call EXCEPT ![c] = [pc |-> "clicked", kind |-> k, op |-> "reply",
                                     talk |-> page[k].talk, sent |-> <<>>, watched |-> TRUE]]
    BY <1>2 DEF Send, Invoke
  <2> QED BY <1>2, <2>1, <2>2, <1>i DEF Send
<1>3. ASSUME NEW c \in Calls, NEW k \in Kinds, ClickFinish(c, k) PROVE Shapes'
  <2>1. [pc |-> "clicked", kind |-> k, op |-> "finish", talk |-> page[k].talk,
         sent |-> <<>>, watched |-> TRUE] \in Command
    BY EmptyTurns DEF Buttons, Command, Points
  <2>2. call' = [call EXCEPT ![c] = [pc |-> "clicked", kind |-> k, op |-> "finish",
                                     talk |-> page[k].talk, sent |-> <<>>, watched |-> TRUE]]
    BY <1>3 DEF ClickFinish, Invoke
  <2>3. page' \in [Kinds -> Buttons]
    <3>1. page \in [Kinds -> Buttons] /\ page' = [page EXCEPT ![k] = [page[k] EXCEPT !.finish = FALSE]]
      BY <1>3 DEF ClickFinish
    <3>2. page[k] \in Buttons
      BY <3>1
    <3> HIDE DEF Shapes
    <3>3. [page[k] EXCEPT !.finish = FALSE] \in Buttons
      BY <3>2 DEF Buttons
    <3> QED BY <3>1, <3>3
  <2> QED BY <1>3, <2>1, <2>2, <2>3, <1>i DEF ClickFinish
\* A step that takes a command from a point to another.
<1>g. ASSUME NEW c \in Calls, NEW pc \in Points, Go(c, pc), call[c].pc # "idle",
             pc # "idle", pc \in {"asking", "hung"} => call[c].op \in {"reply", "finish"},
             pc = "writing" => call[c].op = "finish"
      PROVE  /\ call' \in [Calls -> Command]
             /\ \A d \in Calls :
                  /\ call'[d].pc # "idle" => call'[d].kind \in Kinds /\ call'[d].op \in Ops
                  /\ call'[d].pc \in {"asking", "hung"} => call'[d].op \in {"reply", "finish"}
                  /\ call'[d].pc = "writing" => call'[d].op = "finish"
                  /\ call'[d].pc # "idle" /\ call'[d].op = "start" => call'[d].talk # 0
                  /\ call'[d].pc = "idle" => ~call'[d].watched
  BY <1>g, SMTT(30) DEF Go, Command
<1>k. \A c \in Calls : call[c].pc # "idle" => call[c].kind \in Kinds
  OBVIOUS
<1>4. ASSUME NEW c \in Calls, Build(c) \/ ReadKey(c) PROVE Shapes'
  BY <1>4, <1>g DEF Build, ReadKey, Points
<1>5. ASSUME NEW c \in Calls, NoProfile(c) PROVE Shapes'
  BY <1>5, <1>g DEF NoProfile, Points
<1>6. ASSUME NEW c \in Calls, NoKey(c) PROVE Shapes'
  BY <1>6, <1>g DEF NoKey, Points, Fault
<1>7. ASSUME NEW c \in Calls, Start(c) PROVE Shapes'
  <2>1. /\ call[c].pc = "waiting" /\ call[c].op = "start" /\ Go(c, "answered")
        /\ slot' = [slot EXCEPT ![call[c].kind] = [id |-> call[c].talk, turns |-> <<"assistant">>]]
        /\ begun' = [begun EXCEPT ![call[c].kind] = @ \union {call[c].talk}]
        /\ UNCHANGED <<lock, file, page, talks, earlier, replies, faults, reloads>>
    BY <1>7 DEF Start, Fill, Free
  <2>2. [id |-> call[c].talk, turns |-> <<"assistant">>] \in Talk
    BY <2>1, EmptyTurns DEF Talk, Command
  <2>3. slot' \in [Kinds -> Talk \union {None}]
    BY <2>1, <2>2
  <2>4. call[c].talk \in 1..MaxTalks
    BY <2>1 DEF Command
  <2> QED BY <2>1, <2>3, <2>4, <1>g DEF Points
<1>8. ASSUME NEW c \in Calls, NoTalk(c) PROVE Shapes'
  BY <1>8, <1>g DEF NoTalk, Free, Points
<1>9. ASSUME NEW c \in Calls, AskReply(c) PROVE Shapes'
  <2> DEFINE k == call[c].kind
  <2>1. /\ call[c].pc = "waiting" /\ call[c].op = "reply" /\ slot[k] # None
        /\ slot' = [slot EXCEPT ![k].turns = Append(@, "user")]
        /\ call' = [call EXCEPT ![c].pc = "asking", ![c].sent = Append(slot[k].turns, "user")]
        /\ lock' = [lock EXCEPT ![k] = c]
        /\ UNCHANGED <<file, page, counts>>
    BY <1>9 DEF AskReply, AskedReply, Free
  <2>2. k \in Kinds /\ slot[k] \in Talk
    BY <2>1
  <2>3. Append(slot[k].turns, "user") \in Turns
    BY <2>2, AppendTurns DEF Talk
  <2>4. slot' \in [Kinds -> Talk \union {None}]
    BY <2>1, <2>2, <2>3 DEF Talk
  <2> DEFINE r == [call[c] EXCEPT !.pc = "asking", !.sent = Append(slot[k].turns, "user")]
  <2>5. call' = [call EXCEPT ![c] = r]
    BY <2>1
  <2>6. /\ r \in Command /\ r.pc = "asking" /\ r.kind = k /\ r.op = "reply"
    BY <2>1, <2>3 DEF Command, Points
  <2> HIDE DEF r
  <2> QED BY <2>1, <2>2, <2>4, <2>5, <2>6, <1>i
<1>10. ASSUME NEW c \in Calls, Reply(c) PROVE Shapes'
  <2> DEFINE k == call[c].kind
  <2>1. /\ call[c].pc = "asking" /\ Go(c, "answered")
        /\ slot' = [slot EXCEPT ![k].turns = Append(@, "assistant")]
        /\ lock' = [lock EXCEPT ![k] = None]
        /\ UNCHANGED <<file, page, counts>>
    BY <1>10 DEF Reply
  <2>2. k \in Kinds
    BY <2>1
  <2>3. slot[k] \in Talk
    BY <2>1, <2>2 DEF LockInv, Holds
  <2>4. Append(slot[k].turns, "assistant") \in Turns
    BY <2>3, AppendTurns DEF Talk
  <2>5. slot' \in [Kinds -> Talk \union {None}]
    BY <2>1, <2>3, <2>4 DEF Talk
  <2> QED BY <2>1, <2>5, <1>g DEF Points
<1>11. ASSUME NEW c \in Calls, AskFinish(c) PROVE Shapes'
  <2> DEFINE k == call[c].kind
  <2>1. /\ call[c].pc = "waiting" /\ call[c].op = "finish" /\ slot[k] # None
        /\ call' = [call EXCEPT ![c].pc = "asking", ![c].sent = slot[k].turns]
        /\ lock' = [lock EXCEPT ![k] = c]
        /\ UNCHANGED <<slot, file, page, counts>>
    BY <1>11 DEF AskFinish, AskedFinish, Free
  <2>2. k \in Kinds /\ slot[k].turns \in Turns
    BY <2>1 DEF Talk
  <2> DEFINE r == [call[c] EXCEPT !.pc = "asking", !.sent = slot[k].turns]
  <2>3. call' = [call EXCEPT ![c] = r]
    BY <2>1
  <2>4. /\ r \in Command /\ r.pc = "asking" /\ r.kind = k /\ r.op = "finish"
    BY <2>1, <2>2 DEF Command, Points
  <2> HIDE DEF r
  <2> QED BY <2>1, <2>2, <2>3, <2>4, <1>i
<1>12. ASSUME NEW c \in Calls, AskFails(c) \/ NotJson(c) \/ WriteFails(c) PROVE Shapes'
  <2>1. /\ call[c].pc \in {"asking", "writing"} /\ Go(c, "error") /\ Release(c)
        /\ faults' \in 0..MaxFaults /\ UNCHANGED <<slot, file, page, talks, begun, earlier, replies, reloads>>
    BY <1>12 DEF AskFails, NotJson, WriteFails, Fault
  <2> QED BY <2>1, <1>g DEF Points, Release
<1>18. ASSUME NEW c \in Calls, ApiHangs(c) PROVE Shapes'
  BY <1>18, <1>g DEF ApiHangs, Fault, Points
<1>13. ASSUME NEW c \in Calls, OpenFile(c) PROVE Shapes'
  <2> DEFINE k == call[c].kind
  <2>1. /\ call[c].pc = "asking" /\ call[c].op = "finish" /\ Go(c, "writing")
        /\ file' = [file EXCEPT ![k] = [state |-> "torn", by |-> slot[k].id, json |-> k = "tiers"]]
        /\ UNCHANGED <<slot, lock, page, counts>>
    BY <1>13 DEF OpenFile, Truncate
  <2>2. slot[k] \in Talk
    BY <2>1 DEF LockInv, Holds
  <2>3. slot[k].id \in 0..MaxTalks
    BY <2>2 DEF Talk
  <2>4. file' \in [Kinds -> [state : {"absent", "torn", "whole"}, by : 0..MaxTalks,
                             json : BOOLEAN]]
    BY <2>1, <2>3
  <2> QED BY <2>1, <2>4, <1>g DEF Points
<1>14. ASSUME NEW c \in Calls, WriteFile(c) PROVE Shapes'
  BY <1>14, <1>g, SMTT(30) DEF WriteFile, Wrote, Release, Points
<1>15. ASSUME NEW c \in Calls, Return(c) PROVE Shapes'
  <2>1. Idle \in Command
    BY EmptyTurns DEF Idle, Command, Points
  <2>2. call' \in [Calls -> Command]
    BY <1>15, <2>1 DEF Return
  <2>3. \A p \in Buttons : After(c, p) \in Buttons
    BY DEF After, Buttons
  <2>4. page' \in [Kinds -> Buttons]
    BY <1>15, <2>3 DEF Return
  <2> QED BY <1>15, <2>2, <2>4 DEF Return, Idle
<1>16. CASE Reload
  <2>1. /\ UNCHANGED <<slot, lock, file, talks, begun, replies, faults>>
        /\ earlier' = talks
        /\ reloads' \in 0..MaxReloads
        /\ page' = [k \in Kinds |-> Fresh]
        /\ call' = [c \in Calls |-> [call[c] EXCEPT !.watched = FALSE]]
    BY <1>16 DEF Reload
  <2>2. \A c \in Calls :
          /\ call'[c] \in Command
          /\ call'[c].pc = call[c].pc /\ call'[c].kind = call[c].kind
          /\ call'[c].op = call[c].op /\ call'[c].talk = call[c].talk
          /\ ~call'[c].watched
    <3> SUFFICES ASSUME NEW c \in Calls
                 PROVE  /\ call'[c] \in Command
                        /\ call'[c].pc = call[c].pc /\ call'[c].kind = call[c].kind
                        /\ call'[c].op = call[c].op /\ call'[c].talk = call[c].talk
                        /\ ~call'[c].watched
      OBVIOUS
    <3>1. call[c] \in Command /\ call'[c] = [call[c] EXCEPT !.watched = FALSE]
      BY <2>1
    <3> QED BY <3>1 DEF Command
  <2>3. call' \in [Calls -> Command]
    BY <2>1, <2>2
  <2> QED BY <2>1, <2>2, <2>3 DEF Fresh, Buttons
<1>17. CASE Crash
  <2>1. Idle \in Command
    BY EmptyTurns DEF Idle, Command, Points
  <2> QED BY <1>17, <2>1 DEF Crash, Fault, Fresh, Idle, Buttons
<1> QED BY <1>0, <1>1, <1>2, <1>3, <1>4, <1>5, <1>6, <1>7, <1>8, <1>9, <1>10, <1>11,
           <1>12, <1>13, <1>14, <1>15, <1>16, <1>17, <1>18, NextCases

-----------------------------------------------------------------------------
(* The lock, the files and the conversations' ids *)

\* What a step of one command leaves of the others and of itself.
Others(c) == \A d \in Calls \ {c} : call'[d] = call[d]

Same(c) == /\ call'[c].kind = call[c].kind /\ call'[c].op = call[c].op
           /\ call'[c].talk = call[c].talk /\ call'[c].watched = call[c].watched

LEMMA Moved ==
  ASSUME Shapes, NEW c \in Calls, NEW pc, Go(c, pc)
  PROVE  /\ Others(c) /\ Same(c)
         /\ call'[c].pc = pc /\ call'[c].sent = call[c].sent
BY DEF Shapes, Go, Command, Others, Same

LEMMA Clicked ==
  ASSUME Shapes, NEW c \in Calls, NEW k, NEW op, NEW t, Invoke(c, k, op, t)
  PROVE  /\ Others(c) /\ call[c].pc = "idle"
         /\ call'[c].pc = "clicked" /\ call'[c].kind = k /\ call'[c].op = op
         /\ call'[c].talk = t /\ call'[c].watched
BY DEF Shapes, Invoke, Others

\* What the two commands that ask the API do: the lock is taken, the transcript
\* is sent.
LEMMA Asks ==
  ASSUME Shapes, NEW c \in Calls, AskReply(c) \/ AskFinish(c)
  PROVE  LET k == call[c].kind IN
         /\ Others(c) /\ Same(c) /\ k \in Kinds
         /\ call[c].pc = "waiting" /\ call'[c].pc = "asking" /\ call[c].op \in {"reply", "finish"}
         /\ lock[k] = None /\ lock' = [lock EXCEPT ![k] = c]
         /\ slot[k] \in Talk /\ slot[k] # None
         /\ \A j \in Kinds \ {k} : slot'[j] = slot[j]
         /\ slot'[k].id = slot[k].id /\ slot'[k].turns = call'[c].sent
         /\ slot' = slot \/ slot' = [slot EXCEPT ![k] = [slot[k] EXCEPT !.turns = Append(@, "user")]]
         /\ UNCHANGED <<file, page, counts>>
<1> DEFINE k == call[c].kind
<1>1. /\ call[c].pc = "waiting" /\ call[c].op \in {"reply", "finish"} /\ slot[k] # None
      /\ lock[k] = None /\ lock' = [lock EXCEPT ![k] = c]
      /\ UNCHANGED <<file, page, counts>>
  BY DEF AskReply, AskFinish, AskedReply, AskedFinish, Free
<1>2. k \in Kinds /\ slot[k] \in Talk
  BY <1>1 DEF Shapes
<1>3. CASE AskReply(c)
  <2>1. /\ slot' = [slot EXCEPT ![k].turns = Append(@, "user")]
        /\ call' = [call EXCEPT ![c].pc = "asking", ![c].sent = Append(slot[k].turns, "user")]
    BY <1>3 DEF AskReply, AskedReply
  <2>2. /\ slot' = [slot EXCEPT ![k] = [slot[k] EXCEPT !.turns = Append(@, "user")]]
        /\ slot'[k].id = slot[k].id /\ slot'[k].turns = Append(slot[k].turns, "user")
        /\ \A j \in Kinds \ {k} : slot'[j] = slot[j]
    BY <2>1, <1>2 DEF Shapes, Talk
  <2>3. /\ Others(c) /\ Same(c) /\ call'[c].pc = "asking"
        /\ call'[c].sent = Append(slot[k].turns, "user")
    BY <2>1 DEF Shapes, Command, Others, Same
  <2> QED BY <1>1, <1>2, <2>2, <2>3
<1>4. CASE AskFinish(c)
  <2>1. /\ UNCHANGED slot
        /\ call' = [call EXCEPT ![c].pc = "asking", ![c].sent = slot[k].turns]
    BY <1>4 DEF AskFinish, AskedFinish
  <2>2. /\ Others(c) /\ Same(c) /\ call'[c].pc = "asking"
        /\ call'[c].sent = slot[k].turns
    BY <2>1 DEF Shapes, Command, Others, Same
  <2> QED BY <1>1, <1>2, <2>1, <2>2
<1> QED BY <1>3, <1>4

\* A command that is back from the API leaves the transcript of its own kind to
\* nobody: it had the lock.
LEMMA LockStep ==
  ASSUME Shapes, LockInv, [Next]_vars
  PROVE  LockInv'
<1> USE DEF LockInv, Holds
<1>l. \A c \in Calls, d \in Calls : c # d /\ call[c].kind = call[d].kind /\ call[c].kind \in Kinds
        => ~(call[c].pc \in {"asking", "hung", "writing"} /\ call[d].pc \in {"asking", "hung", "writing"})
  OBVIOUS
<1>k. \A c \in Calls : call[c].pc # "idle" => call[c].kind \in Kinds
  BY DEF Shapes
<1>0. CASE UNCHANGED vars
  BY <1>0 DEF vars
\* A step that takes no command to the API and touches no transcript and no lock.
<1>q. ASSUME NEW c \in Calls, Others(c), UNCHANGED <<slot, lock>>,
             call'[c].pc \notin {"asking", "hung", "writing"}
      PROVE  LockInv'
  BY <1>q DEF Others
\* A step that ends a command's hold of its kind's lock.
<1>u. ASSUME NEW c \in Calls, Others(c), call[c].pc \in {"asking", "writing"},
             call'[c].pc \notin {"asking", "hung", "writing"},
             \A k \in Kinds \ {call[c].kind} : slot'[k] = slot[k] /\ lock'[k] = lock[k]
      PROVE  LockInv'
  BY <1>u, <1>l, <1>k DEF Others
<1>1. ASSUME NEW c \in Calls, NEW k \in Kinds,
             ClickStart(c, k) \/ Send(c, k) \/ ClickFinish(c, k)
      PROVE  LockInv'
  <2>1. PICK op, t : Invoke(c, k, op, t)
    BY <1>1 DEF ClickStart, NewTalk, Send, ClickFinish
  <2>2. Others(c) /\ call'[c].pc = "clicked"
    BY <2>1, Clicked
  <2>3. UNCHANGED <<slot, lock>>
    BY <1>1 DEF ClickStart, NewTalk, Send, ClickFinish
  <2> QED BY <2>2, <2>3, <1>q
<1>2. ASSUME NEW c \in Calls, Build(c) \/ ReadKey(c) \/ NoProfile(c) \/ NoKey(c) \/ NoTalk(c)
      PROVE  LockInv'
  <2>1. PICK pc \in {"waiting", "error"} : Go(c, pc)
    BY <1>2 DEF Build, ReadKey, NoProfile, NoKey, NoTalk
  <2>2. UNCHANGED <<slot, lock>>
    BY <1>2 DEF Build, ReadKey, NoProfile, NoKey, NoTalk
  <2> QED BY <2>1, <2>2, <1>q, Moved
<1>3. ASSUME NEW c \in Calls, Start(c) PROVE LockInv'
  <2> DEFINE k == call[c].kind
  <2>1. /\ lock[k] = None /\ Go(c, "answered") /\ UNCHANGED lock /\ k \in Kinds
        /\ \A j \in Kinds \ {k} : slot'[j] = slot[j]
    BY <1>3 DEF Start, Fill, Free, Shapes
  <2>2. \A d \in Calls : Holds(d, k) => FALSE
    BY <2>1, TalkAssumption
  <2> QED BY <2>1, <2>2, Moved DEF Others
<1>4. ASSUME NEW c \in Calls, AskReply(c) \/ AskFinish(c) PROVE LockInv'
  <2> DEFINE k == call[c].kind
  <2>1. /\ Others(c) /\ Same(c) /\ k \in Kinds
        /\ lock[k] = None /\ lock' = [lock EXCEPT ![k] = c]
        /\ slot[k] \in Talk
        /\ \A j \in Kinds \ {k} : slot'[j] = slot[j]
        /\ slot'[k].turns = call'[c].sent
    BY <1>4, Asks
  <2>2. \A d \in Calls : ~Holds(d, k)
    BY <2>1, TalkAssumption
  <2>3. slot'[k] # None
    <3>1. slot[k] \in Talk
      BY <1>4, Asks
    <3>2. Append(slot[k].turns, "user") \in Turns
      BY <3>1, AppendTurns DEF Talk
    <3>3. slot'[k] \in Talk
      <4>1. CASE slot' = slot
        BY <3>1, <4>1
      <4>2. CASE slot' = [slot EXCEPT ![k] = [slot[k] EXCEPT !.turns = Append(@, "user")]]
        <5>1. slot'[k] = [slot[k] EXCEPT !.turns = Append(slot[k].turns, "user")]
          BY <4>2, <2>1 DEF Shapes
        <5> QED BY <5>1, <3>1, <3>2 DEF Talk
      <4> QED BY <1>4, <4>1, <4>2, Asks
    <3> QED BY <3>3, EmptySlotAssumption DEF Talk, Turns
  <2> QED BY <2>1, <2>2, <2>3 DEF Others, Same, Shapes
<1>5. ASSUME NEW c \in Calls, Reply(c) \/ WriteFile(c) PROVE LockInv'
  <2> DEFINE k == call[c].kind
  <2>1. /\ call[c].pc \in {"asking", "writing"} /\ Go(c, "answered")
        /\ \A j \in Kinds \ {k} : slot'[j] = slot[j] /\ lock'[j] = lock[j]
    BY <1>5 DEF Reply, WriteFile, Wrote, Release, Shapes
  <2> QED BY <2>1, <1>u, Moved
<1>6. ASSUME NEW c \in Calls, AskFails(c) \/ NotJson(c) \/ WriteFails(c) PROVE LockInv'
  <2> DEFINE k == call[c].kind
  <2>1. /\ call[c].pc \in {"asking", "writing"} /\ Go(c, "error")
        /\ \A j \in Kinds \ {k} : slot'[j] = slot[j] /\ lock'[j] = lock[j]
    BY <1>6 DEF AskFails, NotJson, WriteFails, Release, Shapes
  <2> QED BY <2>1, <1>u, Moved
<1>7. ASSUME NEW c \in Calls, OpenFile(c) \/ ApiHangs(c) PROVE LockInv'
  <2>1. PICK pc \in {"writing", "hung"} : Go(c, pc)
    BY <1>7 DEF OpenFile, Truncate, ApiHangs
  <2>2. call[c].pc = "asking" /\ UNCHANGED <<slot, lock>>
    BY <1>7 DEF OpenFile, Truncate, ApiHangs
  <2> QED BY <2>1, <2>2, Moved DEF Others, Same
<1>8. ASSUME NEW c \in Calls, Return(c) PROVE LockInv'
  <2>1. Others(c) /\ call'[c].pc = "idle" /\ UNCHANGED <<slot, lock>>
    BY <1>8 DEF Return, Idle, Others, Shapes
  <2> QED BY <2>1, <1>q
<1>9. CASE Reload
  <2>1. \A c \in Calls : /\ call'[c].pc = call[c].pc /\ call'[c].kind = call[c].kind
                         /\ call'[c].sent = call[c].sent
    BY <1>9 DEF Reload, Shapes, Command
  <2> QED BY <1>9, <2>1 DEF Reload
<1>10. CASE Crash
  BY <1>10 DEF Crash, Idle
<1> QED BY <1>0, <1>1, <1>2, <1>3, <1>4, <1>5, <1>6, <1>7, <1>8, <1>9, <1>10, NextCases

\* Every step keeps what the files are to the slots: a file is torn from the
\* moment a command opens it until that command wrote it, and is the file of
\* the slot's conversation meanwhile.
LEMMA FileStep ==
  ASSUME Shapes, LockInv, FileInv, [Next]_vars
  PROVE  FileInv'
<1> USE DEF FileInv, Holds
<1>k. \A c \in Calls : call[c].pc # "idle" => call[c].kind \in Kinds
  BY DEF Shapes
<1>l. \A c \in Calls, d \in Calls : c # d /\ call[c].kind = call[d].kind /\ call[c].kind \in Kinds
        => ~(call[c].pc \in {"asking", "hung", "writing"} /\ call[d].pc \in {"asking", "hung", "writing"})
  BY DEF LockInv
<1>f. faults \in Nat /\ (faults' = faults \/ faults' = faults + 1 => faults' >= faults)
  BY TalkAssumption DEF Shapes
<1>0. CASE UNCHANGED vars
  BY <1>0 DEF vars, counts
\* A step of a command that has no file open before or after it.
<1>q. ASSUME NEW c \in Calls, Others(c), UNCHANGED file,
             faults' = faults \/ faults' = faults + 1,
             call[c].pc # "writing", call'[c].pc # "writing",
             \A k \in Kinds, d \in Calls \ {c} : Holds(d, k) => slot'[k].id = slot[k].id
      PROVE  FileInv'
  <2>1. ASSUME NEW k \in Kinds, NEW d \in Calls, Holds(d, k)', call'[d].pc = "writing"
        PROVE  /\ file'[k].state = "torn" /\ file'[k].by = slot'[k].id
               /\ file'[k].json = (k = "tiers")
    BY <1>q, <2>1 DEF Others
  <2>2. ASSUME NEW k \in Kinds, file'[k].state = "torn"
        PROVE  faults' > 0 \/ \E d \in Calls : Holds(d, k)' /\ call'[d].pc = "writing"
    BY <1>q, <2>2, <1>f DEF Others
  <2> QED BY <1>q, <2>1, <2>2
<1>1. ASSUME NEW c \in Calls, NEW k \in Kinds,
             ClickStart(c, k) \/ Send(c, k) \/ ClickFinish(c, k)
      PROVE  FileInv'
  <2>1. PICK op, t : Invoke(c, k, op, t)
    BY <1>1 DEF ClickStart, NewTalk, Send, ClickFinish
  <2>2. UNCHANGED <<slot, file, faults>>
    BY <1>1 DEF ClickStart, NewTalk, Send, ClickFinish, counts
  <2>3. Others(c) /\ call[c].pc = "idle" /\ call'[c].pc = "clicked"
    BY <2>1, Clicked
  <2> QED BY <2>2, <2>3, <1>q
<1>2. ASSUME NEW c \in Calls, Build(c) \/ ReadKey(c) \/ NoProfile(c) \/ NoKey(c) \/ NoTalk(c)
      PROVE  FileInv'
  <2>1. PICK pc \in {"waiting", "error"} : Go(c, pc)
    BY <1>2 DEF Build, ReadKey, NoProfile, NoKey, NoTalk
  <2>2. /\ UNCHANGED <<slot, file>> /\ (faults' = faults \/ faults' = faults + 1)
        /\ call[c].pc # "writing"
    BY <1>2 DEF Build, ReadKey, NoProfile, NoKey, NoTalk, Free, Fault, counts
  <2>3. Others(c) /\ call'[c].pc # "writing"
    BY <2>1, Moved
  <2> QED BY <2>2, <2>3, <1>q
<1>3. ASSUME NEW c \in Calls, Start(c) PROVE FileInv'
  <2> DEFINE k == call[c].kind
  <2>1. /\ lock[k] = None /\ Go(c, "answered") /\ UNCHANGED <<file, faults>> /\ k \in Kinds
        /\ call[c].pc = "waiting"
        /\ \A j \in Kinds \ {k} : slot'[j] = slot[j]
    BY <1>3 DEF Start, Fill, Free, Shapes, counts
  <2>2. \A d \in Calls : ~Holds(d, k)
    BY <2>1, TalkAssumption DEF LockInv
  <2>3. Others(c) /\ call'[c].pc = "answered"
    BY <2>1, Moved
  <2> QED BY <2>1, <2>2, <2>3, <1>q
<1>4. ASSUME NEW c \in Calls, AskReply(c) \/ AskFinish(c) PROVE FileInv'
  <2> DEFINE k == call[c].kind
  <2>1. /\ Others(c) /\ UNCHANGED <<file, faults>>
        /\ call[c].pc = "waiting" /\ call'[c].pc = "asking"
        /\ slot'[k].id = slot[k].id /\ \A j \in Kinds \ {k} : slot'[j] = slot[j]
    BY <1>4, Asks DEF counts
  <2> QED BY <2>1, <1>q
<1>5. ASSUME NEW c \in Calls, Reply(c) PROVE FileInv'
  <2>1. /\ Go(c, "answered") /\ UNCHANGED <<file, faults>> /\ call[c].pc = "asking"
    BY <1>5 DEF Reply, counts
  <2>2. \A k \in Kinds \ {call[c].kind} : slot'[k] = slot[k]
    BY <1>5 DEF Reply, Shapes
  <2>3. Others(c) /\ call'[c].pc = "answered"
    BY <2>1, Moved
  <2> QED BY <2>1, <2>2, <2>3, <1>l, <1>q
<1>6. ASSUME NEW c \in Calls, WriteFile(c) PROVE FileInv'
  <2> DEFINE k == call[c].kind
  <2>0. /\ call[c].pc = "writing" /\ Go(c, "answered") /\ UNCHANGED faults
        /\ file' = [file EXCEPT ![k].state = "whole"]
        /\ slot' = [slot EXCEPT ![k] = None]
    BY <1>6 DEF WriteFile, Wrote, counts
  <2>1. /\ k \in Kinds /\ file'[k] = [file[k] EXCEPT !.state = "whole"]
        /\ \A j \in Kinds \ {k} : file'[j] = file[j] /\ slot'[j] = slot[j]
    BY <2>0, <1>k, SMTT(30) DEF Shapes
  <2>2. /\ Others(c) /\ Same(c) /\ call'[c].pc = "answered"
    BY <2>0, Moved
  <2>3. file'[k].state = "whole" /\ file'[k].json = (k = "tiers")
    BY <2>0, <2>1 DEF Shapes
  <2>4. ASSUME NEW d \in Calls, call'[d].pc = "writing", NEW j \in Kinds, call'[d].kind = j
        PROVE  call[d] = call'[d] /\ j # k
    BY <2>0, <2>2, <2>4, <1>l DEF Others
  <2>5. ASSUME NEW j \in Kinds, file'[j].state = "torn"
        PROVE  faults' > 0 \/ \E d \in Calls : Holds(d, j)' /\ call'[d].pc = "writing"
    BY <2>0, <2>1, <2>2, <2>3, <2>5 DEF Others
  <2>6. file'["tiers"].state = "whole" => file'["tiers"].json
    BY <2>1, <2>3 DEF Kinds
  <2> QED BY <2>1, <2>4, <2>5, <2>6
<1>7. ASSUME NEW c \in Calls, AskFails(c) \/ NotJson(c) \/ WriteFails(c) PROVE FileInv'
  <2>1. /\ call[c].pc \in {"asking", "writing"} /\ Go(c, "error") /\ UNCHANGED <<slot, file>>
        /\ faults' = faults \/ faults' = faults + 1
        /\ call[c].pc = "writing" => faults' = faults + 1
    BY <1>7 DEF AskFails, NotJson, WriteFails, Fault, counts
  <2>2. Others(c) /\ call'[c].pc = "error"
    BY <2>1, Moved
  <2>3. CASE call[c].pc # "writing"
    BY <2>1, <2>2, <2>3, <1>q
  <2>4. CASE call[c].pc = "writing"
    BY <2>1, <2>2, <2>4, <1>f DEF Others
  <2> QED BY <2>3, <2>4
<1>12. ASSUME NEW c \in Calls, ApiHangs(c) PROVE FileInv'
  <2>1. /\ call[c].pc = "asking" /\ Go(c, "hung") /\ UNCHANGED <<slot, file>>
        /\ faults' = faults + 1
    BY <1>12 DEF ApiHangs, Fault
  <2>2. Others(c) /\ call'[c].pc = "hung"
    BY <2>1, Moved
  <2> QED BY <2>1, <2>2, <1>q
<1>8. ASSUME NEW c \in Calls, OpenFile(c) PROVE FileInv'
  <2> DEFINE k == call[c].kind
  <2>1. /\ call[c].pc = "asking" /\ Go(c, "writing") /\ UNCHANGED <<slot, faults>> /\ k \in Kinds
        /\ file'[k] = [state |-> "torn", by |-> slot[k].id, json |-> k = "tiers"]
        /\ \A j \in Kinds \ {k} : file'[j] = file[j]
    BY <1>8, <1>k DEF OpenFile, Truncate, Shapes, counts
  <2>2. Others(c) /\ Same(c) /\ call'[c].pc = "writing"
    BY <2>1, Moved
  <2> QED BY <2>1, <2>2, <1>l DEF Others, Same, Kinds
<1>9. ASSUME NEW c \in Calls, Return(c) PROVE FileInv'
  <2>1. /\ Others(c) /\ call[c].pc # "writing" /\ call'[c].pc = "idle"
        /\ UNCHANGED <<slot, file, faults>>
    BY <1>9 DEF Return, Idle, Others, Shapes, counts
  <2> QED BY <2>1, <1>q
<1>10. CASE Reload
  <2>1. \A c \in Calls : call'[c].pc = call[c].pc /\ call'[c].kind = call[c].kind
    BY <1>10 DEF Reload, Shapes, Command
  <2>2. UNCHANGED <<slot, file, faults>>
    BY <1>10 DEF Reload
  <2>3. ASSUME NEW k \in Kinds, file'[k].state = "torn"
        PROVE  faults' > 0 \/ \E d \in Calls : Holds(d, k)' /\ call'[d].pc = "writing"
    BY <2>1, <2>2, <2>3
  <2> QED BY <2>1, <2>2, <2>3
<1>11. CASE Crash
  <2>1. faults' > 0
    BY <1>11, <1>f DEF Crash, Fault
  <2> QED BY <1>11, <2>1 DEF Crash, Idle
<1> QED BY <1>0, <1>1, <1>2, <1>3, <1>4, <1>5, <1>6, <1>7, <1>8, <1>9, <1>10, <1>11, <1>12,
           NextCases

\* Every step keeps the conversations apart: what a start will put into a slot
\* was asked for by this click and is in no slot and no file yet.
LEMMA FreshStep ==
  ASSUME Shapes, LockInv, FreshInv, [Next]_vars
  PROVE  FreshInv'
<1> USE DEF Starting
<1>k. \A c \in Calls : call[c].pc # "idle" => call[c].kind \in Kinds
  BY DEF Shapes
<1>t. /\ talks \in Nat
      /\ \A k \in Kinds : file[k].by \in Nat /\ (slot[k] # None => slot[k].id \in Nat)
      /\ \A c \in Calls : Starting(c) => call[c].talk \in Nat
  BY TalkAssumption DEF Shapes, Talk, Command
<1>0. CASE UNCHANGED vars
  BY <1>0 DEF vars, counts, FreshInv
\* A step of a command that starts nothing, or stops starting, and brings no id
\* into a slot or a file that was in no slot.
<1>q. ASSUME NEW c \in Calls, Others(c), talks' = talks,
             Starting(c)' => Starting(c) /\ call'[c].talk = call[c].talk,
             \A k \in Kinds : file'[k].by = file[k].by \/ (slot[k] # None /\ file'[k].by = slot[k].id),
             \A k \in Kinds : slot'[k] # None => slot[k] # None /\ slot'[k].id = slot[k].id
      PROVE  FreshInv'
  <2>1. \A d \in Calls : Starting(d)' => Starting(d) /\ call'[d].talk = call[d].talk
    BY <1>q DEF Others
  <2> QED BY <2>1, <1>q DEF FreshInv
<1>1. ASSUME NEW c \in Calls, NEW k \in Kinds, ClickStart(c, k) PROVE FreshInv'
  <2>1. /\ Invoke(c, k, "start", talks + 1) /\ talks' = talks + 1
        /\ UNCHANGED <<slot, file>>
    BY <1>1 DEF ClickStart, NewTalk
  <2>2. Others(c) /\ call'[c].talk = talks + 1
    BY <2>1, Clicked
  <2>3. \A d \in Calls \ {c} : call'[d] = call[d]
    BY <2>2 DEF Others
  <2>4. \A d \in Calls : Starting(d) => call[d].talk # talks + 1
    BY <1>t DEF FreshInv
  <2> QED BY <2>1, <2>2, <2>3, <2>4, <1>t DEF FreshInv
<1>2. ASSUME NEW c \in Calls, NEW k \in Kinds, Send(c, k) \/ ClickFinish(c, k) PROVE FreshInv'
  <2>1. PICK op \in {"reply", "finish"} : Invoke(c, k, op, page[k].talk)
    BY <1>2 DEF Send, ClickFinish
  <2>2. UNCHANGED <<slot, file, talks>>
    BY <1>2 DEF Send, ClickFinish, counts
  <2>3. Others(c) /\ call'[c].op = op
    BY <2>1, Clicked
  <2> QED BY <2>2, <2>3, <1>q
<1>3. ASSUME NEW c \in Calls, Build(c) \/ ReadKey(c) \/ NoProfile(c) \/ NoKey(c) \/ NoTalk(c)
      PROVE  FreshInv'
  <2>1. PICK pc \in {"waiting", "error"} : Go(c, pc)
    BY <1>3 DEF Build, ReadKey, NoProfile, NoKey, NoTalk
  <2>2. UNCHANGED <<slot, file, talks>> /\ (pc = "waiting" => call[c].pc \in {"clicked", "waiting"})
    BY <1>3, <2>1 DEF Build, ReadKey, NoProfile, NoKey, NoTalk, Free, Fault, counts, Shapes, Go
  <2>3. Others(c) /\ Same(c) /\ call'[c].pc = pc
    BY <2>1, Moved
  <2> QED BY <2>2, <2>3, <1>q DEF Same
<1>4. ASSUME NEW c \in Calls, Start(c) PROVE FreshInv'
  <2> DEFINE k == call[c].kind
  <2>1. /\ call[c].pc = "waiting" /\ call[c].op = "start" /\ Go(c, "answered")
        /\ slot' = [slot EXCEPT ![k] = [id |-> call[c].talk, turns |-> <<"assistant">>]]
        /\ UNCHANGED <<file, talks>>
    BY <1>4 DEF Start, Fill, Free, counts
  <2>2. Others(c) /\ call'[c].pc = "answered"
    BY <2>1, Moved
  <2>3. /\ k \in Kinds /\ slot'[k].id = call[c].talk
        /\ \A j \in Kinds \ {k} : slot'[j] = slot[j]
    BY <2>1, <1>k DEF Shapes
  <2>4. \A d \in Calls : Starting(d)' => d # c /\ Starting(d) /\ call'[d] = call[d]
    BY <2>2 DEF Others
  <2> QED BY <2>1, <2>3, <2>4 DEF FreshInv
<1>5. ASSUME NEW c \in Calls, AskReply(c) \/ AskFinish(c) PROVE FreshInv'
  <2> DEFINE k == call[c].kind
  <2>1. /\ Others(c) /\ UNCHANGED <<file, talks>> /\ call'[c].pc = "asking"
        /\ slot'[k].id = slot[k].id /\ slot[k] # None
        /\ \A j \in Kinds \ {k} : slot'[j] = slot[j]
    BY <1>5, Asks DEF counts
  <2> QED BY <2>1, <1>q
<1>6. ASSUME NEW c \in Calls, Reply(c) PROVE FreshInv'
  <2> DEFINE k == call[c].kind
  <2>1. /\ Go(c, "answered") /\ UNCHANGED <<file, talks>> /\ call[c].pc = "asking"
        /\ slot' = [slot EXCEPT ![k].turns = Append(@, "assistant")]
    BY <1>6 DEF Reply, counts
  <2>2. k \in Kinds /\ slot[k] # None
    BY <2>1, <1>k DEF LockInv, Holds
  <2>3. slot'[k].id = slot[k].id /\ \A j \in Kinds \ {k} : slot'[j] = slot[j]
    BY <2>1, <2>2 DEF Shapes, Talk
  <2>4. Others(c) /\ call'[c].pc = "answered"
    BY <2>1, Moved
  <2> QED BY <2>1, <2>2, <2>3, <2>4, <1>q
<1>7. ASSUME NEW c \in Calls, WriteFile(c) PROVE FreshInv'
  <2> DEFINE k == call[c].kind
  <2>1. /\ call[c].pc = "writing" /\ Go(c, "answered") /\ UNCHANGED talks
        /\ file' = [file EXCEPT ![k].state = "whole"]
        /\ slot' = [slot EXCEPT ![k] = None]
    BY <1>7 DEF WriteFile, Wrote, counts
  <2>2. k \in Kinds
    BY <2>1, <1>k
  <2>3. /\ \A j \in Kinds : file'[j].by = file[j].by
        /\ \A j \in Kinds : slot'[j] # None => slot'[j] = slot[j]
    BY <2>1, <2>2 DEF Shapes
  <2>4. Others(c) /\ call'[c].pc = "answered"
    BY <2>1, Moved
  <2> QED BY <2>1, <2>3, <2>4, <1>q
<1>8. ASSUME NEW c \in Calls, AskFails(c) \/ NotJson(c) \/ WriteFails(c) \/ ApiHangs(c)
      PROVE  FreshInv'
  <2>1. PICK pc \in {"error", "hung"} : Go(c, pc)
    BY <1>8 DEF AskFails, NotJson, WriteFails, ApiHangs
  <2>2. UNCHANGED <<slot, file, talks>>
    BY <1>8 DEF AskFails, NotJson, WriteFails, ApiHangs, Fault, counts
  <2>3. Others(c) /\ call'[c].pc = pc
    BY <2>1, Moved
  <2> QED BY <2>2, <2>3, <1>q
<1>9. ASSUME NEW c \in Calls, OpenFile(c) PROVE FreshInv'
  <2> DEFINE k == call[c].kind
  <2>1. /\ call[c].pc = "asking" /\ Go(c, "writing") /\ UNCHANGED <<slot, talks>>
        /\ file' = [file EXCEPT ![k] = [state |-> "torn", by |-> slot[k].id, json |-> k = "tiers"]]
    BY <1>9 DEF OpenFile, Truncate, counts
  <2>2. k \in Kinds /\ slot[k] # None
    BY <2>1, <1>k DEF LockInv, Holds
  <2>3. file'[k].by = slot[k].id /\ \A j \in Kinds \ {k} : file'[j] = file[j]
    BY <2>1, <2>2 DEF Shapes
  <2>4. Others(c) /\ call'[c].pc = "writing"
    BY <2>1, Moved
  <2> QED BY <2>1, <2>2, <2>3, <2>4, <1>q
<1>10. ASSUME NEW c \in Calls, Return(c) PROVE FreshInv'
  <2>1. Others(c) /\ call'[c].pc = "idle" /\ UNCHANGED <<slot, file, talks>>
    BY <1>10 DEF Return, Idle, Others, Shapes, counts
  <2> QED BY <2>1, <1>q
<1>11. CASE Reload
  <2>1. \A c \in Calls : /\ call'[c].pc = call[c].pc /\ call'[c].op = call[c].op
                         /\ call'[c].talk = call[c].talk
    BY <1>11 DEF Reload, Shapes, Command
  <2>2. UNCHANGED <<slot, file, talks>>
    BY <1>11 DEF Reload
  <2> QED BY <2>1, <2>2 DEF FreshInv
<1>12. CASE Crash
  <2>1. /\ \A c \in Calls : call'[c].pc = "idle"
        /\ \A k \in Kinds : slot'[k] = None
        /\ UNCHANGED <<file, talks>>
    BY <1>12 DEF Crash, Fault, Idle
  <2> QED BY <2>1 DEF FreshInv
<1> QED BY <1>0, <1>1, <1>2, <1>3, <1>4, <1>5, <1>6, <1>7, <1>8, <1>9, <1>10, <1>11, <1>12,
           NextCases

\* Every step keeps what is written out of the slots: a start brings an id that
\* no file has, and the command that completes a file empties the slot.
LEMMA GoneStep ==
  ASSUME Shapes, LockInv, FreshInv, FinishedIsGone, [Next]_vars
  PROVE  FinishedIsGone'
<1> USE DEF FinishedIsGone
<1>k. \A c \in Calls : call[c].pc # "idle" => call[c].kind \in Kinds
  BY DEF Shapes
<1>q. ASSUME \A k \in Kinds : slot'[k] # None => slot[k] # None /\ slot'[k].id = slot[k].id,
             file' = file
      PROVE  FinishedIsGone'
  BY <1>q
<1>1. ASSUME NEW c \in Calls, Start(c) PROVE FinishedIsGone'
  <2> DEFINE k == call[c].kind
  <2>1. /\ Starting(c) /\ UNCHANGED file
        /\ slot' = [slot EXCEPT ![k] = [id |-> call[c].talk, turns |-> <<"assistant">>]]
    BY <1>1 DEF Start, Fill, Free, Starting
  <2>2. /\ k \in Kinds /\ slot'[k].id = call[c].talk
        /\ \A j \in Kinds \ {k} : slot'[j] = slot[j]
    BY <2>1, <1>k DEF Shapes, Starting
  <2> QED BY <2>1, <2>2 DEF FreshInv
<1>2. ASSUME NEW c \in Calls, AskReply(c) \/ AskFinish(c) PROVE FinishedIsGone'
  <2> DEFINE k == call[c].kind
  <2>1. /\ UNCHANGED file
        /\ slot'[k].id = slot[k].id /\ slot[k] # None
        /\ \A j \in Kinds \ {k} : slot'[j] = slot[j]
    BY <1>2, Asks
  <2> QED BY <2>1, <1>q
<1>3. ASSUME NEW c \in Calls, Reply(c) PROVE FinishedIsGone'
  <2> DEFINE k == call[c].kind
  <2>1. /\ UNCHANGED file /\ call[c].pc = "asking"
        /\ slot' = [slot EXCEPT ![k].turns = Append(@, "assistant")]
    BY <1>3 DEF Reply
  <2>2. k \in Kinds /\ slot[k] # None
    BY <2>1, <1>k DEF LockInv, Holds
  <2>3. slot'[k].id = slot[k].id /\ \A j \in Kinds \ {k} : slot'[j] = slot[j]
    BY <2>1, <2>2 DEF Shapes, Talk
  <2> QED BY <2>1, <2>2, <2>3, <1>q
<1>4. ASSUME NEW c \in Calls, WriteFile(c) PROVE FinishedIsGone'
  <2> DEFINE k == call[c].kind
  <2>1. /\ call[c].pc = "writing"
        /\ file' = [file EXCEPT ![k].state = "whole"]
        /\ slot' = [slot EXCEPT ![k] = None]
    BY <1>4 DEF WriteFile, Wrote
  <2>2. k \in Kinds
    BY <2>1, <1>k
  <2>3. slot'[k] = None /\ \A j \in Kinds \ {k} : slot'[j] = slot[j] /\ file'[j] = file[j]
    BY <2>1, <2>2 DEF Shapes
  <2> QED BY <2>3
<1>5. ASSUME NEW c \in Calls, OpenFile(c) PROVE FinishedIsGone'
  <2> DEFINE k == call[c].kind
  <2>1. /\ call[c].pc = "asking" /\ UNCHANGED slot
        /\ file' = [file EXCEPT ![k] = [state |-> "torn", by |-> slot[k].id, json |-> k = "tiers"]]
    BY <1>5 DEF OpenFile, Truncate
  <2>2. file'[k].state = "torn" /\ \A j \in Kinds \ {k} : file'[j] = file[j]
    BY <2>1, <1>k DEF Shapes
  <2> QED BY <2>1, <2>2
<1>6. CASE Crash
  BY <1>6, <1>q DEF Crash
<1>7. CASE UNCHANGED <<slot, file>>
  BY <1>7
<1>8. UNCHANGED vars \/ Reload
        \/ (\E c \in Calls, k \in Kinds : ClickStart(c, k) \/ Send(c, k) \/ ClickFinish(c, k))
        \/ (\E c \in Calls : \/ Build(c) \/ ReadKey(c) \/ NoProfile(c) \/ NoKey(c) \/ NoTalk(c)
                             \/ AskFails(c) \/ NotJson(c) \/ WriteFails(c) \/ ApiHangs(c)
                             \/ Return(c))
      => UNCHANGED <<slot, file>>
  BY DEF vars, Reload, ClickStart, NewTalk, Send, ClickFinish, Build, ReadKey, NoProfile, NoKey,
         NoTalk, AskFails, NotJson, WriteFails, ApiHangs, Return
<1> QED BY <1>1, <1>2, <1>3, <1>4, <1>5, <1>6, <1>7, <1>8, NextCases

-----------------------------------------------------------------------------
(* The buttons *)

\* A step of a command on its way, which touches no button and begins nothing:
\* what the page may still show and finish is as it was.
LEMMA OnItsWay ==
  ASSUME Shapes, ButtonInv, NEW c \in Calls, Others(c), Same(c),
         UNCHANGED <<page, talks, begun, earlier>>,
         call[c].pc \notin {"answered", "error"},
         call[c].op = "start" => /\ call[c].pc \in {"clicked", "waiting"}
                                 /\ call'[c].pc \in {"waiting", "error"},
         call[c].pc # "idle", call'[c].pc # "clicked",
         \A k \in Kinds : slot'[k] = None \/ (slot'[k].id = slot[k].id /\ slot[k] # None)
  PROVE  ButtonInv'
<1>1. \A d \in Calls :
        /\ call'[d].watched = call[d].watched /\ call'[d].kind = call[d].kind
        /\ call'[d].op = call[d].op /\ call'[d].talk = call[d].talk
  BY DEF Others, Same
<1>2. /\ \A d \in Calls, k \in Kinds : /\ WatchedStart(d, k)' => WatchedStart(d, k)
                                       /\ WatchedFinish(d, k)' <=> WatchedFinish(d, k)
      /\ \A d \in Calls : Starting(d)' => Starting(d)
  BY <1>1 DEF Others, WatchedStart, WatchedFinish, Starting
<1>3. \A k \in Kinds : /\ NothingNew(k) => NothingNew(k)'
                       /\ slot[k].id = page[k].talk /\ slot[k] # None
                            => NothingNew(k)' \/ slot'[k].id = page'[k].talk
  BY DEF NothingNew
<1>4. LoadInv'
  BY <1>1, <1>2 DEF ButtonInv, LoadInv
<1>5. FinishInv'
  BY <1>1, <1>2 DEF ButtonInv, FinishInv
<1>6. ASSUME NEW k \in Kinds, Over(k) PROVE Over(k)'
  BY <1>2, <1>6 DEF Over
<1>7. ASSUME NEW k \in Kinds, Going(k) PROVE Going(k)'
  <2>1. NothingNew(k)' \/ slot'[k].id = page'[k].talk
    BY <1>3, <1>7 DEF Going, NothingNew
  <2> QED BY <1>1, <1>2, <1>3, <1>7, <2>1 DEF Going
<1> QED BY <1>4, <1>5, <1>6, <1>7 DEF ButtonInv

\* A click on a start button: the conversation before it has not begun, or has
\* been written.
LEMMA StartClicked ==
  ASSUME Shapes, FreshInv, ButtonInv, NEW c \in Calls, NEW k \in Kinds, ClickStart(c, k)
  PROVE  ButtonInv'
<1>1. /\ Invoke(c, k, "start", talks + 1) /\ talks' = talks + 1
      /\ page[k].start /\ UNCHANGED <<slot, begun, earlier>>
      /\ page' = [page EXCEPT ![k].start = FALSE, ![k].input = TRUE,
                              ![k].finishShown = TRUE, ![k].talk = talks + 1]
  BY DEF ClickStart, NewTalk
<1>2. /\ \A d \in Calls \ {c} : call'[d] = call[d]
      /\ call'[c].pc = "clicked" /\ call'[c].op = "start" /\ call'[c].kind = k
      /\ call'[c].watched /\ call'[c].talk = talks + 1
  BY <1>1, Clicked DEF Others
<1>3. /\ ~page'[k].start /\ page'[k].finish = page[k].finish /\ page'[k].talk = talks + 1
      /\ \A j \in Kinds \ {k} : page'[j] = page[j]
  BY <1>1 DEF Shapes, Buttons
<1>4. /\ talks \in Nat /\ earlier \in Nat /\ \A j \in Kinds : page[j].talk \in Nat
      /\ \A d \in Calls : call[d].talk \in Nat
  BY TalkAssumption DEF Shapes, Buttons, Command
<1>0. talks' = talks + 1 /\ page[k].start /\ UNCHANGED <<slot, begun, earlier>>
  BY <1>1
<1>5. LoadInv'
  <2>1. /\ earlier' <= talks' /\ \A j \in Kinds : \A t \in begun'[j] : t <= talks'
    <3>1. \A j \in Kinds : \A t \in begun[j] : t \in Nat /\ t <= talks
      BY DEF ButtonInv, LoadInv, Shapes
    <3> QED BY <1>0, <1>4, <3>1 DEF ButtonInv, LoadInv
  <2>2. \A j \in Kinds : /\ page'[j].talk = 0 \/ page'[j].talk > earlier'
                         /\ page'[j].talk <= talks'
                         /\ page'[j].finishShown => page'[j].talk # 0
    BY <1>0, <1>3, <1>4 DEF ButtonInv, LoadInv
  <2>3. \A d \in Calls : Starting(d)' => d = c \/ Starting(d)
    BY <1>2 DEF Starting
  <2>4. \A d \in Calls : Starting(d)' =>
          IF call'[d].watched THEN call'[d].talk > earlier' ELSE call'[d].talk <= earlier'
    BY <1>0, <1>2, <1>4, <2>3 DEF ButtonInv, LoadInv
  <2> QED BY <2>1, <2>2, <2>4 DEF LoadInv
<1>6. \A d \in Calls, j \in Kinds :
        /\ WatchedFinish(d, j)' <=> d # c /\ WatchedFinish(d, j)
        /\ WatchedStart(d, j)' <=> (d = c /\ j = k) \/ (d # c /\ WatchedStart(d, j))
  BY <1>2 DEF WatchedFinish, WatchedStart
<1>7. FinishInv'
  BY <1>0, <1>2, <1>3, <1>6 DEF ButtonInv, FinishInv
<1>8. ASSUME NEW j \in Kinds, Over(j) PROVE Over(j)'
  BY <1>3, <1>6, <1>8 DEF Over
<1>9. ASSUME Going(k) PROVE Going(k)'
  <2>1. \A d \in Calls : ~WatchedStart(d, k)
    BY <1>0, <1>9 DEF Going
  <2>2. NothingNew(k)' /\ page[k].talk \notin begun[k] /\ page'[k].talk \notin begun'[k]
    BY <1>0, <1>3, <1>4, <1>9 DEF Going, NothingNew, ButtonInv, LoadInv, Shapes
  <2>3. ASSUME NEW d \in Calls, WatchedFinish(d, k)'
        PROVE  call'[d].talk <= page'[k].talk /\ call'[d].talk \notin begun'[k]
    <3>1. WatchedFinish(d, k) /\ call'[d] = call[d]
      BY <1>2, <1>6, <2>3
    <3>2. /\ call[d].talk <= page[k].talk /\ page[k].talk <= talks
          /\ call[d].talk < page[k].talk => call[d].talk \notin begun[k]
      BY <3>1, <1>9 DEF Going, ButtonInv, LoadInv
    <3> QED BY <1>0, <1>3, <1>4, <2>2, <3>1, <3>2
  <2>4. ASSUME NEW d \in Calls, WatchedStart(d, k)' PROVE d = c
    BY <1>6, <2>1, <2>4
  <2>5. call'[c].talk = page'[k].talk /\ ~page'[k].start
    BY <1>2, <1>3
  <2>6. ASSUME NEW d \in Calls, WatchedStart(d, k)'
        PROVE  /\ ~page'[k].start /\ NothingNew(k)'
               /\ call'[d].talk = page'[k].talk /\ page'[k].talk \notin begun'[k]
               /\ \A e \in Calls : WatchedStart(e, k)' => e = d
    BY <2>2, <2>4, <2>5, <2>6
  <2>7. ASSUME NEW d \in Calls, WatchedFinish(d, k)'
        PROVE  /\ call'[d].talk <= page'[k].talk
               /\ call'[d].talk < page'[k].talk => call'[d].talk \notin begun'[k]
    BY <2>3, <2>7
  <2> QED BY <2>2, <2>5, <2>6, <2>7 DEF Going
<1>10. ASSUME NEW j \in Kinds \ {k}, Going(j) PROVE Going(j)'
  BY <1>0, <1>2, <1>3, <1>6, <1>10 DEF Going, NothingNew
<1> QED BY <1>5, <1>7, <1>8, <1>9, <1>10 DEF ButtonInv

\* A click on a finish button: nothing else of this page is being finished.
LEMMA FinishClicked ==
  ASSUME Shapes, ButtonInv, NEW c \in Calls, NEW k \in Kinds, ClickFinish(c, k)
  PROVE  ButtonInv'
<1>1. /\ Invoke(c, k, "finish", page[k].talk) /\ UNCHANGED <<slot, counts>>
      /\ page[k].finish /\ page[k].finishShown
      /\ page' = [page EXCEPT ![k].finish = FALSE]
  BY DEF ClickFinish
<1>2. /\ \A d \in Calls \ {c} : call'[d] = call[d]
      /\ call'[c].pc = "clicked" /\ call'[c].op = "finish" /\ call'[c].kind = k
      /\ call'[c].watched /\ call'[c].talk = page[k].talk
  BY <1>1, Clicked DEF Others
<1>3. /\ ~page'[k].finish /\ page'[k].start = page[k].start /\ page'[k].talk = page[k].talk
      /\ page'[k].finishShown = page[k].finishShown
      /\ \A j \in Kinds \ {k} : page'[j] = page[j]
  BY <1>1 DEF Shapes, Buttons
<1>4. UNCHANGED <<talks, begun, earlier>>
  BY <1>1 DEF counts
<1>5. page[k].talk > earlier
  BY <1>1 DEF ButtonInv, LoadInv
<1>6. /\ \A d \in Calls, j \in Kinds :
           /\ WatchedFinish(d, j)' <=> (d = c /\ j = k) \/ (d # c /\ WatchedFinish(d, j))
           /\ WatchedStart(d, j)' <=> d # c /\ WatchedStart(d, j)
      /\ \A d \in Calls : Starting(d)' => d # c /\ Starting(d)
  BY <1>2 DEF WatchedFinish, WatchedStart, Starting
<1>7. LoadInv'
  BY <1>2, <1>3, <1>4, <1>6 DEF ButtonInv, LoadInv
<1>8. \A d \in Calls : ~WatchedFinish(d, k)
  BY <1>1 DEF ButtonInv, FinishInv
<1>9. FinishInv'
  BY <1>2, <1>3, <1>4, <1>5, <1>6, <1>8 DEF ButtonInv, FinishInv
<1>10. Going(k)'
  <2>1. Going(k)
    BY <1>1 DEF ButtonInv, Over
  <2>2. page[k].talk \in Nat
    BY TalkAssumption DEF Shapes, Buttons
  <2>3. NothingNew(k)' <=> NothingNew(k)
    BY <1>1, <1>4 DEF NothingNew
  <2> QED BY <1>1, <1>2, <1>3, <1>4, <1>6, <1>8, <2>1, <2>2, <2>3 DEF Going
<1>11. ASSUME NEW j \in Kinds \ {k} PROVE (Over(j) => Over(j)') /\ (Going(j) => Going(j)')
  BY <1>1, <1>2, <1>3, <1>4, <1>6 DEF Over, Going, NothingNew
<1> QED BY <1>7, <1>9, <1>10, <1>11 DEF ButtonInv

\* A conversation begins: the page shows it, or has forgotten it.
LEMMA Begins ==
  ASSUME Shapes, FreshInv, ButtonInv, NEW c \in Calls, Start(c), NEW k \in Kinds, call[c].kind = k
  PROVE  ButtonInv'
<1>1. /\ call[c].pc = "waiting" /\ call[c].op = "start" /\ Go(c, "answered")
      /\ slot' = [slot EXCEPT ![k] = [id |-> call[c].talk, turns |-> <<"assistant">>]]
      /\ begun' = [begun EXCEPT ![k] = @ \union {call[c].talk}]
      /\ UNCHANGED <<page, talks, earlier>>
  BY DEF Start, Fill, Free
<1>2. k \in Kinds /\ Starting(c) /\ call[c].talk \in 1..MaxTalks
  BY <1>1 DEF Shapes, Starting, Command
<1>3. /\ \A d \in Calls \ {c} : call'[d] = call[d]
      /\ call'[c].pc = "answered" /\ Same(c)
  BY <1>1, Moved DEF Others
<1>4. /\ slot'[k].id = call[c].talk
      /\ begun'[k] = begun[k] \union {call[c].talk}
      /\ \A j \in Kinds \ {k} : slot'[j] = slot[j] /\ begun'[j] = begun[j]
  BY <1>1, <1>2 DEF Shapes
<1>5. /\ talks \in Nat /\ earlier \in Nat /\ \A j \in Kinds : page[j].talk \in Nat
      /\ \A d \in Calls : call[d].talk \in Nat
  BY TalkAssumption DEF Shapes, Buttons, Command
<1>6. /\ \A d \in Calls, j \in Kinds :
           /\ WatchedFinish(d, j)' <=> WatchedFinish(d, j)
           /\ WatchedStart(d, j)' <=> d # c /\ WatchedStart(d, j)
           /\ call'[d].talk = call[d].talk
      /\ \A d \in Calls : Starting(d)' => Starting(d)
      /\ \A d \in Calls : call'[d].watched = call[d].watched
  BY <1>1, <1>3 DEF WatchedFinish, WatchedStart, Starting, Same
<1>7. LoadInv'
  BY <1>1, <1>2, <1>4, <1>5, <1>6 DEF ButtonInv, LoadInv, FreshInv
<1>8. FinishInv'
  BY <1>1, <1>6 DEF ButtonInv, FinishInv
<1>9. ASSUME NEW j \in Kinds, Over(j) PROVE Over(j)'
  BY <1>1, <1>6, <1>9 DEF Over
\* A page loaded before asked for it, or this one.
<1>10. CASE ~call[c].watched
  <2>1. call[c].talk <= earlier /\ call[c].talk # 0
    BY <1>2, <1>5, <1>10 DEF ButtonInv, LoadInv
  <2>2. NothingNew(k)' /\ \A j \in Kinds \ {k} : NothingNew(j)' <=> NothingNew(j)
    BY <1>1, <1>4, <2>1 DEF NothingNew
  <2>3. ASSUME NEW j \in Kinds, NEW t \in Nat, t > earlier \/ t = 0, t \notin begun[j]
        PROVE  t \notin begun'[j]
    BY <1>4, <1>5, <2>1, <2>3
  <2>4. ASSUME NEW j \in Kinds, Going(j) PROVE Going(j)'
    <3>1. page[j].talk \notin begun[j] => page'[j].talk \notin begun'[j]
      BY <1>1, <1>5, <2>3 DEF ButtonInv, LoadInv
    <3>2. NothingNew(j)' \/ slot'[j].id = page'[j].talk
      BY <1>1, <1>4, <2>2, <2>4 DEF Going
    <3>3. NothingNew(j) => NothingNew(j)'
      BY <2>2
    <3>4. ASSUME NEW d \in Calls, WatchedFinish(d, j)'
          PROVE  /\ call'[d].talk <= page'[j].talk
                 /\ call'[d].talk < page'[j].talk => call'[d].talk \notin begun'[j]
      <4>1. WatchedFinish(d, j) /\ call[d].talk > earlier
        BY <1>6, <3>4 DEF ButtonInv, FinishInv
      <4> QED BY <1>1, <1>5, <1>6, <2>3, <2>4, <4>1 DEF Going
    <3>5. ASSUME NEW d \in Calls, WatchedStart(d, j)'
          PROVE  /\ ~page'[j].start /\ NothingNew(j)'
                 /\ call'[d].talk = page'[j].talk /\ page'[j].talk \notin begun'[j]
                 /\ \A e \in Calls : WatchedStart(e, j)' => e = d
      BY <1>1, <1>6, <2>4, <3>1, <3>3, <3>5 DEF Going
    <3>6. page'[j].start => NothingNew(j)' /\ page'[j].talk \notin begun'[j]
      BY <1>1, <2>4, <3>1, <3>3 DEF Going
    <3> QED BY <3>2, <3>4, <3>5, <3>6 DEF Going
  <2> QED BY <1>7, <1>8, <1>9, <2>4 DEF ButtonInv
<1>11. CASE call[c].watched
  <2>1. WatchedStart(c, k)
    BY <1>1, <1>11 DEF WatchedStart
  <2>2. call[c].talk > earlier
    BY <1>2, <1>11 DEF ButtonInv, LoadInv
  <2>3. ASSUME Going(k) PROVE Going(k)'
    <3>1. /\ ~page[k].start /\ call[c].talk = page[k].talk
          /\ \A d \in Calls : WatchedStart(d, k) => d = c
      BY <2>1, <2>3, <1>2 DEF Going
    <3>2. \A d \in Calls : ~WatchedStart(d, k)'
      BY <1>6, <3>1
    <3>3. ASSUME NEW d \in Calls, WatchedFinish(d, k)'
          PROVE  /\ call'[d].talk <= page'[k].talk
                 /\ call'[d].talk < page'[k].talk => call'[d].talk \notin begun'[k]
      <4>1. /\ call[d].talk <= page[k].talk
            /\ call[d].talk < page[k].talk => call[d].talk \notin begun[k]
        BY <1>2, <1>6, <2>3, <3>3 DEF Going
      <4> QED BY <1>1, <1>2, <1>4, <1>5, <1>6, <3>1, <4>1
    <3> QED BY <1>1, <1>4, <3>1, <3>2, <3>3 DEF Going
  <2>4. ASSUME NEW j \in Kinds \ {k}, Going(j) PROVE Going(j)'
    BY <1>1, <1>4, <1>6, <2>4 DEF Going, NothingNew
  <2> QED BY <1>7, <1>8, <1>9, <2>3, <2>4 DEF ButtonInv
<1> QED BY <1>10, <1>11

\* A result comes back.  A failed start lets the page start again, a failed
\* finish lets it finish again, and one that succeeded is the page's last.
LEMMA Returns ==
  ASSUME Shapes, ButtonInv, NEW c \in Calls, Return(c), NEW k \in Kinds, call[c].kind = k
  PROVE  ButtonInv'
<1>1. /\ call[c].pc \in {"answered", "error"} /\ UNCHANGED <<slot, talks, begun, earlier>>
      /\ \A d \in Calls \ {c} : call'[d] = call[d]
      /\ call'[c].pc = "idle" /\ ~call'[c].watched
  BY DEF Return, Idle, Shapes, counts
<1>2. k \in Kinds
  BY <1>1 DEF Shapes
<1>3. /\ \A j \in Kinds \ {k} : page'[j] = page[j]
      /\ call[c].watched => page'[k] = After(c, page[k])
      /\ ~call[c].watched => page'[k] = page[k]
  BY <1>2 DEF Return, Shapes
<1>4. /\ \A d \in Calls, j \in Kinds : /\ WatchedFinish(d, j)' <=> d # c /\ WatchedFinish(d, j)
                                       /\ WatchedStart(d, j)' <=> d # c /\ WatchedStart(d, j)
      /\ \A d \in Calls : Starting(d)' => d # c /\ Starting(d)
  BY <1>1 DEF WatchedFinish, WatchedStart, Starting
<1>5. \A j \in Kinds : /\ page'[j].talk = page[j].talk
                       /\ page'[j].finishShown => page[j].finishShown
  <2>1. ASSUME NEW p \in Buttons
        PROVE  After(c, p).talk = p.talk /\ (After(c, p).finishShown => p.finishShown)
    BY <2>1 DEF After, Buttons
  <2>2. page[k] \in Buttons
    BY DEF Shapes
  <2> QED BY <1>3, <2>1, <2>2
<1>6. LoadInv'
  BY <1>1, <1>4, <1>5 DEF ButtonInv, LoadInv
\* What stays of a kind whose buttons stay as they were.
<1>7. ASSUME NEW j \in Kinds, page'[j].start = page[j].start, page'[j].finish = page[j].finish
      PROVE  /\ (Over(j) => Over(j)') /\ (Going(j) => Going(j)')
             /\ \A d \in Calls : WatchedFinish(d, j)' => ~page'[j].finish
  BY <1>1, <1>4, <1>5, <1>7 DEF ButtonInv, FinishInv, Over, Going, NothingNew
<1>8. ASSUME \A d \in Calls : WatchedFinish(d, k)' => ~page'[k].finish
      PROVE  FinishInv'
  <2>1. ASSUME NEW d \in Calls, NEW j \in Kinds, WatchedFinish(d, j)'
        PROVE  /\ ~page'[j].finish /\ call'[d].talk > earlier'
               /\ \A e \in Calls : WatchedFinish(e, j)' => e = d
    <3>1. WatchedFinish(d, j) /\ d # c
      BY <1>4, <2>1
    <3>2. /\ ~page[j].finish /\ call[d].talk > earlier
          /\ \A e \in Calls : WatchedFinish(e, j) => e = d
      BY <3>1 DEF ButtonInv, FinishInv
    <3>3. ~page'[j].finish
      BY <1>3, <1>8, <2>1, <3>2
    <3> QED BY <1>1, <1>4, <3>1, <3>2, <3>3
  <2> QED BY <2>1 DEF FinishInv
<1>9. \A j \in Kinds \ {k} : (Over(j) => Over(j)') /\ (Going(j) => Going(j)')
  BY <1>3, <1>7
<1>10. CASE page'[k].start = page[k].start /\ page'[k].finish = page[k].finish
  BY <1>2, <1>6, <1>7, <1>8, <1>9, <1>10 DEF ButtonInv
<1>11. CASE call[c].watched /\ call[c].op = "start" /\ call[c].pc = "error"
  <2>1. page'[k].start /\ page'[k].finish = page[k].finish
    BY <1>2, <1>3, <1>11 DEF After, Shapes, Buttons
  <2>2. WatchedStart(c, k)
    BY <1>11 DEF WatchedStart
  <2>3. Over(k) => Over(k)'
    BY <1>4, <2>1 DEF Over
  <2>4. ASSUME Going(k) PROVE Going(k)'
    <3>1. /\ NothingNew(k) /\ page[k].talk \notin begun[k]
          /\ \A d \in Calls : WatchedStart(d, k) => d = c
      BY <2>2, <2>4 DEF Going
    <3>2. NothingNew(k)' /\ \A d \in Calls : ~WatchedStart(d, k)'
      BY <1>1, <1>4, <3>1 DEF NothingNew
    <3> QED BY <1>1, <1>4, <1>5, <2>4, <3>1, <3>2 DEF Going
  <2>5. FinishInv'
    BY <1>2, <1>4, <1>8, <2>1 DEF ButtonInv, FinishInv
  <2> QED BY <1>2, <1>6, <1>9, <2>3, <2>4, <2>5 DEF ButtonInv
<1>12. CASE call[c].watched /\ call[c].op = "finish"
  <2>1. WatchedFinish(c, k) /\ ~page[k].finish
    BY <1>2, <1>12 DEF WatchedFinish, ButtonInv, FinishInv
  <2>2. \A d \in Calls : ~WatchedFinish(d, k)'
    BY <1>2, <1>4, <2>1 DEF ButtonInv, FinishInv
  <2>3. FinishInv'
    BY <1>8, <2>2
  <2>4. CASE call[c].pc = "answered"
    <3>0. page[k] \in Buttons
      BY DEF Shapes
    <3>1. ~page'[k].finish
      BY <1>3, <1>12, <2>4, <3>0 DEF After, Buttons
    <3>2. Over(k)'
      BY <2>2, <3>1 DEF Over
    <3> QED BY <1>6, <1>9, <2>3, <3>2 DEF ButtonInv
  <2>5. CASE call[c].pc = "error"
    <3>0. page[k] \in Buttons
      BY DEF Shapes
    <3>1. page'[k].start = page[k].start
      BY <1>3, <1>12, <2>5, <3>0 DEF After, Buttons
    <3>2. Going(k)
      BY <1>2, <2>1 DEF ButtonInv, Over
    <3>3. Going(k)'
      BY <1>1, <1>4, <1>5, <2>2, <3>1, <3>2 DEF Going, NothingNew
    <3> QED BY <1>6, <1>9, <2>3, <3>3 DEF ButtonInv
  <2> QED BY <1>1, <2>4, <2>5
<1>13. CASE ~call[c].watched \/ call[c].op = "reply" \/ (call[c].op = "start" /\ call[c].pc = "answered")
  BY <1>3, <1>10, <1>13 DEF After
<1> QED BY <1>1, <1>11, <1>12, <1>13 DEF Shapes, Ops

LEMMA ButtonStep ==
  ASSUME Shapes, LockInv, FreshInv, ButtonInv, [Next]_vars
  PROVE  ButtonInv'
<1>k. \A c \in Calls : call[c].pc # "idle" => call[c].kind \in Kinds
  BY DEF Shapes
<1>0. CASE UNCHANGED vars
  BY <1>0 DEF vars, counts, ButtonInv, LoadInv, FinishInv, Over, Going, NothingNew, WatchedStart,
              WatchedFinish, Starting
<1>1. ASSUME NEW c \in Calls, NEW k \in Kinds, ClickStart(c, k) PROVE ButtonInv'
  BY <1>1, StartClicked
<1>2. ASSUME NEW c \in Calls, NEW k \in Kinds, Send(c, k) PROVE ButtonInv'
  <2>1. Invoke(c, k, "reply", page[k].talk) /\ UNCHANGED <<slot, page, talks, begun, earlier>>
    BY <1>2 DEF Send
  <2>2. /\ \A d \in Calls \ {c} : call'[d] = call[d]
        /\ call'[c].op = "reply"
    BY <2>1, Clicked DEF Others
  <2>3. /\ \A d \in Calls, j \in Kinds : /\ WatchedFinish(d, j)' => d # c /\ WatchedFinish(d, j)
                                         /\ WatchedStart(d, j)' => d # c /\ WatchedStart(d, j)
        /\ \A d \in Calls : Starting(d)' => d # c /\ Starting(d)
    BY <2>2 DEF WatchedFinish, WatchedStart, Starting
  <2> QED BY <2>1, <2>2, <2>3 DEF ButtonInv, LoadInv, FinishInv, Over, Going, NothingNew
<1>3. ASSUME NEW c \in Calls, NEW k \in Kinds, ClickFinish(c, k) PROVE ButtonInv'
  BY <1>3, FinishClicked
<1>4. ASSUME NEW c \in Calls, Build(c) \/ ReadKey(c) \/ NoProfile(c) \/ NoKey(c) \/ NoTalk(c)
      PROVE  ButtonInv'
  <2>1. PICK pc \in {"waiting", "error"} : Go(c, pc)
    BY <1>4 DEF Build, ReadKey, NoProfile, NoKey, NoTalk
  <2>2. UNCHANGED <<slot, page, talks, begun, earlier>> /\ call[c].pc \in {"clicked", "waiting"}
    BY <1>4 DEF Build, ReadKey, NoProfile, NoKey, NoTalk, Free, Fault, counts
  <2>3. Others(c) /\ Same(c) /\ call'[c].pc = pc
    BY <2>1, Moved
  <2>4. \A k \in Kinds : slot'[k] = None \/ (slot'[k].id = slot[k].id /\ slot[k] # None)
    BY <2>2
  <2> QED BY <2>2, <2>3, <2>4, OnItsWay
<1>5. ASSUME NEW c \in Calls, Start(c) PROVE ButtonInv'
  BY <1>5, <1>k, Begins DEF Start, Fill, Free
<1>6. ASSUME NEW c \in Calls, AskReply(c) \/ AskFinish(c) PROVE ButtonInv'
  <2> DEFINE k == call[c].kind
  <2>1. /\ Others(c) /\ Same(c) /\ UNCHANGED <<page, talks, begun, earlier>>
        /\ call[c].pc = "waiting" /\ call'[c].pc = "asking" /\ call[c].op \in {"reply", "finish"}
        /\ slot'[k].id = slot[k].id /\ slot[k] # None
        /\ \A j \in Kinds \ {k} : slot'[j] = slot[j]
    BY <1>6, Asks DEF counts
  <2>2. \A j \in Kinds : slot'[j] = None \/ (slot'[j].id = slot[j].id /\ slot[j] # None)
    BY <2>1
  <2> QED BY <2>1, <2>2, OnItsWay
<1>7. ASSUME NEW c \in Calls, Reply(c) PROVE ButtonInv'
  <2> DEFINE k == call[c].kind
  <2>1. /\ Go(c, "answered") /\ UNCHANGED <<page, talks, begun, earlier>>
        /\ call[c].pc = "asking" /\ call[c].op = "reply"
        /\ slot' = [slot EXCEPT ![k].turns = Append(@, "assistant")]
    BY <1>7 DEF Reply, counts
  <2>2. k \in Kinds /\ slot[k] # None
    BY <2>1, <1>k DEF LockInv, Holds
  <2>3. slot'[k].id = slot[k].id /\ \A j \in Kinds \ {k} : slot'[j] = slot[j]
    BY <2>1, <2>2 DEF Shapes, Talk
  <2>4. Others(c) /\ Same(c) /\ call'[c].pc = "answered"
    BY <2>1, Moved
  <2>5. \A j \in Kinds : slot'[j] = None \/ (slot'[j].id = slot[j].id /\ slot[j] # None)
    BY <2>2, <2>3
  <2> HIDE DEF k
  <2> QED BY <2>1, <2>4, <2>5, OnItsWay
<1>8. ASSUME NEW c \in Calls, OpenFile(c) \/ ApiHangs(c) \/ AskFails(c) \/ NotJson(c) \/ WriteFails(c)
      PROVE  ButtonInv'
  <2>1. PICK pc \in {"writing", "hung", "error"} : Go(c, pc)
    BY <1>8 DEF OpenFile, Truncate, ApiHangs, AskFails, NotJson, WriteFails
  <2>2. /\ UNCHANGED <<slot, page, talks, begun, earlier>>
        /\ call[c].pc \in {"asking", "writing"} /\ call[c].op # "start"
    BY <1>8 DEF OpenFile, Truncate, ApiHangs, AskFails, NotJson, WriteFails, Fault, counts, Shapes
  <2>3. Others(c) /\ Same(c) /\ call'[c].pc = pc
    BY <2>1, Moved
  <2>4. \A k \in Kinds : slot'[k] = None \/ (slot'[k].id = slot[k].id /\ slot[k] # None)
    BY <2>2
  <2> QED BY <2>2, <2>3, <2>4, OnItsWay
<1>10. ASSUME NEW c \in Calls, WriteFile(c) PROVE ButtonInv'
  <2> DEFINE k == call[c].kind
  <2>1. /\ call[c].pc = "writing" /\ Go(c, "answered")
        /\ UNCHANGED <<page, talks, begun, earlier>>
        /\ slot' = [slot EXCEPT ![k] = None]
    BY <1>10 DEF WriteFile, Wrote, counts
  <2>2. k \in Kinds /\ call[c].op = "finish"
    BY <2>1, <1>k DEF Shapes
  <2>3. Others(c) /\ Same(c) /\ call'[c].pc = "answered"
    BY <2>1, Moved
  <2>4. \A j \in Kinds : slot'[j] = None \/ (slot'[j].id = slot[j].id /\ slot[j] # None)
    BY <2>1, <2>2 DEF Shapes
  <2> QED BY <2>1, <2>2, <2>3, <2>4, OnItsWay
<1>11. ASSUME NEW c \in Calls, Return(c) PROVE ButtonInv'
  BY <1>11, <1>k, Returns DEF Return
<1>12. CASE Reload
  <2>1. /\ UNCHANGED <<slot, talks, begun>> /\ earlier' = talks
        /\ \A k \in Kinds : page'[k] = Fresh
        /\ \A c \in Calls : /\ ~call'[c].watched /\ call'[c].talk = call[c].talk
                            /\ call'[c].pc = call[c].pc /\ call'[c].op = call[c].op
    BY <1>12 DEF Reload, Shapes, Command
  <2>2. talks \in Nat
    BY TalkAssumption DEF Shapes
  <2>3. \A c \in Calls, k \in Kinds : ~WatchedStart(c, k)' /\ ~WatchedFinish(c, k)'
    BY <2>1 DEF WatchedStart, WatchedFinish
  <2>4. LoadInv'
    <3>1. \A c \in Calls : Starting(c)' => Starting(c)
      BY <2>1 DEF Starting
    <3>2. \A c \in Calls : Starting(c)' => call'[c].talk <= earlier' /\ call'[c].talk \in Nat
      BY <2>1, <3>1 DEF FreshInv, Shapes, Command
    <3> QED BY <2>1, <2>2, <3>2 DEF ButtonInv, LoadInv, Fresh
  <2>5. \A k \in Kinds : Going(k)'
    <3>1. \A k \in Kinds : NothingNew(k)'
      BY <2>1 DEF NothingNew, FreshInv
    <3>2. \A k \in Kinds : page'[k].talk \notin begun'[k]
      BY <2>1 DEF Shapes, Fresh
    <3> QED BY <2>3, <3>1, <3>2 DEF Going
  <2> QED BY <2>3, <2>4, <2>5 DEF ButtonInv, FinishInv
<1>13. CASE Crash
  <2>1. /\ UNCHANGED <<talks, begun, earlier>>
        /\ \A k \in Kinds : page'[k] = Fresh /\ slot'[k] = None
        /\ \A c \in Calls : ~call'[c].watched /\ call'[c].pc = "idle"
    BY <1>13 DEF Crash, Fault, Idle
  <2>2. /\ \A c \in Calls, k \in Kinds : ~WatchedStart(c, k)' /\ ~WatchedFinish(c, k)'
        /\ \A c \in Calls : ~Starting(c)'
    BY <2>1 DEF WatchedStart, WatchedFinish, Starting
  <2>3. talks \in Nat
    BY TalkAssumption DEF Shapes
  <2>4. LoadInv'
    BY <2>1, <2>2, <2>3 DEF ButtonInv, LoadInv, Fresh
  <2>5. \A k \in Kinds : Going(k)'
    BY <2>1, <2>2 DEF Going, NothingNew, Shapes, Fresh
  <2> QED BY <2>2, <2>4, <2>5 DEF ButtonInv, FinishInv
<1> QED BY <1>0, <1>1, <1>2, <1>3, <1>4, <1>5, <1>6, <1>7, <1>8, <1>10, <1>11, <1>12,
           <1>13, NextCases

-----------------------------------------------------------------------------
(* The theorems *)

LEMMA TalkInit == Init => TalkInv
<1> SUFFICES ASSUME Init PROVE TalkInv
  OBVIOUS
<1>1. Idle \in Command
  BY EmptyTurns, TalkAssumption DEF Idle, Command, Points
<1>2. Shapes
  BY <1>1, TalkAssumption DEF Init, Shapes, Absent, Fresh, Idle, Buttons
<1>3. LockInv /\ FileInv /\ FinishedIsGone
  BY DEF Init, LockInv, FileInv, FinishedIsGone, Holds, Absent, Idle, Kinds
<1>4. FreshInv
  BY DEF Init, FreshInv, Starting, Absent, Idle
<1>5. /\ \A c \in Calls, k \in Kinds : ~WatchedStart(c, k) /\ ~WatchedFinish(c, k)
      /\ \A c \in Calls : ~Starting(c)
  BY DEF Init, WatchedStart, WatchedFinish, Starting, Idle
<1>6. LoadInv /\ FinishInv /\ \A k \in Kinds : Going(k)
  BY <1>5 DEF Init, LoadInv, FinishInv, Going, NothingNew, Fresh
<1> QED BY <1>2, <1>3, <1>4, <1>6 DEF TalkInv, ButtonInv

LEMMA TalkStep ==
  ASSUME TalkInv, [Next]_vars
  PROVE  TalkInv'
BY ShapeStep, LockStep, FileStep, FreshStep, GoneStep, ButtonStep DEF TalkInv

LEMMA TalkCorrect == Spec => []TalkInv
BY TalkInit, TalkStep, PTL DEF Spec

\* Types hold for any number of commands, conversations, faults and page loads;
\* a file is incomplete only while it is written or after a failure, and whole
\* tier definitions are JSON.
THEOREM TypeCorrect == Spec => []TypeOK
<1>1. TalkInv => TypeOK
  <2> SUFFICES ASSUME TalkInv PROVE TypeOK
    OBVIOUS
  <2>1. Shapes /\ FileInv
    BY DEF TalkInv
  <2>2. ASSUME NEW k \in Kinds
        PROVE  /\ slot[k] # None => /\ slot[k].id \in 1..MaxTalks
                                    /\ slot[k].turns \in Seq({"user", "assistant"})
               /\ lock[k] \in Calls \union {None}
               /\ file[k].state \in {"absent", "torn", "whole"} /\ file[k].by \in 0..MaxTalks
               /\ DOMAIN page[k] = DOMAIN Fresh /\ page[k].talk \in 0..MaxTalks
               /\ begun[k] \subseteq 1..MaxTalks
    BY <2>1 DEF Shapes, Talk, Turns, Fresh, Buttons
  <2>3. \A k \in Kinds : file[k].state = "torn" =>
          faults > 0 \/ \E c \in Calls : call[c].pc = "writing" /\ call[c].kind = k
    BY <2>1 DEF FileInv, Holds
  <2>4. ASSUME NEW c \in Calls
        PROVE  /\ call[c].pc \in {"idle", "clicked", "waiting", "asking", "hung", "writing",
                                  "answered", "error"}
               /\ call[c].pc # "idle" =>
                    call[c].kind \in Kinds /\ call[c].op \in {"start", "reply", "finish"}
    BY <2>1 DEF Shapes, Command, Points, Ops
  <2> QED BY <2>1, <2>2, <2>3, <2>4 DEF TypeOK, FileInv, Shapes
<1> QED BY <1>1, TalkCorrect, PTL

\* However many commands are under way, from the question to its answer the
\* transcript is the one that was sent.
THEOREM AnswerCorrect == Spec => []AnsweredAsAsked
<1>1. TalkInv => AnsweredAsAsked
  BY DEF TalkInv, Shapes, LockInv, Holds, AnsweredAsAsked
<1> QED BY <1>1, TalkCorrect, PTL

\* A conversation whose file is written is in no slot, so nothing writes it again.
THEOREM FinishedCorrect == Spec => []FinishedIsGone
<1>1. TalkInv => FinishedIsGone
  BY DEF TalkInv
<1> QED BY <1>1, TalkCorrect, PTL

\* The buttons alone, without a word between page and backend about which
\* conversation is meant, bind a finish to what was shown: it writes that one, or
\* a later one if that one never began, or one an earlier load of the page asked for.
THEOREM ShownCorrect == Spec => []FinishesWhatWasShown
<1>1. ASSUME TalkInv PROVE FinishesWhatWasShown
  <2> SUFFICES ASSUME NEW c \in Calls, call[c].op = "finish", call[c].watched,
                      call[c].pc \in {"asking", "writing"}
               PROVE  LET written == slot[call[c].kind].id
                          shown   == call[c].talk IN
                      \/ written = shown
                      \/ written > shown /\ shown \notin begun[call[c].kind]
                      \/ written <= earlier
    BY DEF FinishesWhatWasShown
  <2> DEFINE k == call[c].kind
  <2>1. k \in Kinds /\ WatchedFinish(c, k)
    BY <1>1 DEF TalkInv, Shapes, WatchedFinish
  <2>2. slot[k] # None
    BY <1>1, <2>1 DEF TalkInv, LockInv, Holds
  <2>3. Going(k)
    BY <1>1, <2>1 DEF TalkInv, ButtonInv, Over
  <2>4. page[k].talk \in Nat /\ call[c].talk \in Nat
    BY <1>1, <2>1, TalkAssumption DEF TalkInv, Shapes, Buttons, Command
  <2>5. slot[k].id <= earlier \/ slot[k].id = page[k].talk
    BY <2>2, <2>3 DEF Going, NothingNew
  <2> QED BY <2>1, <2>3, <2>4, <2>5 DEF Going
<1> QED BY <1>1, TalkCorrect, PTL
=============================================================================
