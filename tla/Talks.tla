-------------------------------- MODULE Talks --------------------------------
(***************************************************************************)
(* The setup conversation and the tier calibration (conversation/, the six *)
(* commands of lib.rs, wireConversation of assets/settings.js).  A kind of *)
(* conversation has one slot behind one lock; a command holds the lock     *)
(* while it waits for the API.  A finished conversation is written to the  *)
(* kind's file, in place, and the tiers' start reads the profile.          *)
(*                                                                         *)
(* A command is: clicked; key read; lock taken; the API asked; the file    *)
(* written; its result back at the page, unless the page was reloaded.     *)
(***************************************************************************)
EXTENDS Naturals, Sequences

CONSTANTS
    Calls,
    None,
    MaxTalks, MaxReplies,       \* bounds: conversations asked for, replies sent
    MaxFaults, MaxReloads       \* bounds: failures and crashes, page loads

ASSUME TalkAssumption ==
    /\ MaxTalks \in Nat /\ MaxReplies \in Nat /\ MaxFaults \in Nat /\ MaxReloads \in Nat
    /\ None \notin Calls \union Nat

\* An empty slot is no conversation.
ASSUME EmptySlotAssumption == None \notin [id : Nat, turns : Seq({"user", "assistant"})]

Kinds == {"setup", "tiers"}

VARIABLES
    slot,       \* setup_conv and tier_calib_conv
    lock,       \* which command holds the slot's lock across an await
    file,       \* user-profile.md and tier-definitions.json
    page,       \* the buttons, and the talk started last
    call,       \* commands, each with the page's talk when it was clicked and
                \* the turns it sent
    talks,      \* conversations asked for so far
    begun,      \* those of each kind that came to the slot
    earlier,    \* those asked for before the page was loaded last
    replies, faults, reloads

counts == <<talks, begun, earlier, replies, faults, reloads>>
vars == <<slot, lock, file, page, call, counts>>

\* Whose text a file has, whether it is JSON, and whether all of it is there.
Absent == [state |-> "absent", by |-> 0, json |-> FALSE]

Fresh == [start |-> TRUE, input |-> FALSE, finish |-> TRUE, finishShown |-> FALSE,
          talk |-> 0]

Idle == [pc |-> "idle", kind |-> None, op |-> None, talk |-> 0, sent |-> <<>>, watched |-> FALSE]

Init ==
    /\ slot = [k \in Kinds |-> None]
    /\ lock = [k \in Kinds |-> None]
    /\ file = [k \in Kinds |-> Absent]
    /\ page = [k \in Kinds |-> Fresh]
    /\ call = [c \in Calls |-> Idle]
    /\ talks = 0 /\ begun = [k \in Kinds |-> {}] /\ earlier = 0
    /\ replies = 0 /\ faults = 0 /\ reloads = 0

Fault ==
    /\ faults < MaxFaults
    /\ faults' = faults + 1
    /\ UNCHANGED <<talks, begun, earlier, replies, reloads>>

Go(c, pc) == call' = [call EXCEPT ![c].pc = pc]

Invoke(c, k, op, t) ==
    /\ call[c].pc = "idle"
    /\ call' = [call EXCEPT ![c] = [pc |-> "clicked", kind |-> k, op |-> op, talk |-> t,
                                    sent |-> <<>>, watched |-> TRUE]]

-----------------------------------------------------------------------------
(***************************************************************************)
(* wireConversation.                                                       *)
(***************************************************************************)
NewTalk(c, k) ==
    /\ talks < MaxTalks
    /\ Invoke(c, k, "start", talks + 1)
    /\ talks' = talks + 1
    /\ UNCHANGED <<slot, lock, file, begun, earlier, replies, faults, reloads>>

\* Fault: the start button is not disabled.
ClickStartAnyTime(c, k) ==
    /\ NewTalk(c, k)
    /\ page' = [page EXCEPT ![k].input = TRUE, ![k].finishShown = TRUE, ![k].talk = talks + 1]

ClickStart(c, k) ==
    /\ page[k].start
    /\ NewTalk(c, k)
    /\ page' = [page EXCEPT ![k].start = FALSE, ![k].input = TRUE, ![k].finishShown = TRUE,
                            ![k].talk = talks + 1]

\* Enter sends even while the send button is disabled.
Send(c, k) ==
    /\ page[k].input /\ replies < MaxReplies
    /\ Invoke(c, k, "reply", page[k].talk)
    /\ replies' = replies + 1
    /\ UNCHANGED <<slot, lock, file, page, talks, begun, earlier, faults, reloads>>

ClickFinish(c, k) ==
    /\ page[k].finishShown /\ page[k].finish
    /\ Invoke(c, k, "finish", page[k].talk)
    /\ page' = [page EXCEPT ![k].finish = FALSE]
    /\ UNCHANGED <<slot, lock, file, counts>>

\* The page after a result: a start that failed may be tried again, so may a
\* finish; one that succeeded hides the row and leaves its button disabled.
After(c, p) ==
    LET ok == call[c].pc = "answered" IN
    CASE call[c].op = "start" /\ ~ok -> [p EXCEPT !.start = TRUE]
      [] call[c].op = "finish" /\ ~ok -> [p EXCEPT !.finish = TRUE]
      [] call[c].op = "finish" /\ ok ->
            [p EXCEPT !.start = TRUE, !.input = FALSE, !.finish = FALSE, !.finishShown = FALSE]
      [] OTHER -> p

Return(c) ==
    /\ call[c].pc \in {"answered", "error"}
    /\ page' = IF call[c].watched
               THEN [page EXCEPT ![call[c].kind] = After(c, page[call[c].kind])]
               ELSE page
    /\ call' = [call EXCEPT ![c] = Idle]
    /\ UNCHANGED <<slot, lock, file, counts>>

\* The page is loaded again; the commands it started go on.
Reload ==
    /\ reloads < MaxReloads
    /\ reloads' = reloads + 1
    /\ earlier' = talks
    /\ page' = [k \in Kinds |-> Fresh]
    /\ call' = [c \in Calls |-> [call[c] EXCEPT !.watched = FALSE]]
    /\ UNCHANGED <<slot, lock, file, talks, begun, replies, faults>>

-----------------------------------------------------------------------------
(***************************************************************************)
(* The commands.                                                           *)
(***************************************************************************)
\* The opener of a tier calibration quotes the profile, read without a lock.
Build(c) ==
    /\ call[c].pc = "clicked" /\ call[c].op = "start"
    /\ call[c].kind = "tiers" => file["setup"] # Absent
    /\ Go(c, "waiting")
    /\ UNCHANGED <<slot, lock, file, page, counts>>

NoProfile(c) ==
    /\ call[c].pc = "clicked" /\ call[c].op = "start"
    /\ call[c].kind = "tiers" /\ file["setup"] = Absent
    /\ Go(c, "error")
    /\ UNCHANGED <<slot, lock, file, page, counts>>

ReadKey(c) ==
    /\ call[c].pc = "clicked" /\ call[c].op \in {"reply", "finish"}
    /\ Go(c, "waiting")
    /\ UNCHANGED <<slot, lock, file, page, counts>>

NoKey(c) ==
    /\ call[c].pc = "clicked" /\ call[c].op \in {"reply", "finish"}
    /\ Fault
    /\ Go(c, "error")
    /\ UNCHANGED <<slot, lock, file, page>>

\* Fault: both kinds have one lock.
FreeShared(c) == call[c].pc = "waiting" /\ \A k \in Kinds : lock[k] = None

Free(c) == call[c].pc = "waiting" /\ lock[call[c].kind] = None

Fill(c, id) ==
    /\ Free(c) /\ call[c].op = "start"
    /\ slot' = [slot EXCEPT ![call[c].kind] = [id |-> id, turns |-> <<"assistant">>]]
    /\ begun' = [begun EXCEPT ![call[c].kind] = @ \union {id}]
    /\ Go(c, "answered")
    /\ UNCHANGED <<lock, file, page, talks, earlier, replies, faults, reloads>>

\* The new conversation replaces whatever the slot held.
Start(c) == Fill(c, call[c].talk)

NoTalk(c) ==
    /\ Free(c) /\ call[c].op \in {"reply", "finish"}
    /\ slot[call[c].kind] = None
    /\ Go(c, "error")
    /\ UNCHANGED <<slot, lock, file, page, counts>>

\* step(): the user's turn is in before the API is asked.
AskedReply(c) ==
    LET k == call[c].kind IN
    /\ Free(c) /\ call[c].op = "reply" /\ slot[k] # None
    /\ slot' = [slot EXCEPT ![k].turns = Append(@, "user")]
    /\ call' = [call EXCEPT ![c].pc = "asking", ![c].sent = Append(slot[k].turns, "user")]
    /\ UNCHANGED <<file, page, counts>>

\* Fault: the lock is given up while the API is asked.
AskReplyUnlocked(c) == AskedReply(c) /\ UNCHANGED lock

AskReply(c) == AskedReply(c) /\ lock' = [lock EXCEPT ![call[c].kind] = c]

Reply(c) ==
    LET k == call[c].kind IN
    /\ call[c].pc = "asking" /\ call[c].op = "reply"
    /\ slot' = [slot EXCEPT ![k].turns = Append(@, "assistant")]
    /\ lock' = [lock EXCEPT ![k] = None]
    /\ Go(c, "answered")
    /\ UNCHANGED <<file, page, counts>>

\* finalize(): the transcript and the request go out, the slot stays.
AskedFinish(c) ==
    LET k == call[c].kind IN
    /\ Free(c) /\ call[c].op = "finish" /\ slot[k] # None
    /\ lock' = [lock EXCEPT ![k] = c]
    /\ call' = [call EXCEPT ![c].pc = "asking", ![c].sent = slot[k].turns]
    /\ UNCHANGED <<slot, page, counts>>

\* Fault: the file is opened before the API is asked.
AskFinishTruncating(c) ==
    AskedFinish(c) /\ file' = [file EXCEPT ![call[c].kind].state = "torn"]

AskFinish(c) == AskedFinish(c) /\ UNCHANGED file

Release(c) == lock' = [lock EXCEPT ![call[c].kind] = None]

\* The slot keeps what it holds, the user's turn too.
AskFails(c) ==
    /\ call[c].pc = "asking"
    /\ Fault /\ Release(c) /\ Go(c, "error")
    /\ UNCHANGED <<slot, file, page>>

\* The client has no timeout: an answer that never comes is waited for.
ApiHangs(c) ==
    /\ call[c].pc = "asking"
    /\ Fault /\ Go(c, "hung")
    /\ UNCHANGED <<slot, lock, file, page>>

\* What the API calls tiers may be no JSON; it is tried before it is written.
NotJson(c) ==
    /\ call[c].pc = "asking" /\ call[c].op = "finish" /\ call[c].kind = "tiers"
    /\ Release(c) /\ Go(c, "error")
    /\ UNCHANGED <<slot, file, page, counts>>

Truncate(c, json) ==
    LET k == call[c].kind IN
    /\ call[c].pc = "asking" /\ call[c].op = "finish"
    /\ file' = [file EXCEPT ![k] = [state |-> "torn", by |-> slot[k].id, json |-> json]]
    /\ Go(c, "writing")
    /\ UNCHANGED <<slot, lock, page, counts>>

\* fs::write opens and truncates, then writes.
OpenFile(c) == Truncate(c, call[c].kind = "tiers")

WriteFails(c) ==
    /\ call[c].pc = "writing"
    /\ Fault /\ Release(c) /\ Go(c, "error")
    /\ UNCHANGED <<slot, file, page>>

Wrote(c) ==
    /\ call[c].pc = "writing"
    /\ file' = [file EXCEPT ![call[c].kind].state = "whole"]
    /\ Release(c) /\ Go(c, "answered")
    /\ UNCHANGED <<page, counts>>

\* Fault: the slot is not cleared.
WriteFileKeeping(c) == Wrote(c) /\ UNCHANGED slot

WriteFile(c) == Wrote(c) /\ slot' = [slot EXCEPT ![call[c].kind] = None]

\* The process dies: transcripts are in memory only, and a file stays torn.
Crash ==
    /\ Fault
    /\ slot' = [k \in Kinds |-> None]
    /\ lock' = [k \in Kinds |-> None]
    /\ page' = [k \in Kinds |-> Fresh]
    /\ call' = [c \in Calls |-> Idle]
    /\ UNCHANGED file

Next ==
    \/ \E c \in Calls :
        \/ \E k \in Kinds : ClickStart(c, k) \/ Send(c, k) \/ ClickFinish(c, k)
        \/ Build(c) \/ NoProfile(c) \/ ReadKey(c) \/ NoKey(c)
        \/ Start(c) \/ NoTalk(c) \/ AskReply(c) \/ Reply(c) \/ AskFinish(c) \/ AskFails(c)
        \/ ApiHangs(c) \/ NotJson(c) \/ OpenFile(c) \/ WriteFile(c) \/ WriteFails(c) \/ Return(c)
    \/ Reload
    \/ Crash

\* A command that was called goes on, the lock is handed on in the order it was
\* asked for (tokio's Mutex), and the API answers, fails or hangs.
Fairness ==
    \A c \in Calls :
        /\ WF_vars(\/ Build(c) \/ NoProfile(c) \/ ReadKey(c) \/ NoKey(c)
                   \/ Reply(c) \/ AskFails(c) \/ ApiHangs(c) \/ NotJson(c) \/ OpenFile(c)
                   \/ WriteFile(c) \/ WriteFails(c) \/ Return(c))
        /\ SF_vars(Start(c) \/ NoTalk(c) \/ AskReply(c) \/ AskFinish(c))

Spec == Init /\ [][Next]_vars /\ Fairness

-----------------------------------------------------------------------------
\* Types of all variables.  A file is incomplete only while it is being written,
\* or after a write or the process died: a question that fails costs no file.
\* Tier definitions that are there in full are JSON, whatever the API said.
TypeOK ==
    /\ \A k \in Kinds :
        /\ slot[k] # None =>
            slot[k].id \in 1..MaxTalks /\ slot[k].turns \in Seq({"user", "assistant"})
        /\ lock[k] \in Calls \union {None}
        /\ file[k].state \in {"absent", "torn", "whole"} /\ file[k].by \in 0..MaxTalks
        /\ file[k].state = "torn" =>
            faults > 0 \/ \E c \in Calls : call[c].pc = "writing" /\ call[c].kind = k
        /\ DOMAIN page[k] = DOMAIN Fresh /\ page[k].talk \in 0..MaxTalks
    /\ file["tiers"].state = "whole" => file["tiers"].json
    /\ \A c \in Calls :
        /\ call[c].pc \in {"idle", "clicked", "waiting", "asking", "hung", "writing",
                        "answered", "error"}
        /\ call[c].pc # "idle" =>
            call[c].kind \in Kinds /\ call[c].op \in {"start", "reply", "finish"}
    /\ talks \in 0..MaxTalks /\ earlier \in 0..MaxTalks
    /\ \A k \in Kinds : begun[k] \subseteq 1..MaxTalks
    /\ replies \in 0..MaxReplies
    /\ faults \in 0..MaxFaults /\ reloads \in 0..MaxReloads

\* The API's answer goes into the transcript it was asked about: between the
\* question and its answer nobody adds a turn, replaces the conversation or
\* ends it, however many commands are under way (lib.rs:1405).
AnsweredAsAsked ==
    \A c \in Calls : call[c].pc \in {"asking", "hung", "writing"} =>
        slot[call[c].kind] # None /\ slot[call[c].kind].turns = call[c].sent

\* A conversation is written once: once its file is there it is in no slot,
\* and a second finish finds nothing (lib.rs:1440).
FinishedIsGone ==
    \A k \in Kinds : slot[k] # None /\ file[k].state = "whole" => file[k].by # slot[k].id

\* A finish of this page writes the conversation the page showed when it was
\* clicked.  If that one's start failed, it may write one started after the click;
\* and one that was asked for before the page was loaded, which is still there or
\* whose start comes late, it may take for its own (settings.js:343, lib.rs:1430).
FinishesWhatWasShown ==
    \A c \in Calls :
        call[c].op = "finish" /\ call[c].watched /\ call[c].pc \in {"asking", "writing"} =>
            LET written == slot[call[c].kind].id
                shown   == call[c].talk IN
            \/ written = shown
            \/ written > shown /\ shown \notin begun[call[c].kind]
            \/ written <= earlier

\* Every command returns, also when several wait for one conversation, unless
\* one of its kind waits for an API call that hangs (live.rs:25, lib.rs:1405).
CommandReturns ==
    \A c \in Calls :
        call[c].pc # "idle" ~>
            \/ call[c].pc = "idle"
            \/ \E d \in Calls : call[d].pc = "hung" /\ call[d].kind = call[c].kind
=============================================================================
