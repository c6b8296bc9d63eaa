----------------------------- MODULE ReviewLinks -----------------------------
(***************************************************************************)
(* Verdicts on recommendations: a cycle saves a recommendation and mails   *)
(* signed links for it, the links lead to the loopback server of the       *)
(* process that mailed them, and the Review page records verdicts too.     *)
(* link_signer.rs signs and verifies, disposition_server.rs answers the    *)
(* browser, Storage::set_disposition serves the page.                      *)
(*                                                                         *)
(* A handler is four steps: the request arrives, it is checked, the clock  *)
(* is read for disposition_at, the row is updated under the SQLite lock.   *)
(* Two handlers may be anywhere in between.  Time is counted in units of   *)
(* which Lifetime make expiry_days; Slack is the day verify() allows.      *)
(***************************************************************************)
EXTENDS Naturals

CONSTANTS
    Recs,       \* recommendation ids, fresh uuids
    Actions,    \* the verdicts of DispositionAction
    Calls,      \* requests in flight, from a browser or from the page
    Ports,      \* what the operating system may hand out for port 0
    Lifetime, Slack,
    Loses,      \* the fields of a link a mail program may lose
    None,
    Start,      \* the clock at the first launch
    MaxClock, MaxBoots, MaxMints    \* bounds

ASSUME LinkAssumption ==
    /\ Loses \subseteq {"rec", "action", "issued", "exp", "sig"}
    /\ Lifetime \in Nat /\ Slack \in Nat
    /\ Start \in Nat /\ MaxClock \in Nat /\ MaxBoots \in Nat /\ MaxMints \in Nat
    /\ None \notin Recs \union Actions \union Ports \union Nat
    \* No HMAC is the empty string a missing field is read as.
    /\ None \notin [key : Nat, rec : Recs, action : Actions, issued : Nat, exp : Nat]

VARIABLES
    clock,
    port,       \* the running server's port, None when the process is down
    secret,     \* the install secret, a serial number: what Vault loads
    saved,      \* recommendations with a row
    mail,       \* every link ever mailed
    verdict,    \* disposition
    stamp,      \* disposition_at
    call,       \* requests: where each is, what it asks, when it arrived, then the time it read
    boots

vars == <<clock, port, secret, saved, mail, verdict, stamp, call, boots>>

Up == port # None

Idle == [pc |-> "idle", rec |-> None, action |-> None, at |-> 0, query |-> None]

Init ==
    /\ clock = Start
    /\ port \in Ports
    /\ secret = 0
    /\ saved = {}
    /\ mail = {}
    /\ verdict = [r \in Recs |-> None]
    /\ stamp = [r \in Recs |-> None]
    /\ call = [c \in Calls |-> Idle]
    /\ boots = 0

-----------------------------------------------------------------------------
(***************************************************************************)
(* LinkSigner.  A signature is what went into it.                          *)
(***************************************************************************)
Signature(k, r, a, issued, exp) ==
    [key |-> k, rec |-> r, action |-> a, issued |-> issued, exp |-> exp]

\* The link mailed for rec and action now: to this server, under this secret.
SignedLink(r, a) ==
    [rec |-> r, action |-> a, issued |-> clock, exp |-> clock + Lifetime,
     sig |-> Signature(secret, r, a, clock, clock + Lifetime), port |-> port]

\* What may reach the server of a link: all of it, or a mail program lost a
\* field.  validate_query puts "" or 0 for a field that is missing.
Arrivals(l) ==
    {l} \union {[l EXCEPT ![f] = IF f \in {"issued", "exp"} THEN 0 ELSE None] : f \in Loses}

\* Fault: the signature alone is checked.
VerifyWithoutExpiry(q) ==
    q.sig = Signature(secret, q.rec, q.action, q.issued, q.exp)

\* Fault: the last day itself is refused.
VerifyBeforeExpiry(q) ==
    /\ clock < q.exp
    /\ q.exp <= q.issued + Lifetime + Slack
    /\ q.sig = Signature(secret, q.rec, q.action, q.issued, q.exp)

Verify(q) ==
    /\ clock <= q.exp
    /\ q.exp <= q.issued + Lifetime + Slack
    /\ q.sig = Signature(secret, q.rec, q.action, q.issued, q.exp)

-----------------------------------------------------------------------------
(***************************************************************************)
(* The cycle: run_cycle saves every recommendation, going on with the next *)
(* one when SQLite fails, then mails all of them.                          *)
(***************************************************************************)
Mailed(r) == \E l \in mail : l.rec = r

SaveRec(r) ==
    /\ Up /\ ~Mailed(r) /\ r \notin saved
    /\ saved' = saved \union {r}
    /\ UNCHANGED <<clock, port, secret, mail, verdict, stamp, call, boots>>

MailRec(r) ==
    /\ Up /\ ~Mailed(r)
    /\ mail' = mail \union {SignedLink(r, a) : a \in Actions}
    /\ UNCHANGED <<clock, port, secret, saved, verdict, stamp, call, boots>>

-----------------------------------------------------------------------------
(***************************************************************************)
(* handle_disposition.  A browser that is sent to another port than the    *)
(* server's finds nobody and changes nothing.                              *)
(***************************************************************************)
Step(c, pc) == call' = [call EXCEPT ![c].pc = pc]

Open(c) ==
    /\ Up /\ call[c].pc = "idle"
    /\ \E l \in {m \in mail : m.port = port} : \E q \in Arrivals(l) :
        call' = [call EXCEPT ![c] = [pc |-> "arrived", rec |-> q.rec, action |-> q.action,
                                     at |-> clock, query |-> q]]
    /\ UNCHANGED <<clock, port, secret, saved, mail, verdict, stamp, boots>>

Check(c) ==
    /\ call[c].pc = "arrived"
    /\ LET q == call[c].query IN
        \/ q.action \notin Actions /\ Step(c, "malformed")
        \/ q.action \in Actions /\ ~Verify(q) /\ Step(c, "rejected")
        \/ q.action \in Actions /\ Verify(q) /\ Step(c, "verified")
    /\ UNCHANGED <<clock, port, secret, saved, mail, verdict, stamp, boots>>

\* `now` is read before the lock on the connection is asked for.
ReadClock(c) ==
    /\ call[c].pc = "verified"
    /\ call' = [call EXCEPT ![c].pc = "stamped", ![c].at = clock]
    /\ UNCHANGED <<clock, port, secret, saved, mail, verdict, stamp, boots>>

\* The page's button, on a recommendation list_recommendations returned.
SetDisposition(c) ==
    /\ Up /\ call[c].pc = "idle"
    /\ \E r \in saved, a \in Actions :
        call' = [call EXCEPT ![c] = [Idle EXCEPT !.pc = "verified", !.rec = r, !.action = a]]
    /\ UNCHANGED <<clock, port, secret, saved, mail, verdict, stamp, boots>>

\* Fault: the UPDATE leaves disposition_at out.
UpdateRowForgetful(c) ==
    /\ call[c].pc = "stamped"
    /\ call[c].rec \in saved
    /\ verdict' = [verdict EXCEPT ![call[c].rec] = call[c].action]
    /\ UNCHANGED stamp
    /\ Step(c, "recorded")
    /\ UNCHANGED <<clock, port, secret, saved, mail, boots>>

UpdateRow(c) ==
    /\ call[c].pc = "stamped"
    /\ call[c].rec \in saved
    /\ verdict' = [verdict EXCEPT ![call[c].rec] = call[c].action]
    /\ stamp' = [stamp EXCEPT ![call[c].rec] = call[c].at]
    /\ Step(c, "recorded")
    /\ UNCHANGED <<clock, port, secret, saved, mail, boots>>

\* Fault: an UPDATE that changed no row counts as recorded.
UpdateNoRowUnnoticed(c) ==
    /\ call[c].pc = "stamped"
    /\ call[c].rec \notin saved
    /\ Step(c, "recorded")
    /\ UNCHANGED <<clock, port, secret, saved, mail, verdict, stamp, boots>>

UpdateNoRow(c) ==
    /\ call[c].pc = "stamped"
    /\ call[c].rec \notin saved
    /\ Step(c, "not_found")
    /\ UNCHANGED <<clock, port, secret, saved, mail, verdict, stamp, boots>>

UpdateFails(c) ==
    /\ call[c].pc = "stamped"
    /\ Step(c, "failed")
    /\ UNCHANGED <<clock, port, secret, saved, mail, verdict, stamp, boots>>

Answers == {"malformed", "rejected", "recorded", "not_found", "failed"}

Respond(c) ==
    /\ call[c].pc \in Answers
    /\ call' = [call EXCEPT ![c] = Idle]
    /\ UNCHANGED <<clock, port, secret, saved, mail, verdict, stamp, boots>>

-----------------------------------------------------------------------------
(***************************************************************************)
(* The process and the clock.                                              *)
(***************************************************************************)
Crash ==
    /\ Up
    /\ port' = None
    /\ call' = [c \in Calls |-> Idle]
    /\ UNCHANGED <<clock, secret, saved, mail, verdict, stamp, boots>>

\* DispositionServerConfig::default() asks for port 0: any port may come
\* back.  The secret is the stored one, or a new one where the vault lost it.
Boot(p) ==
    /\ ~Up /\ boots < MaxBoots
    /\ port' = p
    /\ secret' \in {secret} \union (IF secret < MaxMints THEN {secret + 1} ELSE {})
    /\ boots' = boots + 1
    /\ UNCHANGED <<clock, saved, mail, verdict, stamp, call>>

Tick ==
    /\ clock < MaxClock
    /\ clock' = clock + 1
    /\ UNCHANGED <<port, secret, saved, mail, verdict, stamp, call, boots>>

Next ==
    \/ \E r \in Recs : SaveRec(r) \/ MailRec(r)
    \/ \E c \in Calls : \/ Open(c) \/ Check(c) \/ ReadClock(c) \/ SetDisposition(c)
                        \/ UpdateRow(c) \/ UpdateNoRow(c) \/ UpdateFails(c) \/ Respond(c)
    \/ Crash
    \/ \E p \in Ports : Boot(p)
    \/ Tick

Spec == Init /\ [][Next]_vars

-----------------------------------------------------------------------------
Links ==
    [rec : Recs, action : Actions, issued : Nat, exp : Nat, port : Ports,
     sig : [key : Nat, rec : Recs, action : Actions, issued : Nat, exp : Nat]]

\* Types of all variables, and what they are to each other: a call past its
\* check carries a recommendation and an action that exist; a verdict stands in
\* the table together with a time the clock has reached, on a row that exists.
TypeOK ==
    /\ clock \in Nat /\ secret \in Nat /\ boots \in Nat
    /\ port \in Ports \union {None}
    /\ saved \subseteq Recs
    /\ mail \subseteq Links
    /\ verdict \in [Recs -> Actions \union {None}]
    /\ stamp \in [Recs -> Nat \union {None}]
    /\ DOMAIN call = Calls
    /\ \A c \in Calls :
        /\ call[c].pc \in {"idle", "arrived", "verified", "stamped"} \union Answers
        /\ call[c].at \in Nat
        /\ call[c].pc \in {"verified", "stamped", "recorded", "not_found"}
            => call[c].rec \in Recs /\ call[c].action \in Actions
    /\ \A r \in Recs :
        /\ (verdict[r] = None) = (stamp[r] = None)
        /\ verdict[r] # None => r \in saved /\ stamp[r] <= clock

\* An answer tells the truth about its cause: a link that arrives whole is
\* rejected only after its last day or when the install secret was lost
\* (link_signer.rs verify), and "not found" is said only where the save of
\* the cycle had failed before the email went out (disposition_server.rs 295).
AnswerTellsCause ==
    \A c \in Calls :
        /\ call[c].pc = "rejected" /\ call[c].query \in mail
            => call[c].query.exp < clock \/ call[c].query.sig.key # secret
        /\ call[c].pc = "not_found" => call[c].rec \notin saved /\ Mailed(call[c].rec)

\* A link that arrives past its last day, one signed under a lost secret and
\* one that lost a field on the way change nothing, however late the handler
\* writes: whoever is on the way to the UPDATE came with a link as it was
\* mailed, under this secret and in time, or from the page.
OnlyGoodLinksReachTheRow ==
    \A c \in Calls :
        call[c].pc \in {"verified", "stamped", "recorded"} /\ call[c].query # None
            => /\ call[c].query \in mail
               /\ call[c].query.sig.key = secret
               /\ call[c].pc = "verified" => call[c].at <= call[c].query.exp

\* A link that has not expired leads to the server, as link_signer.rs and
\* disposition_server.rs say of links across a restart of the app.
LinksOutliveRestart ==
    \A l \in mail : Up /\ clock <= l.exp /\ l.sig.key = secret => l.port = port

-----------------------------------------------------------------------------
(***************************************************************************)
(* The refinement: what is between a call's arrival and its answer is one  *)
(* request of the verdict board.                                           *)
(***************************************************************************)
RequestState(pc) ==
    CASE pc = "idle" -> "none"
      [] pc \in {"arrived", "verified", "stamped"} -> "open"
      [] pc = "recorded" -> "done"
      [] pc \in {"malformed", "rejected", "not_found", "failed"} -> "refused"

Board ==
    INSTANCE VerdictBoard WITH
        verdict <- verdict,
        request <- [c \in Calls |-> [rec |-> call[c].rec, action |-> call[c].action,
                                     state |-> RequestState(call[c].pc)]]

\* A page that says the verdict is recorded was given after exactly one
\* update of that row with that verdict, between the click and the page;
\* any other page means there was none.
ImplementsBoard == Board!Spec
=============================================================================
