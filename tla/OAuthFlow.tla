----------------------------- MODULE OAuthFlow -----------------------------
(***************************************************************************)
(* Connecting AgentScout to Gmail: the flow table that bridges the Tauri   *)
(* commands and the callback of the local HTTP server, the token exchange, *)
(* the stored refresh token and its rotation, disconnecting, and clearing  *)
(* the OAuth client.  Callbacks, refreshes and commands run concurrently;  *)
(* one action per section without an await.                                *)
(*                                                                         *)
(* A secrets call is atomic here (module Vault has its steps).  The client *)
(* id and its optional secret are one flag: a wrong pair is an exchange    *)
(* that Google rejects.  Google is external: tokens are minted from        *)
(* nextToken, and one that was rotated is no longer valid.                 *)
(***************************************************************************)
EXTENDS Naturals

CONSTANTS
  Flows,        \* csrf states, each begun at most once
  Callbacks,    \* requests to /oauth/callback
  Refreshes,    \* calls of refresh_access_token, by a cycle or the test email
  Clears,       \* calls of cmd_clear_gmail_oauth_creds
  None,         \* no flow, no token
  MaxWrites,    \* bound on saved credentials and disconnects
  MaxCrashes,   \* bound on process restarts
  MaxFaults     \* bound on secrets calls that fail and answers that are lost

\* What the table holds of a flow: whether the verifier is still the real one,
\* and how the flow ended, if it did.
Entry == [fresh : BOOLEAN, completed : BOOLEAN, error : BOOLEAN]

ASSUME NoneAssumption == None \notin Flows /\ None \notin Nat /\ None \notin Entry
ASSUME TasksAssumption ==
  /\ Callbacks \cap Refreshes = {} /\ Callbacks \cap Clears = {}
  /\ Refreshes \cap Clears = {}
ASSUME BoundsAssumption ==
  MaxWrites \in Nat /\ MaxCrashes \in Nat /\ MaxFaults \in Nat

VARIABLES
  \* the secrets store, which outlives the process
  creds,        \* the OAuth client is there
  token,        \* the refresh token, or None
  \* the process
  flow,         \* the table: csrf state -> entry, or None
  pc,           \* per task: control point
  at,           \* per callback: its csrf state
  own,          \* per callback: it has taken the flow's real verifier
  old, new,     \* per task: the token it read, and the one Google sent it
  \* Google
  valid,        \* refresh tokens Google accepts
  \* bookkeeping of the model
  begun,        \* csrf states handed out
  nextToken, writes, crashes, faults,
  clashed,      \* a command changed the secrets while a task was using them
  abandoned     \* flows whose verifier was with a callback that was dropped

store == <<creds, token>>
locals == <<pc, at, own, old, new>>
model == <<begun, nextToken, writes, crashes, faults, clashed, abandoned>>
vars  == <<store, flow, locals, valid, model>>

Tasks == Callbacks \cup Refreshes \cup Clears

\* poll_status is InProgress.
InProgress(f) == flow[f] # None /\ ~flow[f].completed /\ ~flow[f].error

Busy(t) == pc[t] \notin {"idle", "done"}
Traffic == \E t \in Callbacks \cup Refreshes : Busy(t)
Clearing == \E s \in Clears : Busy(s)

Init ==
  /\ creds = FALSE /\ token = None
  /\ flow = [f \in Flows |-> None]
  /\ pc = [t \in Tasks |-> "idle"]
  /\ at = [c \in Callbacks |-> None] /\ own = [c \in Callbacks |-> FALSE]
  /\ old = [t \in Tasks |-> None] /\ new = [t \in Tasks |-> None]
  /\ valid = {}
  /\ begun = {} /\ nextToken = 1 /\ writes = 0 /\ crashes = 0 /\ faults = 0
  /\ clashed = FALSE /\ abandoned = {}

Goto(t, p) == pc' = [pc EXCEPT ![t] = p]

\* The task is over, with its local variables.
Ends(t) ==
  /\ Goto(t, "done")
  /\ at' = [c \in Callbacks |-> IF c = t THEN None ELSE at[c]]
  /\ own' = [c \in Callbacks |-> c # t /\ own[c]]
  /\ old' = [old EXCEPT ![t] = None]
  /\ new' = [new EXCEPT ![t] = None]

\* mark_error and mark_complete: nothing, if the flow is no longer there.
Marked(f, field) ==
  IF flow[f] = None THEN flow ELSE [flow EXCEPT ![f][field] = TRUE]

\* A secrets call, or the network, fails.
Fails == faults < MaxFaults /\ faults' = faults + 1

-----------------------------------------------------------------------------
(* The settings window *)

\* cmd_set_gmail_oauth_creds.
SaveCreds ==
  /\ writes < MaxWrites
  /\ writes' = writes + 1
  /\ creds' = TRUE
  /\ clashed' = (clashed \/ Traffic)
  /\ UNCHANGED <<token, flow, locals, valid, begun, nextToken, crashes, faults,
                 abandoned>>

\* cmd_disconnect_gmail.
Disconnect ==
  /\ writes < MaxWrites
  /\ writes' = writes + 1
  /\ token' = None
  /\ clashed' = (clashed \/ Traffic)
  /\ UNCHANGED <<creds, flow, locals, valid, begun, nextToken, crashes, faults,
                 abandoned>>

\* Fault: the client goes first, then the token.
ClearTokenSecond(s) ==
  /\ pc[s] = "idle"
  /\ Goto(s, "clearing")
  /\ creds' = FALSE
  /\ clashed' = (clashed \/ Traffic)
  /\ UNCHANGED <<token, flow, at, own, old, new, valid, begun, nextToken, writes,
                 crashes, faults, abandoned>>

\* cmd_clear_gmail_oauth_creds: the token goes first, then the client.
ClearToken(s) ==
  /\ pc[s] = "idle"
  /\ Goto(s, "clearing")
  /\ token' = None
  /\ clashed' = (clashed \/ Traffic)
  /\ UNCHANGED <<creds, flow, at, own, old, new, valid, begun, nextToken, writes,
                 crashes, faults, abandoned>>

\* An error of the first deletion is ignored.
ClearTokenFails(s) ==
  /\ pc[s] = "idle"
  /\ Fails
  /\ Goto(s, "clearing")
  /\ clashed' = (clashed \/ Traffic)
  /\ UNCHANGED <<store, flow, at, own, old, new, valid, begun, nextToken, writes,
                 crashes, abandoned>>

ClearCreds(s) ==
  /\ pc[s] = "clearing"
  /\ Ends(s)
  /\ creds' = FALSE
  /\ UNCHANGED <<token, flow, valid, model>>

ClearCredsFails(s) ==
  /\ pc[s] = "clearing"
  /\ Fails
  /\ Ends(s)
  /\ UNCHANGED <<store, flow, valid, begun, nextToken, writes, crashes,
                 clashed, abandoned>>

\* cmd_begin_gmail_oauth: put_flow sweeps the flows older than ten minutes.  The
\* table does not depend on the client, so reading it just before is no loss.
Begin(f) ==
  /\ f \notin begun
  /\ creds
  /\ begun' = begun \cup {f}
  /\ \E swept \in SUBSET begun :
       flow' = [g \in Flows |->
         IF g = f THEN [fresh |-> TRUE, completed |-> FALSE, error |-> FALSE]
         ELSE IF g \in swept THEN None ELSE flow[g]]
  /\ UNCHANGED <<store, locals, valid, nextToken, writes, crashes, faults,
                 clashed, abandoned>>

\* cmd_poll_gmail_oauth_status: a terminal state is harvested.
Poll(f) ==
  /\ flow[f] # None
  /\ ~InProgress(f)
  /\ flow' = [flow EXCEPT ![f] = None]
  /\ UNCHANGED <<store, locals, valid, model>>

-----------------------------------------------------------------------------
(* handle_oauth_callback; a request may be repeated, by a reload of the page *)

\* Google reports an error in the redirect, as for a declined consent.
Denied(f) ==
  /\ f \in begun
  /\ flow' = Marked(f, "error")
  /\ UNCHANGED <<store, locals, valid, model>>

\* Fault: the verifier is copied, not taken.
ArriveCopying(c, f) ==
  /\ pc[c] = "idle"
  /\ f \in begun /\ flow[f] # None
  /\ Goto(c, "checking")
  /\ at' = [at EXCEPT ![c] = f]
  /\ own' = [own EXCEPT ![c] = flow[f].fresh]
  /\ clashed' = (clashed \/ Clearing)
  /\ UNCHANGED <<store, flow, old, new, valid, begun, nextToken, writes, crashes,
                 faults, abandoned>>

\* take_verifier: the first request gets it, a later one its placeholder.  A
\* request for an unknown flow is answered with an error page.
Arrive(c, f) ==
  /\ pc[c] = "idle"
  /\ f \in begun /\ flow[f] # None
  /\ Goto(c, "checking")
  /\ at' = [at EXCEPT ![c] = f]
  /\ own' = [own EXCEPT ![c] = flow[f].fresh]
  /\ flow' = [flow EXCEPT ![f].fresh = FALSE]
  /\ clashed' = (clashed \/ Clearing)
  /\ UNCHANGED <<store, old, new, valid, begun, nextToken, writes, crashes,
                 faults, abandoned>>

\* The client is read again; it may have vanished since the flow began.
CheckCreds(c) ==
  /\ pc[c] = "checking"
  /\ creds
  /\ Goto(c, "exchanging")
  /\ UNCHANGED <<store, flow, at, own, old, new, valid, model>>

\* Fault: the flow is not told.
CredsVanishedUntold(c) ==
  /\ pc[c] = "checking"
  /\ (~creds /\ UNCHANGED faults) \/ Fails
  /\ Ends(c)
  /\ UNCHANGED <<store, flow, valid, begun, nextToken, writes, crashes,
                 clashed, abandoned>>

\* It did, or it cannot be read.
CredsVanished(c) ==
  /\ pc[c] = "checking"
  /\ (~creds /\ UNCHANGED faults) \/ Fails
  /\ flow' = Marked(at[c], "error")
  /\ Ends(c)
  /\ UNCHANGED <<store, valid, begun, nextToken, writes, crashes, clashed,
                 abandoned>>

\* Fault: an answer without a refresh token is taken for success.
ExchangeUnchecked(c) ==
  /\ pc[c] = "exchanging"
  /\ own[c]
  /\ \/ /\ Goto(c, "storing")
        /\ new' = [new EXCEPT ![c] = nextToken]
        /\ valid' = valid \cup {nextToken}
        /\ nextToken' = nextToken + 1
     \/ Goto(c, "marking") /\ UNCHANGED <<new, valid, nextToken>>
  /\ UNCHANGED <<store, flow, at, own, old, begun, writes, crashes, faults,
                 clashed, abandoned>>

\* complete_auth: Google accepts the code with its real verifier, or it refuses,
\* cannot be reached, or sends no refresh token, which are errors.
Exchange(c) ==
  /\ pc[c] = "exchanging"
  /\ own[c]
  /\ Goto(c, "storing")
  /\ new' = [new EXCEPT ![c] = nextToken]
  /\ valid' = valid \cup {nextToken}
  /\ nextToken' = nextToken + 1
  /\ UNCHANGED <<store, flow, at, own, old, begun, writes, crashes, faults,
                 clashed, abandoned>>

ExchangeFails(c) ==
  /\ pc[c] = "exchanging"
  /\ flow' = Marked(at[c], "error")
  /\ Ends(c)
  /\ UNCHANGED <<store, valid, model>>

StoreToken(c) ==
  /\ pc[c] = "storing"
  /\ Goto(c, "marking")
  /\ token' = new[c]
  /\ UNCHANGED <<creds, flow, at, own, old, new, valid, model>>

StoreTokenFails(c) ==
  /\ pc[c] = "storing"
  /\ Fails
  /\ flow' = Marked(at[c], "error")
  /\ Ends(c)
  /\ UNCHANGED <<store, valid, begun, nextToken, writes, crashes, clashed,
                 abandoned>>

MarkComplete(c) ==
  /\ pc[c] = "marking"
  /\ flow' = Marked(at[c], "completed")
  /\ Ends(c)
  /\ UNCHANGED <<store, valid, model>>

\* The browser goes away and the server drops the handler, at any of its awaits;
\* the exchange has no time limit, so that may be all that ever happens to it.
Abandon(c) ==
  /\ pc[c] \in {"checking", "exchanging", "storing", "marking"}
  /\ Ends(c)
  /\ abandoned' = IF own[c] THEN abandoned \cup {at[c]} ELSE abandoned
  /\ UNCHANGED <<store, flow, valid, begun, nextToken, writes, crashes, faults,
                 clashed>>

\* Dropped while it waits for the store: the call on the blocking pool goes on.
AbandonStoring(c) ==
  /\ pc[c] = "storing"
  /\ Goto(c, "detached")
  /\ at' = [at EXCEPT ![c] = None]
  /\ own' = [own EXCEPT ![c] = FALSE]
  /\ abandoned' = abandoned \cup {at[c]}
  /\ UNCHANGED <<store, flow, old, new, valid, begun, nextToken, writes, crashes,
                 faults, clashed>>

StoreDetached(c) ==
  /\ pc[c] = "detached"
  /\ Ends(c)
  /\ \/ token' = new[c] /\ UNCHANGED faults
     \/ Fails /\ UNCHANGED token
  /\ UNCHANGED <<creds, flow, valid, begun, nextToken, writes, crashes, clashed,
                 abandoned>>

-----------------------------------------------------------------------------
(* try_fresh_gmail_access_token and refresh_access_token *)

RefreshBegin(r) ==
  /\ pc[r] = "idle"
  /\ creds
  /\ Goto(r, "reading")
  /\ clashed' = (clashed \/ Clearing)
  /\ UNCHANGED <<store, flow, at, own, old, new, valid, begun, nextToken, writes,
                 crashes, faults, abandoned>>

RefreshRead(r) ==
  /\ pc[r] = "reading"
  /\ token # None
  /\ Goto(r, "refreshing")
  /\ old' = [old EXCEPT ![r] = token]
  /\ UNCHANGED <<store, flow, at, own, new, valid, model>>

\* There is no token, or no reading it.
RefreshReadFails(r) ==
  /\ pc[r] = "reading"
  /\ (token = None /\ UNCHANGED faults) \/ Fails
  /\ Ends(r)
  /\ UNCHANGED <<store, flow, valid, begun, nextToken, writes, crashes,
                 clashed, abandoned>>

\* Google sends an access token only, or an error.
RefreshAnswered(r) ==
  /\ pc[r] = "refreshing"
  /\ Ends(r)
  /\ UNCHANGED <<store, flow, valid, model>>

\* Google rotates the refresh token: the old one is void from here on.
RefreshRotated(r) ==
  /\ pc[r] = "refreshing"
  /\ old[r] \in valid
  /\ Goto(r, "rotating")
  /\ new' = [new EXCEPT ![r] = nextToken]
  /\ valid' = (valid \ {old[r]}) \cup {nextToken}
  /\ nextToken' = nextToken + 1
  /\ UNCHANGED <<store, flow, at, own, old, begun, writes, crashes, faults,
                 clashed, abandoned>>

\* Google rotates the token and its answer is lost.
RefreshAnswerLost(r) ==
  /\ pc[r] = "refreshing"
  /\ old[r] \in valid
  /\ Fails
  /\ valid' = valid \ {old[r]}
  /\ Ends(r)
  /\ UNCHANGED <<store, flow, begun, nextToken, writes, crashes, clashed,
                 abandoned>>

\* Fault: the rotated token is not stored.
RefreshForget(r) ==
  /\ pc[r] = "rotating"
  /\ Ends(r)
  /\ UNCHANGED <<store, flow, valid, model>>

RefreshStore(r) ==
  /\ pc[r] = "rotating"
  /\ token' = new[r]
  /\ Ends(r)
  /\ UNCHANGED <<creds, flow, valid, model>>

RefreshStoreFails(r) ==
  /\ pc[r] = "rotating"
  /\ Fails
  /\ Ends(r)
  /\ UNCHANGED <<store, flow, valid, begun, nextToken, writes, crashes,
                 clashed, abandoned>>

-----------------------------------------------------------------------------
\* The process dies: the table is in memory only.
Restart ==
  /\ crashes < MaxCrashes
  /\ crashes' = crashes + 1
  /\ flow' = [f \in Flows |-> None]
  /\ pc' = [t \in Tasks |-> IF Busy(t) THEN "done" ELSE pc[t]]
  /\ at' = [c \in Callbacks |-> None] /\ own' = [c \in Callbacks |-> FALSE]
  /\ old' = [t \in Tasks |-> None] /\ new' = [t \in Tasks |-> None]
  /\ UNCHANGED <<store, valid, begun, nextToken, writes, faults, clashed,
                 abandoned>>

CallbackStep(c) ==
  \/ CheckCreds(c) \/ CredsVanished(c) \/ Exchange(c) \/ ExchangeFails(c)
  \/ StoreToken(c) \/ StoreTokenFails(c) \/ MarkComplete(c)
  \/ Abandon(c) \/ AbandonStoring(c) \/ StoreDetached(c)

RefreshStep(r) ==
  \/ RefreshBegin(r) \/ RefreshRead(r) \/ RefreshReadFails(r) \/ RefreshAnswered(r)
  \/ RefreshRotated(r) \/ RefreshAnswerLost(r) \/ RefreshStore(r)
  \/ RefreshStoreFails(r)

ClearStep(s) ==
  ClearToken(s) \/ ClearTokenFails(s) \/ ClearCreds(s) \/ ClearCredsFails(s)

Next ==
  \/ SaveCreds \/ Disconnect
  \/ \E s \in Clears : ClearStep(s)
  \/ \E f \in Flows : Begin(f) \/ Poll(f) \/ Denied(f)
  \/ \E c \in Callbacks, f \in Flows : Arrive(c, f)
  \/ \E c \in Callbacks : CallbackStep(c)
  \/ \E r \in Refreshes : RefreshStep(r)
  \/ Restart

Spec == Init /\ [][Next]_vars

-----------------------------------------------------------------------------
(* Properties *)

Points == {"idle", "clearing", "checking", "exchanging", "storing", "marking",
           "detached", "reading", "refreshing", "rotating", "done"}

TypeOK ==
  /\ creds \in BOOLEAN /\ clashed \in BOOLEAN
  /\ nextToken \in Nat \ {0}
  /\ token \in 1 .. nextToken - 1 \cup {None}
  /\ flow \in [Flows -> Entry \cup {None}]
  /\ pc \in [Tasks -> Points]
  /\ at \in [Callbacks -> Flows \cup {None}] /\ own \in [Callbacks -> BOOLEAN]
  /\ old \in [Tasks -> 1 .. nextToken - 1 \cup {None}]
  /\ new \in [Tasks -> 1 .. nextToken - 1 \cup {None}]
  /\ valid \subseteq 1 .. nextToken - 1
  /\ begun \subseteq Flows /\ abandoned \subseteq Flows \cup {None}
  /\ writes \in 0 .. MaxWrites /\ crashes \in 0 .. MaxCrashes
  /\ faults \in 0 .. MaxFaults

\* A flow's real verifier is in one place: in the table, or with the single
\* callback that took it.  A repeated redirect cannot redeem it again.
VerifierInOnePlace ==
  \A c \in Callbacks : own[c] =>
    /\ flow[at[c]] = None \/ ~flow[at[c]].fresh
    /\ \A d \in Callbacks : own[d] /\ at[d] = at[c] => d = c

\* Without a crash, a failing call or a lost answer the stored token is one Google
\* accepts, or a refresh is about to replace it: rotation loses none, however
\* refreshes, callbacks and disconnects interleave.
StoredTokenLive ==
  crashes = 0 /\ faults = 0 /\ token # None =>
    \/ token \in valid
    \/ \E r \in Refreshes : pc[r] = "rotating" /\ old[r] = token

\* lib.rs:1177, "credentials and refresh are paired": there is no token without
\* the client, unless a command changed them under a task's feet or a secrets call
\* failed; also when the process dies half way through a clear.
PairKept == ~clashed /\ faults = 0 /\ token # None => creds

\* The window is told "connected" only when the token is in the store.
Completes(f) ==
  /\ flow'[f] # None /\ flow'[f].completed
  /\ flow[f] = None \/ ~flow[f].completed
ConnectedHasToken == [][\A f \in Flows : Completes(f) => token' # None \/ clashed']_vars

\* A flow of the table whose verifier was taken stays in progress only while the
\* callback that took it is at work, or because its browser went away: whatever
\* else the handler meets, and whoever repeats the redirect, an end is marked that
\* the window can poll (cmd_poll_gmail_oauth_status).
FlowsAreTold ==
  \A f \in Flows : InProgress(f) /\ ~flow[f].fresh =>
    f \in abandoned \/ \E c \in Callbacks : own[c] /\ at[c] = f
=============================================================================
