------------------------------ MODULE Settings ------------------------------
(***************************************************************************)
(* The configuration: config.json, the copy in the process that commands   *)
(* and the gate read, the copy the settings page read when it was opened,  *)
(* and the cadence the scheduler loop started with.  From config/mod.rs,   *)
(* the settings commands of lib.rs and assets/settings.js.                 *)
(*                                                                         *)
(* The commands hold the config lock through the write, so each is one     *)
(* step; what the write does to the file has three outcomes (Write).       *)
(***************************************************************************)
EXTENDS Naturals

CONSTANTS
    Cadences,       \* what the page's select offers
    DefaultCadence,
    HandCadences,   \* what a user may type into config.json besides
    Hands,          \* values of what only the file can change: hours, blocklist
    DefaultHand,
    Addresses,
    None, Missing, Torn,
    MaxUsers        \* bound: user ids minted

ASSUME SettingsAssumption ==
    /\ Cadences \subseteq Nat \ {0} /\ DefaultCadence \in Cadences
    /\ HandCadences \subseteq Nat
    /\ DefaultHand \in Hands
    /\ None \notin Addresses \union Nat
    /\ MaxUsers \in Nat

VARIABLES
    file,       \* config.json
    live,       \* AppState.config of the running process
    page,       \* currentConfig of the open settings page
    cadence,    \* the period of the running Scheduler::run
    users,      \* ids minted by Config::default
    asked       \* bookkeeping: the recipient the user last set or cleared

settings == <<file, live, page, cadence, users, asked>>

Supported == 1

Configs ==
    [version : 0..Supported + 1, user : 1..MaxUsers, cadence : Cadences \union HandCadences,
     hand : Hands, recipient : Addresses \union {None}, account : Addresses \union {None}]

\* What stands for no value is not a configuration.
ASSUME NoConfigAssumption ==
    /\ Missing # Torn
    /\ \A x \in {None, Missing, Torn} : x \notin Configs

Default ==
    [version |-> Supported, user |-> users + 1, cadence |-> DefaultCadence, hand |-> DefaultHand,
     recipient |-> None, account |-> None]

SettingsInit ==
    /\ file = Missing
    /\ live = None /\ page = None /\ cadence = None
    /\ users = 0 /\ asked = None

-----------------------------------------------------------------------------
(***************************************************************************)
(* Config::load_or_init.                                                   *)
(***************************************************************************)
Create ==
    /\ file = Missing /\ users < MaxUsers
    /\ file' = Default /\ live' = Default
    /\ users' = users + 1
    /\ UNCHANGED <<page, cadence, asked>>

\* fs::write fails, before or after it truncated the file.
CreateFails ==
    /\ file = Missing
    /\ file' \in {Missing, Torn}
    /\ UNCHANGED <<live, page, cadence, users, asked>>

Readable == file \notin {Missing, Torn}

\* migrate(): an older file is stamped in memory, a newer one refused.
Load ==
    /\ Readable /\ file.version <= Supported
    /\ live' = [file EXCEPT !.version = Supported]
    /\ UNCHANGED <<file, page, cadence, users, asked>>

LoadFails ==
    /\ file = Torn \/ (Readable /\ file.version > Supported)
    /\ UNCHANGED settings

\* Scheduler::run reads the cadence once; a period of 0 panics its task.
StartScheduler ==
    /\ cadence' = live.cadence
    /\ UNCHANGED <<file, live, page, users, asked>>

-----------------------------------------------------------------------------
(***************************************************************************)
(* The settings page and its commands.                                     *)
(***************************************************************************)
\* Config::save after the copy in memory has changed: it succeeds, or fails
\* and leaves the file as it was or truncated.
Write(ok) == IF ok THEN file' = live' ELSE file' \in {file, Torn}

\* The page is loaded, again each time the user comes back to it.
OpenPage ==
    /\ live # None
    /\ page' = live
    /\ UNCHANGED <<file, live, cadence, users, asked>>

\* Fault: the blank counts as 0.
UpdateSettingsBlankAsZero(ok) ==
    /\ live # None /\ page # None
    /\ \E c \in Cadences \union {0} : live' = [page EXCEPT !.cadence = c]
    /\ Write(ok)
    /\ page' = IF ok THEN live' ELSE page
    /\ UNCHANGED <<cadence, users, asked>>

\* save(): the form over the page's copy, and the whole of it to
\* cmd_update_settings.  A cadence the select does not offer shows as blank
\* and is refused, so one that is offered has been chosen.
UpdateSettings(ok) ==
    /\ live # None /\ page # None
    /\ \E c \in Cadences : live' = [page EXCEPT !.cadence = c]
    /\ Write(ok)
    /\ page' = IF ok THEN live' ELSE page
    /\ UNCHANGED <<cadence, users, asked>>

SetRecipient(e, ok) ==
    /\ live # None
    /\ live' = [live EXCEPT !.recipient = e,
                            !.account = IF live.account = None THEN e ELSE live.account]
    /\ Write(ok)
    /\ asked' = e
    /\ UNCHANGED <<page, cadence, users>>

\* Fault: cleared in memory only.
ClearRecipientUnsaved(ok) ==
    /\ live # None
    /\ live' = [live EXCEPT !.recipient = None]
    /\ asked' = None
    /\ UNCHANGED <<file, page, cadence, users>>

ClearRecipient(ok) ==
    /\ live # None
    /\ live' = [live EXCEPT !.recipient = None]
    /\ Write(ok)
    /\ asked' = None
    /\ UNCHANGED <<page, cadence, users>>

\* The user edits the file, whether or not the program runs.
HandEdit ==
    /\ Readable
    /\ \E c \in Cadences \union HandCadences, h \in Hands, v \in 0..Supported + 1 :
        file' = [file EXCEPT !.cadence = c, !.hand = h, !.version = v]
    /\ UNCHANGED <<live, page, cadence, users, asked>>

\* The process dies, perhaps inside a write.
SettingsDie ==
    /\ file' \in IF live # None THEN {file, Torn} ELSE {file}
    /\ live' = None /\ page' = None /\ cadence' = None
    /\ UNCHANGED <<users, asked>>

-----------------------------------------------------------------------------
SettingsTypeOK ==
    /\ file \in Configs \union {Missing, Torn}
    /\ live \in Configs \union {None}
    /\ page \in Configs \union {None}
    /\ cadence \in Nat \union {None}
    /\ users \in 0..MaxUsers
    /\ asked \in Addresses \union {None}

SameSettings(c, d) == [c EXCEPT !.version = 0] = [d EXCEPT !.version = 0]
=============================================================================
