------------------------------- MODULE Launch -------------------------------
(***************************************************************************)
(* Launches of the program: bootstrap (lib.rs) loads the configuration,    *)
(* opens the storage with its migrations and starts the scheduler, whose   *)
(* gate then reads the configuration the commands change.  The process may *)
(* die anywhere; the next one may be a newer or an older release, which    *)
(* knows more or fewer migrations.                                         *)
(***************************************************************************)
EXTENDS Settings, Gate

CONSTANTS
    Titles,                     \* window titles that come to the front
    MaxFaults, MaxEdits,        \* bounds: failures and deaths, hand edits
    MaxCommands                 \* bound: settings commands

\* Titles and patterns are texts, letter by letter.
ASSUME TitlesAssumption ==
    Titles \subseteq Seq(STRING) /\ \A h \in Hands : h.titles \subseteq Seq(STRING)

VARIABLES
    stage,      \* how far the process is
    release,    \* how many migrations this program knows
    objects, versions, todo,
    now,        \* the time the gate reads, while there is one
    front,      \* the title of the foreground window it finds
    faults, edits, commands

schema == <<objects, versions, todo>>
env == <<now, front>>
bounds == <<faults, edits, commands>>
vars == <<settings, schema, stage, release, env, bounds>>

Schema == INSTANCE Migrations

Releases == Schema!Version

Init ==
    /\ SettingsInit /\ Schema!Init
    /\ stage = "down" /\ release \in Releases
    /\ now = None /\ front = None
    /\ faults = 0 /\ edits = 0 /\ commands = 0

Fault == faults < MaxFaults /\ faults' = faults + 1 /\ UNCHANGED <<edits, commands>>

-----------------------------------------------------------------------------
(***************************************************************************)
(* bootstrap.  One that fails is logged: the windows stay, without a state *)
(* behind them, until the user quits.                                      *)
(***************************************************************************)
Start ==
    /\ stage = "down"
    /\ stage' = "config"
    /\ release' \in Releases
    /\ UNCHANGED <<settings, schema, env, bounds>>

LoadConfig ==
    /\ stage = "config"
    /\ Create \/ Load
    /\ stage' = "schema"
    /\ Schema!Begin(release)
    /\ UNCHANGED <<release, env, bounds>>

ConfigFails ==
    /\ stage = "config"
    /\ \/ LoadFails /\ UNCHANGED bounds
       \/ CreateFails /\ Fault
    /\ stage' = "failed"
    /\ UNCHANGED <<schema, release, env>>

Migrate ==
    /\ stage = "schema"
    /\ Schema!Statement
    /\ UNCHANGED <<settings, stage, release, env, bounds>>

MigrationFails ==
    /\ stage = "schema"
    /\ Schema!StatementFails
    /\ IF Schema!Possible(Head(todo)) THEN Fault ELSE UNCHANGED bounds
    /\ stage' = "failed"
    /\ UNCHANGED <<settings, release, env>>

ComeUp ==
    /\ stage = "schema" /\ todo = <<>>
    /\ StartScheduler
    /\ stage' = "up"
    /\ \E d \in Days : now' = [day |-> d, minute |-> 0]
    /\ front' \in Titles
    /\ UNCHANGED <<schema, release, bounds>>

-----------------------------------------------------------------------------
(***************************************************************************)
(* The process at work.                                                    *)
(***************************************************************************)
Command ==
    /\ stage = "up" /\ commands < MaxCommands
    /\ \E ok \in BOOLEAN :
        /\ UpdateSettings(ok) \/ ClearRecipient(ok) \/ \E e \in Addresses : SetRecipient(e, ok)
        /\ IF ok THEN UNCHANGED faults ELSE faults < MaxFaults /\ faults' = faults + 1
    /\ commands' = commands + 1 /\ UNCHANGED edits
    /\ UNCHANGED <<schema, stage, release, env>>

Visit ==
    /\ stage = "up" /\ page # live
    /\ OpenPage
    /\ UNCHANGED <<schema, stage, release, env, bounds>>

Edit ==
    /\ edits < MaxEdits /\ HandEdit
    /\ edits' = edits + 1
    /\ UNCHANGED <<schema, stage, release, env, faults, commands>>

\* From the last minute of a day to the first of the next.
NextMinute(t) ==
    IF t.minute < LastMinute THEN [t EXCEPT !.minute = t.minute + 1]
    ELSE [day |-> (t.day + 1) % Cardinality(Days), minute |-> 0]

Tick ==
    /\ stage = "up"
    /\ now' = NextMinute(now)
    /\ UNCHANGED <<settings, schema, stage, release, front, bounds>>

SwitchWindow ==
    /\ stage = "up"
    /\ front' \in Titles \ {front}
    /\ UNCHANGED <<settings, schema, stage, release, now, bounds>>

\* The user quits, or the process dies, in a write perhaps.
Die ==
    /\ stage # "down"
    /\ SettingsDie /\ Schema!Dies
    /\ stage' = "down" /\ now' = None /\ front' = None
    /\ IF stage \in {"up", "failed"} /\ file' = file THEN UNCHANGED bounds ELSE Fault
    /\ UNCHANGED release

Next ==
    \/ Start \/ LoadConfig \/ ConfigFails \/ Migrate \/ MigrationFails \/ ComeUp
    \/ Command \/ Visit \/ Edit \/ Tick \/ SwitchWindow \/ Die

Spec == Init /\ [][Next]_vars

-----------------------------------------------------------------------------
\* Types of all variables, and what a stage has: from "schema" on there is a
\* configuration in memory; a program that is up finds every object its queries
\* name, also on a database another release left behind; and its capture loop is
\* dead from the start, of period 0, only after the user has typed 0 into the file.
TypeOK ==
    /\ SettingsTypeOK /\ Schema!TypeOK
    /\ stage \in {"down", "config", "schema", "up", "failed"}
    /\ release \in Releases
    /\ IF stage = "up" THEN now \in [day : Days, minute : Minutes] /\ front \in Titles
       ELSE now = None /\ front = None
    /\ stage \in {"down", "config"} => live = None
    /\ stage \in {"schema", "up"} => live # None
    /\ stage # "up" => cadence = None /\ page = None
    /\ stage = "up" => \A v \in 1..release : Schema!Names(v) \subseteq objects
    /\ cadence = 0 => edits > 0

\* Recorded versions are complete, whatever died and whichever release runs
\* (storage/schema.rs run_migrations).
RecordedIsApplied == Schema!RecordedIsApplied

\* A launch fails for a reason outside this launch: a truncated or newer
\* configuration, a migration that was cut short, or a call that failed now.
\* Without a failure, a death or a hand edit every launch comes up.
LaunchesClean == stage = "failed" => faults + edits > 0

\* What a command has changed in memory is what the next launch reads, until
\* a write fails or the user edits the file.
MemoryIsFile ==
    live # None /\ faults + edits = 0 => SameSettings(live, file)

\* Going out of the work hours happens at their end or at midnight, before a
\* day that is not listed: never in the middle of a window
\* (capture/scheduler.rs within_work_hours).
HoursEndAtEnd ==
    [][stage = "up" /\ now' \notin {now, None} =>
        LET h == live.hand.hours IN
        WithinWorkHours(h, now) /\ ~WithinWorkHours(h, now') =>
            now.minute = h.end \/ now'.minute = 0]_vars

\* A title is blocked exactly when a pattern, read as a glob, matches all of
\* it: every wildcard stands for some stretch, every letter for itself.
GlobMatches(raw, name) ==
    \E c \in [0..Len(raw) -> 0..Len(name)] :
        /\ c[0] = 0 /\ c[Len(raw)] = Len(name)
        /\ \A i \in 1..Len(raw) :
            IF raw[i] = "*" THEN c[i] >= c[i - 1]
            ELSE c[i] = c[i - 1] + 1 /\ name[c[i]] = raw[i]

BlockedAsWritten ==
    stage = "up" =>
        (Blocked(live.hand.titles, front) <=> \E raw \in live.hand.titles : GlobMatches(raw, front))

\* The recipient in use is the one the page last said it saved; only an empty
\* entry clears it (lib.rs:1259).
RecipientKept == live # None /\ faults + edits = 0 => live.recipient = asked
=============================================================================
