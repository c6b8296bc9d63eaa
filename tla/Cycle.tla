------------------------------- MODULE Cycle -------------------------------
(***************************************************************************)
(* The analysis cycle of AgentScout: the captures table, the active-hours  *)
(* counter, the capture scheduler that tags rows with a cycle id, the      *)
(* once-a-minute automatic trigger, and the "run analysis now" command.    *)
(* One action per section the code runs without an await or a released     *)
(* SQLite lock, so every interleaving of the tasks is explored.            *)
(*                                                                         *)
(* Cycle ids are uuids in the code; here they are minted from nextId, so   *)
(* no two mints are equal.  A capture is named by its timestamp.  The      *)
(* counter row exists from the start: load_active_hours inserts it on its  *)
(* first call and the automatic loop's first poll is immediate.            *)
(***************************************************************************)
EXTENDS Naturals, FiniteSets

CONSTANTS
  Captures,     \* the captures a behaviour can take, named by timestamp
  AutoTasks,    \* slots for tasks spawned by auto_cycle_loop
  Manuals,      \* invocations of cmd_run_cycle_now
  Cadence,      \* seconds one successful tick adds to the counter
  Threshold,    \* active seconds after which a cycle is due
  MaxCrashes,   \* bound on process restarts
  MaxToggles,   \* bound on the user saving or clearing the API key
  MaxFaults,    \* bound on failing SQLite calls
  MaxObstacles  \* bound on the changes of what makes runs fail

ASSUME CapturesAssumption == Captures \subseteq Nat
ASSUME RunnersAssumption == AutoTasks \cap Manuals = {}
ASSUME SecondsAssumption == Cadence \in Nat /\ Threshold \in Nat
ASSUME BoundsAssumption ==
  /\ MaxCrashes \in Nat /\ MaxToggles \in Nat
  /\ MaxFaults \in Nat /\ MaxObstacles \in Nat

VARIABLES
  \* SQLite, which outlives the process
  tag,          \* captures.cycle_id; NoCycle for a row not inserted yet
  secs,         \* active_hours_counter.active_seconds
  live,         \* active_hours_counter.current_cycle_id
  recs,         \* what recommendations rows stand on: <<capture, cycle>>
  mailed,       \* cycle ids a recommendation email was sent for
  hasKey,       \* a read of the Anthropic key finds one
  \* the process
  sched,        \* Scheduler.current_cycle_id
  owed,         \* captures whose tick has still to add its active seconds
  poll,         \* where auto_cycle_loop stands: "wait" or "due"
  inProgress,   \* its re-entrancy flag
  pc, cyc, batch,   \* per run: control point, cycle id read, captures loaded
  \* what is outside the process
  obstacle,     \* the point at which run_cycle now fails, or "none"
  \* bookkeeping of the model
  nextId, crashes, toggles, faults, obstacles,
  settled,      \* <<capture, cycle>> analysed by a run that went on to reset
  shared,       \* cycle ids a run read while another run of them was on
  remailed      \* cycle ids an email was sent for more than once

db      == <<tag, secs, live, recs, mailed, hasKey>>
process == <<sched, owed, poll, inProgress, pc, cyc, batch>>
world   == <<obstacle, obstacles>>
history == <<settled, shared, remailed>>
model   == <<nextId, crashes, toggles, faults, world, history>>
vars    == <<db, process, model>>

NoCycle == 0
Runs == AutoTasks \cup Manuals
Recorded == {c \in Captures : tag[c] # NoCycle}

\* Where a run stands: before run_cycle, in it, and after it.
Points == {"idle", "preparing", "retagging", "starting", "loading",
           "analysing", "persisting", "mailing", "resetting", "hung",
           "returning", "done"}

\* A run that has read its cycle id in run_cycle and is not through with it.
InCycle(r) ==
  pc[r] \in {"loading", "analysing", "persisting", "mailing", "resetting", "hung"}

\* Where run_cycle can fail for as long as its cause lasts: the API is down,
\* its reply does not parse or the estimate is above the ceiling; the tier
\* file does not parse; the email template.
Obstacles == {"none", "analysing", "persisting", "mailing"}

\* The point after run_cycle has returned: the automatic task has its flag
\* to clear, the command is over.
After(r) == IF r \in AutoTasks THEN "returning" ELSE "done"

Init ==
  /\ tag = [c \in Captures |-> NoCycle]
  /\ secs = 0 /\ live = 1 /\ recs = {} /\ mailed = {} /\ hasKey = FALSE
  /\ sched = 2 /\ owed = {}
  /\ poll = "wait" /\ inProgress = FALSE
  /\ pc = [r \in Runs |-> "idle"]
  /\ cyc = [r \in Runs |-> NoCycle]
  /\ batch = [r \in Runs |-> {}]
  /\ obstacle \in Obstacles
  /\ nextId = 3 /\ crashes = 0 /\ toggles = 0 /\ faults = 0 /\ obstacles = 0
  /\ settled = {} /\ shared = {} /\ remailed = {}

-----------------------------------------------------------------------------
(* A SQLite call returns an error, at most MaxFaults times. *)
SqliteFails ==
  /\ faults < MaxFaults
  /\ faults' = faults + 1

-----------------------------------------------------------------------------
(* The capture scheduler *)

\* tick_once up to record_capture: the row is tagged with the id the
\* scheduler was built with, whatever the counter's current cycle is.
RecordCapture(c) ==
  /\ \A d \in Recorded : d < c
  /\ tag' = [tag EXCEPT ![c] = sched]
  /\ owed' = owed \cup {c}
  /\ UNCHANGED <<secs, live, recs, mailed, hasKey, sched, poll, inProgress,
                 pc, cyc, batch, model>>

\* The end of the tick, after the budget pipeline's awaits: the counter
\* advances by the cadence.
CreditTick(c) ==
  /\ c \in owed
  /\ owed' = owed \ {c}
  /\ secs' = secs + Cadence
  /\ UNCHANGED <<tag, live, recs, mailed, hasKey, sched, poll, inProgress, pc,
                 cyc, batch, nextId, crashes, toggles, faults, world, history>>

\* add_active_seconds failed: the tick only warns.
CreditFails(c) ==
  /\ c \in owed
  /\ owed' = owed \ {c}
  /\ SqliteFails
  /\ UNCHANGED <<db, sched, poll, inProgress, pc, cyc, batch, nextId, crashes,
                 toggles, world, history>>

-----------------------------------------------------------------------------
(* The automatic trigger *)

\* Fault: the poll does not look at the flag.
AutoPollUnguarded ==
  /\ poll = "wait"
  /\ secs >= Threshold
  /\ poll' = "due"
  /\ UNCHANGED <<db, sched, owed, inProgress, pc, cyc, batch, model>>

\* One poll: skipped while a spawned cycle is in progress; reads the counter.
AutoPoll ==
  /\ poll = "wait"
  /\ ~inProgress
  /\ secs >= Threshold
  /\ poll' = "due"
  /\ UNCHANGED <<db, sched, owed, inProgress, pc, cyc, batch, model>>

\* The rest of the poll, after awaiting has_anthropic_key: defer, or raise
\* the flag and spawn run_auto_cycle.
AutoDefer ==
  /\ poll = "due"
  /\ ~hasKey
  /\ poll' = "wait"
  /\ UNCHANGED <<db, sched, owed, inProgress, pc, cyc, batch, model>>

AutoFire(a) ==
  /\ poll = "due"
  /\ hasKey
  /\ pc[a] = "idle"
  /\ poll' = "wait"
  /\ inProgress' = TRUE
  /\ pc' = [pc EXCEPT ![a] = "preparing"]
  /\ UNCHANGED <<db, sched, owed, cyc, batch, nextId, crashes, toggles, faults,
                 world, history>>

\* run_auto_cycle up to run_cycle: the key is read again, and the Gmail
\* token is refreshed over the network.
AutoPrepare(a) ==
  /\ pc[a] = "preparing"
  /\ pc' = [pc EXCEPT ![a] = IF hasKey THEN "starting" ELSE "returning"]
  /\ UNCHANGED <<db, sched, owed, poll, inProgress, cyc, batch, model>>

\* Fault: the flag is left up.
AutoReturnFlagUp(a) ==
  /\ pc[a] = "returning"
  /\ pc' = [pc EXCEPT ![a] = "idle"]
  /\ UNCHANGED <<db, sched, owed, poll, inProgress, cyc, batch, model>>

\* The spawned task ends, with or without an error: guard.store(false).
AutoReturn(a) ==
  /\ pc[a] = "returning"
  /\ pc' = [pc EXCEPT ![a] = "idle"]
  /\ inProgress' = FALSE
  /\ UNCHANGED <<db, sched, owed, poll, cyc, batch, model>>

-----------------------------------------------------------------------------
(* cmd_run_cycle_now, up to run_cycle *)

\* The key is there (otherwise the command returns at once) and the current
\* cycle id is read.
ManualBegin(m) ==
  /\ pc[m] = "idle"
  /\ hasKey
  /\ pc' = [pc EXCEPT ![m] = "retagging"]
  /\ cyc' = [cyc EXCEPT ![m] = live]
  /\ UNCHANGED <<db, sched, owed, poll, inProgress, batch, model>>

\* The captures younger than a cutoff; none, if it is after them all.
Windows == {{}} \cup {{c \in Recorded : c >= cutoff} : cutoff \in Captures}

\* retag_captures_into_cycle: every capture since the cutoff the user chose
\* moves into the cycle id read before, analysed already or not.
ManualRetag(m) ==
  /\ pc[m] = "retagging"
  /\ pc' = [pc EXCEPT ![m] = "starting"]
  /\ \E window \in Windows :
       tag' = [c \in Captures |-> IF c \in window THEN cyc[m] ELSE tag[c]]
  /\ UNCHANGED <<secs, live, recs, mailed, hasKey, sched, owed, poll,
                 inProgress, cyc, batch, model>>

-----------------------------------------------------------------------------
(* run_cycle *)

\* A run reads the current cycle id; a command overwrites the one it used.
LoadCycle(r) ==
  /\ pc[r] = "starting"
  /\ pc' = [pc EXCEPT ![r] = "loading"]
  /\ cyc' = [cyc EXCEPT ![r] = live]
  /\ shared' = IF \E q \in Runs : InCycle(q) /\ cyc[q] = live
                 THEN shared \cup {live} ELSE shared
  /\ UNCHANGED <<db, sched, owed, poll, inProgress, batch, nextId, crashes,
                 toggles, faults, world, settled, remailed>>

\* Fault: a run that finds nothing returns without the reset.
LoadCapturesOrQuit(r) ==
  /\ pc[r] = "loading"
  /\ batch' = [batch EXCEPT ![r] = {c \in Recorded : tag[c] = cyc[r]}]
  /\ pc' = [pc EXCEPT ![r] = IF batch'[r] = {} THEN After(r) ELSE "analysing"]
  /\ UNCHANGED <<db, sched, owed, poll, inProgress, cyc, model>>

\* load_cycle_captures; with none there the run goes straight to its reset.
LoadCaptures(r) ==
  /\ pc[r] = "loading"
  /\ batch' = [batch EXCEPT ![r] = {c \in Recorded : tag[c] = cyc[r]}]
  /\ pc' = [pc EXCEPT ![r] =
               IF batch'[r] = {} THEN "resetting" ELSE "analysing"]
  /\ UNCHANGED <<db, sched, owed, poll, inProgress, cyc, model>>

\* Fault: the email goes out without the saves.
AnalyseThenMail(r) ==
  /\ pc[r] = "analysing"
  /\ pc' = [pc EXCEPT ![r] = "mailing"]
  /\ UNCHANGED <<db, sched, owed, poll, inProgress, cyc, batch, model>>

\* Clustering, and the awaits on the Anthropic API (stages 2 and 3).
Analyse(r) ==
  /\ pc[r] = "analysing"
  /\ obstacle # "analysing"
  /\ pc' = [pc EXCEPT ![r] = "persisting"]
  /\ UNCHANGED <<db, sched, owed, poll, inProgress, cyc, batch, model>>

\* Stage 4: dedup, tier configuration, rank, save_recommendation for each.
Persist(r) ==
  /\ pc[r] = "persisting"
  /\ obstacle # "persisting"
  /\ pc' = [pc EXCEPT ![r] = "mailing"]
  /\ recs' = recs \cup {<<c, cyc[r]>> : c \in batch[r]}
  /\ UNCHANGED <<tag, secs, live, mailed, hasKey, sched, owed, poll,
                 inProgress, cyc, batch, model>>

\* The saves fail, each with a warning, and the run goes on to mail them.
PersistFails(r) ==
  /\ pc[r] = "persisting"
  /\ obstacle # "persisting"
  /\ SqliteFails
  /\ pc' = [pc EXCEPT ![r] = "mailing"]
  /\ UNCHANGED <<db, sched, owed, poll, inProgress, cyc, batch, nextId, crashes,
                 toggles, world, history>>

\* The email goes out, or there is no sender, token or address for it, or
\* sending failed, which is only a warning.
SendsOrNot(r) ==
  \/ /\ mailed' = mailed \cup {cyc[r]}
     /\ remailed' = IF cyc[r] \in mailed THEN remailed \cup {cyc[r]}
                                          ELSE remailed
  \/ UNCHANGED <<mailed, remailed>>

Mail(r) ==
  /\ pc[r] = "mailing"
  /\ obstacle # "mailing"
  /\ pc' = [pc EXCEPT ![r] = "resetting"]
  /\ SendsOrNot(r)
  /\ UNCHANGED <<tag, secs, live, recs, hasKey, sched, owed, poll, inProgress,
                 cyc, batch, nextId, crashes, toggles, faults, world, settled,
                 shared>>

\* The run's frame goes away with its local variables.
Ends(r) ==
  /\ pc' = [pc EXCEPT ![r] = After(r)]
  /\ cyc' = [cyc EXCEPT ![r] = NoCycle]
  /\ batch' = [batch EXCEPT ![r] = {}]

\* Faults: the cycle id is kept; the id handed out is not used up.
ResetKeepsId(r) ==
  /\ pc[r] = "resetting"
  /\ secs' = 0
  /\ settled' = settled \cup {<<c, cyc[r]>> : c \in batch[r]}
  /\ Ends(r)
  /\ UNCHANGED <<tag, live, recs, mailed, hasKey, sched, owed, poll,
                 inProgress, nextId, crashes, toggles, faults, world, shared,
                 remailed>>

\* reset_active_hours: zero the counter and mint a new current cycle id.
Reset(r) ==
  /\ pc[r] = "resetting"
  /\ secs' = 0
  /\ live' = nextId
  /\ nextId' = nextId + 1
  /\ settled' = settled \cup {<<c, cyc[r]>> : c \in batch[r]}
  /\ Ends(r)
  /\ UNCHANGED <<tag, recs, mailed, hasKey, sched, owed, poll, inProgress,
                 crashes, toggles, faults, world, shared, remailed>>

\* Everything that leaves run_cycle through `?' before the reset; it does so
\* on every run for as long as its cause is there.
RunFails(r) ==
  /\ pc[r] \in {"analysing", "persisting", "mailing"}
  /\ pc[r] = obstacle
  /\ Ends(r)
  /\ UNCHANGED <<db, sched, owed, poll, inProgress, model>>

\* A call of an automatic run is never answered: no client has a timeout.  The
\* email may have gone out all the same.  (A command that waits for ever is one
\* that takes no further step, which nothing below excludes.)
Hang(a) ==
  /\ pc[a] \in {"preparing", "analysing", "mailing"}
  /\ pc[a] # obstacle
  /\ pc' = [pc EXCEPT ![a] = "hung"]
  /\ IF pc[a] = "mailing" THEN SendsOrNot(a) ELSE UNCHANGED <<mailed, remailed>>
  /\ UNCHANGED <<tag, secs, live, recs, hasKey, sched, owed, poll, inProgress,
                 cyc, batch, nextId, crashes, toggles, faults, world, settled,
                 shared>>

\* The same for the SQLite calls of the command and of run_cycle.
RunLosesSqlite(r) ==
  /\ pc[r] \in {"retagging", "starting", "loading", "analysing", "resetting"}
  /\ SqliteFails
  /\ Ends(r)
  /\ UNCHANGED <<db, sched, owed, poll, inProgress, nextId, crashes, toggles,
                 world, history>>

-----------------------------------------------------------------------------
(* The user, the outside and the process *)

\* What makes runs fail appears, goes away or is another.
ObstacleChanges ==
  /\ obstacles < MaxObstacles
  /\ obstacles' = obstacles + 1
  /\ obstacle' \in Obstacles \ {obstacle}
  /\ UNCHANGED <<db, process, nextId, crashes, toggles, faults, history>>

\* cmd_set_anthropic_key and cmd_clear_anthropic_key; also a key that the
\* keychain does not give out for a while.
ToggleKey ==
  /\ toggles < MaxToggles
  /\ toggles' = toggles + 1
  /\ hasKey' = ~hasKey
  /\ UNCHANGED <<tag, secs, live, recs, mailed, process, nextId, crashes,
                 faults, world, history>>

\* The process dies and bootstrap runs again: SQLite keeps what it has, the
\* tasks are gone and the scheduler is built with a new cycle id.
Restart ==
  /\ crashes < MaxCrashes
  /\ crashes' = crashes + 1
  /\ sched' = nextId
  /\ nextId' = nextId + 1
  /\ owed' = {}
  /\ poll' = "wait"
  /\ inProgress' = FALSE
  /\ pc' = [r \in Runs |-> IF r \in AutoTasks \/ pc[r] = "idle"
                             THEN "idle" ELSE "done"]
  /\ cyc' = [r \in Runs |-> NoCycle]
  /\ batch' = [r \in Runs |-> {}]
  /\ UNCHANGED <<db, toggles, faults, world, history>>

-----------------------------------------------------------------------------
Tick == \E c \in Captures : RecordCapture(c) \/ CreditTick(c) \/ CreditFails(c)

AutoStep(a) == AutoFire(a) \/ AutoPrepare(a) \/ AutoReturn(a)

\* What a run does of its own accord once it has been called.
Advance(r) == \/ LoadCycle(r) \/ LoadCaptures(r) \/ Analyse(r) \/ Persist(r)
              \/ Mail(r) \/ Reset(r)

RunStep(r) == Advance(r) \/ PersistFails(r) \/ RunFails(r) \/ RunLosesSqlite(r)

Next ==
  \/ Tick
  \/ AutoPoll \/ AutoDefer
  \/ \E a \in AutoTasks : AutoStep(a) \/ Hang(a)
  \/ \E m \in Manuals : ManualBegin(m) \/ ManualRetag(m)
  \/ \E r \in Runs : RunStep(r)
  \/ ToggleKey
  \/ ObstacleChanges
  \/ Restart

Spec == Init /\ [][Next]_vars

\* tokio keeps polling every task that is ready: the trigger and the runs it
\* spawns make progress while the process is up, unless a call they await is
\* never answered.  A run whose obstacle lasts fails, each time.  Nothing
\* obliges the user to do anything, nor a command to get on.
Fairness ==
  /\ WF_vars(AutoPoll) /\ WF_vars(AutoDefer)
  /\ \A a \in AutoTasks : /\ WF_vars(AutoStep(a))
                          /\ WF_vars(Advance(a) \/ RunFails(a))

FairSpec == Spec /\ Fairness

-----------------------------------------------------------------------------
(* Properties *)

\* Types, and that every cycle id in use was minted before nextId.
TypeOK ==
  /\ nextId \in Nat \ {0}
  /\ tag \in [Captures -> 0 .. nextId - 1]
  /\ secs \in Nat
  /\ live \in 1 .. nextId - 1 /\ sched \in 1 .. nextId - 1
  /\ recs \subseteq Captures \X (0 .. nextId - 1)
  /\ settled \subseteq Captures \X (0 .. nextId - 1)
  /\ mailed \subseteq 0 .. nextId - 1
  /\ hasKey \in BOOLEAN /\ inProgress \in BOOLEAN
  /\ shared \subseteq 0 .. nextId - 1 /\ remailed \subseteq 0 .. nextId - 1
  /\ owed \subseteq Captures
  /\ poll \in {"wait", "due"}
  /\ pc \in [Runs -> Points]
  /\ cyc \in [Runs -> 0 .. nextId - 1]
  /\ batch \in [Runs -> SUBSET Captures]
  /\ crashes \in 0 .. MaxCrashes /\ toggles \in 0 .. MaxToggles
  /\ faults \in 0 .. MaxFaults /\ obstacles \in 0 .. MaxObstacles
  /\ obstacle \in Obstacles

\* The re-entrancy flag of auto_cycle_loop is up exactly while one of the
\* tasks it spawned is alive, and there is never a second one.
FlagGuardsTask ==
  /\ inProgress <=> \E a \in AutoTasks : pc[a] # "idle"
  /\ \A a, b \in AutoTasks : pc[a] # "idle" /\ pc[b] # "idle" => a = b

\* Once a cycle has been analysed to its end its captures are out of the
\* current cycle: a run that starts later does not pick them up under the
\* same id, through restarts, failures and overlapping runs.
SettledNotLive ==
  \A c \in Captures : <<c, tag[c]>> \in settled => tag[c] # live

\* As long as SQLite works, whatever was mailed is in the database: the links of
\* an email are about recommendations that set_disposition will find.
MailedIsSaved == faults = 0 => mailed \subseteq {p[2] : p \in recs}

\* As long as nothing crashes and SQLite works, a cycle is mailed twice only if
\* one run of it began while another had not ended: run after run, failed ones
\* and unanswered ones included, "Once per analysis cycle" (README.md:19) holds.
TwiceOnlyIfShared ==
  crashes = 0 /\ faults = 0 => remailed \subseteq shared

\* The flag comes down again after every automatic run, failed ones included,
\* unless a call of the run is never answered: then the trigger is dead until
\* the next launch.
FlagReleased ==
  inProgress ~> (~inProgress \/ \E a \in AutoTasks : pc[a] = "hung")

\* With a key stored and the threshold reached, some cycle completes and zeroes
\* the counter, if nothing that makes every run fail is there and no call of
\* the run goes unanswered; earlier failures and restarts do not prevent it.
DueCycleCompletes ==
  (secs >= Threshold /\ hasKey) ~>
    \/ secs < Threshold \/ ~hasKey
    \/ obstacle # "none" \/ \E a \in AutoTasks : pc[a] = "hung"

-----------------------------------------------------------------------------
(* What a comment and the README say that the code does not do *)

\* lib.rs:287, run_auto_cycle needs no re-tagging because "the active-hours
\* counter and `current_cycle_id` are already correct": a run the trigger
\* starts at the threshold has captures to analyse.
AutoFindsCaptures ==
  \A a \in AutoTasks : pc[a] = "resetting" => batch[a] # {}

\* README.md:19, the email leaves "Once per analysis cycle": run_cycle does not
\* exclude a second run, so two overlapping runs of a cycle both send it.
MailedOnce == remailed = {}
=============================================================================
