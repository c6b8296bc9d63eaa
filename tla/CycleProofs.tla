---------------------------- MODULE CycleProofs ----------------------------
(***************************************************************************)
(* Proofs about Cycle, for any number of captures, tasks, commands,        *)
(* restarts and faults: type correctness, the re-entrancy flag, that a     *)
(* finished cycle stays finished, that what was mailed is saved, and that  *)
(* a cycle is mailed twice only by runs that overlapped.                   *)
(***************************************************************************)
EXTENDS Cycle, TLAPS

\* The steps of Next, one disjunct per action.
LEMMA NextCases ==
  ASSUME Next
  PROVE  \/ \E c \in Captures : RecordCapture(c)
         \/ \E c \in Captures : CreditTick(c)
         \/ \E c \in Captures : CreditFails(c)
         \/ AutoPoll
         \/ AutoDefer
         \/ \E a \in AutoTasks : AutoFire(a)
         \/ \E a \in AutoTasks : AutoPrepare(a)
         \/ \E a \in AutoTasks : AutoReturn(a)
         \/ \E m \in Manuals : ManualBegin(m)
         \/ \E m \in Manuals : ManualRetag(m)
         \/ \E r \in Runs : LoadCycle(r)
         \/ \E r \in Runs : LoadCaptures(r)
         \/ \E r \in Runs : Analyse(r)
         \/ \E r \in Runs : Persist(r)
         \/ \E r \in Runs : PersistFails(r)
         \/ \E r \in Runs : Mail(r)
         \/ \E r \in Runs : Reset(r)
         \/ \E r \in Runs : RunFails(r)
         \/ \E r \in Runs : RunLosesSqlite(r)
         \/ \E a \in AutoTasks : Hang(a)
         \/ ToggleKey
         \/ ObstacleChanges
         \/ Restart
BY DEF Next, Tick, AutoStep, RunStep, Advance

-----------------------------------------------------------------------------
\* Types are kept by every step.  Most actions leave nextId alone; Reset and
\* Restart raise it, which only widens the ranges of ids.
THEOREM TypeCorrect == Spec => []TypeOK
<1>1. Init => TypeOK
  <2> SUFFICES ASSUME Init PROVE TypeOK
    OBVIOUS
  <2>1. /\ nextId = 3 /\ 0 .. nextId - 1 = 0 .. 2 /\ 1 .. nextId - 1 = 1 .. 2
    BY DEF Init
  <2>2. /\ tag \in [Captures -> 0 .. nextId - 1]
        /\ pc \in [Runs -> Points]
        /\ cyc \in [Runs -> 0 .. nextId - 1]
        /\ batch \in [Runs -> SUBSET Captures]
    BY <2>1 DEF Init, NoCycle, Points
  <2>3. crashes \in 0 .. MaxCrashes /\ toggles \in 0 .. MaxToggles
        /\ faults \in 0 .. MaxFaults /\ obstacles \in 0 .. MaxObstacles
    BY BoundsAssumption DEF Init
  <2>4. hasKey \in BOOLEAN /\ inProgress \in BOOLEAN
    BY DEF Init
  <2>5. secs \in Nat /\ nextId \in Nat \ {0}
        /\ live \in 1 .. nextId - 1 /\ sched \in 1 .. nextId - 1
    BY <2>1 DEF Init
  <2>6. /\ recs = {} /\ settled = {} /\ mailed = {}
        /\ shared = {} /\ remailed = {}
        /\ owed = {} /\ poll = "wait" /\ obstacle \in Obstacles
    BY DEF Init
  <2> QED BY <2>2, <2>3, <2>4, <2>5, <2>6 DEF TypeOK
<1>2. TypeOK /\ [Next]_vars => TypeOK'
  <2> SUFFICES ASSUME TypeOK, [Next]_vars PROVE TypeOK'
    OBVIOUS
  <2>0. ASSUME UNCHANGED vars PROVE TypeOK'
    BY <2>0 DEF TypeOK, vars, db, process, model, world, history
  <2>1. ASSUME NEW c \in Captures, RecordCapture(c) PROVE TypeOK'
    BY <2>1 DEF TypeOK, RecordCapture, model, world, history
  <2>2. ASSUME NEW c \in Captures, CreditTick(c) PROVE TypeOK'
    BY <2>2, SecondsAssumption DEF TypeOK, CreditTick, world, history
  <2>3. ASSUME NEW c \in Captures, CreditFails(c) PROVE TypeOK'
    BY <2>3, BoundsAssumption DEF TypeOK, CreditFails, SqliteFails, db, world, history
  <2>4. ASSUME AutoPoll PROVE TypeOK'
    BY <2>4 DEF TypeOK, AutoPoll, db, model, world, history
  <2>5. ASSUME AutoDefer PROVE TypeOK'
    BY <2>5 DEF TypeOK, AutoDefer, db, model, world, history
  <2>6. ASSUME NEW a \in AutoTasks, AutoFire(a) PROVE TypeOK'
    BY <2>6 DEF TypeOK, AutoFire, db, world, history, Points, Runs
  <2>7. ASSUME NEW a \in AutoTasks, AutoPrepare(a) PROVE TypeOK'
    BY <2>7 DEF TypeOK, AutoPrepare, db, model, world, history, Points, Runs
  <2>8. ASSUME NEW a \in AutoTasks, AutoReturn(a) PROVE TypeOK'
    BY <2>8 DEF TypeOK, AutoReturn, db, model, world, history, Points, Runs
  <2>9. ASSUME NEW m \in Manuals, ManualBegin(m) PROVE TypeOK'
    BY <2>9 DEF TypeOK, ManualBegin, db, model, world, history, Points, Runs
  <2>10. ASSUME NEW m \in Manuals, ManualRetag(m) PROVE TypeOK'
    <3> PICK window \in Windows :
          tag' = [c \in Captures |-> IF c \in window THEN cyc[m] ELSE tag[c]]
      BY <2>10 DEF ManualRetag
    <3>1. cyc[m] \in 0 .. nextId - 1
      BY DEF TypeOK, Runs
    <3>2. tag' \in [Captures -> 0 .. nextId - 1]
      BY <3>1 DEF TypeOK
    <3> QED BY <2>10, <3>2 DEF TypeOK, ManualRetag, model, world, history, Points, Runs
  <2>11. ASSUME NEW r \in Runs, LoadCycle(r) PROVE TypeOK'
    BY <2>11 DEF TypeOK, LoadCycle, db, world, Points
  <2>12. ASSUME NEW r \in Runs, LoadCaptures(r) PROVE TypeOK'
    BY <2>12 DEF TypeOK, LoadCaptures, Recorded, db, model, world, history, Points
  <2>13. ASSUME NEW r \in Runs, Analyse(r) PROVE TypeOK'
    BY <2>13 DEF TypeOK, Analyse, db, model, world, history, Points
  <2>14. ASSUME NEW r \in Runs, Persist(r) PROVE TypeOK'
    BY <2>14 DEF TypeOK, Persist, model, world, history, Points
  <2>21. ASSUME NEW r \in Runs, PersistFails(r) PROVE TypeOK'
    BY <2>21, BoundsAssumption DEF TypeOK, PersistFails, SqliteFails, Points, db, world, history
  <2>15. ASSUME NEW r \in Runs, Mail(r) PROVE TypeOK'
    BY <2>15 DEF TypeOK, Mail, SendsOrNot, world, Points
  <2>16. ASSUME NEW r \in Runs, Reset(r) PROVE TypeOK'
    BY <2>16 DEF TypeOK, Reset, world, Ends, After, NoCycle, Points
  <2>17. ASSUME NEW r \in Runs, RunFails(r) PROVE TypeOK'
    BY <2>17 DEF TypeOK, RunFails, Ends, After, NoCycle, Points, db, model, world, history
  <2>18. ASSUME NEW r \in Runs, RunLosesSqlite(r) PROVE TypeOK'
    BY <2>18, BoundsAssumption
    DEF TypeOK, RunLosesSqlite, SqliteFails, Ends, After, NoCycle, Points, db,
        world, history
  <2>19. ASSUME ToggleKey PROVE TypeOK'
    BY <2>19, BoundsAssumption DEF TypeOK, ToggleKey, process, world, history
  <2>22. ASSUME NEW a \in AutoTasks, Hang(a) PROVE TypeOK'
    <3>1. cyc[a] \in 0 .. nextId - 1
      BY DEF TypeOK, Runs
    <3>2. /\ mailed' \subseteq mailed \cup {cyc[a]}
          /\ remailed' \subseteq remailed \cup {cyc[a]}
      BY <2>22 DEF Hang, SendsOrNot
    <3>3. /\ UNCHANGED <<tag, secs, live, recs, hasKey, sched, owed, poll,
                         inProgress, cyc, batch, nextId, crashes, toggles, faults,
                         obstacle, obstacles, settled, shared>>
          /\ pc' = [pc EXCEPT ![a] = "hung"]
      BY <2>22 DEF Hang, world
    <3> QED BY <3>1, <3>2, <3>3 DEF TypeOK, Points
  <2>23. ASSUME ObstacleChanges PROVE TypeOK'
    BY <2>23, BoundsAssumption
    DEF TypeOK, ObstacleChanges, db, process, history
  <2>20. ASSUME Restart PROVE TypeOK'
    <3>1. inProgress' \in BOOLEAN /\ hasKey' \in BOOLEAN
      BY <2>20 DEF TypeOK, Restart, db
    <3>2. /\ pc' \in [Runs -> Points]
          /\ batch' \in [Runs -> SUBSET Captures]
      BY <2>20 DEF TypeOK, Restart, Points
    <3>3. /\ nextId' \in Nat \ {0} /\ crashes' \in 0 .. MaxCrashes
          /\ live' \in 1 .. nextId' - 1 /\ sched' \in 1 .. nextId' - 1
          /\ cyc' \in [Runs -> 0 .. nextId' - 1]
          /\ tag' \in [Captures -> 0 .. nextId' - 1]
          /\ secs' \in Nat
      BY <2>20, BoundsAssumption DEF TypeOK, Restart, NoCycle, db
    <3>4. /\ recs' \subseteq Captures \X (0 .. nextId' - 1)
          /\ settled' \subseteq Captures \X (0 .. nextId' - 1)
          /\ mailed' \subseteq 0 .. nextId' - 1
          /\ shared' \subseteq 0 .. nextId' - 1 /\ remailed' \subseteq 0 .. nextId' - 1
      BY <2>20 DEF TypeOK, Restart, db, history
    <3>5. /\ owed' \subseteq Captures /\ poll' \in {"wait", "due"}
          /\ toggles' \in 0 .. MaxToggles /\ faults' \in 0 .. MaxFaults
          /\ obstacle' \in Obstacles /\ obstacles' \in 0 .. MaxObstacles
      BY <2>20 DEF TypeOK, Restart, db, world
    <3> QED BY <3>1, <3>2, <3>3, <3>4, <3>5 DEF TypeOK
  <2> QED
    BY <2>0, <2>1, <2>2, <2>3, <2>4, <2>5, <2>6, <2>7, <2>8, <2>9, <2>10,
       <2>11, <2>12, <2>13, <2>14, <2>15, <2>16, <2>17, <2>18, <2>19, <2>20, <2>21,
       <2>22, <2>23,
       NextCases
<1> QED BY <1>1, <1>2, PTL DEF Spec

-----------------------------------------------------------------------------
\* FlagGuardsTask alone is not inductive: a poll that has seen the flag down
\* fires later, so the flag must still be down while a poll stands at "due".
FlagInv ==
  /\ FlagGuardsTask
  /\ poll = "due" => ~inProgress

\* The trigger of auto_cycle_loop never has two tasks alive, and its flag says
\* whether it has one.
THEOREM FlagCorrect == Spec => []FlagGuardsTask
<1>1. Init => FlagInv
  BY DEF Init, FlagInv, FlagGuardsTask, Runs
<1>2. TypeOK /\ FlagInv /\ [Next]_vars => FlagInv'
  <2> SUFFICES ASSUME TypeOK, FlagInv, [Next]_vars PROVE FlagInv'
    OBVIOUS
  <2> USE DEF FlagInv, FlagGuardsTask
  \* A step that leaves the flag, the poll and which tasks are idle alone.
  <2>a. ASSUME UNCHANGED <<inProgress, poll>>,
               \A a \in AutoTasks : pc'[a] = "idle" <=> pc[a] = "idle"
        PROVE  FlagInv'
    BY <2>a
  <2>0. ASSUME UNCHANGED vars PROVE FlagInv'
    BY <2>0, <2>a DEF vars, process
  <2>1. ASSUME NEW c \in Captures, RecordCapture(c) \/ CreditTick(c) \/ CreditFails(c)
        PROVE  FlagInv'
    BY <2>1, <2>a DEF RecordCapture, CreditTick, CreditFails
  <2>2. ASSUME AutoPoll \/ AutoDefer PROVE FlagInv'
    BY <2>2 DEF AutoPoll, AutoDefer
  <2>3. ASSUME NEW a \in AutoTasks, AutoFire(a) PROVE FlagInv'
    <3>1. \A b \in AutoTasks : pc[b] = "idle"
      BY <2>3 DEF AutoFire
    <3>2. \A b \in AutoTasks : pc'[b] # "idle" <=> b = a
      BY <2>3, <3>1 DEF AutoFire, TypeOK, Runs
    <3>3. inProgress' /\ poll' = "wait"
      BY <2>3 DEF AutoFire
    <3> QED BY <3>2, <3>3
  <2>4. ASSUME NEW a \in AutoTasks, AutoPrepare(a) PROVE FlagInv'
    <3>1. \A b \in AutoTasks : pc'[b] = "idle" <=> pc[b] = "idle"
      BY <2>4 DEF AutoPrepare, TypeOK, Runs
    <3> QED BY <2>4, <3>1, <2>a DEF AutoPrepare
  <2>5. ASSUME NEW a \in AutoTasks, AutoReturn(a) PROVE FlagInv'
    <3>1. \A b \in AutoTasks : pc'[b] = "idle"
      BY <2>5 DEF AutoReturn, TypeOK, Runs
    <3>2. ~inProgress'
      BY <2>5 DEF AutoReturn
    <3> QED BY <3>1, <3>2
  <2>6. ASSUME NEW m \in Manuals, ManualBegin(m) \/ ManualRetag(m)
        PROVE  FlagInv'
    <3>1. \A b \in AutoTasks : pc'[b] = pc[b]
      BY <2>6, RunnersAssumption DEF ManualBegin, ManualRetag, TypeOK, Runs
    <3> QED BY <2>6, <3>1, <2>a DEF ManualBegin, ManualRetag
  <2>7. ASSUME NEW r \in Runs, RunStep(r) PROVE FlagInv'
    <3>1. UNCHANGED <<inProgress, poll>>
      BY <2>7 DEF RunStep, Advance, LoadCycle, LoadCaptures, Analyse, Persist,
                  Mail, Reset, PersistFails, RunFails, RunLosesSqlite
    <3>2. \A b \in AutoTasks : pc'[b] = "idle" <=> pc[b] = "idle"
      <4>1. pc[r] # "idle"
        BY <2>7 DEF RunStep, Advance, LoadCycle, LoadCaptures, Analyse, Persist,
                    Mail, Reset, PersistFails, RunFails, RunLosesSqlite
      <4>2. \E p \in Points \ {"idle"} : pc' = [pc EXCEPT ![r] = p]
        BY <2>7 DEF RunStep, Advance, LoadCycle, LoadCaptures, Analyse, Persist,
                    Mail, Reset, PersistFails, RunFails, RunLosesSqlite, Ends, After, Points
      <4> QED BY <4>1, <4>2 DEF TypeOK
    <3> QED BY <3>1, <3>2, <2>a
  <2>8. ASSUME ToggleKey PROVE FlagInv'
    BY <2>8, <2>a DEF ToggleKey, process
  <2>9. ASSUME Restart PROVE FlagInv'
    <3>1. \A b \in AutoTasks : pc'[b] = "idle"
      BY <2>9 DEF Restart, Runs
    <3>2. ~inProgress'
      BY <2>9 DEF Restart
    <3> QED BY <3>1, <3>2
  <2>10. ASSUME NEW a \in AutoTasks, Hang(a) PROVE FlagInv'
    <3>1. \A b \in AutoTasks : pc'[b] = "idle" <=> pc[b] = "idle"
      BY <2>10 DEF Hang, TypeOK, Runs
    <3> QED BY <2>10, <3>1, <2>a DEF Hang
  <2>11. ASSUME ObstacleChanges PROVE FlagInv'
    BY <2>11, <2>a DEF ObstacleChanges, process
  <2> QED
    BY <2>0, <2>1, <2>2, <2>3, <2>4, <2>5, <2>6, <2>7, <2>8, <2>9, <2>10, <2>11
    DEF Next, Tick, AutoStep
<1>3. FlagInv => FlagGuardsTask
  BY DEF FlagInv
<1> QED BY <1>1, <1>2, <1>3, TypeCorrect, PTL DEF Spec

-----------------------------------------------------------------------------
\* SettledNotLive speaks of the tag a capture has now, which a late re-tag can
\* turn back into a settled id; what no step breaks is that no settled id is
\* the current one, because a reset always mints.
SettledInv == \A p \in settled : p[2] # live

\* A cycle that has run to its end is never the current cycle again, so its
\* captures are not analysed twice under one id by a run that starts later.
THEOREM SettledCorrect == Spec => []SettledNotLive
<1>1. Init => SettledInv
  BY DEF Init, SettledInv
<1>2. TypeOK /\ SettledInv /\ [Next]_vars => SettledInv'
  <2> SUFFICES ASSUME TypeOK, SettledInv, [Next]_vars PROVE SettledInv'
    OBVIOUS
  <2>a. ASSUME UNCHANGED <<settled, live>> PROVE SettledInv'
    BY <2>a DEF SettledInv
  <2>1. ASSUME NEW r \in Runs, Reset(r) PROVE SettledInv'
    <3>1. /\ live' = nextId
          /\ settled' = settled \cup {<<c, cyc[r]>> : c \in batch[r]}
      BY <2>1 DEF Reset
    <3>2. \A p \in settled' : p[2] \in 0 .. nextId - 1
      BY <3>1 DEF TypeOK
    <3>3. nextId \notin 0 .. nextId - 1
      BY DEF TypeOK
    <3> QED BY <3>1, <3>2, <3>3 DEF SettledInv
  <2>2. CASE \E r \in Runs : Reset(r)
    BY <2>1, <2>2
  <2>3. CASE ~\E r \in Runs : Reset(r)
    <3>1. UNCHANGED <<settled, live>>
      BY <2>3
      DEF Next, vars, db, process, model, Tick, RecordCapture, CreditTick,
          CreditFails, AutoPoll, AutoDefer, AutoStep, AutoFire, AutoPrepare,
          AutoReturn, ManualBegin, ManualRetag, RunStep, Advance, LoadCycle,
          LoadCaptures, Analyse, Persist, PersistFails, Mail, RunFails,
          RunLosesSqlite, Hang, ToggleKey, ObstacleChanges, Restart, world, history
    <3> QED BY <3>1, <2>a
  <2> QED BY <2>2, <2>3
<1>3. SettledInv => SettledNotLive
  BY DEF SettledInv, SettledNotLive
<1> QED BY <1>1, <1>2, <1>3, TypeCorrect, PTL DEF Spec

-----------------------------------------------------------------------------
\* What a run about to mail has behind it: a batch, saved under its cycle id.
SavedInv ==
  faults = 0 =>
    /\ MailedIsSaved
    /\ \A r \in Runs : pc[r] \in {"analysing", "persisting"} => batch[r] # {}
    /\ \A r \in Runs : pc[r] = "mailing" => cyc[r] \in {p[2] : p \in recs}

\* Until SQLite fails, an email is only sent for recommendations that are in the
\* database, whatever runs overlap and wherever the process dies.
THEOREM SavedCorrect == Spec => []MailedIsSaved
<1>1. Init => SavedInv
  BY DEF Init, SavedInv, MailedIsSaved, Runs
<1>2. TypeOK /\ SavedInv /\ [Next]_vars => SavedInv'
  <2> SUFFICES ASSUME TypeOK, SavedInv, [Next]_vars, faults' = 0 PROVE SavedInv'
    BY DEF SavedInv
  <2> USE DEF SavedInv, MailedIsSaved
  \* A step that moves at most one run, to a point that asks nothing of it.
  <2>a. ASSUME faults = 0, UNCHANGED <<recs, mailed>>,
               \A r \in Runs :
                 \/ pc'[r] \notin {"analysing", "persisting", "mailing"}
                 \/ pc'[r] = pc[r] /\ batch'[r] = batch[r] /\ cyc'[r] = cyc[r]
        PROVE  SavedInv'
    BY <2>a
  <2>0. ASSUME UNCHANGED vars PROVE SavedInv'
    BY <2>0, <2>a DEF vars, db, process, model
  <2>1. ASSUME NEW c \in Captures, RecordCapture(c) \/ CreditTick(c) PROVE SavedInv'
    BY <2>1, <2>a DEF RecordCapture, CreditTick, model
  <2>2. ASSUME SqliteFails PROVE FALSE
    BY <2>2 DEF SqliteFails, TypeOK
  <2>3. ASSUME AutoPoll \/ AutoDefer \/ ToggleKey PROVE SavedInv'
    BY <2>3, <2>a DEF AutoPoll, AutoDefer, ToggleKey, db, model, process
  <2>4. ASSUME NEW a \in AutoTasks, AutoStep(a) PROVE SavedInv'
    BY <2>4, <2>a
    DEF AutoStep, AutoFire, AutoPrepare, AutoReturn, db, model, TypeOK, Runs
  <2>5. ASSUME NEW m \in Manuals, ManualBegin(m) \/ ManualRetag(m) PROVE SavedInv'
    BY <2>5, <2>a DEF ManualBegin, ManualRetag, db, model, TypeOK, Runs
  <2>6. ASSUME NEW r \in Runs, LoadCycle(r) PROVE SavedInv'
    BY <2>6, <2>a DEF LoadCycle, db, TypeOK
  <2>7. ASSUME NEW r \in Runs, LoadCaptures(r) PROVE SavedInv'
    <3>1. /\ UNCHANGED <<recs, mailed, cyc, faults>>
          /\ \A q \in Runs \ {r} : pc'[q] = pc[q] /\ batch'[q] = batch[q]
          /\ \/ pc'[r] = "resetting"
             \/ pc'[r] = "analysing" /\ batch'[r] # {}
      BY <2>7 DEF LoadCaptures, db, model, TypeOK
    <3> QED BY <3>1
  <2>8. ASSUME NEW r \in Runs, Analyse(r) PROVE SavedInv'
    <3>1. /\ UNCHANGED <<recs, mailed, cyc, batch, faults>>
          /\ \A q \in Runs \ {r} : pc'[q] = pc[q]
          /\ pc[r] = "analysing" /\ pc'[r] = "persisting"
      BY <2>8 DEF Analyse, db, model, TypeOK
    <3> QED BY <3>1
  <2>9. ASSUME NEW r \in Runs, Persist(r) PROVE SavedInv'
    <3>1. /\ UNCHANGED <<mailed, cyc, batch, faults>>
          /\ \A q \in Runs \ {r} : pc'[q] = pc[q]
          /\ pc[r] = "persisting" /\ pc'[r] = "mailing"
          /\ recs' = recs \cup {<<c, cyc[r]>> : c \in batch[r]}
      BY <2>9 DEF Persist, model, TypeOK
    <3>2. batch[r] # {}
      BY <3>1
    <3>3. PICK c \in batch[r] : TRUE
      BY <3>2
    <3>4. <<c, cyc[r]>> \in recs'
      BY <3>1
    <3>5. cyc[r] \in {p[2] : p \in recs'}
      BY <3>4
    <3>6. {p[2] : p \in recs} \subseteq {p[2] : p \in recs'}
      BY <3>1
    <3> QED BY <3>1, <3>5, <3>6
  <2>10. ASSUME NEW r \in Runs, Mail(r) PROVE SavedInv'
    <3>1. /\ UNCHANGED <<recs, cyc, batch, faults>>
          /\ \A q \in Runs \ {r} : pc'[q] = pc[q]
          /\ pc[r] = "mailing" /\ pc'[r] = "resetting"
          /\ mailed' \subseteq mailed \cup {cyc[r]}
      BY <2>10 DEF Mail, SendsOrNot, TypeOK
    <3> QED BY <3>1
  <2>11. ASSUME NEW r \in Runs, Reset(r) \/ RunFails(r) PROVE SavedInv'
    <3>1. UNCHANGED <<recs, mailed, faults>> /\ Ends(r)
      BY <2>11 DEF Reset, RunFails, db, model
    <3>2. \A q \in Runs : \/ pc'[q] \in {"returning", "done"}
                          \/ pc'[q] = pc[q] /\ batch'[q] = batch[q] /\ cyc'[q] = cyc[q]
      BY <3>1 DEF Ends, After, TypeOK
    <3> QED BY <3>1, <3>2, <2>a
  <2>12. ASSUME Restart PROVE SavedInv'
    <3>1. UNCHANGED <<recs, mailed, faults>>
          /\ \A q \in Runs : pc'[q] \in {"idle", "done"}
      BY <2>12 DEF Restart, db
    <3> QED BY <3>1, <2>a
  <2>13. ASSUME NEW a \in AutoTasks, Hang(a) PROVE SavedInv'
    <3>1. /\ UNCHANGED <<recs, cyc, batch, faults>>
          /\ \A q \in Runs \ {a} : pc'[q] = pc[q]
          /\ pc'[a] = "hung"
      BY <2>13 DEF Hang, TypeOK, Runs
    <3>2. CASE mailed' = mailed
      BY <3>1, <3>2 DEF Runs
    <3>3. CASE pc[a] = "mailing" /\ mailed' = mailed \cup {cyc[a]}
      BY <3>1, <3>3 DEF Runs
    <3> QED BY <2>13, <3>2, <3>3 DEF Hang, SendsOrNot
  <2>14. ASSUME ObstacleChanges PROVE SavedInv'
    BY <2>14, <2>a DEF ObstacleChanges, db, process
  <2> QED
    BY <2>0, <2>1, <2>2, <2>3, <2>4, <2>5, <2>6, <2>7, <2>8, <2>9, <2>10,
       <2>11, <2>12, <2>13, <2>14, NextCases
    DEF CreditFails, PersistFails, RunLosesSqlite, AutoStep
<1>3. TypeOK /\ SavedInv => MailedIsSaved
  BY DEF SavedInv, MailedIsSaved
<1> QED BY <1>1, <1>2, <1>3, TypeCorrect, PTL DEF Spec

-----------------------------------------------------------------------------
\* The inductive form.  The current cycle has been mailed only by a run that is
\* still on; two runs of one cycle make it a shared one; and a run that has
\* still to mail a cycle that was mailed already shares it with the run that did.
MailedIsClosed ==
  live \in mailed => \E r \in Runs : pc[r] \in {"resetting", "hung"} /\ cyc[r] = live

PairsShare ==
  \A q, r \in Runs :
    q # r /\ InCycle(q) /\ InCycle(r) /\ cyc[q] = cyc[r] /\ cyc[q] # NoCycle =>
      cyc[q] \in shared

UnsentShares ==
  \A r \in Runs :
    pc[r] \in {"loading", "analysing", "persisting", "mailing"} /\ cyc[r] \in mailed =>
      cyc[r] \in shared

IdsRead ==
  /\ \A a \in AutoTasks :
       pc[a] \in {"idle", "preparing", "returning"} => cyc[a] = NoCycle
  /\ \A r \in Runs : InCycle(r) /\ pc[r] # "hung" => cyc[r] # NoCycle

TwiceInv ==
  crashes = 0 /\ faults = 0 =>
    TwiceOnlyIfShared /\ MailedIsClosed /\ PairsShare /\ UnsentShares /\ IdsRead

\* Until something crashes or SQLite fails, an email is sent twice for one cycle
\* only if a run of it began while another was on: a run that starts after the
\* run that mailed reads a new id, because a reset mints one no email bears.
THEOREM TwiceCorrect == Spec => []TwiceOnlyIfShared
<1>1. Init => TwiceInv
  BY DEF Init, TwiceInv, TwiceOnlyIfShared, MailedIsClosed, PairsShare,
         UnsentShares, IdsRead, InCycle, Runs
<1>2. TypeOK /\ TwiceInv /\ [Next]_vars => TwiceInv'
  <2> SUFFICES ASSUME TypeOK, TwiceInv, [Next]_vars, crashes' = 0, faults' = 0
               PROVE  (TwiceOnlyIfShared /\ MailedIsClosed /\ PairsShare
                         /\ UnsentShares /\ IdsRead)'
    BY DEF TwiceInv
  <2> DEFINE Goal == (TwiceOnlyIfShared /\ MailedIsClosed /\ PairsShare
                        /\ UnsentShares /\ IdsRead)'
             Unsent == {"loading", "analysing", "persisting", "mailing"}
  <2>s. ASSUME SqliteFails PROVE FALSE
    BY <2>s DEF SqliteFails, TypeOK
  <2>r. ASSUME Restart PROVE FALSE
    BY <2>r DEF Restart, TypeOK
  <2>h. remailed \subseteq shared /\ MailedIsClosed /\ PairsShare /\ UnsentShares
        /\ IdsRead
    <3>1. crashes = 0
      <4>1. CASE Restart
        BY <4>1, <2>r
      <4>2. CASE ~Restart
        BY <4>2, NextCases
        DEF vars, model, RecordCapture, CreditTick, CreditFails, AutoPoll,
            AutoDefer, AutoFire, AutoPrepare, AutoReturn, ManualBegin,
            ManualRetag, LoadCycle, LoadCaptures, Analyse, Persist, PersistFails,
            Mail, Reset, RunFails, RunLosesSqlite, Hang, ToggleKey, ObstacleChanges
      <4> QED BY <4>1, <4>2
    <3>2. faults = 0
      <4>1. CASE SqliteFails
        BY <4>1, <2>s
      <4>2. CASE ~SqliteFails
        BY <4>2, NextCases
        DEF vars, model, RecordCapture, CreditTick, CreditFails, AutoPoll,
            AutoDefer, AutoFire, AutoPrepare, AutoReturn, ManualBegin,
            ManualRetag, LoadCycle, LoadCaptures, Analyse, Persist, PersistFails,
            Mail, Reset, RunFails, RunLosesSqlite, Hang, ToggleKey,
            ObstacleChanges, Restart
      <4> QED BY <4>1, <4>2
    <3> QED BY <3>1, <3>2 DEF TwiceInv, TwiceOnlyIfShared
  \* Steps that send nothing, mint nothing and share nothing: a run stays where
  \* it is, goes on in run_cycle, has not entered it, or leaves it unsettled.
  <2>a. ASSUME UNCHANGED <<live, mailed, shared, remailed>>,
               \A r \in Runs :
                 \/ pc'[r] = pc[r] /\ cyc'[r] = cyc[r]
                 \/ /\ pc[r] \in Unsent /\ cyc'[r] = cyc[r]
                    /\ pc'[r] \in Unsent \cup {"resetting", "hung"}
                 \/ /\ pc[r] \notin {"resetting", "hung"}
                    /\ pc'[r] \notin Unsent \cup {"resetting", "hung"}
                    /\ r \in AutoTasks => cyc'[r] \in {cyc[r], NoCycle}
                    /\ \/ cyc'[r] = NoCycle
                       \/ pc[r] \in {"idle", "preparing", "returning"}
                       \/ pc'[r] \notin {"idle", "preparing", "returning"}
        PROVE  Goal
    <3>1. TwiceOnlyIfShared'
      BY <2>a, <2>h DEF TwiceOnlyIfShared
    <3>2. MailedIsClosed'
      BY <2>a, <2>h DEF MailedIsClosed
    <3>3. PairsShare'
      BY <2>a, <2>h DEF PairsShare, InCycle
    <3>4. UnsentShares'
      BY <2>a, <2>h DEF UnsentShares
    <3>5. IdsRead'
      BY <2>a, <2>h DEF IdsRead, InCycle, Runs
    <3> QED BY <3>1, <3>2, <3>3, <3>4, <3>5
  <2>0. CASE UNCHANGED vars
    BY <2>0, <2>a DEF vars, db, process, model, history
  <2>1. ASSUME NEW c \in Captures, RecordCapture(c) \/ CreditTick(c) PROVE Goal
    BY <2>1, <2>a DEF RecordCapture, CreditTick, model, history
  <2>3. ASSUME AutoPoll \/ AutoDefer \/ ToggleKey \/ ObstacleChanges PROVE Goal
    BY <2>3, <2>a
    DEF AutoPoll, AutoDefer, ToggleKey, ObstacleChanges, db, model, history, process
  <2>4. ASSUME NEW a \in AutoTasks, AutoStep(a) PROVE Goal
    <3>1. UNCHANGED <<live, mailed, shared, remailed, cyc>>
      BY <2>4 DEF AutoStep, AutoFire, AutoPrepare, AutoReturn, db, model, history
    <3>2. /\ \A r \in Runs \ {a} : pc'[r] = pc[r]
          /\ pc[a] \in {"idle", "preparing", "returning"}
          /\ pc'[a] \in {"idle", "preparing", "starting", "returning"}
      BY <2>4 DEF AutoStep, AutoFire, AutoPrepare, AutoReturn, TypeOK, Runs
    <3> QED BY <3>1, <3>2, <2>a
  <2>5. ASSUME NEW m \in Manuals, ManualBegin(m) \/ ManualRetag(m) PROVE Goal
    <3>1. UNCHANGED <<live, mailed, shared, remailed>> /\ m \notin AutoTasks
      BY <2>5, RunnersAssumption DEF ManualBegin, ManualRetag, db, model, history
    <3>2. /\ \A r \in Runs \ {m} : pc'[r] = pc[r] /\ cyc'[r] = cyc[r]
          /\ pc[m] \in {"idle", "retagging"}
          /\ pc'[m] \in {"retagging", "starting"}
      BY <2>5 DEF ManualBegin, ManualRetag, TypeOK, Runs
    <3> QED BY <3>1, <3>2, <2>a
  <2>6. ASSUME NEW r \in Runs, LoadCycle(r) PROVE Goal
    <3>1. /\ UNCHANGED <<live, mailed, remailed>> /\ shared \subseteq shared'
          /\ \A q \in Runs \ {r} : pc'[q] = pc[q] /\ cyc'[q] = cyc[q]
          /\ pc[r] = "starting" /\ pc'[r] = "loading" /\ cyc'[r] = live
      BY <2>6 DEF LoadCycle, db, TypeOK
    <3>2. ASSUME NEW q \in Runs, InCycle(q), cyc[q] = live PROVE live \in shared'
      BY <2>6, <3>2 DEF LoadCycle
    <3>3. TwiceOnlyIfShared'
      BY <3>1, <2>h DEF TwiceOnlyIfShared
    <3>4. MailedIsClosed'
      BY <3>1, <2>h DEF MailedIsClosed
    <3>5. PairsShare'
      BY <3>1, <3>2, <2>h DEF PairsShare, InCycle
    <3>6. UnsentShares'
      <4>1. live \in mailed => live \in shared'
        BY <3>2, <2>h DEF MailedIsClosed, InCycle
      <4> QED BY <3>1, <4>1, <2>h DEF UnsentShares
    <3>7. IdsRead'
      <4>1. live # NoCycle
        BY DEF TypeOK, NoCycle
      <4> QED BY <3>1, <4>1, <2>h DEF IdsRead, InCycle, Runs
    <3> QED BY <3>3, <3>4, <3>5, <3>6, <3>7
  <2>7. ASSUME NEW r \in Runs, LoadCaptures(r) \/ Analyse(r) \/ Persist(r) PROVE Goal
    <3>1. UNCHANGED <<live, mailed, shared, remailed, cyc>>
      BY <2>7 DEF LoadCaptures, Analyse, Persist, db, model, history
    <3>2. /\ \A q \in Runs \ {r} : pc'[q] = pc[q]
          /\ pc[r] \in Unsent /\ pc'[r] \in Unsent \cup {"resetting"}
      BY <2>7 DEF LoadCaptures, Analyse, Persist, TypeOK
    <3> QED BY <3>1, <3>2, <2>a
  \* Sending, by Mail or by a call that then hangs.
  <2>b. ASSUME NEW r \in Runs, pc[r] = "mailing", SendsOrNot(r),
               UNCHANGED <<live, cyc, shared>>,
               \A q \in Runs \ {r} : pc'[q] = pc[q], pc'[r] \in {"resetting", "hung"}
        PROVE  Goal
    <3>1. /\ mailed' = mailed \/ mailed' = mailed \cup {cyc[r]}
          /\ \/ remailed' = remailed
             \/ cyc[r] \in mailed /\ remailed' = remailed \cup {cyc[r]}
      BY <2>b DEF SendsOrNot
    <3>2. TwiceOnlyIfShared'
      <4>1. cyc[r] \in mailed => cyc[r] \in shared
        BY <2>b, <2>h DEF UnsentShares
      <4> QED BY <3>1, <4>1, <2>b, <2>h DEF TwiceOnlyIfShared
    <3>3. MailedIsClosed'
      BY <3>1, <2>b, <2>h DEF MailedIsClosed
    <3>4. PairsShare'
      BY <2>b, <2>h DEF PairsShare, InCycle
    <3>5. UnsentShares'
      <4> SUFFICES ASSUME NEW q \in Runs, pc'[q] \in Unsent, cyc[q] \in mailed'
                   PROVE  cyc[q] \in shared
        BY <2>b DEF UnsentShares
      <4>1. q # r /\ pc[q] \in Unsent
        BY <2>b
      <4>2. CASE cyc[q] \in mailed
        BY <4>1, <4>2, <2>h DEF UnsentShares
      <4>3. CASE cyc[q] = cyc[r]
        BY <4>1, <4>3, <2>b, <2>h DEF PairsShare, IdsRead, InCycle
      <4> QED BY <3>1, <4>2, <4>3
    <3>6. IdsRead'
      BY <2>b, <2>h DEF IdsRead, InCycle, Runs
    <3> QED BY <3>2, <3>3, <3>4, <3>5, <3>6
  <2>8. ASSUME NEW r \in Runs, Mail(r) PROVE Goal
    BY <2>8, <2>b DEF Mail, TypeOK
  <2>9. ASSUME NEW a \in AutoTasks, Hang(a) PROVE Goal
    <3>1. a \in Runs /\ UNCHANGED <<live, cyc, shared>> /\ pc'[a] = "hung"
          /\ \A q \in Runs \ {a} : pc'[q] = pc[q]
      BY <2>9 DEF Hang, TypeOK, Runs
    <3>2. CASE pc[a] = "mailing"
      BY <2>9, <3>1, <3>2, <2>b DEF Hang
    <3>3. CASE pc[a] = "analysing"
      BY <2>9, <3>1, <3>3, <2>a DEF Hang
    <3>4. CASE pc[a] = "preparing"
      <4>1. UNCHANGED <<mailed, remailed>> /\ cyc[a] = NoCycle
        BY <2>9, <3>4, <2>h DEF Hang, IdsRead
      <4>2. TwiceOnlyIfShared' /\ UnsentShares'
        BY <3>1, <4>1, <2>h DEF TwiceOnlyIfShared, UnsentShares
      <4>3. MailedIsClosed'
        BY <3>1, <3>4, <4>1, <2>h DEF MailedIsClosed
      <4>4. PairsShare' /\ IdsRead'
        BY <3>1, <4>1, <2>h DEF PairsShare, IdsRead, InCycle, Runs
      <4> QED BY <4>2, <4>3, <4>4
    <3> QED BY <2>9, <3>2, <3>3, <3>4 DEF Hang
  <2>10. ASSUME NEW r \in Runs, Reset(r) PROVE Goal
    <3>1. /\ live' = nextId /\ UNCHANGED <<mailed, shared, remailed>>
          /\ \A q \in Runs \ {r} : pc'[q] = pc[q] /\ cyc'[q] = cyc[q]
          /\ pc'[r] \in {"returning", "done"} /\ cyc'[r] = NoCycle
      BY <2>10 DEF Reset, Ends, After, TypeOK
    <3>2. live' \notin mailed'
      BY <3>1 DEF TypeOK
    <3>3. TwiceOnlyIfShared' /\ MailedIsClosed'
      BY <3>1, <3>2, <2>h DEF TwiceOnlyIfShared, MailedIsClosed
    <3>4. PairsShare' /\ UnsentShares'
      BY <3>1, <2>h DEF PairsShare, UnsentShares, InCycle
    <3>5. IdsRead'
      BY <3>1, <2>h DEF IdsRead, InCycle, Runs
    <3> QED BY <3>3, <3>4, <3>5
  <2>11. ASSUME NEW r \in Runs, RunFails(r) PROVE Goal
    <3>1. UNCHANGED <<live, mailed, shared, remailed>>
      BY <2>11 DEF RunFails, db, model, history
    <3>2. /\ \A q \in Runs \ {r} : pc'[q] = pc[q] /\ cyc'[q] = cyc[q]
          /\ pc[r] \in Unsent
          /\ pc'[r] \in {"returning", "done"} /\ cyc'[r] = NoCycle
      BY <2>11 DEF RunFails, Ends, After, TypeOK
    <3> QED BY <3>1, <3>2, <2>a
  <2> QED
    BY <2>s, <2>r, <2>0, <2>1, <2>3, <2>4, <2>5, <2>6, <2>7, <2>8, <2>9,
       <2>10, <2>11, NextCases
    DEF CreditFails, PersistFails, RunLosesSqlite, AutoStep
<1>3. TypeOK /\ TwiceInv => TwiceOnlyIfShared
  BY DEF TwiceInv, TwiceOnlyIfShared
<1> QED BY <1>1, <1>2, <1>3, TypeCorrect, PTL DEF Spec
=============================================================================
