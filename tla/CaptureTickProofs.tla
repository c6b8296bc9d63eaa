------------------------- MODULE CaptureTickProofs -------------------------
(***************************************************************************)
(* Proofs about CaptureTick, for any number of ticks, seconds, user        *)
(* changes and restarts: type correctness, who photographs a barred        *)
(* screen, that spaced ticks keep their pictures and implement the ledger. *)
(***************************************************************************)
EXTENDS CaptureTick, TLAPS

\* The control points at which a tick's own tile is on disk, and those at
\* which its own thumbnail is too.
HasTile == {"recording", "thumbnail", "ocr", "updating", "removing"}
HasThumb == {"ocr", "updating", "removing"}

\* Why the evidence is kept: at each point the files the rest of the tick relies
\* on hold its own picture, and the tile is only removed once the row has moved
\* to the thumbnail.
LocalInv(t) ==
  /\ t \in skipped => pc[t] \in {"done", "failed"} /\ rows[t] = None
  /\ pc[t] \in HasTile => tiles[second[t]] = t
  /\ pc[t] \in HasThumb => thumbs[second[t]] = t
  /\ pc[t] \in {"idle", "capturing", "writing", "recording"} => rows[t] = None
  /\ pc[t] \in {"thumbnail", "ocr", "updating"} =>
       rows[t] = [image |-> "tile", text |-> FALSE]
  /\ pc[t] = "removing" => rows[t] = [image |-> "thumb", text |-> TRUE]
  /\ rows[t] # None => OwnPicture(t) /\ (rows[t].image = "thumb" => rows[t].text)

FilesInv == OwnSecond /\ \A t \in Ticks : LocalInv(t)

\* The steps of Next, one disjunct per action.
LEMMA NextCases ==
  ASSUME Next
  PROVE  \/ \E t \in Ticks : Skip(t)
         \/ \E t \in Ticks : Pass(t)
         \/ \E t \in Ticks : Capture(t)
         \/ \E t \in Ticks : WriteTile(t)
         \/ \E t \in Ticks : Record(t)
         \/ \E t \in Ticks : TickFails(t)
         \/ \E t \in Ticks : WriteThumb(t)
         \/ \E t \in Ticks : Ocr(t)
         \/ \E t \in Ticks : UpdateRow(t)
         \/ \E t \in Ticks : RemoveTile(t)
         \/ \E t \in Ticks : PipelineFails(t)
         \/ NextSecond \/ TogglePause \/ SwitchWindow \/ Restart
BY DEF Next, TickStep

-----------------------------------------------------------------------------
\* The initial states are well typed.
LEMMA TypeInit == Init => TypeOK
<1> SUFFICES ASSUME Init PROVE TypeOK
  OBVIOUS
<1>1. paused \in BOOLEAN /\ blocked \in BOOLEAN
      /\ budget \in [Ticks -> BOOLEAN]
  BY DEF Init
<1>2. /\ 0 \in Seconds /\ clock \in Seconds
      /\ second \in [Ticks -> Seconds]
      /\ changes \in 0 .. MaxChanges /\ crashes \in 0 .. MaxCrashes
  BY BoundsAssumption DEF Init, Seconds
<1> QED BY <1>1, <1>2 DEF Init, TypeOK, Points

\* Types are kept by every step.
LEMMA TypeStep == TypeOK /\ [Next]_vars => TypeOK'
<1> SUFFICES ASSUME TypeOK, [Next]_vars PROVE TypeOK'
  OBVIOUS
<1> USE DEF TypeOK, store, env, frame, Goto, Finish, Points
<1>0. ASSUME UNCHANGED vars PROVE TypeOK'
  BY <1>0 DEF vars
<1>1. ASSUME NEW t \in Ticks, Skip(t) PROVE TypeOK'
  BY <1>1 DEF Skip
<1>2. ASSUME NEW t \in Ticks, Pass(t) PROVE TypeOK'
  <2>1. PICK mode \in BOOLEAN : budget' = [budget EXCEPT ![t] = mode]
    BY <1>2 DEF Pass
  <2>2. budget' \in [Ticks -> BOOLEAN] /\ blind' \subseteq Ticks
    BY <1>2, <2>1 DEF Pass, Sees
  <2> QED BY <1>2, <2>2 DEF Pass
<1>3. ASSUME NEW t \in Ticks, Capture(t) PROVE TypeOK'
  <2>1. barredShot' \subseteq Ticks \X {"paused", "blocked"}
    BY <1>3 DEF Capture, Bars
  <2> QED BY <1>3, <2>1 DEF Capture
<1>4. ASSUME NEW t \in Ticks, WriteTile(t) PROVE TypeOK'
  BY <1>4 DEF WriteTile
<1>5. ASSUME NEW t \in Ticks, Record(t) PROVE TypeOK'
  <2>1. [image |-> "tile", text |-> FALSE] \in Row
    BY DEF Row
  <2> QED BY <1>5, <2>1 DEF Record
<1>6. ASSUME NEW t \in Ticks, TickFails(t) PROVE TypeOK'
  BY <1>6 DEF TickFails
<1>7. ASSUME NEW t \in Ticks, WriteThumb(t) PROVE TypeOK'
  BY <1>7 DEF WriteThumb
<1>8. ASSUME NEW t \in Ticks, Ocr(t) PROVE TypeOK'
  BY <1>8 DEF Ocr
<1>9. ASSUME NEW t \in Ticks, UpdateRow(t) PROVE TypeOK'
  <2>1. [image |-> "thumb", text |-> TRUE] \in Row
    BY DEF Row
  <2> QED BY <1>9, <2>1 DEF UpdateRow
<1>10. ASSUME NEW t \in Ticks, RemoveTile(t) \/ PipelineFails(t) PROVE TypeOK'
  BY <1>10 DEF RemoveTile, PipelineFails
<1>11. ASSUME NextSecond PROVE TypeOK'
  BY <1>11, BoundsAssumption DEF NextSecond, Seconds
<1>12. ASSUME TogglePause \/ SwitchWindow PROVE TypeOK'
  <2>1. changes' \in 0 .. MaxChanges
    BY <1>12, BoundsAssumption DEF TogglePause, SwitchWindow
  <2>2. paused' \in BOOLEAN /\ blocked' \in BOOLEAN
    BY <1>12 DEF TogglePause, SwitchWindow
  <2>3. late' \subseteq Ticks
    BY <1>12 DEF TogglePause, SwitchWindow, Overtaken
  <2> QED BY <1>12, <2>1, <2>2, <2>3 DEF TogglePause, SwitchWindow
<1>13. ASSUME Restart PROVE TypeOK'
  <2>1. crashes' \in 0 .. MaxCrashes
    BY <1>13, BoundsAssumption DEF Restart
  <2>2. paused' \in BOOLEAN /\ blocked' \in BOOLEAN
    BY <1>13 DEF Restart
  <2> QED BY <1>13, <2>1, <2>2 DEF Restart
<1> QED
  BY <1>0, <1>1, <1>2, <1>3, <1>4, <1>5, <1>6, <1>7, <1>8, <1>9, <1>10,
     <1>11, <1>12, <1>13, NextCases

\* Every behaviour is well typed.
THEOREM TypeCorrect == Spec => []TypeOK
BY TypeInit, TypeStep, PTL DEF Spec

-----------------------------------------------------------------------------
\* A step of tick t leaves the invariant of every other tick alone, if it leaves
\* their records alone and writes files, if any, only under its own second.
LEMMA Others ==
  ASSUME TypeOK, TypeOK', OwnSecond',
         NEW t \in Ticks, NEW u \in Ticks, u # t, LocalInv(u),
         pc'[u] = pc[u], rows'[u] = rows[u], second'[u] = second[u],
         u \in skipped' <=> u \in skipped,
         \/ UNCHANGED <<tiles, thumbs>>
         \/ /\ t \in Begun'
            /\ \A s \in Seconds : s # second'[t] =>
                 tiles'[s] = tiles[s] /\ thumbs'[s] = thumbs[s]
  PROVE  LocalInv(u)'
<1>1. CASE u \in Begun
  <2>1. u \in Begun' /\ second'[u] \in Seconds
    BY <1>1 DEF Begun, TypeOK
  <2>2. tiles'[second[u]] = tiles[second[u]] /\ thumbs'[second[u]] = thumbs[second[u]]
    BY <2>1 DEF OwnSecond
  <2> QED BY <2>2 DEF LocalInv, OwnPicture
<1>2. CASE u \notin Begun
  <2>1. rows[u] = None /\ pc[u] \in {"idle", "done", "failed"}
    BY <1>2 DEF Begun, LocalInv
  <2> QED BY <2>1 DEF LocalInv, HasTile, HasThumb
<1> QED BY <1>1, <1>2

\* The invariant is kept by every step of spaced ticks.
LEMMA FilesStep ==
  ASSUME TypeOK, FilesInv, [Next /\ OwnSecond']_vars
  PROVE  FilesInv'
<1> USE NoneAssumption DEF store, env, frame, Goto, Finish
<1>t. TypeOK'
  BY TypeStep
<1>0. CASE UNCHANGED vars
  BY <1>0 DEF vars, FilesInv, OwnSecond, Begun, LocalInv, OwnPicture
<1>n. CASE Next /\ OwnSecond'
  <2>o. OwnSecond'
    BY <1>n
  \* What is left is the tick that moves, and that the others are not disturbed.
  <2>a. ASSUME NEW t \in Ticks, LocalInv(t)',
               \A u \in Ticks : u # t =>
                 /\ pc'[u] = pc[u] /\ rows'[u] = rows[u] /\ second'[u] = second[u]
                 /\ u \in skipped' <=> u \in skipped,
               \/ UNCHANGED <<tiles, thumbs>>
               \/ /\ t \in Begun'
                  /\ \A s \in Seconds : s # second'[t] =>
                       tiles'[s] = tiles[s] /\ thumbs'[s] = thumbs[s]
        PROVE  FilesInv'
    <3>1. ASSUME NEW u \in Ticks PROVE LocalInv(u)'
      <4>1. CASE u = t
        BY <2>a, <4>1
      <4>2. CASE u # t
        <5>1. LocalInv(u)
          BY DEF FilesInv
        <5> QED BY <2>a, <2>o, <1>t, <4>2, <5>1, Others
      <4> QED BY <4>1, <4>2
    <3> QED BY <2>o, <3>1 DEF FilesInv
  <2>l. \A t \in Ticks : LocalInv(t)
    BY DEF FilesInv
  <2>1. ASSUME NEW t \in Ticks, Skip(t) PROVE FilesInv'
    <3>1. LocalInv(t)'
      BY <2>1, <2>l DEF Skip, LocalInv, TypeOK, HasTile, HasThumb
    <3> QED BY <2>1, <3>1, <2>a DEF Skip, TypeOK
  <2>2. ASSUME NEW t \in Ticks, Pass(t) PROVE FilesInv'
    <3>1. LocalInv(t)'
      BY <2>2, <2>l DEF Pass, LocalInv, TypeOK, HasTile, HasThumb
    <3> QED BY <2>2, <3>1, <2>a DEF Pass, TypeOK
  <2>3. ASSUME NEW t \in Ticks, Capture(t) \/ TickFails(t) PROVE FilesInv'
    <3>1. LocalInv(t)'
      BY <2>3, <2>l
      DEF Capture, TickFails, LocalInv, OwnPicture, TypeOK, HasTile, HasThumb
    <3> QED BY <2>3, <3>1, <2>a DEF Capture, TickFails, TypeOK
  <2>4. ASSUME NEW t \in Ticks, WriteTile(t) PROVE FilesInv'
    <3>1. LocalInv(t)'
      BY <2>4, <2>l DEF WriteTile, LocalInv, TypeOK, HasTile, HasThumb
    <3>2. t \in Begun'
      BY <2>4, <2>l DEF WriteTile, LocalInv, TypeOK, Begun
    <3>3. \A s \in Seconds : s # second'[t] =>
            tiles'[s] = tiles[s] /\ thumbs'[s] = thumbs[s]
      BY <2>4 DEF WriteTile, TypeOK
    <3> QED BY <2>4, <3>1, <3>2, <3>3, <2>a DEF WriteTile, TypeOK
  <2>5. ASSUME NEW t \in Ticks, Record(t) PROVE FilesInv'
    <3>1. LocalInv(t)'
      BY <2>5, <2>l DEF Record, LocalInv, OwnPicture, TypeOK, HasTile, HasThumb
    <3> QED BY <2>5, <3>1, <2>a DEF Record, TypeOK
  <2>6. ASSUME NEW t \in Ticks, WriteThumb(t) PROVE FilesInv'
    <3>1. LocalInv(t)'
      BY <2>6, <2>l DEF WriteThumb, LocalInv, OwnPicture, TypeOK, HasTile, HasThumb
    <3>2. t \in Begun'
      BY <2>6, <2>l DEF WriteThumb, LocalInv, TypeOK, Begun
    <3>3. \A s \in Seconds : s # second'[t] =>
            tiles'[s] = tiles[s] /\ thumbs'[s] = thumbs[s]
      BY <2>6 DEF WriteThumb, TypeOK
    <3> QED BY <2>6, <3>1, <3>2, <3>3, <2>a DEF WriteThumb, TypeOK
  <2>7. ASSUME NEW t \in Ticks,
               Ocr(t) \/ PipelineFails(t)
        PROVE  FilesInv'
    <3>1. UNCHANGED <<tiles, thumbs, rows, second, skipped>>
      BY <2>7 DEF Ocr, PipelineFails
    <3>2. /\ pc[t] \in {"thumbnail", "ocr", "updating", "removing"}
          /\ \/ pc'[t] = "done"
             \/ pc[t] = "ocr" /\ pc'[t] = "updating"
      BY <2>7
      DEF Ocr, PipelineFails, TypeOK
    <3>3. t \notin skipped
      BY <3>2, <2>l DEF LocalInv
    <3>4. LocalInv(t)'
      BY <3>1, <3>2, <3>3, <2>l DEF LocalInv, OwnPicture, HasTile, HasThumb
    <3> QED BY <2>7, <3>4, <2>a
        DEF Ocr, PipelineFails, TypeOK
  <2>8. ASSUME NEW t \in Ticks, UpdateRow(t) PROVE FilesInv'
    <3>1. LocalInv(t)'
      BY <2>8, <2>l DEF UpdateRow, LocalInv, OwnPicture, TypeOK, HasTile, HasThumb
    <3> QED BY <2>8, <3>1, <2>a DEF UpdateRow, TypeOK
  <2>9. ASSUME NEW t \in Ticks, RemoveTile(t) PROVE FilesInv'
    <3>1. LocalInv(t)'
      BY <2>9, <2>l DEF RemoveTile, LocalInv, OwnPicture, TypeOK, HasTile, HasThumb
    <3>2. t \in Begun'
      BY <2>9, <2>l DEF RemoveTile, LocalInv, TypeOK, Begun
    <3>3. \A s \in Seconds : s # second'[t] =>
            tiles'[s] = tiles[s] /\ thumbs'[s] = thumbs[s]
      BY <2>9 DEF RemoveTile, TypeOK
    <3> QED BY <2>9, <3>1, <3>2, <3>3, <2>a DEF RemoveTile, TypeOK
  <2>10. ASSUME NextSecond \/ TogglePause \/ SwitchWindow PROVE FilesInv'
    BY <2>10, <2>o DEF NextSecond, TogglePause, SwitchWindow, FilesInv, LocalInv,
                       OwnPicture
  <2>11. ASSUME Restart PROVE FilesInv'
    <3>1. ASSUME NEW u \in Ticks PROVE LocalInv(u)'
      <4>1. pc'[u] \in {"idle", "done", "failed"}
            /\ (pc[u] \in {"idle", "done", "failed"} => pc'[u] = pc[u])
            /\ (pc'[u] = "idle" => pc[u] = "idle")
        BY <2>11 DEF Restart
      <4>2. UNCHANGED <<tiles, thumbs, rows, second, skipped>>
        BY <2>11 DEF Restart
      <4> QED BY <4>1, <4>2, <2>l DEF LocalInv, OwnPicture, HasTile, HasThumb
    <3> QED BY <2>o, <3>1 DEF FilesInv
  <2> QED
    BY <1>n, <2>1, <2>2, <2>3, <2>4, <2>5, <2>6, <2>7, <2>8, <2>9, <2>10, <2>11,
       NextCases
<1> QED BY <1>0, <1>n

\* The initial states satisfy the invariant.
LEMMA FilesInit == Init => FilesInv
BY DEF Init, FilesInv, OwnSecond, Begun, LocalInv, HasTile, HasThumb

\* Spaced ticks never leave a row without its own picture, whatever the number
\* of ticks and crashes and wherever they strike.
THEOREM EvidenceCorrect == SpacedSpec => []EvidenceKept
<1>1. FilesInv => EvidenceKept
  BY DEF FilesInv, LocalInv, EvidenceKept
<1>2. TypeOK /\ FilesInv /\ [Next /\ OwnSecond']_vars => TypeOK' /\ FilesInv'
  BY FilesStep, TypeStep
<1> QED BY <1>1, <1>2, TypeInit, FilesInit, PTL DEF SpacedSpec

-----------------------------------------------------------------------------
\* The evidence of a row under the invariant: what its image column says.
Told(row) == IF row = None THEN "none"
             ELSE IF row.image = "tile" THEN "full" ELSE "reduced"

LEMMA EvidenceTold ==
  ASSUME TypeOK, FilesInv, NEW t \in Ticks
  PROVE  evidence[t] = Told(rows[t])
<1>1. rows[t] # None =>
        /\ OwnPicture(t)
        /\ rows[t].image = "thumb" => rows[t].text
        /\ rows[t].image \in {"tile", "thumb"}
  BY DEF TypeOK, Row, FilesInv, LocalInv
<1> QED BY <1>1 DEF evidence, Told

\* A step of spaced ticks is a step of the ledger, or changes no evidence.
LEMMA LedgerStep ==
  ASSUME TypeOK, TypeOK', FilesInv, FilesInv', [Next]_vars
  PROVE  [Ledger!Next]_evidence
<1> USE NoneAssumption DEF store, env, frame, Goto, Finish
<1>e. \A t \in Ticks : /\ evidence[t] = Told(rows[t])
                        /\ evidence'[t] = Told(rows'[t])
  <2>1. ASSUME NEW t \in Ticks PROVE evidence[t] = Told(rows[t])
    BY EvidenceTold
  <2>2. (\A t \in Ticks : evidence[t] = Told(rows[t]))'
    <3> SUFFICES ASSUME NEW t \in Ticks PROVE (evidence[t] = Told(rows[t]))'
      OBVIOUS
    <3>1. rows'[t] # None =>
            /\ OwnPicture(t)'
            /\ rows'[t].image = "thumb" => rows'[t].text
            /\ rows'[t].image \in {"tile", "thumb"}
      BY DEF TypeOK, Row, FilesInv, LocalInv
    <3> QED BY <3>1 DEF evidence, Told
  <2> QED BY <2>1, <2>2
<1>r. /\ [image |-> "tile", text |-> FALSE] # None
      /\ [image |-> "thumb", text |-> TRUE] # None
  <2>1. /\ [image |-> "tile", text |-> FALSE] \in Row
        /\ [image |-> "thumb", text |-> TRUE] \in Row
    BY DEF Row
  <2> QED BY <2>1
<1>1. CASE rows' = rows
  <2>1. \A t \in Ticks : evidence'[t] = evidence[t]
    BY <1>1, <1>e
  <2> QED BY <2>1 DEF evidence
<1>2. ASSUME NEW t \in Ticks, Record(t) \/ UpdateRow(t) PROVE Ledger!Next
  <2>1. \A u \in Ticks \ {t} : evidence'[u] = evidence[u]
    BY <1>2, <1>e DEF Record, UpdateRow, TypeOK
  <2>2. CASE Record(t)
    <3>1. rows[t] = None /\ rows'[t] = [image |-> "tile", text |-> FALSE]
      BY <2>2 DEF Record, TypeOK, FilesInv, LocalInv
    <3>2. evidence[t] = "none" /\ evidence'[t] = "full"
      BY <3>1, <1>r, <1>e DEF Told
    <3>3. evidence' = [evidence EXCEPT ![t] = "full"]
      BY <2>1, <3>2 DEF evidence
    <3> QED BY <3>2, <3>3 DEF Ledger!Next, Ledger!Take
  <2>3. CASE UpdateRow(t)
    <3>1. /\ rows[t] = [image |-> "tile", text |-> FALSE]
          /\ rows'[t] = [image |-> "thumb", text |-> TRUE]
      BY <2>3 DEF UpdateRow, TypeOK, FilesInv, LocalInv
    <3>2. evidence[t] = "full" /\ evidence'[t] = "reduced"
      BY <3>1, <1>r, <1>e DEF Told
    <3>3. evidence' = [evidence EXCEPT ![t] = "reduced"]
      BY <2>1, <3>2 DEF evidence
    <3> QED BY <3>2, <3>3 DEF Ledger!Next, Ledger!Reduce
  <2> QED BY <1>2, <2>2, <2>3
<1>3. rows' = rows \/ \E t \in Ticks : Record(t) \/ UpdateRow(t)
  <2>1. CASE UNCHANGED vars
    BY <2>1 DEF vars
  <2>2. CASE Next
    BY <2>2, NextCases
    DEF Skip, Pass, Capture, WriteTile, TickFails, WriteThumb, Ocr, RemoveTile, PipelineFails, NextSecond, TogglePause,
        SwitchWindow, Restart
  <2> QED BY <2>1, <2>2
<1> QED BY <1>1, <1>2, <1>3

\* Spaced ticks implement CaptureLedger: evidence appears whole, is reduced at
\* most once, and is never lost.
THEOREM LedgerCorrect == SpacedSpec => KeepsLedger
<1>1. Init => Ledger!Init
  BY DEF Init, Ledger!Init, evidence
<1>2. TypeOK /\ FilesInv /\ [Next /\ OwnSecond']_vars => TypeOK' /\ FilesInv'
  BY FilesStep, TypeStep
<1>3. TypeOK /\ FilesInv /\ TypeOK' /\ FilesInv' /\ [Next /\ OwnSecond']_vars
        => [Ledger!Next]_evidence
  BY LedgerStep
<1> QED
  BY <1>1, <1>2, <1>3, TypeInit, FilesInit, PTL
  DEF SpacedSpec, KeepsLedger, Ledger!Spec

-----------------------------------------------------------------------------
\* What the gate saw still holds in front of the screen, unless a pause or a
\* window switch came between them; a restart clears the pause, and the ticks.
GateInv ==
  /\ \A t \in Ticks : pc[t] = "capturing" =>
       t \in late \/ (~paused /\ (~blocked \/ t \in blind))
  /\ BarredShotsExplained

\* The invariant is kept by every step, of ticks that are spaced or not.
LEMMA GateStep ==
  ASSUME TypeOK, GateInv, [Next]_vars
  PROVE  GateInv'
<1> USE DEF store, env, frame, Goto, Finish
<1>0. CASE UNCHANGED vars
  BY <1>0 DEF vars, GateInv, BarredShotsExplained
<1>1. ASSUME UNCHANGED <<paused, blocked, late>>, blind \subseteq blind',
             \A u \in Ticks : pc'[u] = "capturing" =>
                pc[u] = "capturing" \/ (~paused /\ (~blocked \/ u \in blind')),
             BarredShotsExplained'
      PROVE  GateInv'
  BY <1>1 DEF GateInv
<1>2. ASSUME NEW t \in Ticks,
             Skip(t) \/ WriteTile(t) \/ Record(t) \/ TickFails(t)
               \/ WriteThumb(t) \/ Ocr(t)
               \/ UpdateRow(t) \/ RemoveTile(t) \/ PipelineFails(t)
      PROVE  GateInv'
  <2>1. UNCHANGED <<paused, blocked, late, blind, barredShot>>
    BY <1>2 DEF Skip, WriteTile, Record, TickFails, WriteThumb, Ocr, UpdateRow, RemoveTile, PipelineFails
  <2>2. \E p \in Points \ {"capturing"} : pc' = [pc EXCEPT ![t] = p]
    BY <1>2 DEF Skip, WriteTile, Record, TickFails, WriteThumb, Ocr, UpdateRow, RemoveTile, PipelineFails, Points
  <2> QED BY <1>1, <2>1, <2>2 DEF TypeOK, GateInv, BarredShotsExplained
<1>3. ASSUME NEW t \in Ticks, Pass(t) PROVE GateInv'
  BY <1>1, <1>3 DEF Pass, Sees, TypeOK, GateInv, BarredShotsExplained
<1>4. ASSUME NEW t \in Ticks, Capture(t) PROVE GateInv'
  <2>1. /\ paused => t \in late
        /\ blocked => t \in late \cup blind
    BY <1>4 DEF Capture, GateInv
  <2>2. \A u \in Ticks : \A bar \in {"paused", "blocked"} :
          <<u, bar>> \in barredShot' =>
            <<u, bar>> \in barredShot \/ (u = t /\ bar \in Bars)
    BY <1>4 DEF Capture
  <2>3. BarredShotsExplained'
    <3>1. UNCHANGED <<late, blind>> /\ BarredShotsExplained
      BY <1>4 DEF Capture, GateInv
    <3> QED BY <2>1, <2>2, <3>1 DEF BarredShotsExplained, Bars
  <2> QED BY <1>1, <1>4, <2>3 DEF Capture, TypeOK
<1>5. CASE NextSecond
  BY <1>5 DEF NextSecond, GateInv, BarredShotsExplained
<1>6. CASE TogglePause \/ SwitchWindow
  BY <1>6 DEF TogglePause, SwitchWindow, Overtaken, GateInv, BarredShotsExplained
<1>7. CASE Restart
  BY <1>7 DEF Restart, GateInv, BarredShotsExplained
<1> QED BY <1>0, <1>2, <1>3, <1>4, <1>5, <1>6, <1>7, NextCases

\* Of any ticks, also several under one stamp: who photographs a paused desktop
\* was overtaken after the gate (capture/scheduler.rs tick_once), and who
\* photographs a blocklisted window was overtaken or could not read the window.
THEOREM GateCorrect == Spec => []BarredShotsExplained
<1>1. Init => GateInv
  BY DEF Init, GateInv, BarredShotsExplained
<1>2. GateInv => BarredShotsExplained
  BY DEF GateInv
<1> QED BY <1>1, <1>2, GateStep, TypeInit, TypeStep, PTL DEF Spec
=============================================================================
