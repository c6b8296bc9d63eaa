---------------------------- MODULE CaptureTick ----------------------------
(***************************************************************************)
(* One capture tick of AgentScout (Scheduler::tick_once) step by step: the *)
(* gate, the screenshot, the encrypted tile on disk, the captures row, and *)
(* in budget mode the thumbnail, OCR, row update and removal of the tile.  *)
(* The run loop, the tray and cmd_run_tick_now call tick_once with no lock *)
(* between them, so any number of ticks may be under way; the process may  *)
(* die between any two steps.                                              *)
(*                                                                         *)
(* File names carry the second the tick began in, so two ticks of one      *)
(* second share them.  A file's content is the tick whose picture it       *)
(* holds.  The skip log and the temporary input of the OCR child bear on   *)
(* nothing below and are left out; the counter is in module Cycle.         *)
(***************************************************************************)
EXTENDS Naturals

CONSTANTS
  Ticks,        \* calls of tick_once
  None,         \* no file, no row
  MaxSecond,    \* bound on the clock
  MaxChanges,   \* bound on pause toggles and window switches
  MaxCrashes    \* bound on process restarts

\* A row holds where its picture is and whether the OCR text is there.
Row == [image : {"tile", "thumb"}, text : BOOLEAN]

ASSUME NoneAssumption == None \notin Ticks \cup Row
ASSUME BoundsAssumption ==
  MaxSecond \in Nat /\ MaxChanges \in Nat /\ MaxCrashes \in Nat

VARIABLES
  \* disk and SQLite, which outlive the process
  tiles,        \* screenshots/<second>_tile.enc -> whose picture, or None
  thumbs,       \* thumbnails/<second>_thumb.enc -> whose picture, or None
  rows,         \* captures: what image_path and ocr_text of a tick's row hold
  \* the process and the desktop
  paused,       \* Scheduler.paused
  blocked,      \* the foreground window matches the blocklist
  pc, second, budget,   \* per tick: control point, `now', cfg.budget_mode
  \* bookkeeping of the model
  clock, changes, crashes,
  skipped,      \* ticks the gate turned away
  blind,        \* ticks let past a blocklisted window that could not be read
  barredShot,   \* <<tick, bar>>: took its picture while "paused" or "blocked"
  late          \* ticks overtaken by a pause or a window switch after the gate

store == <<tiles, thumbs, rows>>
env   == <<paused, blocked, changes, late>>
frame == <<second, budget, blind>>
vars  == <<store, env, pc, frame, clock, crashes, skipped, barredShot>>

Seconds == 0 .. MaxSecond

Points == {"idle", "capturing", "writing", "recording", "thumbnail", "ocr",
           "updating", "removing", "done", "failed"}

\* A tick that has inserted its row returns Captured, whatever fails later.
Finish(t) == pc' = [pc EXCEPT ![t] = "done"]
Goto(t, p) == pc' = [pc EXCEPT ![t] = p]

Init ==
  /\ tiles = [s \in Seconds |-> None] /\ thumbs = [s \in Seconds |-> None]
  /\ rows = [t \in Ticks |-> None]
  /\ paused = FALSE /\ blocked = FALSE
  /\ pc = [t \in Ticks |-> "idle"]
  /\ second = [t \in Ticks |-> 0] /\ budget = [t \in Ticks |-> FALSE]
  /\ clock = 0 /\ changes = 0 /\ crashes = 0
  /\ skipped = {} /\ blind = {} /\ barredShot = {} /\ late = {}

-----------------------------------------------------------------------------
(* The gate *)

\* Paused, idle, outside the work hours, a blocklisted window, or no monitor
\* enabled: record_skip and return, or fail with it.  Idleness and hours are the
\* environment's.
Skip(t) ==
  /\ pc[t] = "idle"
  /\ Goto(t, "done") \/ Goto(t, "failed")
  /\ second' = [second EXCEPT ![t] = clock]
  /\ skipped' = skipped \cup {t}
  /\ UNCHANGED <<store, env, budget, blind, clock, crashes, barredShot>>

\* What the gate sees of the foreground window: the window, or nothing (no
\* display, or the platform call fails), and then nothing is blocked.
Sees(t, window) ==
  blind' = IF ~window /\ blocked THEN blind \cup {t} ELSE blind

\* Fault: the blocklist is not consulted.
PassUnlisted(t) ==
  /\ pc[t] = "idle"
  /\ ~paused
  /\ \E window \in BOOLEAN : Sees(t, window)
  /\ Goto(t, "capturing")
  /\ second' = [second EXCEPT ![t] = clock]
  /\ \E mode \in BOOLEAN : budget' = [budget EXCEPT ![t] = mode]
  /\ UNCHANGED <<store, env, clock, crashes, skipped, barredShot>>

\* The gate lets the tick through; the configuration was cloned before.  The
\* blocklist is asked last, so a pause after the gate's look at the flag is one
\* that comes after the gate.
Pass(t) ==
  /\ pc[t] = "idle"
  /\ ~paused
  /\ \E window \in BOOLEAN : Sees(t, window) /\ (window => ~blocked)
  /\ Goto(t, "capturing")
  /\ second' = [second EXCEPT ![t] = clock]
  /\ \E mode \in BOOLEAN : budget' = [budget EXCEPT ![t] = mode]
  /\ UNCHANGED <<store, env, clock, crashes, skipped, barredShot>>

-----------------------------------------------------------------------------
(* From the screen to the row *)

\* Why the screen should not be photographed now.
Bars == {bar \in {"paused", "blocked"} :
           \/ bar = "paused" /\ paused
           \/ bar = "blocked" /\ blocked}

\* capture_enabled, tile_horizontally, encode_png, encrypt.
Capture(t) ==
  /\ pc[t] = "capturing"
  /\ Goto(t, "writing")
  /\ barredShot' = barredShot \cup {<<t, bar>> : bar \in Bars}
  /\ UNCHANGED <<store, env, frame, clock, crashes, skipped>>

\* fs::write of the tile, over whatever had its name.
WriteTile(t) ==
  /\ pc[t] = "writing"
  /\ Goto(t, "recording")
  /\ tiles' = [tiles EXCEPT ![second[t]] = t]
  /\ UNCHANGED <<thumbs, rows, env, frame, clock, crashes, skipped, barredShot>>

\* record_capture: the row points at the tile.
Record(t) ==
  /\ pc[t] = "recording"
  /\ rows' = [rows EXCEPT ![t] = [image |-> "tile", text |-> FALSE]]
  /\ Goto(t, IF budget[t] THEN "thumbnail" ELSE "done")
  /\ UNCHANGED <<tiles, thumbs, env, frame, clock, crashes, skipped, barredShot>>

\* A `?' on the way: the tick returns an error, without a skip.
TickFails(t) ==
  /\ pc[t] \in {"capturing", "writing", "recording"}
  /\ Goto(t, "failed")
  /\ UNCHANGED <<store, env, frame, clock, crashes, skipped, barredShot>>

-----------------------------------------------------------------------------
(* run_budget_pipeline *)

WriteThumb(t) ==
  /\ pc[t] = "thumbnail"
  /\ Goto(t, "ocr")
  /\ thumbs' = [thumbs EXCEPT ![second[t]] = t]
  /\ UNCHANGED <<tiles, rows, env, frame, clock, crashes, skipped, barredShot>>

\* Fault: the tile goes before the row has moved to the thumbnail.
OcrTileGone(t) ==
  /\ pc[t] = "ocr"
  /\ Goto(t, "updating")
  /\ tiles' = [tiles EXCEPT ![second[t]] = None]
  /\ UNCHANGED <<thumbs, rows, env, frame, clock, crashes, skipped, barredShot>>

\* TesseractCliEngine::extract: the child has exited and its text was read.
Ocr(t) ==
  /\ pc[t] = "ocr"
  /\ Goto(t, "updating")
  /\ UNCHANGED <<store, env, frame, clock, crashes, skipped, barredShot>>

\* Faults: the UPDATE loses the text, or stores no value for it at all.
UpdateRowNoText(t) ==
  /\ pc[t] = "updating"
  /\ Goto(t, "removing")
  /\ rows' = [rows EXCEPT ![t] = [image |-> "thumb", text |-> FALSE]]
  /\ UNCHANGED <<tiles, thumbs, env, frame, clock, crashes, skipped, barredShot>>

\* update_capture_ocr with delete_original: text and thumbnail in one UPDATE.
UpdateRow(t) ==
  /\ pc[t] = "updating"
  /\ Goto(t, "removing")
  /\ rows' = [rows EXCEPT ![t] = [image |-> "thumb", text |-> TRUE]]
  /\ UNCHANGED <<tiles, thumbs, env, frame, clock, crashes, skipped, barredShot>>

\* remove_file(original_path): by name, whoever's picture it holds by now.
RemoveTile(t) ==
  /\ pc[t] = "removing"
  /\ Finish(t)
  /\ tiles' = [tiles EXCEPT ![second[t]] = None]
  /\ UNCHANGED <<thumbs, rows, env, frame, clock, crashes, skipped, barredShot>>

\* An error inside the pipeline, or of the removal: only a warning.
PipelineFails(t) ==
  /\ pc[t] \in {"thumbnail", "ocr", "updating", "removing"}
  /\ Finish(t)
  /\ UNCHANGED <<store, env, frame, clock, crashes, skipped, barredShot>>

-----------------------------------------------------------------------------
(* The clock, the user and the process *)

NextSecond ==
  /\ clock < MaxSecond
  /\ clock' = clock + 1
  /\ UNCHANGED <<store, env, pc, frame, crashes, skipped, barredShot>>

\* The ticks that are past the gate and have not looked at the screen yet.
Overtaken == {t \in Ticks : pc[t] = "capturing"}

\* The tray's or the window's pause toggle.
TogglePause ==
  /\ changes < MaxChanges
  /\ changes' = changes + 1
  /\ paused' = ~paused
  /\ late' = late \cup Overtaken
  /\ UNCHANGED <<store, blocked, pc, frame, clock, crashes, skipped,
                 barredShot>>

SwitchWindow ==
  /\ changes < MaxChanges
  /\ changes' = changes + 1
  /\ blocked' = ~blocked
  /\ late' = late \cup Overtaken
  /\ UNCHANGED <<store, paused, pc, frame, clock, crashes,
                 skipped, barredShot>>

\* The process dies; the next one builds a Scheduler that is not paused.
Restart ==
  /\ crashes < MaxCrashes
  /\ crashes' = crashes + 1
  /\ paused' = FALSE
  /\ pc' = [t \in Ticks |-> IF pc[t] \in {"idle", "done"} THEN pc[t]
                            ELSE "failed"]
  /\ UNCHANGED <<store, blocked, changes, late, frame, clock, skipped,
                 barredShot>>

-----------------------------------------------------------------------------
TickStep(t) ==
  \/ Capture(t) \/ WriteTile(t) \/ Record(t) \/ TickFails(t)
  \/ WriteThumb(t) \/ Ocr(t) \/ UpdateRow(t) \/ RemoveTile(t) \/ PipelineFails(t)

Next ==
  \/ \E t \in Ticks : Skip(t) \/ Pass(t) \/ TickStep(t)
  \/ NextSecond \/ TogglePause \/ SwitchWindow
  \/ Restart

Spec == Init /\ [][Next]_vars

\* No two ticks let through the gate begin under the same stamp.  The run loop
\* alone nearly keeps to it, its cadence being minutes; a tray or command tick
\* beside it need not, and the stamp is local time, which repeats an hour when
\* the clocks go back: two ticks of the loop can share a name then.
Begun == {t \in Ticks : pc[t] # "idle" /\ t \notin skipped}
OwnSecond == \A t, u \in Begun : second[t] = second[u] => t = u

SpacedSpec == Init /\ [][Next /\ OwnSecond']_vars

-----------------------------------------------------------------------------
(* Properties *)

TypeOK ==
  /\ tiles \in [Seconds -> Ticks \cup {None}]
  /\ thumbs \in [Seconds -> Ticks \cup {None}]
  /\ rows \in [Ticks -> Row \cup {None}]
  /\ paused \in BOOLEAN /\ blocked \in BOOLEAN
  /\ pc \in [Ticks -> Points]
  /\ second \in [Ticks -> Seconds] /\ budget \in [Ticks -> BOOLEAN]
  /\ clock \in Seconds
  /\ changes \in 0 .. MaxChanges /\ crashes \in 0 .. MaxCrashes
  /\ skipped \subseteq Ticks /\ blind \subseteq Ticks /\ late \subseteq Ticks
  /\ barredShot \subseteq Ticks \X {"paused", "blocked"}

\* The file a row names holds the picture of the row's own tick.
OwnPicture(t) ==
  IF rows[t].image = "tile" THEN tiles[second[t]] = t ELSE thumbs[second[t]] = t

\* Through any interleaving of spaced ticks, failed OCR and crashes between two
\* steps, no row is left without its own picture: the tile is written before
\* the row, the thumbnail before the UPDATE, and the tile goes after it.
EvidenceKept == \A t \in Ticks : rows[t] # None => OwnPicture(t)

\* The screen is photographed while paused only by a tick that the pause
\* overtook between gate and screenshot; with a blocklisted window in front only
\* by a tick the switch overtook, or one whose gate could not read that window:
\* there the gate fails open, and only there.
BarredShotsExplained ==
  \A t \in Ticks :
    /\ <<t, "paused">> \in barredShot => t \in late
    /\ <<t, "blocked">> \in barredShot => t \in late \cup blind

\* What the database promises of a tick's evidence (module CaptureLedger): not
\* there, then the full picture, then possibly the thumbnail with its text.
evidence ==
  [t \in Ticks |->
     IF rows[t] = None THEN "none"
     ELSE IF ~OwnPicture(t) THEN "lost"
     ELSE IF rows[t].image = "tile" THEN "full"
     ELSE IF rows[t].text THEN "reduced" ELSE "lost"]

Ledger == INSTANCE CaptureLedger WITH Ticks <- Ticks, evidence <- evidence

\* Spaced ticks keep the ledger: pictures are never lost and never come back
\* to full once reduced, however the steps and crashes interleave.
KeepsLedger == Ledger!Spec
=============================================================================
