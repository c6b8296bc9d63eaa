# AgentScout in TLA+

AgentScout is a Tauri desktop program in Rust. It photographs the user's screens
every few minutes, keeps the pictures encrypted on disk and a row for each in
SQLite, and once enough active hours have been counted runs an analysis cycle over
them: cluster, summarise and synthesise with the Anthropic API, save the
recommendations, mail them through Gmail. The mail carries signed links to a small
HTTP server inside the program.

This directory holds TLA+ models of the parts where order, interleaving, failure and
restart decide whether the program is correct, the TLC instances that check them, and
TLAPS proofs for every value of their constants. Paths below are relative to
`src-tauri/src/` unless they begin with `README`.

## 1. The system

Processes: one process; inside it tokio tasks (the scheduler loop, the trigger loop, at
most one spawned cycle, the HTTP server), tasks of the Tauri commands (as many as the
windows and the tray start, with no lock between them), and the blocking pool the
keychain calls run on. SQLite sits behind one mutex, taken per call
(`storage/mod.rs:49`), so a storage call is atomic and two of them are not. What
outlives the process: SQLite, the `.enc` files, the configuration file, the keychain and
its file fallback.

| Component | State | Operations | Hard behaviour | Correct when |
|---|---|---|---|---|
| Capture scheduler (`capture/scheduler.rs`) | `paused`, `current_cycle_id`, last topology; tiles, thumbnails, `captures`, `skip_log` | `run`, `tick_once`, `gate`, `run_budget_pipeline` | concurrent ticks, pause between gate and screenshot, crash between row, thumbnail and tile | every row has its picture; a barred screen is photographed only by a tick that was overtaken or could not read the window |
| OCR (`ocr/tesseract_cli.rs`) | none that outlives the call | `extract` | it may fail between thumbnail and update | the row keeps a picture whatever it does |
| Trigger (`lib.rs:220`) | the re-entrancy flag | poll, fire, task end | poll awaits between read and fire | one automatic cycle at a time; the flag comes down; a due cycle completes once nothing that lasts makes runs fail |
| Cycle (`analysis/orchestrator.rs`) | `active_hours_counter`, `recommendations`, tags of `captures` | `run_cycle` | overlap with a command, failure before reset, crash after the mail | a finished cycle is never current again; what is mailed is saved; a cycle is mailed twice only by overlapping runs |
| Run-now command (`lib.rs:894`) | the same | re-tag, `run_cycle` | reads the cycle id twice | analyses the window the user asked for |
| Secrets (`secrets.rs`) | keychain, flag file, master key, `.enc` files | store with read-back, load, delete | unlocked calls, silent drops, crash in a write | a save is what a later read returns; a value that was replaced never comes back |
| Bootstrap (`lib.rs:105`, `storage/crypto.rs:44`) | DEK, link secret | load or mint, first-boot cleanup | crash between DEK and cleanup, transient read errors | captures stay decryptable; secrets are stable |
| OAuth flow (`email/oauth_flow.rs`, `email/oauth.rs`, `email/disposition_server.rs:120`) | flow table, refresh token, client credentials | begin, callback, poll, disconnect, refresh | exchange awaited, without a time limit, between taking the verifier and storing the token; the browser may go away | a rotation loses no token; "connected" is true; a handler that goes on tells the window |
| Disposition links (`email/link_signer.rs`, `email/disposition_server.rs:255`) | `recommendations.disposition`, `disposition_at`, link secret, port | sign, mail, verify, update, answer | restart on another port, expiry boundary, damaged links, two writers of one row | only good links change a row, and the page says what happened |
| Migrations (`storage/schema.rs`) | `schema_version`, tables, indexes, columns | `run_migrations` | no transaction around a migration, releases up and down | a recorded version is complete; a program that is up has its schema |
| Configuration (`config/mod.rs`, `lib.rs:722`, `lib.rs:1256`, `settings.js`) | `config.json`, the shared `Config`, the page's copy | load, migrate, save, update | whole-object overwrite, torn writes, hand edits | memory is what the next launch reads; no setting is lost |
| Conversations (`conversation/`, `lib.rs:1376`, `settings.js:293`) | one slot and one lock per kind; `user-profile.md`, `tier-definitions.json` | start, step, finalize | commands queue on a lock held across the API call; a failed step; torn files | an answer goes to its own conversation; what is finished is what was shown, or the exceptions are named |
| Analysis (`analysis/`, `email/template.rs`) | one run's clusters, total, answer, recommendations | cluster, summarise under the ceiling, synthesise, salvage, dedup, rank, render | truncated answers, invented ids, a ceiling over a sequence of calls, verdicts given meanwhile | sessions are whole; the total stays below the ceiling; the best is on top; what was refused stays away |
| Work hours, blocklist (`capture/scheduler.rs:296`, `capture/blocklist.rs`) | none | gate helpers | midnight windows, wildcards | the gate lets pass exactly what the configuration says |
| Activity (`capture/activity.rs`) | last input time | poll, ask | sampling | - |

How they interact. The scheduler inserts rows tagged with a cycle id of its own and
adds seconds to the counter; the trigger reads the counter and spawns `run_cycle`; the
command re-tags rows and calls `run_cycle` itself; `run_cycle` loads rows by the
counter's id, and its reset mints a new id. Bootstrap gives the scheduler the DEK and the
link signer its secret, both out of the secrets store that the key and Gmail commands
write to. Mail links come back to the disposition server. `PROJECT.json` lists the
components with their status, and the hazards with the line where each bites.

## 2. Modules

| Module | What it is |
|---|---|
| `Cycle` | trigger, command, `run_cycle`, counter, the tags of captures |
| `MCCycle` | its TLC instances |
| `CycleProofs` | theorems about `Cycle` |
| `CaptureTick` | `tick_once` and the budget pipeline, step by step |
| `CaptureLedger` | the abstract promise about a capture's evidence |
| `MCCaptureTick`, `CaptureTickProofs` | instances and theorems, the refinement among them |
| `Vault` | the secrets store and the boot that depends on it |
| `MCVault`, `VaultProofs` | instances and theorems |
| `OAuthFlow` | connecting Gmail: flow table, callback, token, rotation, clearing |
| `MCOAuthFlow`, `OAuthProofs` | instances and theorems |
| `ReviewLinks` | signed links, the server that answers them, the row they change |
| `VerdictBoard` | the abstract promise about a request to record a verdict |
| `MCReviewLinks`, `LinkProofs` | instances and theorems, the refinement among them |
| `Migrations` | `run_migrations`, statement by statement |
| `Settings` | the configuration in its four copies |
| `Gate` | work hours and blocklist patterns, as operators |
| `Launch` | composes `Settings`, `Migrations` and `Gate` into launches of the program |
| `MCLaunch`, `LaunchProofs` | instances and theorems |
| `Talks` | the two conversations, their commands and the page |
| `MCTalks`, `TalkProofs` | instance and theorems |
| `Arrange` | sorting and filtering by position, Rust's `sort_by` and `filter` |
| `Clustering`, `Answers`, `Ranking` | stages 1, 3 and 4 of the analysis, as operators |
| `Analysis` | composes them into `run_cycle`'s data, with the cost ceiling and the verdicts |
| `MCAnalysis`, `AnalysisProofs` | instance and theorems |

An action is the stretch of code one task runs without an await, without giving up the
SQLite lock, and without a file or keychain call another task could see half of. The
operators whose comment says "Fault" are plausible bugs, kept next to the action each
would replace. They are in no specification; `PROJECT.json` ("mutants") names, for every
checked property, the fault under which TLC finds that property violated.

### Cycle

`tag`, `secs`, `live`, `recs`, `mailed` stand for `captures.cycle_id`,
`active_hours_counter` and the recommendations and mails that exist. Cycle ids are uuids
in the code and numbers minted from `nextId` here. `sched` is
`Scheduler.current_cycle_id`, minted in `Scheduler::new` and never assigned again.
`AutoPoll`/`AutoDefer`/`AutoFire` are one poll of `auto_cycle_loop`, split where it awaits the
keychain; `AutoPrepare`/`AutoReturn` the spawned task around `run_cycle`.
`ManualBegin`/`ManualRetag` are `cmd_run_cycle_now` up to `run_cycle`, whose sections are
`LoadCycle`, `LoadCaptures`, `Analyse`, `Persist`, `Mail`, `Reset`. `RunLosesSqlite` is every SQLite
error that ends a run, `PersistFails` the one that does not. `Restart` is a process death followed
by `bootstrap`.

`RunFails` is every other `?` of the stages. Its cause is `obstacle`, the stage at which a run now
fails: an API that is down, an estimate above the ceiling (`analysis/synthesize.rs:75`), a tier file
that does not parse (`analysis/orchestrator.rs:143`). While it is there every run fails, and nothing
obliges it to go away; it may appear, change and vanish between any two steps. `Hang` is a call that
is never answered, since no HTTP client has a timeout (`anthropic/live.rs:25`, `email/gmail.rs:31`);
the email may have gone out all the same. A command that hangs is one that takes no further step.
`shared` and `remailed` are bookkeeping: the cycle ids that overlapping runs read, and those for
which a second email left.

What clustering, prompts and prices compute is abstracted to the fact that a batch becomes
recommendations under the run's cycle id; that a batch can be deduplicated to no
recommendation at all is left out.

### CaptureTick

A file name carries the second its tick began in, so `tiles` and `thumbs` are functions of the
second and hold whose picture is there. `Pass`/`Skip` are the gate; `Capture`, `WriteTile`, `Record`
the way to the row; `WriteThumb`, `Ocr`, `UpdateRow`, `RemoveTile` the budget pipeline; `TickFails` and
`PipelineFails` its error exits. The gate fails open: `Sees` is `current_foreground`, which returns
nothing without a display or when the platform call fails, and then nothing is blocked; `blind`
keeps the ticks that a blocklisted window let past in this way. The skip log and the temporary input
of the OCR child bear on no property and are left out. `SpacedSpec` restricts behaviours to ticks that
begin under different stamps: the loop alone nearly keeps to that (the stamp is local time, which
repeats an hour when the clocks go back), a tray click beside a command need not (section 3 says
what happens then).

`CaptureLedger` says what that buys: evidence of a tick appears whole, may be reduced once to
thumbnail and text, and is never lost. `KeepsLedger` (the `INSTANCE` with the function
`evidence` of the concrete state) is checked by TLC and proved.

### Vault

`KeyringSet`, `KeyringVerify`, `Mark`, `Master`, `NewMaster`, `Encrypt` are `store_secret` one
keychain or file call at a time; `KeyringDelete` and `Unlink` are `delete_secret`; `Visible` is
`load_secret`. `LoadDek`, `CountRows`, `WipeFiles`, `WipeRows`, `WipeSkips`, `LoadLink`, `Start` are
`bootstrap` in its order. The keychain (`mode`, `Lapse`) is external: it works, drops writes
silently (the case `secrets.rs:4` describes) or refuses. A crash or a failing write may leave the
file it is in torn. `delete_secret` drops the errors of both its removals (`secrets.rs:247`):
`KeyringDelete` and `Unlink` may leave what they were to remove, the call still reports success, and
`lingering` keeps the accounts where that happened. `PatientSpec` is a user who waits for one save
or clear to return before the next.

### OAuthFlow

`flow` is the table of `email/oauth_flow.rs`, an entry's `fresh` says whether its verifier is
still the real one. A callback is `Arrive` (`take_verifier`), `CheckCreds`/`CredsVanished`,
`Exchange`/`ExchangeFails`, `StoreToken`/`StoreTokenFails`, `MarkComplete`: one action for each
stretch between two awaits of `handle_oauth_callback` and `complete_auth`. The server drops the
handler when the browser goes away (`Abandon`, at any await); dropped while it waits for the
store, the call on the blocking pool still ends (`AbandonStoring`, `StoreDetached`). `abandoned` keeps
the flows whose handler went that way. A refresh is
`RefreshBegin`, `RefreshRead`, then an answer, and `RefreshStore` when Google rotated the token.
`ClearToken` and `ClearCreds` are the two deletions of `cmd_clear_gmail_oauth_creds`. Google
(`valid`, `RefreshRotated`, `RefreshAnswerLost`) is external. A call on the secrets store is
atomic here, `Vault` has its steps; the client's id and secret are one flag. `clashed` is
bookkeeping: a command changed the secrets while a task that uses them was under way.

### ReviewLinks and VerdictBoard

`SaveRec` and `MailRec` are what a cycle leaves: a row, unless the save failed, and one link per
action, signed under `secret` and leading to `port`. A signature is the record of what went into
it, so two signatures are equal exactly when HMAC's would be. `Arrivals` is a link as it reaches
`validate_query`, whole or with a field gone. A request is `Open`, `Check` (`validate_query`, the
parse of the action, `verify`), `ReadClock`, then `UpdateRow`, `UpdateNoRow` or `UpdateFails`, and
`Respond`; `SetDisposition` is the app's own button, which shares the last steps. `Crash` and
`Boot` change the port, and the secret where the vault lost it; why it may is in `Vault`.
`Lifetime` is `expiry_days`, `Slack` the extra day `verify` allows between issue and expiry.

`VerdictBoard` promises that a request takes effect once between asking and the page, or not at
all and the page says so. `ImplementsBoard` maps everything between arrival and answer to one open
request, and a page by what it tells the user.

### Launch: Migrations, Settings, Gate

`Migrations` executes the statements of `MIGRATIONS` one at a time, the record of the version as
the last of each: `execute_batch` opens no transaction, so each commits alone. `Release` is how
many migrations a program knows.

`Settings` has `config.json` (`file`, which may be missing or torn), the process's copy (`live`),
the settings page's copy (`page`) and the period the scheduler loop took (`cadence`). `hand`
stands for everything the form does not show, work hours and blocklist among it. A write that
fails leaves the file as it was or truncated. `Gate` holds `within_work_hours` and the
blocklist's patterns as operators; `work_hours.enabled` is left out, the hours are those of a
configuration that enables them. `Parted` is one turn of `Pattern::new`. `matches_parts` is a
recursion over suffixes of the parts and of the name; `Fits` computes it from the shortest
suffix of the parts on, as the set of places in the name where that suffix matches the rest.

`Launch` starts, migrates, comes up, takes commands, hand edits, minutes and foreground windows,
and dies at any point; the next start may be of another release. `GlobMatches` is the reference
definition of a pattern: an assignment of stretches of the name to its letters and wildcards.

### Talks

`slot`, `lock` and `file` per kind of conversation, `page` for the buttons of `wireConversation`,
and `call` for commands under way, each with the talk the page was about when it was clicked and the
turns it sent. `AskReply` and `AskFinish` take the lock and keep it across the API call, as the code
keeps its guard across the await. `fs::write` is `OpenFile` (truncate) and `WriteFile`. `ApiHangs`
is a call without an answer: the command keeps the lock. `Reload` forgets the page's state and
leaves the commands running; `earlier` is the last conversation asked for before it, `begun` the
ones whose start reached the slot, and a call is `watched` while the page that made it is there.
Crashed transcripts are gone: `conversation/mod.rs:76` (`persist`) is called by nobody.

### Analysis: Clustering, Answers, Ranking

`Clustering!Turns` is the loop of `cluster.rs` as a recursive function, `Join` one turn of it.
The session under way is the last of the accumulator, so `Weighed` drops it if it is short
where the code pushes it if it is not. `Arrange` says what a stable sort and a filter return by the
position of each element, without a loop and with sets for arguments, so that it can be
reasoned about for every argument.
`Answers` reads an answer as a sequence of tokens: `Scan` is one turn of the byte loop of
`salvage_truncated_array` with its five variables, `Reads` is `serde_json`, external. An entry's
text contains what the scan has to survive, an escaped quote, a brace in a string and a nested
array. `Ranking` has `dedup_against_dispositions` on sets of words, the two scoring formulas in
whole numbers, the comparison of `rank_recommendations` and the split `template.rs` makes.

`Analysis` runs them in `run_cycle`'s order. `Prior` is read in `Begin` and used in `Deliver`, with
verdicts (`Dispose`) in between. `Summarise` adds an estimate to the total if the ceiling lets it;
`Compose` adds the synthesis, which the code compares with nothing.

## 3. Runs

| Run | Checks | Bounds | Distinct states |
|---|---|---|---|
| `cycle_runs` | `FlagGuardsTask`, `SettledNotLive`, `MailedIsSaved`, `TwiceOnlyIfShared`, `FlagReleased`, `DueCycleCompletes` | 2 captures, 2 trigger slots, 1 command, 1 crash, 1 key change, 1 SQLite error, 1 change of the obstacle, any number of hung calls, threshold of one tick | 0.6 million |
| `cycle_auto_empty` | `AutoFindsCaptures` is violated | 1 slot, 1 command | - |
| `cycle_mailed_twice` | `MailedOnce` is violated | 1 slot, 1 command, no crash, no failure | - |
| `tick_spaced` | `EvidenceKept`, `BarredShotsExplained`, `KeepsLedger` | 3 ticks in 3 seconds, 1 pause or window switch, 1 crash; symmetric ticks | 0.74 million |
| `vault_patient` | `SecretsStable`, `CapturesReadable`, `SavedReadable`, `FilesDecrypt`, `NeverStale` | 1 user account beside the two of the boot, 2 captures (one old), 2 crashes, 2 changes of the keychain, 6 minted values | 2.3 million |
| `oauth_connect` | `VerifierInOnePlace`, `StoredTokenLive`, `PairKept`, `ConnectedHasToken`, `FlowsAreTold` | 2 flows, 2 callbacks, 1 refresh, 1 clear, 2 saves or disconnects, 1 crash, 1 failing call | 1.1 million |
| `links` | `TypeOK`, `AnswerTellsCause`, `OnlyGoodLinksReachTheRow`, `ImplementsBoard` | 1 recommendation, 2 actions, 2 requests, links that lose action or expiry, lifetime and slack of 1, 3 times, 2 ports, 1 restart, 1 new secret | 0.6 million |
| `links_restart` | `LinksOutliveRestart` is violated | 2 ports, 1 request | - |
| `launch` | `TypeOK`, `RecordedIsApplied`, `LaunchesClean`, `MemoryIsFile`, `BlockedAsWritten`, `HoursEndAtEnd` | 3 releases, 1 failure or death, 1 hand edit, 2 commands, days of 3 instants, hours by day and over midnight, 4 patterns, 3 titles | 0.45 million |
| `settings_recipient` | `RecipientKept` is violated | 2 commands | - |
| `talks` | `TypeOK`, `AnsweredAsAsked`, `FinishedIsGone`, `FinishesWhatWasShown`, `CommandReturns` | 2 commands at a time, 3 conversations, 1 reply, 1 failure, hung call or crash, 1 reload | 0.4 million |
| `analysis` | `WithinCeiling`, `SessionsAreWhole`, `BestOnTop`, `RefusedStaysAway`, `WholeEntriesSurvive` | every day of 4 captures in 3 windows with gaps below, at and above the limit, days of 5; 8 answers cut at every token, with and without a fence; 2 runs, 1 verdict remembered | 0.15 million |

The `TypeOK` of `Cycle`, `CaptureTick`, `OAuthFlow` and `Vault` is proved and no run repeats it.
That of `ReviewLinks`, `Launch` and `Talks` says more than types: a verdict stands with its time on
a row that exists; a program that is up has its schema, and its capture loop is dead from the start
only after a hand edit; a file is torn only for a cause, and tier definitions in full are JSON. They
are checked and proved.

Why these bounds. In `Cycle` what can go wrong takes two runs that overlap and one event from
outside (a crash, a key change, a failed call, an obstacle) at any point of either; the slots and
the command give two automatic runs and one of each kind, two commands do what a command and an
automatic run do to each other, and a third capture only repeats what the second does, since
re-tagging, loading and settling treat captures one by one. The theorems have any number. In
`CaptureTick` files collide pairwise and three ticks leave one that is not part of the collision. In
`Vault` the races are between a pair of calls on one account or on the master key, and two crashes
allow a boot that dies inside the recovery from a boot that died. A keychain that changes twice can
come back with what it held before, which is when a stale value would be read; what holds only
before the first change says so (`Steady`). In `OAuthFlow` two callbacks cover a repeated redirect
and two flows a sweep; that a second refresh changes nothing is proved. In `ReviewLinks` the row is
the only thing requests share, so one recommendation and two requests have every race; three
instants put a link before, at and after its last day. In `Launch` one failure already gives every
torn file and every cut of a migration, and two commands are what a lost update takes; a second
failure would be needed for a torn file on top of a torn schema, which share no state. In `Talks`
one command holds the lock and one waits, on either kind; three conversations are a failed start,
the one started after it and the one of another load. In `Analysis` a session's limits are 2 and 4
instants, so four captures reach the gap, the length and the minimum from both sides; the limit of
one remembered verdict stands for 200. The proofs below have no bounds.

`CHECK_DEADLOCK FALSE` is set in every run because each behaviour ends by design once the
captures, commands and crashes of the instance are used up.

Fairness (`cycle_runs`). Weak fairness only, of the trigger's poll and of what each spawned task
does of its own accord: tokio polls every ready task. A call may hang, and nothing obliges an
obstacle to go away, so no failure is taken for a passing one. The two properties name what they
cannot outlive: `FlagReleased` a hung call, which leaves the flag up and the trigger dead until the
next launch, and `DueCycleCompletes` that and a lasting obstacle, with which the run fails every
minute (`lib.rs:226`) for as long as it is there, nothing limits the retries, and the counter is not
zeroed. No fairness is assumed of ticks, of the user, of commands, of obstacles or of restarts.

`oauth_connect` assumes none. That a callback goes on is not the program's to promise, neither the
browser nor the exchange (`email/oauth.rs:160`, no timeout) keeps it going. `FlowsAreTold` is what the
handler does promise: it leaves no flow in progress behind, unless it was dropped. The settings window
does not depend on it for ever, it stops polling after five minutes (`src/assets/settings.js:471`).

Fairness (`talks`). Weak fairness of a command's own steps, one of which is that the API answers,
fails or hangs. Taking the lock is strongly fair: tokio's `Mutex` hands it on in the order it was
asked for, so who waits is not passed over for ever. A hung call keeps the lock and everyone who
waits for it (`lib.rs:1405`); `CommandReturns` names that as the only reason not to return.

### What the violated properties say

Each states a sentence of a comment or of the documentation that the code does not keep;
`PROJECT.json` ("findings") quotes it.

- `AutoFindsCaptures`: rows are tagged with `Scheduler.current_cycle_id`, which is never
  the counter's id, so a run of the trigger finds nothing, zeroes the counter and ends. Only
  the command's re-tagging makes captures visible.
- `MailedOnce`: README.md:19 says the email leaves "Once per analysis cycle". The flag covers
  automatic runs only, so a command's run beside one, or beside another command's, loads the same
  cycle id and mails it again. `TwiceOnlyIfShared`, proved, says that nothing else does, short of
  a crash between mail and reset or a SQLite error.
- `LinksOutliveRestart`: the server asks for port 0 at every launch and the links carry the port
  they were mailed from, so after a restart the emails sent before lead nowhere, although secret
  and expiry would let them pass.
- `RecipientKept`: `save()` of the settings page sends the configuration as it was when the page
  was opened, with the form over it, and `cmd_update_settings` stores all of it; a recipient
  saved on the same page in between is erased.

Read in the code and not made into a run:

- Cycles. A death after the mail and before the reset mails the cycle again
  (`analysis/orchestrator.rs:211`). A save that fails is a warning and is mailed all the same
  (`analysis/orchestrator.rs:150`). The trigger does not look at the counter again after the
  keychain's answer and fires on one that was reset meanwhile (`lib.rs:255`). A reset between the
  command's read of the cycle id and `run_cycle`'s own leaves the re-tagged window in a cycle nobody
  loads (`lib.rs:911`, `analysis/orchestrator.rs:68`). A failed automatic run is retried a minute
  later although `lib.rs:196` says not before another threshold.
- Ticks. Of two budget ticks in one second the one that finishes removes the picture the other's row
  names (`capture/scheduler.rs:148`); the stamp is local time, so the loop's own ticks can collide
  in the hour that a clock change repeats. A window that cannot be read passes the blocklist
  (`capture/scheduler.rs:278`). `Scheduler::new` starts unpaused although README.md:152 says paused.
  A tesseract that cannot be started leaves its input behind (`ocr/tesseract_cli.rs:102`).
- Secrets. A clear whose removals fail reports success (`secrets.rs:247`). One account that falls
  back to files takes every read there, and the other accounts' secrets are no longer found
  (`secrets.rs:219`). A clear or a second save between a write and its read-back looks like a
  dropped write (`secrets.rs:185`): a healthy install goes over to files, the next boot finds no DEK
  there, mints one, and the cleanup deletes the captures. A lapse of the keychain at boot has the
  same effect (`storage/crypto.rs:55`). The cleanup's two DELETEs are two transactions
  (`lib.rs:401`), and a crash between storing the DEK and the cleanup leaves old rows no later boot
  removes (`lib.rs:118`).
- Gmail. A callback whose browser goes away marks nothing, even where its token is stored
  (`email/disposition_server.rs:157`). A repeated redirect gets the placeholder verifier and marks
  the flow failed although the first one connects (`email/disposition_server.rs:214`). A clear or
  disconnect during an exchange is followed by the token being stored, so a token without a client,
  or one after a disconnect, is possible (`lib.rs:1177`, excluded in `PairKept` by `clashed`).
- Cost. README.md:220 speaks of a hard ceiling per cycle. The synthesis is not compared with it, and
  a run that fails has paid while the next one starts from 0 (`analysis/synthesize.rs:133`); the
  tiers are parsed when everything is paid for (`analysis/orchestrator.rs:143`). `WithinCeiling`
  says what does hold.
- Dedup. `analysis/scoring.rs:120` says "name or description is too similar", the code puts both
  into one set, so an identical name with a long description passes; only the newest 200 verdicts
  are read (`storage/mod.rs:228`). `RefusedStaysAway` states both limits.
- Conversations. After a finish the page says it can be run again, and the finalize button stays
  disabled until the page is loaded again (`src/assets/settings.js:349`, 352).
- Settings. `url_domains` of the blocklist is read by nothing; a cadence of 0, which only a hand
  edit can store, panics the capture task (`capture/scheduler.rs:74`, `TypeOK` of `Launch`).

## 4. Proofs

| Theorem | States | Argument |
|---|---|---|
| `CycleProofs!TypeCorrect` | `Spec => []TypeOK` | action by action; ids stay below `nextId`, which only grows |
| `CycleProofs!FlagCorrect` | `[]FlagGuardsTask` | `FlagInv` adds that the poll is not "due" while the flag is up: the re-check that `AutoFire` lacks is implied by who can raise the flag |
| `CycleProofs!SettledCorrect` | `[]SettledNotLive` | `SettledInv`: no settled id is the current one, whatever a late re-tag does to the tag |
| `CycleProofs!SavedCorrect` | `[]MailedIsSaved` | `SavedInv`: until SQLite fails a run past the load has a batch and a run about to mail has saved it |
| `CycleProofs!TwiceCorrect` | `[]TwiceOnlyIfShared` | `TwiceInv`: until a crash or a SQLite error two runs in one cycle share it (`PairsShare`), a mailed cycle is current only while a run of it is about to reset or hangs (`MailedIsClosed`), and a run that has still to send for a mailed id shares it (`UnsentShares`) |
| `CaptureTickProofs!TypeCorrect` | `Spec => []TypeOK` | action by action |
| `CaptureTickProofs!EvidenceCorrect` | `SpacedSpec => []EvidenceKept` | `FilesInv`: which files a tick's own point of the pipeline implies, and that no other tick shares its second |
| `CaptureTickProofs!LedgerCorrect` | `SpacedSpec => KeepsLedger` | every step maps to `Take`, `Reduce` or a stutter, by `FilesInv` before and after |
| `CaptureTickProofs!GateCorrect` | `Spec => []BarredShotsExplained` | `GateInv`: a tick about to photograph was overtaken, or nothing is paused and no blocked window in front that it could read |
| `OAuthProofs!TypeCorrect` | `Spec => []TypeOK` | action by action |
| `OAuthProofs!VerifierCorrect` | `[]VerifierInOnePlace` | `VerifierInv`: who has a verifier came for a flow already begun, so a later `Begin` cannot renew it |
| `OAuthProofs!TokenCorrect` | `[]StoredTokenLive` | `TokenInv`: a token on its way to the store is valid, was read by no task and is with one task only, so no other refresh can have rotated it away |
| `OAuthProofs!PairCorrect` | `[]PairKept` | `PairInv`: until a clash a clear has the store to itself and finds no token after its first step; a task that may store one has seen the client |
| `OAuthProofs!ConnectedCorrect` | `ConnectedHasToken` | `ConnectInv`: until a clash nothing removes the token between its storing and the mark, and only `MarkComplete` completes |
| `OAuthProofs!ToldCorrect` | `[]FlowsAreTold` | `ToldInv`: who has a verifier is at work for its flow, and a callback that stores or marks has it; every way out marks the flow, or the flow is abandoned |
| `VaultProofs!VaultCorrect` | `PatientSpec => [](TypeOK /\ VaultInv)` | the invariant below, step by step |
| `VaultProofs!FilesCorrect` | `[]FilesDecrypt` | `KeyInv`: a master key is made only where there is none and so no file, and a call that encrypts has read the one that is there |
| `VaultProofs!SecretsCorrect`, `CapturesCorrect`, `SavedCorrect` | `[]SecretsStable`, `[]CapturesReadable`, `[]SavedReadable` | `SteadyInv`: a keychain that works is used alone, one that does not holds nothing; `RunInv`: DEK and link secret of the process are what a read returns, and while one is being minted no process has come up yet and no row of this version exists |
| `VaultProofs!NeverStaleCorrect` | `[]NeverStale` | `FreshInv`: reads look into the keychain until the flag file is there and into the files from then on; the keychain is written only before, a file is there only after, and where a read looks there is the newest value of an account at rest, or none |
| `LinkProofs!TypeCorrect` | `Spec => []TypeOK` | action by action |
| `LinkProofs!GoodLinksCorrect` | `[]OnlyGoodLinksReachTheRow` | `LinkInv`: past the check a request is the page's or carries a mailed link of this secret, for the recommendation and verdict it was mailed for |
| `LinkProofs!AnswerCorrect` | `[]AnswerTellsCause` | `LinkInv`: a rejected link that is a mailed one is late or of another secret, for as long as this process lives |
| `LinkProofs!BoardCorrect` | `ImplementsBoard` | the initial states map, and every action maps to a step of `VerdictBoard` or a stutter, one lemma per action |
| `TalkProofs!TypeCorrect` | `Spec => []TypeOK` | `FileInv`: a torn file is being written or was left by a failure |
| `TalkProofs!AnswerCorrect` | `[]AnsweredAsAsked` | `LockInv`: between question and answer a command holds the lock of its kind, and the slot has the transcript it sent |
| `TalkProofs!FinishedCorrect` | `[]FinishedIsGone` | `FreshInv`: what a waiting start will put into the slot is in no slot, no file and no other start |
| `TalkProofs!ShownCorrect` | `[]FinishesWhatWasShown` | `ButtonInv`: per kind the page is done with finishing (`Over`), or the buttons allow one start at a time and only while nothing of this load is in the slot (`Going`), so that what a finish was pressed for has not begun or is what is there; `LoadInv` separates the conversations of this load from earlier ones |
| `LaunchProofs!TypeCorrect` | `Spec => []TypeOK` | `MigrationInv`, `SettingsInv`, `StageInv` |
| `LaunchProofs!RecordedCorrect` | `[]RecordedIsApplied` | `Sound`, `Finished`: in the statements still to run a version is recorded after its own statements and after the version before it |
| `LaunchProofs!LaunchCorrect` | `[]LaunchesClean` | `CleanInv`: without fault or edit every object is of a version that is recorded or about to be, so no statement meets one that is there (`Owned`, `Fresh`) |
| `LaunchProofs!MemoryCorrect` | `[]MemoryIsFile` | `CleanInv`: every command's write returned |
| `LaunchProofs!HoursCorrect` | `HoursEndAtEnd` | arithmetic of one minute, by the order of the bounds |
| `LaunchProofs!BlockedCorrect` | `[]BlockedAsWritten` | a glob match is a path of places in the name (`Aligned`); by induction over the parts `Fits` is the end of such paths (`MatchesIs`), and by induction over the pattern parts and letters reach the same places (`PartedIs`, `PartsAre`) |
| `AnalysisProofs!CeilingCorrect` | `[]WithinCeiling` | `SpendInv`: the total grows by estimates that were compared, until the synthesis |
| `AnalysisProofs!SessionsCorrect` | `[]SessionsAreWhole` | after every turn the sessions are stretches of the sorted day between bounds that grow (`Divides`), by induction over the turns |
| `AnalysisProofs!AnswersCorrect` | `WholeEntriesSurvive` | where the scan stands after every token of an entry, by induction over entries; of a cut answer the last brace it noted closes the last whole entry |
| `AnalysisProofs!RankingCorrect` | `[]BestOnTop` | `SavedInv`: `Precedes` is a strict weak order, so the sorted rows have no pair out of order, and what is not suppressed is a beginning of them |
| `AnalysisProofs!RefusalCorrect` | `[]RefusedStaysAway` | `VerdictInv`: a verdict among the newest that was there when the run began is in `prior`, or was compared with every row the run saved |

Why the strengthenings. `FlagGuardsTask` says nothing of a poll that is already due,
`TwiceOnlyIfShared` nothing of a run that has still to mail, `EvidenceKept` nothing of a tick
between two writes, `SecretsStable` nothing of a boot that is still minting,
`OnlyGoodLinksReachTheRow` nothing of a request that is still on its way, `FinishedIsGone` nothing
of a start that waits for the lock, `LaunchesClean` nothing of a batch half run. None of them is
inductive as it stands; the invariants above add those facts.

Recursion and induction. The loops of the analysis and of the blocklist are recursive functions
in the modules. The library's induction theorems take a predicate, which no installed prover
instantiates; `Least`, `Induct` and `InductTo` say the same of a set of numbers, and
`Recursion` that the function a definition describes exists. With them what a loop computes is
proved for arguments of any length. `AnalysisProofs` and `LaunchProofs` each state these four
lemmas, since neither extends the other's model.

Assumptions. They are the named `ASSUME`s of the modules, and TLC evaluates them in every run.

- Of sets: captures are numbers, the trigger's slots are not the commands, callbacks, refreshes
  and clears are different tasks; `None`, `Missing`, `Torn` are no value of the kind they stand
  in for (`NoneAssumption`, `NoConfigAssumption`, `EmptySlotAssumption`, `LinkAssumption`), as
  Rust's `Option` and a file that does not parse are none. The bounds are numbers.
- `GateAssumption`: days are numbered from 0 and a day has a last instant.
- `TitlesAssumption`: titles and patterns are texts. `Settings`: the cadences the page offers are
  not 0; those of a hand edit may be.
- `LimitsAssumption`: `MinCaptures` is at most 2, as `ClusterConfig::default` has it, the only
  configuration `run_cycle` uses. With 3 a session that is dropped would hold neighbours that
  `SessionsAreWhole` finds parted.
- `DaysAssumption`: the rows of a run have ids of their own and are finitely many.
  `RepliesAssumption`: an answer is the text of a list, with or without a fence, as far as it
  came. `ProposalAssumption`, `TiersAssumption`: the fields serde demands, in whole numbers.
  `PricesAssumption`: estimates are not negative.
- `VaultProofs` is about `PatientSpec`, as the runs are: a user waits for one save or clear before
  the next. Section 3 says what the code does to one who does not.

What the proofs found in the models. `Parts` and `Score` had a `CASE` whose guards overlapped. TLC
takes the first one that holds, the logic says nothing of the choice: TLC's answer was the
code's, the definition was not. Both are `IF`s now, in the code's order. `GateAssumption` had to
be stated: without a day there is no next minute.

Only model-checked: liveness (`FlagReleased`, `DueCycleCompletes`, `CommandReturns`);
fairness and `ENABLED` are out of the prover's reach. Every other property of a passing run is a
theorem.

## 5. Not modelled, and the plan

`PROJECT.json` gives the reason for every component that is not modelled or modelled in part.
Left, in order:

1. `Pipeline`: composes `CaptureTick` and `Cycle`; the tick's row insert and credit refine
   `RecordCapture` and `CreditTick`.
2. An abstract trigger (due, running, done) that `Cycle` implements, with its proof.
3. `Vault` as an abstract store (an account's value, or nothing) for `OAuthFlow`'s atomic calls:
   `SavedReadable` and `NeverStale` are what it would promise.

Not to be modelled: the cipher, HTTP wire formats, image processing, the wording of prompts, mails
and templates, floating-point rounding of prices and scores, the windows and the tray, the
activity thread (idleness is a choice of the environment), the command-line drivers and tests.
