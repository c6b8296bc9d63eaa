------------------------------- MODULE Vault -------------------------------
(***************************************************************************)
(* Where AgentScout keeps its secrets, and the boot that depends on them.  *)
(* store_secret, load_secret and delete_secret work on the OS keychain and *)
(* on the encrypted-file fallback; each runs on tokio's blocking pool with *)
(* no lock, one keychain or file call at a time.  bootstrap loads or mints *)
(* the file-encryption DEK and the link secret, and wipes old captures when*)
(* the DEK is new.                                                         *)
(*                                                                         *)
(* Secrets and master keys are numbers minted from nextId, so no two are   *)
(* equal.  A file write is atomic unless the process dies or the write     *)
(* fails in it, which may leave the file torn.  The keychain is external.  *)
(***************************************************************************)
EXTENDS Naturals

CONSTANTS
  Dek, Link,    \* the accounts of bootstrap: file-dek-v1, install-secret-v1
  UserAccounts, \* the accounts commands store: API key, Gmail credentials
  Boot,         \* the bootstrap task
  Users,        \* slots for the commands and callbacks that store or clear
  Captures,     \* captures a behaviour can take
  OldCaptures,  \* those an earlier version left, under a DEK that is lost
  None, Torn,   \* nothing there; a file that was half written
  MaxIds,       \* bound on minted secrets and master keys
  MaxLapses,    \* bound on changes of the keychain's behaviour
  MaxCrashes    \* bound on process deaths

Accounts == {Dek, Link} \cup UserAccounts
Clients == {Boot} \cup Users

ASSUME AccountsAssumption == Dek # Link /\ {Dek, Link} \cap UserAccounts = {}
ASSUME ClientsAssumption == Boot \notin Users
ASSUME CapturesAssumption == OldCaptures \subseteq Captures
ASSUME NoneAssumption ==
  /\ None # Torn /\ {None, Torn} \cap Nat = {}
  /\ \A x \in {None, Torn} : x \notin Accounts /\ x \notin [value : Nat, key : Nat]
  /\ None \notin Nat \X Nat
ASSUME BoundsAssumption ==
  MaxIds \in Nat /\ MaxLapses \in Nat /\ MaxCrashes \in Nat

VARIABLES
  \* the keychain and the disk, which outlive the process
  mode,         \* the keychain "works", "drops" writes silently, or "refuses"
  keychain,     \* account -> secret, or None
  flag,         \* .secrets/.use-file exists
  master,       \* .secrets/.master: a key, None or Torn
  files,        \* .secrets/<account>.enc: a secret and its key, None or Torn
  row,          \* captures table: the DEK of the capture's files, or None
  image,        \* the capture's file: its DEK, or None
  oldSkips,     \* skip_log still has the rows of the earlier version
  \* the process
  boot,         \* where bootstrap stands
  dek, link,    \* the secrets it runs with
  pc, account, value, key,  \* per client: its step, and its local variables
  \* bookkeeping of the model
  nextId, lapses, crashes,
  promised,     \* account -> what its last finished call left; Torn if it failed
  lingering,    \* accounts whose last clear failed to remove what was there
  first         \* <<dek, link>> of the first process that came up, or None

secrets == <<keychain, flag, master, files>>
table   == <<row, image, oldSkips>>
proc    == <<boot, dek, link>>
calls   == <<pc, account, value, key>>
bounds  == <<lapses, crashes>>
vars    == <<mode, secrets, table, proc, calls, nextId, bounds, promised,
             lingering, first>>

Lost == 1       \* the ephemeral DEK of the earlier version
Ids  == 1 .. nextId - 1

Init ==
  /\ mode \in {"works", "drops", "refuses"}
  /\ keychain = [a \in Accounts |-> None]
  /\ flag = FALSE /\ master = None
  /\ files = [a \in Accounts |-> None]
  /\ row = [c \in Captures |-> IF c \in OldCaptures THEN Lost ELSE None]
  /\ image = row
  /\ oldSkips = (OldCaptures # {})
  /\ boot = "dek" /\ dek = None /\ link = None
  /\ pc = [p \in Clients |-> "idle"]
  /\ account = [p \in Clients |-> None]
  /\ value = [p \in Clients |-> None]
  /\ key = [p \in Clients |-> None]
  /\ nextId = Lost + 1 /\ lapses = 0 /\ crashes = 0
  /\ promised = [a \in Accounts |-> None]
  /\ lingering = {}
  /\ first = None

\* fallback_get: the file's secret, if its key is the master key.
FromFile(a) ==
  IF files[a] = None THEN None
  ELSE IF files[a] # Torn /\ master # Torn /\ files[a].key = master
       THEN files[a].value ELSE Torn

\* load_secret; Torn stands for an error.
Visible(a) ==
  IF flag \/ mode = "refuses" THEN FromFile(a) ELSE keychain[a]

-----------------------------------------------------------------------------
(* store_secret and delete_secret, one keychain or file call at a time *)

Goto(p, s) == pc' = [pc EXCEPT ![p] = s]

\* The call is over; bootstrap goes on with its next step, or gives up.
Return(p, ok, result) ==
  /\ Goto(p, "idle")
  /\ account' = [account EXCEPT ![p] = None]
  /\ value' = [value EXCEPT ![p] = None]
  /\ key' = [key EXCEPT ![p] = None]
  /\ promised' = [promised EXCEPT ![account[p]] = result]
  /\ boot' = IF p # Boot THEN boot
             ELSE IF ~ok THEN "dead"
             ELSE IF account[p] = Dek THEN "counting" ELSE "starting"

\* store_secret: the flag decides between the file and the keychain.
BeginStore(p, a, v) ==
  /\ Goto(p, IF flag THEN "master" ELSE "writing")
  /\ account' = [account EXCEPT ![p] = a]
  /\ value' = [value EXCEPT ![p] = v]
  /\ UNCHANGED key

\* keyring_set.
KeyringSet(p) ==
  /\ pc[p] = "writing"
  /\ Goto(p, IF mode = "refuses" THEN "marking" ELSE "verifying")
  /\ keychain' = IF mode = "works"
                   THEN [keychain EXCEPT ![account[p]] = value[p]] ELSE keychain
  /\ UNCHANGED <<mode, flag, master, files, table, proc, account, value, key,
                 nextId, bounds, promised, lingering, first>>

\* Faults: the write is not verified; the install goes over to files unmarked.
KeyringVerifyTrusting(p) ==
  /\ pc[p] = "verifying"
  /\ Return(p, TRUE, value[p])
  /\ UNCHANGED <<mode, secrets, table, dek, link, nextId, bounds, lingering,
                 first>>

KeyringVerifyUnmarked(p) ==
  /\ pc[p] = "verifying"
  /\ \/ /\ mode # "refuses" /\ keychain[account[p]] = value[p]
        /\ Return(p, TRUE, value[p])
     \/ /\ mode = "refuses" \/ keychain[account[p]] # value[p]
        /\ Goto(p, "master")
        /\ UNCHANGED <<boot, account, value, key, promised>>
  /\ UNCHANGED <<mode, secrets, table, dek, link, nextId, bounds, lingering,
                 first>>

\* The read-back: the same value, or this install goes over to files.
KeyringVerify(p) ==
  /\ pc[p] = "verifying"
  /\ \/ /\ mode # "refuses" /\ keychain[account[p]] = value[p]
        /\ Return(p, TRUE, value[p])
     \/ /\ mode = "refuses" \/ keychain[account[p]] # value[p]
        /\ Goto(p, "marking")
        /\ UNCHANGED <<boot, account, value, key, promised>>
  /\ UNCHANGED <<mode, secrets, table, dek, link, nextId, bounds, lingering,
                 first>>

\* mark_fallback_in_use.
Mark(p) ==
  /\ pc[p] = "marking"
  /\ Goto(p, "master")
  /\ flag' = TRUE
  /\ UNCHANGED <<mode, keychain, master, files, table, proc, account, value, key,
                 nextId, bounds, promised, lingering, first>>

\* Faults: an existing master key is not looked for; one is handed out twice.
MasterFresh(p) ==
  /\ pc[p] = "master"
  /\ nextId <= MaxIds
  /\ Goto(p, "keying")
  /\ key' = [key EXCEPT ![p] = nextId]
  /\ nextId' = nextId + 1
  /\ UNCHANGED <<mode, secrets, table, proc, account, value, bounds, promised,
                 lingering, first>>

\* load_or_init_fallback_master_key: read it, or make one up.
Master(p) ==
  /\ pc[p] = "master"
  /\ master # Torn
  /\ \/ /\ master # None
        /\ Goto(p, "encrypting")
        /\ key' = [key EXCEPT ![p] = master]
        /\ UNCHANGED nextId
     \/ /\ master = None
        /\ nextId <= MaxIds
        /\ Goto(p, "keying")
        /\ key' = [key EXCEPT ![p] = nextId]
        /\ nextId' = nextId + 1
  /\ UNCHANGED <<mode, secrets, table, proc, account, value, bounds, promised,
                 lingering, first>>

\* The new master key is written, over one that came meanwhile.
NewMaster(p) ==
  /\ pc[p] = "keying"
  /\ Goto(p, "encrypting")
  /\ master' = key[p]
  /\ UNCHANGED <<mode, keychain, flag, files, table, proc, account, value, key,
                 nextId, bounds, promised, lingering, first>>

\* encrypt_to_file.
Encrypt(p) ==
  /\ pc[p] = "encrypting"
  /\ files' = [files EXCEPT ![account[p]] = [value |-> value[p], key |-> key[p]]]
  /\ Return(p, TRUE, value[p])
  /\ UNCHANGED <<mode, keychain, flag, master, table, dek, link, nextId,
                 bounds, lingering, first>>

\* What a write that does not finish leaves of its file.
MasterLeft(p) == IF pc[p] = "keying" THEN {master, Torn} ELSE {master}
FileLeft(p) == IF pc[p] = "encrypting"
                 THEN {files, [files EXCEPT ![account[p]] = Torn]} ELSE {files}

\* A file call fails, or the master key has the wrong length: an error.
StoreFails(p) ==
  /\ pc[p] \in {"marking", "master", "keying", "encrypting"}
  /\ master' \in MasterLeft(p)
  /\ files' \in FileLeft(p)
  /\ Return(p, FALSE, Torn)
  /\ UNCHANGED <<mode, keychain, flag, table, dek, link, nextId, bounds,
                 lingering, first>>

\* delete_secret: the keychain entry goes, then the file, and an error of either
\* is dropped.
KeyringDelete(p) ==
  /\ pc[p] = "erasing"
  /\ Goto(p, "unlinking")
  /\ \/ /\ mode # "refuses"
        /\ keychain' = [keychain EXCEPT ![account[p]] = None]
        /\ UNCHANGED lingering
     \/ /\ mode = "refuses"
        /\ lingering' = IF keychain[account[p]] = None THEN lingering
                          ELSE lingering \cup {account[p]}
        /\ UNCHANGED keychain
  /\ UNCHANGED <<mode, flag, master, files, table, proc, account, value, key,
                 nextId, bounds, promised, first>>

\* Fault: the fallback file is not looked for.
UnlinkNothing(p) ==
  /\ pc[p] = "unlinking"
  /\ Return(p, TRUE, None)
  /\ UNCHANGED <<mode, secrets, table, dek, link, nextId, bounds, lingering,
                 first>>

\* fallback_delete: the account's file, if there is one and it can be removed.
Unlink(p) ==
  /\ pc[p] = "unlinking"
  /\ Return(p, TRUE, None)
  /\ \/ /\ files' = [files EXCEPT ![account[p]] = None]
        /\ UNCHANGED lingering
     \/ /\ files[account[p]] # None
        /\ lingering' = lingering \cup {account[p]}
        /\ UNCHANGED files
  /\ UNCHANGED <<mode, keychain, flag, master, table, dek, link, nextId,
                 bounds, first>>

-----------------------------------------------------------------------------
(* The user: a command saves a credential or clears it *)

Save(u, a) ==
  /\ pc[u] = "idle"
  /\ nextId <= MaxIds
  /\ BeginStore(u, a, nextId)
  /\ nextId' = nextId + 1
  /\ lingering' = lingering \ {a}
  /\ UNCHANGED <<mode, secrets, table, proc, bounds, promised, first>>

Clear(u, a) ==
  /\ pc[u] = "idle"
  /\ Goto(u, "erasing")
  /\ account' = [account EXCEPT ![u] = a]
  /\ lingering' = lingering \ {a}
  /\ UNCHANGED <<mode, secrets, table, proc, value, key, nextId, bounds,
                 promised, first>>

-----------------------------------------------------------------------------
(* bootstrap *)

\* FileCrypto::load_or_init: an error ends the boot, nothing there mints.
LoadDek ==
  /\ boot = "dek" /\ pc[Boot] = "idle"
  /\ \/ /\ Visible(Dek) = Torn
        /\ boot' = "dead"
        /\ UNCHANGED <<dek, calls, nextId>>
     \/ /\ Visible(Dek) \in Ids
        /\ dek' = Visible(Dek) /\ boot' = "link"
        /\ UNCHANGED <<calls, nextId>>
     \/ /\ Visible(Dek) = None
        /\ nextId <= MaxIds
        /\ dek' = nextId /\ nextId' = nextId + 1
        /\ BeginStore(Boot, Dek, nextId)
        /\ UNCHANGED boot
  /\ UNCHANGED <<mode, secrets, table, link, bounds, promised, lingering, first>>

\* cleanup_undecryptable_captures: nothing to do without a row.
CountRows ==
  /\ boot = "counting"
  /\ boot' = IF \A c \in Captures : row[c] = None THEN "link" ELSE "wipeFiles"
  /\ UNCHANGED <<mode, secrets, table, dek, link, calls, nextId, bounds,
                 promised, lingering, first>>

\* Files that cannot be removed are left in place.
WipeFiles ==
  /\ boot = "wipeFiles"
  /\ boot' = "wipeRows"
  /\ \E left \in SUBSET Captures :
       image' = [c \in Captures |-> IF c \in left THEN image[c] ELSE None]
  /\ UNCHANGED <<mode, secrets, row, oldSkips, dek, link, calls, nextId, bounds,
                 promised, lingering, first>>

\* The two DELETEs, each a transaction of its own.
WipeRows ==
  /\ boot = "wipeRows"
  /\ boot' = "wipeSkips"
  /\ row' = [c \in Captures |-> None]
  /\ UNCHANGED <<mode, secrets, image, oldSkips, dek, link, calls, nextId, bounds,
                 promised, lingering, first>>

WipeSkips ==
  /\ boot = "wipeSkips"
  /\ boot' = "link"
  /\ oldSkips' = FALSE
  /\ UNCHANGED <<mode, secrets, row, image, dek, link, calls, nextId, bounds,
                 promised, lingering, first>>

\* A DELETE fails: a warning, and the boot goes on.
WipeFails ==
  /\ boot \in {"wipeRows", "wipeSkips"}
  /\ boot' = "link"
  /\ UNCHANGED <<mode, secrets, table, dek, link, calls, nextId, bounds,
                 promised, lingering, first>>

\* load_or_init_install_secret.
LoadLink ==
  /\ boot = "link" /\ pc[Boot] = "idle"
  /\ \/ /\ Visible(Link) = Torn
        /\ boot' = "dead"
        /\ UNCHANGED <<link, calls, nextId>>
     \/ /\ Visible(Link) \in Ids
        /\ link' = Visible(Link) /\ boot' = "starting"
        /\ UNCHANGED <<calls, nextId>>
     \/ /\ Visible(Link) = None
        /\ nextId <= MaxIds
        /\ link' = nextId /\ nextId' = nextId + 1
        /\ BeginStore(Boot, Link, nextId)
        /\ UNCHANGED boot
  /\ UNCHANGED <<mode, secrets, table, dek, bounds, promised, lingering, first>>

\* The state is managed and the scheduler and the servers run.
Start ==
  /\ boot = "starting"
  /\ boot' = "up"
  /\ first' = IF first = None THEN <<dek, link>> ELSE first
  /\ UNCHANGED <<mode, secrets, table, dek, link, calls, nextId, bounds,
                 promised, lingering>>

-----------------------------------------------------------------------------
(* The scheduler, the keychain and the operating system *)

\* A tick stores its picture, encrypted, and its row.
TakeCapture(c) ==
  /\ boot = "up"
  /\ row[c] = None /\ image[c] = None
  /\ row' = [row EXCEPT ![c] = dek]
  /\ image' = [image EXCEPT ![c] = dek]
  /\ UNCHANGED <<mode, secrets, oldSkips, proc, calls, nextId, bounds,
                 promised, lingering, first>>

\* The keychain is locked or unlocked, or begins or stops dropping writes.
Lapse ==
  /\ lapses < MaxLapses
  /\ lapses' = lapses + 1
  /\ mode' \in {"works", "drops", "refuses"} \ {mode}
  /\ UNCHANGED <<secrets, table, proc, calls, nextId, crashes, promised,
                 lingering, first>>

\* The process dies, in the middle of a file write perhaps, and is started
\* again.  A call that was under way promises nothing about its account.
Crash ==
  /\ crashes < MaxCrashes
  /\ crashes' = crashes + 1
  /\ \E p \in Clients : master' \in MasterLeft(p) /\ files' \in FileLeft(p)
  /\ boot' = "dek" /\ dek' = None /\ link' = None
  /\ pc' = [p \in Clients |-> "idle"]
  /\ account' = [p \in Clients |-> None]
  /\ value' = [p \in Clients |-> None]
  /\ key' = [p \in Clients |-> None]
  /\ promised' = [a \in Accounts |-> IF \E p \in Clients : account[p] = a
                                       THEN Torn ELSE promised[a]]
  /\ UNCHANGED <<mode, keychain, flag, table, nextId, lapses, lingering, first>>

-----------------------------------------------------------------------------
StoreStep(p) == \/ KeyringSet(p) \/ KeyringVerify(p) \/ Mark(p) \/ Master(p)
                \/ NewMaster(p) \/ Encrypt(p) \/ StoreFails(p)
                \/ KeyringDelete(p) \/ Unlink(p)

BootStep == \/ LoadDek \/ CountRows \/ WipeFiles \/ WipeRows \/ WipeSkips
            \/ WipeFails \/ LoadLink \/ Start

Next ==
  \/ \E p \in Clients : StoreStep(p)
  \/ \E u \in Users, a \in UserAccounts : Save(u, a) \/ Clear(u, a)
  \/ BootStep
  \/ \E c \in Captures : TakeCapture(c)
  \/ Lapse \/ Crash

Spec == Init /\ [][Next]_vars

\* What a user does who waits: credentials are saved and cleared one at a time,
\* in a process that is up.
Patient ==
  /\ \A u \in Users : pc[u] # "idle" => boot = "up"
  /\ \A u, w \in Users : pc[u] # "idle" /\ pc[w] # "idle" => u = w

PatientSpec == Init /\ [][Next /\ Patient']_vars

-----------------------------------------------------------------------------
(* Properties *)

\* The keychain has left behaving as it did when the install began.
Steady == lapses = 0

\* With a keychain like that, a broken one included, every process that comes up
\* runs with the DEK and the link secret of the first one (secrets.rs:47, "so the
\* DEK is stable across restarts"; crypto.rs:255, links "remain valid for 60 days").
SecretsStable == Steady /\ boot = "up" => first = <<dek, link>>

\* What this version has captured can be decrypted with the DEK the next boot
\* will load, at any moment, also in the middle of a boot or a cleanup.
CapturesReadable ==
  Steady => \A c \in Captures : row[c] \notin {None, Lost} => row[c] = Visible(Dek)

\* No call is under way on the account, and its last one did what it reported.
Settled(a) ==
  /\ \A p \in Clients : account[p] # a
  /\ promised[a] # Torn /\ a \notin lingering

\* With a steady keychain, an acknowledged save is what a read returns, and an
\* acknowledged clear leaves nothing to read, unless a removal failed in it, an
\* error that delete_secret drops (secrets.rs:247).
SavedReadable ==
  \A a \in Accounts : Steady /\ Settled(a) => Visible(a) = promised[a]

\* However often the keychain changes its mind and wherever the process dies, a
\* fallback file that is whole was encrypted under the master key that is there.
FilesDecrypt ==
  \A a \in Accounts : files[a] \notin {None, Torn} => files[a].key = master

\* However often the keychain changes its mind and wherever the process dies, a
\* read returns the newest value, nothing or an error, and never an older value
\* that a later save or clear replaced: the switch to files hides the secrets of
\* the other accounts (secrets.rs:219), and no later step brings a stale one back
\* (secrets.rs:245, "we don't want a stale value lingering").
NeverStale ==
  \A a \in Accounts : Settled(a) => Visible(a) \in {promised[a], None, Torn}
=============================================================================
