----------------------------- MODULE VaultProofs -----------------------------
(***************************************************************************)
(* Proofs about Vault, for any accounts, users, captures, minted secrets,  *)
(* changes of the keychain and deaths of the process, for users who wait:  *)
(* a whole fallback file can be decrypted, a read returns no replaced      *)
(* value, what was saved can be read, captures too, and the secrets of the *)
(* first process are those of every later one.                             *)
(***************************************************************************)
EXTENDS Vault, TLAPS

Secret == Ids \cup {None}
Storing == {"writing", "verifying", "marking", "master", "keying", "encrypting"}
Points == Storing \cup {"idle", "erasing", "unlinking"}
Stages == {"dek", "counting", "wipeFiles", "wipeRows", "wipeSkips", "link",
           "starting", "up", "dead"}

\* Types of the variables.
TypeOK ==
  /\ mode \in {"works", "drops", "refuses"} /\ flag \in BOOLEAN
  /\ keychain \in [Accounts -> Secret]
  /\ master \in Secret \cup {Torn}
  /\ files \in [Accounts -> [value : Ids, key : Ids] \cup {None, Torn}]
  /\ row \in [Captures -> Secret] /\ image \in [Captures -> Secret]
  /\ oldSkips \in BOOLEAN
  /\ boot \in Stages /\ dek \in Secret /\ link \in Secret
  /\ pc \in [Clients -> Points]
  /\ account \in [Clients -> Accounts \cup {None}]
  /\ value \in [Clients -> Secret] /\ key \in [Clients -> Secret]
  /\ nextId \in Nat \ {0, 1} /\ lapses \in Nat /\ crashes \in Nat
  /\ promised \in [Accounts -> Secret \cup {Torn}]
  /\ first \in (Ids \X Ids) \cup {None}
  /\ lingering \subseteq Accounts

\* Who works on what: one client at a time, bootstrap before it is up, on the
\* secret it has just minted, and the users after.
CallsInv ==
  /\ \A p \in Clients : pc[p] = "idle" <=> account[p] = None
  /\ \A p \in Clients : pc[p] \in Storing => value[p] \in Ids
  /\ \A u \in Users :
       account[u] \in UserAccounts \cup {None} /\ (pc[u] # "idle" => boot = "up")
  /\ \A p, q \in Clients : pc[p] # "idle" /\ pc[q] # "idle" => p = q
  /\ pc[Boot] # "idle" =>
       /\ pc[Boot] \in Storing
       /\ \/ boot = "dek" /\ account[Boot] = Dek /\ value[Boot] = dek
          \/ boot = "link" /\ account[Boot] = Link /\ value[Boot] = link
  /\ boot \notin {"dek", "dead"} => dek \in Ids
  /\ boot \in {"starting", "up"} => link \in Ids

\* The master key: made up only where there is none, and so no file; used as
\* it is there; and only on an install that went over to files.
KeyInv ==
  /\ \A p \in Clients :
       /\ pc[p] = "keying" => master = None /\ key[p] \in Ids
       /\ pc[p] = "encrypting" => master = key[p] /\ key[p] \in Ids
       /\ pc[p] \in {"master", "keying", "encrypting"} => flag
  /\ ~flag => master = None /\ \A a \in Accounts : files[a] = None
  /\ FilesDecrypt

\* Whatever the keychain does: where a read looks there is the newest value of a
\* settled account or none; the keychain is written only on an install that has
\* not gone over to files; a deletion that left its entry is known to linger.
Fresh(a) == IF flag THEN files[a] \notin {None, Torn} => files[a].value = promised[a]
            ELSE keychain[a] \in {None, promised[a]}

FreshInv ==
  /\ \A a \in Accounts : Settled(a) => Fresh(a)
  /\ \A p \in Clients :
       /\ pc[p] \in {"writing", "verifying"} => ~flag
       /\ pc[p] = "unlinking" => keychain[account[p]] = None \/ account[p] \in lingering

\* A steady keychain: one that works is used alone, one that does not never
\* holds anything; a deletion clears it before the file.
SteadyInv ==
  /\ mode = "works" => ~flag
  /\ mode # "works" => \A a \in Accounts : keychain[a] = None
  /\ \A p \in Clients :
       /\ pc[p] = "marking" => mode # "works"
       /\ pc[p] = "verifying" /\ mode = "works" => keychain[account[p]] = value[p]
       /\ pc[p] = "unlinking" => keychain[account[p]] = None

\* A steady install: what bootstrap runs with is what a read returns, from the
\* first process that came up on; while a secret is being minted there is none.
RunInv ==
  /\ boot \notin {"dek", "dead"} => dek = Visible(Dek)
  /\ boot \in {"starting", "up"} => link = Visible(Link)
  /\ first # None => Visible(Dek) = first[1] /\ Visible(Link) = first[2]
  /\ pc[Boot] # "idle" => first = None
  /\ pc[Boot] # "idle" /\ boot = "dek" =>
       \A c \in Captures : row[c] \in {None, Lost}
  /\ SecretsStable /\ CapturesReadable

BootInv == RunInv /\ SavedReadable

VaultInv == CallsInv /\ KeyInv /\ FreshInv /\ (Steady => SteadyInv /\ BootInv)

\* The steps of Next, one disjunct per action.
LEMMA NextCases ==
  ASSUME Next
  PROVE  \/ \E p \in Clients : KeyringSet(p)
         \/ \E p \in Clients : KeyringVerify(p)
         \/ \E p \in Clients : Mark(p)
         \/ \E p \in Clients : Master(p)
         \/ \E p \in Clients : NewMaster(p)
         \/ \E p \in Clients : Encrypt(p)
         \/ \E p \in Clients : StoreFails(p)
         \/ \E p \in Clients : KeyringDelete(p)
         \/ \E p \in Clients : Unlink(p)
         \/ \E u \in Users, a \in UserAccounts : Save(u, a)
         \/ \E u \in Users, a \in UserAccounts : Clear(u, a)
         \/ LoadDek \/ LoadLink
         \/ CountRows \/ WipeFiles \/ WipeRows \/ WipeSkips \/ WipeFails \/ Start
         \/ \E c \in Captures : TakeCapture(c)
         \/ Lapse \/ Crash
BY DEF Next, StoreStep, BootStep

-----------------------------------------------------------------------------
(* Types *)

LEMMA Shapes ==
  /\ None # Torn /\ None \notin Nat /\ Torn \notin Nat
  /\ None \notin Accounts /\ Torn \notin Accounts
  /\ \A v, k \in Nat : [value |-> v, key |-> k] \notin {None, Torn}
  /\ \A v, k \in Nat : <<v, k>> # None
  /\ Boot \in Clients /\ Boot \notin Users /\ Users \subseteq Clients
  /\ Clients \ {Boot} = Users
  /\ Dek \in Accounts /\ Link \in Accounts /\ Dek # Link
  /\ UserAccounts \subseteq Accounts /\ Dek \notin UserAccounts /\ Link \notin UserAccounts
<1>1. \A v, k \in Nat : [value |-> v, key |-> k] \in [value : Nat, key : Nat]
  OBVIOUS
<1>2. \A v, k \in Nat : <<v, k>> \in Nat \X Nat
  OBVIOUS
<1>3. None # Torn /\ None \notin Nat /\ Torn \notin Nat
  BY NoneAssumption
<1>4. /\ \A x \in {None, Torn} : x \notin Accounts /\ x \notin [value : Nat, key : Nat]
      /\ None \notin Nat \X Nat
  BY NoneAssumption
<1> HIDE DEF Accounts
<1>5. /\ \A v, k \in Nat : [value |-> v, key |-> k] \notin {None, Torn}
      /\ \A v, k \in Nat : <<v, k>> # None
  BY <1>1, <1>2, <1>4
<1> QED BY <1>3, <1>4, <1>5, AccountsAssumption, ClientsAssumption DEF Accounts, Clients

\* Minted secrets stay minted.
LEMMA IdsGrow ==
  /\ nextId \in Nat /\ nextId' = nextId => Ids' = Ids
  /\ nextId \in Nat \ {0, 1} /\ nextId' = nextId + 1 =>
        Ids \subseteq Ids' /\ nextId \in Ids' /\ nextId' \in Nat \ {0, 1}
  /\ nextId \in Nat => Ids \subseteq Nat
BY DEF Ids

\* The types of a call, of what it is about, and of the secrets.
CallsType ==
  /\ boot \in Stages
  /\ pc \in [Clients -> Points]
  /\ account \in [Clients -> Accounts \cup {None}]
  /\ value \in [Clients -> Secret] /\ key \in [Clients -> Secret]
  /\ promised \in [Accounts -> Secret \cup {Torn}]

SecretsType ==
  /\ mode \in {"works", "drops", "refuses"} /\ flag \in BOOLEAN
  /\ keychain \in [Accounts -> Secret]
  /\ master \in Secret \cup {Torn}
  /\ files \in [Accounts -> [value : Ids, key : Ids] \cup {None, Torn}]

RestType ==
  /\ row \in [Captures -> Secret] /\ image \in [Captures -> Secret]
  /\ oldSkips \in BOOLEAN
  /\ dek \in Secret /\ link \in Secret
  /\ nextId \in Nat \ {0, 1} /\ lapses \in Nat /\ crashes \in Nat
  /\ first \in (Ids \X Ids) \cup {None}

LEMMA TypeParts ==
  TypeOK <=> CallsType /\ SecretsType /\ RestType /\ lingering \subseteq Accounts
BY DEF TypeOK, CallsType, SecretsType, RestType

LEMMA ReturnType ==
  ASSUME CallsType, NEW p \in Clients, NEW ok \in BOOLEAN, NEW r \in Secret \cup {Torn},
         Return(p, ok, r), Ids' = Ids
  PROVE  CallsType'
BY DEF CallsType, Return, Goto, Points, Stages, Secret

LEMMA BeginType ==
  ASSUME CallsType, NEW p \in Clients, NEW a \in Accounts, nextId \in Nat \ {0, 1},
         nextId' = nextId + 1, BeginStore(p, a, nextId), UNCHANGED <<boot, promised>>
  PROVE  CallsType'
<1>1. Ids \subseteq Ids' /\ nextId \in Ids'
  BY IdsGrow
<1>2. Secret \subseteq Secret' /\ nextId \in Secret'
  BY <1>1 DEF Secret
<1>3. pc' \in [Clients -> Points] /\ account' \in [Clients -> Accounts \cup {None}]
  BY DEF CallsType, BeginStore, Goto, Points, Storing
<1>4. value' \in [Clients -> Secret'] /\ key' \in [Clients -> Secret']
  BY <1>2 DEF CallsType, BeginStore
<1>5. promised' \in [Accounts -> Secret' \cup {Torn}]
  BY <1>2 DEF CallsType
<1> QED BY <1>3, <1>4, <1>5 DEF CallsType

\* Parts that a step leaves alone stay typed while secrets are minted.
LEMMA Minted ==
  ASSUME nextId \in Nat \ {0, 1}, nextId' = nextId + 1
  PROVE  /\ SecretsType /\ UNCHANGED <<mode, secrets>> => SecretsType'
         /\ RestType /\ UNCHANGED <<table, bounds, first>>
                /\ dek' \in {dek, nextId} /\ link' \in {link, nextId} => RestType'
<1>1. Ids \subseteq Ids' /\ nextId \in Ids' /\ nextId' \in Nat \ {0, 1}
  BY IdsGrow
<1>2. Secret \subseteq Secret' /\ nextId \in Secret'
  BY <1>1 DEF Secret
<1>3. ASSUME SecretsType, UNCHANGED <<mode, secrets>> PROVE SecretsType'
  <2>1. [value : Ids, key : Ids] \subseteq [value : Ids', key : Ids']
    BY <1>1
  <2>2. files' \in [Accounts -> [value : Ids', key : Ids'] \cup {None, Torn}]
    BY <1>3, <2>1 DEF SecretsType, secrets
  <2> QED BY <1>2, <1>3, <2>2 DEF SecretsType, secrets
<1>4. ASSUME RestType, UNCHANGED <<table, bounds, first>>,
             dek' \in {dek, nextId}, link' \in {link, nextId}
      PROVE  RestType'
  <2>1. Ids \X Ids \subseteq Ids' \X Ids'
    BY <1>1
  <2>2. first' \in (Ids' \X Ids') \cup {None}
    BY <1>4, <2>1 DEF RestType
  <2> QED BY <1>1, <1>2, <1>4, <2>2 DEF RestType, table, bounds
<1> QED BY <1>3, <1>4

\* Only calls on an account leave something of it behind.
LEMMA LingerType ==
  ASSUME TypeOK, CallsInv, [Next]_vars
  PROVE  lingering' \subseteq Accounts
<1>1. CASE UNCHANGED vars
  BY <1>1 DEF vars, TypeOK
<1>2. ASSUME NEW p \in Clients, KeyringDelete(p) \/ Unlink(p)
      PROVE  lingering' \subseteq Accounts
  <2>1. account[p] \in Accounts
    BY <1>2 DEF KeyringDelete, Unlink, CallsInv, TypeOK
  <2> QED BY <1>2, <2>1 DEF KeyringDelete, Unlink, TypeOK
<1>3. CASE \/ \E p \in Clients : \/ KeyringSet(p) \/ KeyringVerify(p) \/ Mark(p) \/ Master(p)
                                 \/ NewMaster(p) \/ Encrypt(p) \/ StoreFails(p)
           \/ \E u \in Users, b \in UserAccounts : Save(u, b) \/ Clear(u, b)
           \/ LoadDek \/ LoadLink
           \/ CountRows \/ WipeFiles \/ WipeRows \/ WipeSkips \/ WipeFails \/ Start \/ Lapse
           \/ Crash \/ \E c \in Captures : TakeCapture(c)
  <2>1. lingering' \subseteq lingering
    BY <1>3 DEF KeyringSet, KeyringVerify, Mark, Master, NewMaster, Encrypt, StoreFails,
        Save, Clear, LoadDek, LoadLink, CountRows, WipeFiles, WipeRows, WipeSkips,
        WipeFails, Start, Lapse, Crash, TakeCapture
  <2> QED BY <2>1 DEF TypeOK
<1> QED BY <1>1, <1>2, <1>3, NextCases

\* Types are kept by every step: what is encrypted was minted.
LEMMA TypeStep ==
  ASSUME TypeOK, CallsInv, KeyInv, [Next]_vars
  PROVE  TypeOK'
<1>0. CallsType /\ SecretsType /\ RestType /\ lingering' \subseteq Accounts
  BY TypeParts, LingerType
<1> HIDE DEF TypeOK
<1> USE DEF table, proc, calls, bounds
<1>1. nextId \in Nat \ {0, 1} /\ (nextId' = nextId => Ids' = Ids /\ Secret' = Secret)
  BY <1>0, IdsGrow DEF RestType, Secret
<1>2. ASSUME nextId' = nextId
      PROVE  /\ UNCHANGED <<boot, calls, promised>> => CallsType'
             /\ UNCHANGED <<mode, secrets>> => SecretsType'
             /\ UNCHANGED <<table, dek, link, bounds, first>> => RestType'
  <2>1. Ids' = Ids /\ Secret' = Secret
    BY <1>1, <1>2
  <2>2. UNCHANGED <<boot, calls, promised>> => CallsType'
    BY <1>0, <2>1 DEF CallsType
  <2>3. UNCHANGED <<mode, secrets>> => SecretsType'
    BY <1>0, <2>1 DEF SecretsType, secrets
  <2>4. UNCHANGED <<table, dek, link, bounds, first>> => RestType'
    BY <1>0, <1>2, <2>1 DEF RestType
  <2> QED BY <2>2, <2>3, <2>4
<1>3. ASSUME nextId' = nextId, UNCHANGED <<boot, account, value, key, promised>>,
             NEW p \in Clients, NEW s \in Points, Goto(p, s)
      PROVE  CallsType'
  BY <1>0, <1>1, <1>3 DEF CallsType, Goto
<1>4. ASSUME CallsType', SecretsType', RestType' PROVE TypeOK'
  BY <1>0, <1>4 DEF TypeOK, CallsType, SecretsType, RestType
<1>5. CASE UNCHANGED vars
  BY <1>2, <1>4, <1>5 DEF vars
<1>6. ASSUME NEW p \in Clients, KeyringSet(p) PROVE TypeOK'
  <2>1. SecretsType'
    BY <1>0, <1>1, <1>6 DEF KeyringSet, SecretsType, CallsType, Secret
  <2>2. CallsType'
    BY <1>3, <1>6 DEF KeyringSet, Points, Storing
  <2> QED BY <1>2, <1>4, <1>6, <2>1, <2>2 DEF KeyringSet
<1>7. ASSUME NEW p \in Clients, KeyringVerify(p) PROVE TypeOK'
  <2>1. CallsType'
    <3>1. CASE Return(p, TRUE, value[p])
      <4>1. value[p] \in Secret \cup {Torn}
        BY <1>0 DEF CallsType
      <4> QED BY <1>0, <1>1, <1>7, <3>1, <4>1, ReturnType DEF KeyringVerify
    <3>2. CASE Goto(p, "marking") /\ UNCHANGED <<boot, account, value, key, promised>>
      BY <1>3, <1>7, <3>2 DEF KeyringVerify, Points, Storing
    <3> QED BY <1>7, <3>1, <3>2 DEF KeyringVerify
  <2> QED BY <1>2, <1>4, <1>7, <2>1 DEF KeyringVerify
<1>8. ASSUME NEW p \in Clients, Mark(p) PROVE TypeOK'
  <2>1. SecretsType'
    BY <1>0, <1>1, <1>8 DEF Mark, SecretsType
  <2>2. CallsType'
    BY <1>3, <1>8 DEF Mark, Points, Storing
  <2> QED BY <1>2, <1>4, <1>8, <2>1, <2>2 DEF Mark
<1>9. ASSUME NEW p \in Clients, Master(p) PROVE TypeOK'
  <2>1. CASE master # None /\ Goto(p, "encrypting")
               /\ key' = [key EXCEPT ![p] = master] /\ UNCHANGED nextId
    <3>1. master \in Secret
      BY <1>0, <1>9 DEF Master, SecretsType
    <3>2. CallsType'
      BY <1>0, <1>1, <1>9, <2>1, <3>1 DEF Master, CallsType, Goto, Points, Storing
    <3> QED BY <1>2, <1>4, <1>9, <2>1, <3>2 DEF Master
  <2>2. CASE nextId' = nextId + 1 /\ Goto(p, "keying")
               /\ key' = [key EXCEPT ![p] = nextId]
    <3>1. Secret \subseteq Secret' /\ nextId \in Secret'
      BY <1>1, <2>2, IdsGrow DEF Secret
    <3>2. CallsType'
      BY <1>0, <1>9, <2>2, <3>1 DEF Master, CallsType, Goto, Points, Storing
    <3>3. SecretsType' /\ RestType'
      BY <1>0, <1>1, <1>9, <2>2, Minted DEF Master
    <3> QED BY <1>4, <3>2, <3>3
  <2> QED BY <1>9, <2>1, <2>2 DEF Master
<1>10. ASSUME NEW p \in Clients, NewMaster(p) PROVE TypeOK'
  <2>1. SecretsType'
    BY <1>0, <1>1, <1>10 DEF NewMaster, SecretsType, CallsType
  <2>2. CallsType'
    BY <1>3, <1>10 DEF NewMaster, Points, Storing
  <2> QED BY <1>2, <1>4, <1>10, <2>1, <2>2 DEF NewMaster
<1>11. ASSUME NEW p \in Clients, Encrypt(p) PROVE TypeOK'
  <2>1. value[p] \in Ids /\ key[p] \in Ids
    BY <1>11 DEF Encrypt, CallsInv, KeyInv, Storing
  <2>2. [value |-> value[p], key |-> key[p]] \in [value : Ids, key : Ids]
    BY <2>1
  <2>3. SecretsType'
    BY <1>0, <1>1, <1>11, <2>2 DEF Encrypt, SecretsType
  <2>4. CallsType'
    BY <1>0, <1>1, <1>11, <2>1, ReturnType DEF Encrypt, Secret
  <2> QED BY <1>2, <1>4, <1>11, <2>3, <2>4 DEF Encrypt
<1>12. ASSUME NEW p \in Clients, StoreFails(p) PROVE TypeOK'
  <2>1. SecretsType'
    BY <1>0, <1>1, <1>12 DEF StoreFails, MasterLeft, FileLeft, SecretsType
  <2>2. CallsType'
    BY <1>0, <1>1, <1>12, ReturnType DEF StoreFails
  <2> QED BY <1>2, <1>4, <1>12, <2>1, <2>2 DEF StoreFails
<1>13. ASSUME NEW p \in Clients, KeyringDelete(p) PROVE TypeOK'
  <2>1. SecretsType'
    BY <1>0, <1>1, <1>13 DEF KeyringDelete, SecretsType, Secret
  <2>2. CallsType'
    BY <1>3, <1>13 DEF KeyringDelete, Points
  <2> QED BY <1>2, <1>4, <1>13, <2>1, <2>2 DEF KeyringDelete
<1>14. ASSUME NEW p \in Clients, Unlink(p) PROVE TypeOK'
  <2>1. SecretsType'
    BY <1>0, <1>1, <1>14 DEF Unlink, SecretsType
  <2>2. CallsType'
    BY <1>0, <1>1, <1>14, ReturnType DEF Unlink, Secret
  <2> QED BY <1>2, <1>4, <1>14, <2>1, <2>2 DEF Unlink
<1>15. ASSUME NEW u \in Users, NEW a \in UserAccounts, Save(u, a) PROVE TypeOK'
  <2>1. u \in Clients /\ a \in Accounts
    BY Shapes
  <2>2. CallsType'
    BY <1>0, <1>1, <1>15, <2>1, BeginType DEF Save
  <2>3. SecretsType' /\ RestType'
    BY <1>0, <1>1, <1>15, Minted DEF Save
  <2> QED BY <1>4, <2>2, <2>3
<1>16. ASSUME NEW u \in Users, NEW a \in UserAccounts, Clear(u, a) PROVE TypeOK'
  <2>1. u \in Clients /\ a \in Accounts
    BY Shapes
  <2>2. CallsType'
    BY <1>0, <1>1, <1>16, <2>1 DEF Clear, CallsType, Goto, Points
  <2> QED BY <1>2, <1>4, <1>16, <2>2 DEF Clear
<1>17. ASSUME LoadDek \/ LoadLink PROVE TypeOK'
  <2>1. CASE nextId' = nextId /\ UNCHANGED calls /\ boot' \in Stages
               /\ dek' \in {dek} \cup Ids /\ link' \in {link} \cup Ids
    <3>1. CallsType'
      BY <1>0, <1>1, <1>17, <2>1 DEF LoadDek, LoadLink, CallsType
    <3>2. RestType'
      BY <1>0, <1>1, <1>17, <2>1 DEF LoadDek, LoadLink, RestType, Secret
    <3> QED BY <1>2, <1>4, <1>17, <2>1, <3>1, <3>2 DEF LoadDek, LoadLink
  <2>2. CASE nextId' = nextId + 1 /\ UNCHANGED boot
               /\ dek' \in {dek, nextId} /\ link' \in {link, nextId}
               /\ \E a \in Accounts : BeginStore(Boot, a, nextId)
    <3>1. CallsType'
      BY <1>0, <1>1, <1>17, <2>2, Shapes, BeginType DEF LoadDek, LoadLink
    <3>2. SecretsType' /\ RestType'
      BY <1>0, <1>1, <1>17, <2>2, Minted DEF LoadDek, LoadLink
    <3> QED BY <1>4, <3>1, <3>2
  <2> QED BY <1>17, <2>1, <2>2, Shapes DEF LoadDek, LoadLink, Stages
<1>18. CASE CountRows \/ WipeFails
  <2>1. CallsType'
    BY <1>0, <1>1, <1>18 DEF CountRows, WipeFails, CallsType, Stages
  <2> QED BY <1>2, <1>4, <1>18, <2>1 DEF CountRows, WipeFails
<1>19. CASE WipeFiles \/ WipeRows \/ WipeSkips
  <2>1. CallsType'
    BY <1>0, <1>1, <1>19 DEF WipeFiles, WipeRows, WipeSkips, CallsType, Stages
  <2>2. RestType'
    BY <1>0, <1>1, <1>19 DEF WipeFiles, WipeRows, WipeSkips, RestType, Secret
  <2> QED BY <1>2, <1>4, <1>19, <2>1, <2>2 DEF WipeFiles, WipeRows, WipeSkips
<1>20. CASE Lapse
  <2>1. SecretsType'
    BY <1>0, <1>1, <1>20 DEF Lapse, SecretsType, secrets
  <2>2. RestType'
    BY <1>0, <1>1, <1>20 DEF Lapse, RestType
  <2> QED BY <1>2, <1>4, <1>20, <2>1, <2>2 DEF Lapse
<1>21. ASSUME NEW c \in Captures, TakeCapture(c) PROVE TypeOK'
  <2>1. RestType'
    BY <1>0, <1>1, <1>21 DEF TakeCapture, RestType
  <2> QED BY <1>2, <1>4, <1>21, <2>1 DEF TakeCapture
<1>22. CASE Start
  <2>1. dek \in Ids /\ link \in Ids
    BY <1>22 DEF Start, CallsInv
  <2>2. RestType'
    BY <1>0, <1>1, <1>22, <2>1 DEF Start, RestType
  <2>3. CallsType'
    BY <1>0, <1>1, <1>22 DEF Start, CallsType, Stages
  <2> QED BY <1>2, <1>4, <1>22, <2>2, <2>3 DEF Start
<1>23. CASE Crash
  <2>1. CallsType'
    BY <1>0, <1>1, <1>23 DEF Crash, CallsType, Stages, Points, Secret
  <2>2. SecretsType'
    BY <1>0, <1>1, <1>23 DEF Crash, MasterLeft, FileLeft, SecretsType
  <2>3. RestType'
    BY <1>0, <1>1, <1>23 DEF Crash, RestType, Secret
  <2> QED BY <1>4, <2>1, <2>2, <2>3
<1> QED
  BY <1>5, <1>6, <1>7, <1>8, <1>9, <1>10, <1>11, <1>12, <1>13, <1>14, <1>15, <1>16, <1>17,
     <1>18, <1>19, <1>20, <1>21, <1>22, <1>23, NextCases

-----------------------------------------------------------------------------
(* Who works on what *)

\* A call goes on.
LEMMA CallGoesOn ==
  ASSUME TypeOK, CallsInv, Ids \subseteq Ids', NEW p \in Clients, NEW s \in Points,
         pc[p] # "idle", s # "idle", pc[p] \in Storing <=> s \in Storing,
         Goto(p, s), UNCHANGED <<account, value, boot, dek, link>>
  PROVE  CallsInv'
<1>1. pc' = [pc EXCEPT ![p] = s] /\ pc'[p] = s /\ \A q \in Clients \ {p} : pc'[q] = pc[q]
  BY DEF TypeOK, Goto
<1>2. \A q \in Clients : pc'[q] = "idle" <=> pc[q] = "idle"
  BY <1>1
<1>3. \A q \in Clients : pc'[q] \in Storing <=> pc[q] \in Storing
  BY <1>1
<1> QED BY <1>1, <1>2, <1>3, Shapes DEF CallsInv

\* A call ends.
LEMMA CallEnds ==
  ASSUME TypeOK, CallsInv, Ids' = Ids, NEW p \in Clients, NEW ok, NEW r,
         pc[p] # "idle", Return(p, ok, r), UNCHANGED <<dek, link>>
  PROVE  CallsInv'
<1>1. /\ pc'[p] = "idle" /\ account'[p] = None
      /\ \A q \in Clients \ {p} : /\ pc'[q] = pc[q] /\ account'[q] = account[q]
                                  /\ value'[q] = value[q]
  BY DEF TypeOK, Return, Goto
<1>2. \A q \in Clients : pc'[q] = "idle"
  BY <1>1 DEF CallsInv
<1>3. \A q \in Clients : account'[q] = None
  BY <1>1, <1>2 DEF CallsInv
<1>4. CASE p # Boot
  <2>1. boot' = boot
    BY <1>4 DEF Return
  <2> QED BY <1>2, <1>3, <2>1, Shapes DEF CallsInv, Storing
<1>5. CASE p = Boot
  <2>1. boot' \in {"dead", "counting", "starting"}
        /\ (boot' = "counting" => account[Boot] = Dek)
        /\ (boot' = "starting" => account[Boot] # Dek)
    BY <1>5 DEF Return
  <2>2. /\ pc[Boot] # "idle" /\ value[Boot] \in Ids
        /\ \/ boot = "dek" /\ account[Boot] = Dek /\ value[Boot] = dek
           \/ boot = "link" /\ account[Boot] = Link /\ value[Boot] = link /\ dek \in Ids
    BY <1>5, Shapes DEF CallsInv
  <2>3. boot' \in {"counting", "starting"} => dek' \in Ids'
    BY <2>1, <2>2
  <2>4. boot' = "starting" => link' \in Ids'
    BY <2>1, <2>2
  <2> QED BY <1>2, <1>3, <2>1, <2>3, <2>4, Shapes DEF CallsInv, Storing
<1> QED BY <1>4, <1>5

\* No call is touched, and bootstrap is not inside one if it moves.
LEMMA CallsKept ==
  ASSUME CallsInv, Ids \subseteq Ids', UNCHANGED <<pc, account, value>>,
         \/ UNCHANGED <<boot, dek, link>>
         \/ /\ pc[Boot] = "idle" /\ boot # "up"
            /\ boot' \notin {"dek", "dead"} => dek' \in Ids'
            /\ boot' \in {"starting", "up"} => link' \in Ids'
  PROVE  CallsInv'
<1>1. CASE UNCHANGED <<boot, dek, link>>
  BY <1>1 DEF CallsInv
<1>2. CASE pc[Boot] = "idle" /\ boot # "up"
             /\ (boot' \notin {"dek", "dead"} => dek' \in Ids')
             /\ (boot' \in {"starting", "up"} => link' \in Ids')
  <2>1. \A p \in Clients : pc[p] = "idle"
    BY <1>2, Shapes DEF CallsInv
  <2> QED BY <1>2, <2>1, Shapes DEF CallsInv, Storing
<1> QED BY <1>1, <1>2

LEMMA CallsStep ==
  ASSUME TypeOK, TypeOK', CallsInv, [Next /\ Patient']_vars
  PROVE  CallsInv'
<1> USE DEF proc, calls
<1>1. /\ nextId \in Nat \ {0, 1} /\ Ids \subseteq Nat
      /\ nextId' = nextId => Ids' = Ids
      /\ nextId' = nextId + 1 => Ids \subseteq Ids' /\ nextId \in Ids'
  BY IdsGrow DEF TypeOK
<1>2. CASE UNCHANGED vars
  BY <1>1, <1>2, CallsKept DEF vars
<1>3. ASSUME NEW p \in Clients,
             KeyringSet(p) \/ Mark(p) \/ Master(p) \/ NewMaster(p) \/ KeyringDelete(p)
      PROVE  CallsInv'
  <2>1. Ids \subseteq Ids'
    BY <1>1, <1>3 DEF KeyringSet, Mark, Master, NewMaster, KeyringDelete
  <2>2. UNCHANGED <<account, value, boot, dek, link>> /\ pc[p] # "idle"
    BY <1>3 DEF KeyringSet, Mark, Master, NewMaster, KeyringDelete
  <2>3. \E s \in Points : s # "idle" /\ (pc[p] \in Storing <=> s \in Storing) /\ Goto(p, s)
    BY <1>3 DEF KeyringSet, Mark, Master, NewMaster, KeyringDelete, Points, Storing
  <2> QED BY <2>1, <2>2, <2>3, CallGoesOn
<1>4. ASSUME NEW p \in Clients, KeyringVerify(p) PROVE CallsInv'
  <2>1. Ids' = Ids /\ pc[p] = "verifying" /\ UNCHANGED <<dek, link>>
    BY <1>1, <1>4 DEF KeyringVerify
  <2>2. CASE Return(p, TRUE, value[p])
    BY <2>1, <2>2, CallEnds
  <2>3. CASE Goto(p, "marking") /\ UNCHANGED <<boot, account, value>>
    BY <2>1, <2>3, CallGoesOn DEF Points, Storing
  <2> QED BY <1>4, <2>2, <2>3 DEF KeyringVerify
<1>5. ASSUME NEW p \in Clients, Encrypt(p) \/ StoreFails(p) \/ Unlink(p) PROVE CallsInv'
  <2>1. Ids' = Ids /\ pc[p] # "idle" /\ UNCHANGED <<dek, link>>
    BY <1>1, <1>5 DEF Encrypt, StoreFails, Unlink
  <2>2. \/ Return(p, TRUE, value[p]) \/ Return(p, FALSE, Torn) \/ Return(p, TRUE, None)
    BY <1>5 DEF Encrypt, StoreFails, Unlink
  <2> QED BY <2>1, <2>2, CallEnds
<1>6. ASSUME NEW u \in Users, NEW a \in UserAccounts, Save(u, a) \/ Clear(u, a), Patient'
      PROVE  CallsInv'
  <2>1. u \in Clients /\ a \in Accounts /\ a # None /\ u # Boot
    BY Shapes
  <2>2. /\ UNCHANGED <<boot, dek, link>> /\ Ids \subseteq Ids'
        /\ pc'[u] \in Points \ {"idle"} /\ account'[u] = a
        /\ pc'[u] \in Storing => value'[u] \in Ids'
        /\ \A q \in Clients \ {u} : /\ pc'[q] = pc[q] /\ account'[q] = account[q]
                                    /\ value'[q] = value[q]
    BY <1>1, <1>6, <2>1 DEF Save, Clear, BeginStore, Goto, TypeOK, Points, Storing
  <2>3. boot = "up" /\ \A w \in Users : pc'[w] # "idle" => w = u
    BY <1>6, <2>2 DEF Patient
  <2>4. pc'[Boot] = "idle"
    BY <2>1, <2>2, <2>3, Shapes DEF CallsInv
  <2>5. \A q \in Clients : pc'[q] # "idle" => q = u
    BY <2>3, <2>4, Shapes
  <2> QED BY <2>1, <2>2, <2>3, <2>4, <2>5, Shapes DEF CallsInv
<1>7. CASE LoadDek \/ LoadLink
  <2>1. CASE UNCHANGED <<pc, account, value>>
    <3>1. /\ pc[Boot] = "idle" /\ boot # "up" /\ Ids' = Ids
          /\ boot' \notin {"dek", "dead"} => dek' \in Ids'
          /\ boot' \in {"starting", "up"} => link' \in Ids'
      <4>1. pc'[Boot] # "idle" \/ nextId' = nextId
        BY <1>7, Shapes DEF LoadDek, LoadLink, BeginStore, Goto, TypeOK
      <4>2. pc[Boot] = "idle" /\ nextId' = nextId
        BY <1>7, <2>1, <4>1 DEF LoadDek, LoadLink
      <4>3. nextId # nextId + 1
        BY <1>1
      <4> QED BY <1>1, <1>7, <4>2, <4>3 DEF LoadDek, LoadLink, CallsInv
    <3> QED BY <2>1, <3>1, CallsKept
  <2>2. CASE \E a \in {Dek, Link} : BeginStore(Boot, a, nextId) /\ nextId' = nextId + 1
                /\ UNCHANGED boot
                /\ IF a = Dek THEN boot = "dek" /\ dek' = nextId /\ link' = link
                   ELSE boot = "link" /\ link' = nextId /\ dek' = dek
    <3>1. PICK a \in {Dek, Link} :
                /\ BeginStore(Boot, a, nextId) /\ nextId' = nextId + 1
                /\ UNCHANGED boot
                /\ IF a = Dek THEN boot = "dek" /\ dek' = nextId /\ link' = link
                   ELSE boot = "link" /\ link' = nextId /\ dek' = dek
      BY <2>2
    <3>2. /\ pc'[Boot] \in Storing /\ account'[Boot] = a /\ value'[Boot] = nextId
          /\ nextId \in Ids'
          /\ \A u \in Users : /\ pc'[u] = pc[u] /\ account'[u] = account[u]
                              /\ value'[u] = value[u]
      BY <1>1, <3>1, Shapes DEF BeginStore, Goto, TypeOK, Storing
    <3>3. \A u \in Users : pc'[u] = "idle" /\ account'[u] = None
      <4>1. boot # "up"
        BY <3>1
      <4> QED BY <3>2, <4>1, Shapes DEF CallsInv
    <3>4. dek' \in Ids' \/ boot' = "dek"
      BY <1>1, <3>1, Shapes DEF CallsInv
    <3>5. "idle" \notin Storing /\ a # None
      BY Shapes DEF Storing
    <3>6. \A q \in Clients : q = Boot \/ q \in Users
      BY Shapes
    <3> QED BY <3>1, <3>2, <3>3, <3>4, <3>5, <3>6 DEF CallsInv
  <2> QED BY <1>7, <2>1, <2>2, Shapes DEF LoadDek, LoadLink
<1>8. CASE CountRows \/ WipeFiles \/ WipeRows \/ WipeSkips \/ WipeFails \/ Start
  <2>1. /\ UNCHANGED <<pc, account, value, dek, link>> /\ Ids' = Ids
        /\ boot \in {"counting", "wipeFiles", "wipeRows", "wipeSkips", "starting"}
        /\ boot' \in {"wipeFiles", "wipeRows", "wipeSkips", "link", "up"}
        /\ boot' = "up" <=> boot = "starting"
    BY <1>1, <1>8 DEF CountRows, WipeFiles, WipeRows, WipeSkips, WipeFails, Start
  <2>2. pc[Boot] = "idle"
    BY <2>1 DEF CallsInv
  <2>3. dek \in Ids /\ (boot' = "up" => link \in Ids)
    BY <2>1 DEF CallsInv
  <2> QED BY <2>1, <2>2, <2>3, CallsKept
<1>9. CASE Lapse \/ \E c \in Captures : TakeCapture(c)
  <2>1. UNCHANGED <<pc, account, value, boot, dek, link, nextId>>
    BY <1>9 DEF Lapse, TakeCapture
  <2> QED BY <1>1, <2>1, CallsKept
<1>10. CASE Crash
  BY <1>10, Shapes DEF Crash, CallsInv, Storing
<1> QED BY <1>2, <1>3, <1>4, <1>5, <1>6, <1>7, <1>8, <1>9, <1>10, NextCases

-----------------------------------------------------------------------------
(* The master key *)

WithMaster == {"master", "keying", "encrypting"}

\* No file, flag or master key is touched, and no call comes to need them.
LEMMA KeyKept ==
  ASSUME KeyInv, Ids \subseteq Ids', UNCHANGED <<files, flag, master>>,
         \A p \in Clients : pc'[p] \in WithMaster =>
            \/ pc'[p] = pc[p] /\ key'[p] = key[p]
            \/ pc'[p] = "master" /\ flag
  PROVE  KeyInv'
BY DEF KeyInv, FilesDecrypt, WithMaster

\* Where there is no whole master key there is no whole file.
LEMMA NoKeyNoFile ==
  ASSUME TypeOK, KeyInv, master \notin Ids
  PROVE  \A a \in Accounts : files[a] \in {None, Torn}
<1> SUFFICES ASSUME NEW a \in Accounts, files[a] \notin {None, Torn} PROVE FALSE
  OBVIOUS
<1>1. files[a] \in [value : Ids, key : Ids]
  BY DEF TypeOK
<1>2. files[a].key \in Ids
  BY <1>1
<1> QED BY <1>2 DEF KeyInv, FilesDecrypt

\* What a write leaves that fails, or in which the process dies.
LEMMA LeftOver ==
  ASSUME TypeOK, KeyInv, NEW p \in Clients,
         NEW m \in MasterLeft(p), NEW f \in FileLeft(p)
  PROVE  /\ m = master \/ (master = None /\ m = Torn /\ pc[p] = "keying" /\ f = files)
         /\ \A a \in Accounts : f[a] = files[a] \/ (f[a] = Torn /\ a = account[p])
         /\ \A a \in Accounts : f[a] \notin {None, Torn} => f[a] = files[a] /\ m = master
         /\ ~flag => m = None /\ f = files
<1>1. m = master \/ (m = Torn /\ pc[p] = "keying" /\ master = None /\ flag)
  BY DEF MasterLeft, KeyInv
<1>2. f = files \/ (f = [files EXCEPT ![account[p]] = Torn] /\ pc[p] = "encrypting" /\ flag)
  BY DEF FileLeft, KeyInv
<1>3. pc[p] = "keying" => f = files
  BY <1>2
<1>4. \A a \in Accounts : f[a] = files[a] \/ (f[a] = Torn /\ a = account[p])
  BY <1>2 DEF TypeOK
<1>5. ASSUME NEW a \in Accounts, f[a] \notin {None, Torn}
      PROVE  f[a] = files[a] /\ m = master
  <2>1. f[a] = files[a]
    BY <1>4, <1>5
  <2>2. master \in Ids
    BY <1>5, <2>1, NoKeyNoFile
  <2>3. None \notin Ids
    BY IdsGrow, Shapes DEF TypeOK
  <2> QED BY <1>1, <2>1, <2>2, <2>3
<1>6. ~flag => m = None /\ f = files
  BY <1>1, <1>2 DEF KeyInv
<1> QED BY <1>1, <1>3, <1>4, <1>5, <1>6

LEMMA KeyStep ==
  ASSUME TypeOK, TypeOK', CallsInv, CallsInv', KeyInv, [Next]_vars
  PROVE  KeyInv'
<1> USE DEF proc, calls, secrets
<1>1. /\ nextId \in Nat \ {0, 1} /\ Ids \subseteq Nat
      /\ nextId' = nextId => Ids' = Ids
      /\ nextId' = nextId + 1 => Ids \subseteq Ids' /\ nextId \in Ids'
  BY IdsGrow DEF TypeOK
<1>2. CASE UNCHANGED vars
  BY <1>1, <1>2, KeyKept DEF vars
<1>3. ASSUME NEW p \in Clients, KeyringSet(p) \/ KeyringDelete(p) PROVE KeyInv'
  <2>1. \A q \in Clients : pc'[q] \in WithMaster => pc'[q] = pc[q] /\ key'[q] = key[q]
    BY <1>3 DEF KeyringSet, KeyringDelete, Goto, WithMaster, TypeOK
  <2> QED BY <1>1, <1>3, <2>1, KeyKept DEF KeyringSet, KeyringDelete
<1>4. ASSUME NEW p \in Clients, KeyringVerify(p) PROVE KeyInv'
  <2>1. \A q \in Clients : pc'[q] \in WithMaster => pc'[q] = pc[q] /\ key'[q] = key[q]
    BY <1>4 DEF KeyringVerify, Return, Goto, WithMaster, TypeOK
  <2> QED BY <1>1, <1>4, <2>1, KeyKept DEF KeyringVerify
<1>5. ASSUME NEW p \in Clients, pc[p] # "idle"
      PROVE  \A q \in Clients \ {p} : pc[q] = "idle"
  BY <1>5 DEF CallsInv
<1>6. ASSUME NEW p \in Clients, Mark(p) PROVE KeyInv'
  <2>1. \A q \in Clients : pc'[q] \in WithMaster => q = p /\ pc'[q] = "master"
    BY <1>5, <1>6 DEF Mark, Goto, WithMaster, TypeOK
  <2> QED BY <1>1, <1>6, <2>1 DEF Mark, KeyInv, FilesDecrypt, WithMaster
<1>7. ASSUME NEW p \in Clients, Master(p) PROVE KeyInv'
  <2>1. /\ pc[p] = "master" /\ flag /\ master # Torn
        /\ UNCHANGED <<files, flag, master>> /\ Ids \subseteq Ids'
    BY <1>1, <1>7 DEF Master, KeyInv
  <2>2. \A q \in Clients : pc'[q] \in WithMaster => q = p
    BY <1>5, <1>7 DEF Master, Goto, WithMaster, TypeOK
  <2>3. /\ pc'[p] \in {"keying", "encrypting"}
        /\ pc'[p] = "keying" => master = None /\ key'[p] \in Ids'
        /\ pc'[p] = "encrypting" => master = key'[p] /\ key'[p] \in Ids'
    BY <1>1, <1>7, <2>1 DEF Master, Goto, TypeOK, Secret
  <2> QED BY <2>1, <2>2, <2>3 DEF KeyInv, FilesDecrypt, WithMaster
<1>8. ASSUME NEW p \in Clients, NewMaster(p) PROVE KeyInv'
  <2>1. /\ pc[p] = "keying" /\ flag /\ master = None /\ key[p] \in Ids /\ Ids' = Ids
        /\ UNCHANGED <<files, flag, key>> /\ master' = key[p]
    BY <1>1, <1>8 DEF NewMaster, KeyInv
  <2>2. \A q \in Clients : pc'[q] \in WithMaster => q = p
    BY <1>5, <1>8 DEF NewMaster, Goto, WithMaster, TypeOK
  <2>3. pc'[p] = "encrypting"
    BY <1>8 DEF NewMaster, Goto, TypeOK
  <2>4. \A a \in Accounts : files[a] \in {None, Torn}
    BY <1>1, <2>1, Shapes, NoKeyNoFile
  <2> QED BY <2>1, <2>2, <2>3, <2>4 DEF KeyInv, FilesDecrypt, WithMaster
<1>9. ASSUME NEW p \in Clients, Encrypt(p) PROVE KeyInv'
  <2>1. /\ pc[p] = "encrypting" /\ flag /\ master = key[p]
        /\ UNCHANGED <<flag, master>>
        /\ files' = [files EXCEPT ![account[p]] = [value |-> value[p], key |-> key[p]]]
    BY <1>9 DEF Encrypt, KeyInv
  <2>2. \A q \in Clients : pc'[q] = "idle"
    BY <1>5, <1>9 DEF Encrypt, Return, Goto, TypeOK
  <2>3. \A a \in Accounts : files'[a] = files[a] \/ files'[a].key = master
    BY <2>1 DEF TypeOK
  <2> QED BY <2>1, <2>2, <2>3 DEF KeyInv, FilesDecrypt
<1>10. ASSUME NEW p \in Clients, master' \in MasterLeft(p), files' \in FileLeft(p),
              flag' = flag, \A q \in Clients : pc'[q] = "idle"
       PROVE  KeyInv'
  <2>1. /\ \A a \in Accounts : files'[a] \notin {None, Torn} =>
               files'[a] = files[a] /\ master' = master
        /\ ~flag => master' = None /\ files' = files
    BY <1>10, LeftOver
  <2>2. FilesDecrypt'
    BY <2>1 DEF KeyInv, FilesDecrypt
  <2>3. ~flag' => master' = None /\ \A a \in Accounts : files'[a] = None
    BY <1>10, <2>1 DEF KeyInv
  <2> QED BY <1>10, <2>2, <2>3 DEF KeyInv
<1>11. ASSUME NEW p \in Clients, StoreFails(p) PROVE KeyInv'
  <2>1. \A q \in Clients : pc'[q] = "idle"
    BY <1>5, <1>11 DEF StoreFails, Return, Goto, TypeOK
  <2> QED BY <1>10, <1>11, <2>1 DEF StoreFails
<1>12. ASSUME NEW p \in Clients, Unlink(p) PROVE KeyInv'
  <2>1. \A q \in Clients : pc'[q] = "idle"
    BY <1>5, <1>12 DEF Unlink, Return, Goto, TypeOK
  <2>2. /\ UNCHANGED <<flag, master>>
        /\ \A a \in Accounts : files'[a] = files[a] \/ files'[a] = None
    BY <1>12 DEF Unlink, TypeOK
  <2> QED BY <2>1, <2>2 DEF KeyInv, FilesDecrypt
<1>13. ASSUME NEW u \in Users, NEW a \in UserAccounts, Save(u, a) \/ Clear(u, a)
       PROVE  KeyInv'
  <2>1. UNCHANGED <<files, flag, master>> /\ Ids \subseteq Ids' /\ u \in Clients
    BY <1>1, <1>13, Shapes DEF Save, Clear
  <2>2. \A q \in Clients : pc'[q] \in WithMaster =>
            \/ pc'[q] = pc[q] /\ key'[q] = key[q]
            \/ pc'[q] = "master" /\ flag
    BY <1>13, <2>1 DEF Save, Clear, BeginStore, Goto, WithMaster, TypeOK
  <2> QED BY <2>1, <2>2, KeyKept
<1>14. CASE LoadDek \/ LoadLink
  <2>1. UNCHANGED <<files, flag, master>> /\ Ids \subseteq Ids'
    BY <1>1, <1>14 DEF LoadDek, LoadLink
  <2>2. \A q \in Clients : pc'[q] \in WithMaster =>
            \/ pc'[q] = pc[q] /\ key'[q] = key[q]
            \/ pc'[q] = "master" /\ flag
    BY <1>14, Shapes DEF LoadDek, LoadLink, BeginStore, Goto, WithMaster, TypeOK
  <2> QED BY <2>1, <2>2, KeyKept
<1>15. CASE \/ CountRows \/ WipeFiles \/ WipeRows \/ WipeSkips \/ WipeFails \/ Start \/ Lapse
            \/ \E c \in Captures : TakeCapture(c)
  <2>1. UNCHANGED <<files, flag, master, pc, key, nextId>>
    BY <1>15 DEF CountRows, WipeFiles, WipeRows, WipeSkips, WipeFails, Start, Lapse, TakeCapture
  <2> QED BY <1>1, <2>1, KeyKept
<1>16. CASE Crash
  <2>1. PICK p \in Clients : master' \in MasterLeft(p) /\ files' \in FileLeft(p)
    BY <1>16 DEF Crash
  <2>2. flag' = flag /\ \A q \in Clients : pc'[q] = "idle"
    BY <1>16 DEF Crash
  <2> QED BY <1>10, <2>1, <2>2
<1> QED
  BY <1>2, <1>3, <1>4, <1>6, <1>7, <1>8, <1>9, <1>11, <1>12, <1>13, <1>14, <1>15, <1>16,
     NextCases

-----------------------------------------------------------------------------
(* A steady keychain *)

\* Lapses are counted, so a step into a steady state comes from one.
LEMMA SteadyBefore ==
  ASSUME TypeOK, [Next]_vars, Steady'
  PROVE  Steady /\ mode' = mode
<1> USE DEF bounds
<1>1. CASE Lapse
  <2>1. lapses' = lapses + 1 /\ lapses \in Nat
    BY <1>1 DEF Lapse, TypeOK
  <2>2. lapses' # 0
    BY <2>1
  <2> QED BY <2>2 DEF Steady
<1>2. CASE UNCHANGED <<mode, lapses>>
  BY <1>2 DEF Steady
<1>3. Lapse \/ UNCHANGED <<mode, lapses>>
  <2>1. CASE UNCHANGED vars
    BY <2>1 DEF vars
  <2>2. CASE Next
    BY <2>2, NextCases
    DEF KeyringSet, KeyringVerify, Mark, Master, NewMaster, Encrypt, StoreFails,
        KeyringDelete, Unlink, Save, Clear, LoadDek, LoadLink, CountRows, WipeFiles,
        WipeRows, WipeSkips, WipeFails, Start, TakeCapture, Crash
  <2> QED BY <2>1, <2>2
<1> QED BY <1>1, <1>2, <1>3

\* The keychain and the flag stay, and no call comes to a point that needs them.
LEMMA SteadyKept ==
  ASSUME SteadyInv, mode' = mode, UNCHANGED <<keychain, flag>>,
         \A p \in Clients : pc'[p] \in {"marking", "verifying", "unlinking"} =>
            pc'[p] = pc[p] /\ account'[p] = account[p] /\ value'[p] = value[p]
  PROVE  SteadyInv'
BY DEF SteadyInv

LEMMA SteadyStep ==
  ASSUME TypeOK, CallsInv, KeyInv, SteadyInv, [Next]_vars, mode' = mode
  PROVE  SteadyInv'
<1> USE DEF proc, calls, secrets
<1> DEFINE Held(p) == pc'[p] \in {"marking", "verifying", "unlinking"} =>
                        pc'[p] = pc[p] /\ account'[p] = account[p] /\ value'[p] = value[p]
<1>1. CASE UNCHANGED vars
  BY <1>1, SteadyKept DEF vars
<1>2. ASSUME NEW p \in Clients, pc[p] # "idle"
      PROVE  account[p] \in Accounts /\ \A q \in Clients \ {p} : pc[q] = "idle"
  BY <1>2 DEF CallsInv, TypeOK
<1>3. ASSUME NEW p \in Clients, KeyringSet(p) PROVE SteadyInv'
  <2>1. account[p] \in Accounts /\ \A q \in Clients \ {p} : pc'[q] = "idle"
    BY <1>2, <1>3 DEF KeyringSet, Goto, TypeOK
  <2>2. /\ UNCHANGED <<flag, account, value>>
        /\ pc'[p] = IF mode = "refuses" THEN "marking" ELSE "verifying"
        /\ keychain' = IF mode = "works"
                         THEN [keychain EXCEPT ![account[p]] = value[p]] ELSE keychain
    BY <1>3 DEF KeyringSet, Goto, TypeOK
  <2>3. mode = "works" => keychain'[account[p]] = value[p]
    BY <2>1, <2>2 DEF TypeOK
  <2> QED BY <2>1, <2>2, <2>3 DEF SteadyInv
<1>4. ASSUME NEW p \in Clients, KeyringVerify(p) PROVE SteadyInv'
  <2>1. \A q \in Clients \ {p} : pc'[q] = "idle"
    BY <1>2, <1>4 DEF KeyringVerify, Return, Goto, TypeOK
  <2>2. UNCHANGED <<keychain, flag>> /\ pc[p] = "verifying"
    BY <1>4 DEF KeyringVerify
  <2>3. pc'[p] = "idle" \/ (pc'[p] = "marking" /\ mode # "works")
    <3>1. mode = "works" => keychain[account[p]] = value[p]
      BY <2>2 DEF SteadyInv
    <3> QED BY <1>4, <3>1 DEF KeyringVerify, Return, Goto, TypeOK
  <2> QED BY <2>1, <2>2, <2>3 DEF SteadyInv
<1>5. ASSUME NEW p \in Clients, Mark(p) PROVE SteadyInv'
  <2>1. /\ \A q \in Clients : pc'[q] \in {"idle", "master"}
        /\ mode # "works" /\ keychain' = keychain
    BY <1>2, <1>5 DEF Mark, Goto, SteadyInv, TypeOK
  <2> QED BY <2>1 DEF SteadyInv
<1>6. ASSUME NEW p \in Clients, Master(p) \/ NewMaster(p) PROVE SteadyInv'
  <2>1. UNCHANGED <<keychain, flag>> /\ \A q \in Clients : Held(q)
    BY <1>6 DEF Master, NewMaster, Goto, TypeOK
  <2> QED BY <2>1, SteadyKept
<1>7. ASSUME NEW p \in Clients, Encrypt(p) \/ StoreFails(p) \/ Unlink(p) PROVE SteadyInv'
  <2>1. UNCHANGED <<keychain, flag>> /\ \A q \in Clients : Held(q)
    BY <1>7 DEF Encrypt, StoreFails, Unlink, Return, Goto, TypeOK
  <2> QED BY <2>1, SteadyKept
<1>8. ASSUME NEW p \in Clients, KeyringDelete(p) PROVE SteadyInv'
  <2>1. account[p] \in Accounts /\ \A q \in Clients \ {p} : pc'[q] = "idle"
    BY <1>2, <1>8 DEF KeyringDelete, Goto, TypeOK
  <2>2. /\ UNCHANGED <<flag, account>> /\ pc'[p] = "unlinking"
        /\ \A a \in Accounts : keychain'[a] = keychain[a] \/ keychain'[a] = None
    BY <1>8 DEF KeyringDelete, Goto, TypeOK
  <2>3. keychain'[account[p]] = None
    BY <1>8, <2>1 DEF KeyringDelete, SteadyInv, TypeOK
  <2> QED BY <2>1, <2>2, <2>3 DEF SteadyInv
<1>9. ASSUME NEW u \in Users, NEW a \in UserAccounts, Save(u, a) \/ Clear(u, a)
      PROVE  SteadyInv'
  <2>1. UNCHANGED <<keychain, flag>> /\ \A q \in Clients : Held(q)
    BY <1>9, Shapes DEF Save, Clear, BeginStore, Goto, TypeOK
  <2> QED BY <2>1, SteadyKept
<1>10. CASE LoadDek \/ LoadLink
  <2>1. UNCHANGED <<keychain, flag>> /\ \A q \in Clients : Held(q)
    BY <1>10, Shapes DEF LoadDek, LoadLink, BeginStore, Goto, TypeOK
  <2> QED BY <2>1, SteadyKept
<1>11. CASE \/ CountRows \/ WipeFiles \/ WipeRows \/ WipeSkips \/ WipeFails \/ Start \/ Lapse
            \/ \E c \in Captures : TakeCapture(c)
  <2>1. UNCHANGED <<keychain, flag, pc, account, value>>
    BY <1>11 DEF CountRows, WipeFiles, WipeRows, WipeSkips, WipeFails, Start, Lapse, TakeCapture
  <2> QED BY <2>1, SteadyKept
<1>12. CASE Crash
  BY <1>12, SteadyKept DEF Crash
<1> QED
  BY <1>1, <1>3, <1>4, <1>5, <1>6, <1>7, <1>8, <1>9, <1>10, <1>11, <1>12, NextCases

-----------------------------------------------------------------------------
(* What a read returns *)

\* Nothing of the keychain and of the files has changed.
LEMMA VisibleKept ==
  ASSUME UNCHANGED <<mode, secrets>>
  PROVE  \A a \in Accounts : Visible(a)' = Visible(a)
BY DEF secrets, Visible, FromFile

\* A whole file that the master key opens is read, one that is not there is not.
LEMMA FileReads ==
  ASSUME TypeOK, KeyInv, NEW a \in Accounts
  PROVE  FromFile(a) = IF files[a] \in {None, Torn} THEN files[a] ELSE files[a].value
<1>1. files[a] \notin {None, Torn} => files[a].key = master /\ master # Torn
  <2>1. files[a] \notin {None, Torn} => files[a] \in [value : Ids, key : Ids]
    BY DEF TypeOK
  <2>2. Torn \notin Ids
    BY IdsGrow, Shapes DEF TypeOK
  <2> QED BY <2>1, <2>2 DEF KeyInv, FilesDecrypt
<1> QED BY <1>1, Shapes DEF FromFile

\* The same in a steady install: the keychain, or the files, never both.
LEMMA SteadyReads ==
  ASSUME TypeOK, KeyInv, SteadyInv, NEW a \in Accounts
  PROVE  /\ mode = "works" => Visible(a) = keychain[a] /\ files[a] = None
         /\ mode # "works" => Visible(a) = FromFile(a) /\ keychain[a] = None
<1>1. CASE mode = "works"
  BY <1>1 DEF Visible, KeyInv, SteadyInv
<1>2. CASE mode # "works"
  <2>1. ~flag => FromFile(a) = None
    BY DEF KeyInv, FromFile
  <2> QED BY <1>2, <2>1 DEF Visible, SteadyInv
<1> QED BY <1>1, <1>2

\* A read of an account whose entry and file stay returns the same.
LEMMA ReadsKept ==
  ASSUME TypeOK, TypeOK', KeyInv, KeyInv', SteadyInv, SteadyInv', mode' = mode,
         NEW a \in Accounts, keychain'[a] = keychain[a], files'[a] = files[a]
  PROVE  Visible(a)' = Visible(a)
<1>1. CASE mode = "works"
  <2>1. Visible(a) = keychain[a]
    BY <1>1, SteadyReads
  <2>2. ~flag' /\ mode' = "works"
    BY <1>1 DEF SteadyInv
  <2>3. Visible(a)' = keychain'[a]
    BY <2>2 DEF Visible
  <2> QED BY <2>1, <2>3
<1>2. CASE mode # "works"
  <2>1. Visible(a) = IF files[a] \in {None, Torn} THEN files[a] ELSE files[a].value
    BY <1>2, SteadyReads, FileReads
  <2>2. files'[a] \notin {None, Torn} => files'[a].key = master' /\ master' # Torn
    <3>1. files'[a] \notin {None, Torn} => files'[a] \in [value : Ids', key : Ids']
      BY DEF TypeOK
    <3>2. Torn \notin Ids'
      BY Shapes DEF TypeOK, Ids
    <3> QED BY <3>1, <3>2 DEF KeyInv, FilesDecrypt
  <2>3. FromFile(a)' = IF files'[a] \in {None, Torn} THEN files'[a] ELSE files'[a].value
    BY <2>2, Shapes DEF FromFile
  <2>4. Visible(a)' = FromFile(a)'
    <3>1. ~flag' => files'[a] = None
      BY DEF KeyInv
    <3>2. mode' # "works" => keychain'[a] = None
      BY DEF SteadyInv
    <3> QED BY <1>2, <2>3, <3>1, <3>2 DEF Visible
  <2> QED BY <2>1, <2>3, <2>4
<1> QED BY <1>1, <1>2

\* A step writes only the entry and the file of the account of a call.
LEMMA OthersKept ==
  ASSUME TypeOK, KeyInv, [Next]_vars,
         NEW a \in Accounts, \A p \in Clients : account[p] # a
  PROVE  keychain'[a] = keychain[a] /\ files'[a] = files[a]
<1> USE DEF proc, calls, secrets, table
<1>1. CASE UNCHANGED vars
  BY <1>1 DEF vars
<1>2. CASE UNCHANGED <<keychain, files>>
  BY <1>2
<1>3. ASSUME NEW p \in Clients,
             KeyringSet(p) \/ Encrypt(p) \/ KeyringDelete(p) \/ Unlink(p)
      PROVE  keychain'[a] = keychain[a] /\ files'[a] = files[a]
  <2>1. account[p] # a
    OBVIOUS
  <2> QED BY <1>3, <2>1 DEF KeyringSet, Encrypt, KeyringDelete, Unlink, TypeOK
<1>4. ASSUME NEW p \in Clients, master' \in MasterLeft(p), files' \in FileLeft(p)
      PROVE  files'[a] = files[a]
  <2>1. files'[a] = files[a] \/ (files'[a] = Torn /\ a = account[p])
    BY <1>4, LeftOver
  <2> QED BY <2>1
<1>5. ASSUME NEW p \in Clients, StoreFails(p)
      PROVE  keychain'[a] = keychain[a] /\ files'[a] = files[a]
  BY <1>4, <1>5 DEF StoreFails
<1>6. CASE Crash
  <2>1. PICK p \in Clients : master' \in MasterLeft(p) /\ files' \in FileLeft(p)
    BY <1>6 DEF Crash
  <2> QED BY <1>4, <1>6, <2>1 DEF Crash
<1>7. CASE \/ \E p \in Clients : KeyringVerify(p) \/ Mark(p) \/ Master(p) \/ NewMaster(p)
           \/ \E u \in Users, b \in UserAccounts : Save(u, b) \/ Clear(u, b)
           \/ LoadDek \/ LoadLink
           \/ CountRows \/ WipeFiles \/ WipeRows \/ WipeSkips \/ WipeFails \/ Start \/ Lapse
           \/ \E c \in Captures : TakeCapture(c)
  <2>1. UNCHANGED <<keychain, files>>
    BY <1>7 DEF KeyringVerify, Mark, Master, NewMaster, Save, Clear, LoadDek, LoadLink,
        CountRows, WipeFiles, WipeRows, WipeSkips, WipeFails, Start, Lapse, TakeCapture
  <2> QED BY <2>1
<1> QED BY <1>1, <1>3, <1>5, <1>6, <1>7, NextCases

\* So what is read of an account without a call under way stays the same.
LEMMA VisibleOthers ==
  ASSUME TypeOK, TypeOK', KeyInv, KeyInv', SteadyInv, SteadyInv', mode' = mode,
         [Next]_vars, NEW a \in Accounts, \A p \in Clients : account[p] # a
  PROVE  Visible(a)' = Visible(a)
BY OthersKept, ReadsKept

\* A call goes on with the account it began with.
LEMMA AccountStays ==
  ASSUME TypeOK, [Next]_vars, NEW p \in Clients, pc[p] # "idle", pc'[p] # "idle"
  PROVE  account'[p] = account[p]
<1> USE DEF calls
<1>1. CASE UNCHANGED vars
  BY <1>1 DEF vars
<1>2. ASSUME NEW q \in Clients, NEW ok, NEW r, Return(q, ok, r)
      PROVE  account'[p] = account[p]
  <2>1. q # p
    BY <1>2 DEF Return, Goto, TypeOK
  <2> QED BY <1>2, <2>1 DEF Return, TypeOK
<1>3. ASSUME NEW q \in Clients,
             KeyringVerify(q) \/ Encrypt(q) \/ StoreFails(q) \/ Unlink(q)
      PROVE  account'[p] = account[p]
  BY <1>2, <1>3 DEF KeyringVerify, Encrypt, StoreFails, Unlink
<1>4. CASE Crash
  BY <1>4 DEF Crash
<1>5. ASSUME NEW u \in Clients, NEW a, NEW v, pc[u] = "idle",
             BeginStore(u, a, v) \/ account' = [account EXCEPT ![u] = a]
      PROVE  account'[p] = account[p]
  BY <1>5 DEF BeginStore, TypeOK
<1>6. ASSUME NEW u \in Users, NEW a \in UserAccounts, Save(u, a) \/ Clear(u, a)
      PROVE  account'[p] = account[p]
  BY <1>5, <1>6, Shapes DEF Save, Clear
<1>7. CASE LoadDek \/ LoadLink
  BY <1>5, <1>7, Shapes DEF LoadDek, LoadLink
<1>8. CASE \/ \E q \in Clients : \/ KeyringSet(q) \/ Mark(q) \/ Master(q) \/ NewMaster(q)
                                 \/ KeyringDelete(q)
           \/ CountRows \/ WipeFiles \/ WipeRows \/ WipeSkips \/ WipeFails \/ Start \/ Lapse
           \/ \E c \in Captures : TakeCapture(c)
  BY <1>8 DEF KeyringSet, Mark, Master, NewMaster, KeyringDelete, CountRows, WipeFiles,
      WipeRows, WipeSkips, WipeFails, Start, Lapse, TakeCapture
<1> QED BY <1>1, <1>3, <1>4, <1>6, <1>7, <1>8, NextCases

\* The steps that end a call under way.
LEMMA Endings ==
  ASSUME TypeOK, CallsInv, [Next]_vars,
         NEW p \in Clients, pc[p] # "idle", pc'[p] = "idle"
  PROVE  KeyringVerify(p) \/ Encrypt(p) \/ Unlink(p) \/ StoreFails(p) \/ Crash
<1> USE DEF calls
<1>0. \A q \in Clients : q # p => pc[q] = "idle"
  BY DEF CallsInv
<1>1. CASE UNCHANGED vars
  BY <1>1 DEF vars
<1>2. ASSUME NEW q \in Clients,
             \/ KeyringSet(q) \/ KeyringVerify(q) \/ Mark(q) \/ Master(q) \/ NewMaster(q)
             \/ Encrypt(q) \/ StoreFails(q) \/ KeyringDelete(q) \/ Unlink(q)
      PROVE  KeyringVerify(p) \/ Encrypt(p) \/ Unlink(p) \/ StoreFails(p)
  <2>1. pc[q] # "idle"
    BY <1>2 DEF KeyringSet, KeyringVerify, Mark, Master, NewMaster, Encrypt, StoreFails,
        KeyringDelete, Unlink
  <2>2. q = p
    BY <1>0, <2>1
  <2>3. ~(KeyringSet(p) \/ Mark(p) \/ Master(p) \/ NewMaster(p) \/ KeyringDelete(p))
    BY DEF KeyringSet, Mark, Master, NewMaster, KeyringDelete, Goto, TypeOK
  <2> QED BY <1>2, <2>2, <2>3
<1>3. ASSUME NEW q \in Clients, NEW s \in Points, Goto(q, s), pc[q] = "idle" PROVE FALSE
  BY <1>3 DEF Goto, TypeOK
<1>4. ASSUME NEW u \in Users, NEW a \in UserAccounts, Save(u, a) \/ Clear(u, a) PROVE FALSE
  <2>1. u \in Clients /\ pc[u] = "idle"
    BY <1>4, Shapes DEF Save, Clear
  <2> QED BY <1>3, <1>4, <2>1 DEF Save, Clear, BeginStore, Points, Storing
<1>5. ASSUME LoadDek \/ LoadLink PROVE FALSE
  <2>1. Boot \in Clients /\ pc[Boot] = "idle"
    BY <1>5, Shapes DEF LoadDek, LoadLink
  <2> QED BY <1>3, <1>5, <2>1 DEF LoadDek, LoadLink, BeginStore, Points, Storing
<1>6. ASSUME \/ CountRows \/ WipeFiles \/ WipeRows \/ WipeSkips \/ WipeFails \/ Start \/ Lapse
             \/ \E c \in Captures : TakeCapture(c)
      PROVE  FALSE
  BY <1>6 DEF CountRows, WipeFiles, WipeRows, WipeSkips, WipeFails, Start, Lapse, TakeCapture
<1> QED BY <1>1, <1>2, <1>4, <1>5, <1>6, NextCases

\* A call that ends has left what it promises, or promises nothing.
LEMMA CallDone ==
  ASSUME TypeOK, TypeOK', CallsInv, KeyInv, KeyInv', SteadyInv, SteadyInv', mode' = mode,
         [Next]_vars, NEW p \in Clients, pc[p] # "idle", pc'[p] = "idle",
         NEW a \in Accounts, account[p] = a
  PROVE  \/ promised'[a] = Torn \/ Visible(a)' = promised'[a]
         \/ pc[p] = "unlinking" /\ a \in lingering'
<1>0. /\ value[p] \in Secret
      /\ pc[p] \in Storing => value[p] \in Ids
  BY DEF CallsInv, TypeOK
<1>1. None \notin Ids /\ Torn \notin Ids
  BY IdsGrow, Shapes DEF TypeOK
<1>2. ASSUME NEW ok, NEW r, Return(p, ok, r) PROVE promised'[a] = r
  BY <1>0, <1>2 DEF Return, TypeOK
<1>3. CASE KeyringVerify(p)
  <2>1. /\ pc[p] = "verifying" /\ mode # "refuses" /\ keychain[a] = value[p]
        /\ Return(p, TRUE, value[p]) /\ UNCHANGED <<flag, keychain>>
    BY <1>3 DEF KeyringVerify, Goto, TypeOK, secrets
  <2>2. value[p] \in Ids
    BY <1>0, <2>1 DEF Storing
  <2>3. mode = "works" /\ ~flag
    BY <1>0, <1>1, <2>1, <2>2 DEF SteadyInv
  <2>4. Visible(a)' = keychain[a]
    BY <2>1, <2>3 DEF Visible
  <2> QED BY <1>2, <2>1, <2>4
<1>4. CASE Encrypt(p)
  <2>1. /\ pc[p] = "encrypting" /\ flag /\ master = key[p] /\ key[p] \in Ids
        /\ UNCHANGED <<flag, master>>
        /\ files'[a] = [value |-> value[p], key |-> key[p]]
        /\ promised'[a] = value[p]
    BY <1>0, <1>2, <1>4 DEF Encrypt, KeyInv, TypeOK
  <2>2. value[p] \in Ids
    BY <1>0, <2>1 DEF Storing
  <2>3. files'[a] \notin {None, Torn} /\ master' # Torn
    BY <1>1, <2>1, <2>2, Shapes, IdsGrow DEF TypeOK
  <2>4. Visible(a)' = value[p]
    BY <2>1, <2>3 DEF Visible, FromFile
  <2> QED BY <2>1, <2>4
<1>5. CASE Unlink(p)
  <2>1. /\ keychain'[a] = None /\ promised'[a] = None /\ pc[p] = "unlinking"
        /\ files'[a] = None \/ a \in lingering'
    BY <1>0, <1>2, <1>5 DEF Unlink, SteadyInv, TypeOK
  <2>2. files'[a] = None => Visible(a)' = None
    BY <2>1 DEF Visible, FromFile
  <2> QED BY <2>1, <2>2
<1>6. CASE StoreFails(p)
  BY <1>2, <1>6 DEF StoreFails
<1>7. CASE Crash
  BY <1>0, <1>7 DEF Crash
<1> QED BY <1>3, <1>4, <1>5, <1>6, <1>7, Endings

\* Only a call that ends changes what was promised, and only of its account.
LEMMA PromisesKept ==
  ASSUME TypeOK, [Next]_vars, NEW a \in Accounts, \A p \in Clients : account[p] # a
  PROVE  promised'[a] = promised[a]
<1>1. CASE UNCHANGED vars
  BY <1>1 DEF vars
<1>2. ASSUME NEW p \in Clients, NEW ok, NEW r, Return(p, ok, r)
      PROVE  promised'[a] = promised[a]
  BY <1>2 DEF Return, TypeOK
<1>3. ASSUME NEW p \in Clients,
             KeyringVerify(p) \/ Encrypt(p) \/ StoreFails(p) \/ Unlink(p)
      PROVE  promised'[a] = promised[a]
  BY <1>2, <1>3 DEF KeyringVerify, Encrypt, StoreFails, Unlink
<1>4. CASE Crash
  BY <1>4 DEF Crash
<1>5. CASE \/ \E p \in Clients : \/ KeyringSet(p) \/ Mark(p) \/ Master(p) \/ NewMaster(p)
                                 \/ KeyringDelete(p)
           \/ \E u \in Users, b \in UserAccounts : Save(u, b) \/ Clear(u, b)
           \/ LoadDek \/ LoadLink
           \/ CountRows \/ WipeFiles \/ WipeRows \/ WipeSkips \/ WipeFails \/ Start \/ Lapse
           \/ \E c \in Captures : TakeCapture(c)
  BY <1>5 DEF KeyringSet, Mark, Master, NewMaster, KeyringDelete, Save, Clear, LoadDek,
      LoadLink, CountRows, WipeFiles, WipeRows, WipeSkips, WipeFails, Start, Lapse, TakeCapture
<1> QED BY <1>1, <1>3, <1>4, <1>5, NextCases

\* Nor does another call make an account linger, or settle.
LEMMA LingerKept ==
  ASSUME TypeOK, [Next]_vars, NEW a \in Accounts,
         \A p \in Clients : account[p] # a, \A p \in Clients : account'[p] # a
  PROVE  a \in lingering' <=> a \in lingering
<1>1. CASE UNCHANGED vars
  BY <1>1 DEF vars
<1>2. ASSUME NEW p \in Clients, KeyringDelete(p) \/ Unlink(p)
      PROVE  a \in lingering' <=> a \in lingering
  BY <1>2 DEF KeyringDelete, Unlink
<1>3. ASSUME NEW u \in Users, NEW b \in UserAccounts, Save(u, b) \/ Clear(u, b)
      PROVE  a \in lingering' <=> a \in lingering
  <2>1. u \in Clients /\ account'[u] = b
    BY <1>3, Shapes DEF Save, Clear, BeginStore, TypeOK
  <2> QED BY <1>3, <2>1 DEF Save, Clear
<1>4. CASE \/ \E p \in Clients : \/ KeyringSet(p) \/ KeyringVerify(p) \/ Mark(p) \/ Master(p)
                                 \/ NewMaster(p) \/ Encrypt(p) \/ StoreFails(p)
           \/ LoadDek \/ LoadLink
           \/ CountRows \/ WipeFiles \/ WipeRows \/ WipeSkips \/ WipeFails \/ Start \/ Lapse
           \/ Crash \/ \E c \in Captures : TakeCapture(c)
  BY <1>4 DEF KeyringSet, KeyringVerify, Mark, Master, NewMaster, Encrypt, StoreFails,
      LoadDek, LoadLink, CountRows, WipeFiles, WipeRows, WipeSkips, WipeFails, Start, Lapse,
      Crash, TakeCapture
<1> QED BY <1>1, <1>2, <1>3, <1>4, NextCases

\* An account that is settled after a step was settled before, or its call ended.
LEMMA SettledFrom ==
  ASSUME TypeOK, CallsInv, CallsInv', [Next]_vars, NEW a \in Accounts, Settled(a)'
  PROVE  \/ /\ Settled(a) /\ promised'[a] = promised[a]
            /\ \A p \in Clients : account[p] # a
         \/ \E p \in Clients : account[p] = a /\ pc[p] # "idle" /\ pc'[p] = "idle"
<1>0. /\ \A p \in Clients : account'[p] # a
      /\ promised'[a] # Torn /\ a \notin lingering'
  BY DEF Settled
<1>1. CASE \A p \in Clients : account[p] # a
  <2>1. promised'[a] = promised[a] /\ (a \in lingering' <=> a \in lingering)
    BY <1>0, <1>1, PromisesKept, LingerKept
  <2> QED BY <1>0, <1>1, <2>1 DEF Settled
<1>2. ASSUME NEW p \in Clients, account[p] = a PROVE pc[p] # "idle" /\ pc'[p] = "idle"
  <2>1. pc[p] # "idle"
    BY <1>2, Shapes DEF CallsInv
  <2>2. pc'[p] # "idle" => account'[p] = a
    BY <1>2, <2>1, AccountStays
  <2> QED BY <1>0, <2>1, <2>2
<1> QED BY <1>1, <1>2

LEMMA SavedStep ==
  ASSUME TypeOK, TypeOK', CallsInv, CallsInv', KeyInv, KeyInv', SteadyInv, SteadyInv',
         Steady, mode' = mode, [Next]_vars, SavedReadable
  PROVE  SavedReadable'
<1> SUFFICES ASSUME NEW a \in Accounts, Settled(a)'
             PROVE  Visible(a)' = promised'[a]
  BY DEF SavedReadable
<1>1. CASE Settled(a) /\ promised'[a] = promised[a] /\ \A p \in Clients : account[p] # a
  <2>1. Visible(a)' = Visible(a)
    BY <1>1, VisibleOthers
  <2> QED BY <1>1, <2>1 DEF SavedReadable
<1>2. ASSUME NEW p \in Clients, account[p] = a, pc[p] # "idle", pc'[p] = "idle"
      PROVE  Visible(a)' = promised'[a]
  <2>1. promised'[a] # Torn /\ a \notin lingering'
    BY DEF Settled
  <2> QED BY <1>2, <2>1, CallDone
<1> QED BY <1>1, <1>2, SettledFrom

-----------------------------------------------------------------------------
(* No replaced value is read *)

\* The flag is set by one step and never taken back.
LEMMA FlagStays ==
  ASSUME [Next]_vars
  PROVE  flag' = flag \/ \E p \in Clients : Mark(p)
<1> USE DEF secrets
<1>1. CASE UNCHANGED vars
  BY <1>1 DEF vars
<1> QED BY <1>1, NextCases
  DEF KeyringSet, KeyringVerify, Master, NewMaster, Encrypt, StoreFails, KeyringDelete,
      Unlink, Save, Clear, LoadDek, LoadLink, CountRows, WipeFiles, WipeRows, WipeSkips,
      WipeFails, Start, TakeCapture, Lapse, Crash

\* A call that ends has left the newest value, or nothing, where a read looks.
LEMMA FreshDone ==
  ASSUME TypeOK, TypeOK', CallsInv, KeyInv, FreshInv, [Next]_vars,
         NEW p \in Clients, pc[p] # "idle", pc'[p] = "idle",
         NEW a \in Accounts, account[p] = a, Settled(a)'
  PROVE  Fresh(a)'
<1>0. promised'[a] # Torn /\ a \notin lingering'
  BY DEF Settled
<1>1. ASSUME NEW ok, NEW r, Return(p, ok, r) PROVE promised'[a] = r
  BY <1>1 DEF Return, TypeOK
<1>2. CASE KeyringVerify(p)
  <2>1. /\ pc[p] = "verifying" /\ keychain[a] = value[p]
        /\ Return(p, TRUE, value[p]) /\ UNCHANGED <<flag, keychain>>
    BY <1>2 DEF KeyringVerify, Goto, TypeOK, secrets
  <2>2. ~flag /\ promised'[a] = value[p]
    BY <1>1, <2>1 DEF FreshInv
  <2> QED BY <2>1, <2>2 DEF Fresh
<1>3. CASE Encrypt(p)
  <2>1. /\ flag /\ flag' = flag /\ promised'[a] = value[p]
        /\ files'[a] = [value |-> value[p], key |-> key[p]]
    BY <1>1, <1>3 DEF Encrypt, KeyInv, TypeOK
  <2> QED BY <2>1 DEF Fresh
<1>4. CASE Unlink(p)
  <2>1. /\ keychain' = keychain /\ promised'[a] = None /\ pc[p] = "unlinking"
        /\ lingering \subseteq lingering'
        /\ files'[a] = None \/ a \in lingering'
    BY <1>1, <1>4 DEF Unlink, TypeOK
  <2>2. keychain[a] = None /\ files'[a] = None
    BY <1>0, <2>1 DEF FreshInv
  <2> QED BY <2>1, <2>2 DEF Fresh
<1>5. CASE StoreFails(p)
  BY <1>0, <1>1, <1>5 DEF StoreFails
<1>6. CASE Crash
  BY <1>0, <1>6 DEF Crash
<1> QED BY <1>2, <1>3, <1>4, <1>5, <1>6, Endings

\* Where the calls stand: a step of one leaves no other under way.
LEMMA FreshCalls ==
  ASSUME TypeOK, CallsInv, CallsInv', FreshInv, [Next]_vars, NEW p \in Clients
  PROVE  /\ pc'[p] \in {"writing", "verifying"} => ~flag'
         /\ pc'[p] = "unlinking" =>
               keychain'[account'[p]] = None \/ account'[p] \in lingering'
<1> DEFINE Kept == /\ pc'[p] = pc[p] /\ account'[p] = account[p] /\ flag' = flag
                   /\ keychain' = keychain /\ lingering' = lingering
           Points2 == {"writing", "verifying", "unlinking"}
<1> USE DEF calls, secrets, table, proc
<1>0. CASE pc'[p] \notin Points2
  BY <1>0
<1>1. CASE Kept
  BY <1>1 DEF FreshInv
<1>2. ASSUME NEW q \in Clients, pc[q] # "idle", q # p PROVE pc[p] = "idle"
  BY <1>2 DEF CallsInv
<1>3. CASE UNCHANGED vars
  BY <1>1, <1>3 DEF vars
<1>4. ASSUME NEW q \in Clients,
             \/ KeyringVerify(q) \/ Mark(q) \/ Master(q) \/ NewMaster(q)
             \/ Encrypt(q) \/ StoreFails(q) \/ Unlink(q)
      PROVE  pc'[p] \notin Points2
  <2>1. pc[q] # "idle" /\ pc'[q] \notin Points2 /\ (q # p => pc'[p] = pc[p])
    BY <1>4 DEF KeyringVerify, Mark, Master, NewMaster, Encrypt, StoreFails, Unlink,
        Return, Goto, TypeOK
  <2> QED BY <1>2, <2>1
<1>5. ASSUME NEW q \in Clients, KeyringSet(q), pc'[p] \in Points2
      PROVE  ~flag' /\ pc'[p] # "unlinking"
  <2>1. /\ pc[q] = "writing" /\ pc'[q] \in {"marking", "verifying"} /\ flag' = flag
        /\ q # p => pc'[p] = pc[p]
    BY <1>5 DEF KeyringSet, Goto, TypeOK
  <2>2. q = p /\ ~flag
    BY <1>2, <1>5, <2>1 DEF FreshInv
  <2> QED BY <2>1, <2>2
<1>6. ASSUME NEW q \in Clients, KeyringDelete(q), pc'[p] \in Points2
      PROVE  /\ pc'[p] = "unlinking"
             /\ keychain'[account'[p]] = None \/ account'[p] \in lingering'
  <2>1. /\ pc[q] = "erasing" /\ pc'[q] = "unlinking" /\ account' = account
        /\ q # p => pc'[p] = pc[p]
    BY <1>6 DEF KeyringDelete, Goto, TypeOK
  <2>2. q = p
    BY <1>2, <1>6, <2>1
  <2>3. account[p] \in Accounts
    BY <2>1, <2>2 DEF CallsInv, TypeOK
  <2> QED BY <1>6, <2>1, <2>2, <2>3 DEF KeyringDelete, TypeOK
<1>7. ASSUME NEW u \in Users, NEW a \in UserAccounts, Save(u, a) \/ Clear(u, a)
      PROVE  /\ pc'[p] \in {"writing", "verifying"} => ~flag'
             /\ pc'[p] # "unlinking"
  <2>1. /\ u \in Clients /\ pc[u] = "idle" /\ flag' = flag
        /\ pc'[u] \in {"master", "writing", "erasing"} /\ (pc'[u] = "writing" => ~flag)
    BY <1>7, Shapes DEF Save, Clear, BeginStore, Goto, TypeOK
  <2>2. pc'[p] # "idle" => p = u
    BY <2>1 DEF CallsInv
  <2> QED BY <2>1, <2>2
<1>8. ASSUME LoadDek \/ LoadLink, ~Kept
      PROVE  /\ pc'[p] \in {"writing", "verifying"} => ~flag'
             /\ pc'[p] # "unlinking"
  <2>1. /\ Boot \in Clients /\ pc[Boot] = "idle" /\ flag' = flag
        /\ pc'[Boot] \in {"master", "writing"} /\ (pc'[Boot] = "writing" => ~flag)
    BY <1>8, Shapes DEF LoadDek, LoadLink, BeginStore, Goto, TypeOK
  <2>2. pc'[p] # "idle" => p = Boot
    BY <2>1 DEF CallsInv
  <2> QED BY <2>1, <2>2
<1>9. CASE \/ CountRows \/ WipeFiles \/ WipeRows \/ WipeSkips \/ WipeFails \/ Start \/ Lapse
            \/ \E c \in Captures : TakeCapture(c)
  BY <1>1, <1>9 DEF CountRows, WipeFiles, WipeRows, WipeSkips, WipeFails, Start, Lapse,
      TakeCapture
<1>10. CASE Crash
  BY <1>10 DEF Crash
<1> QED BY <1>0, <1>1, <1>3, <1>4, <1>5, <1>6, <1>7, <1>8, <1>9, <1>10, NextCases

LEMMA FreshStep ==
  ASSUME TypeOK, TypeOK', CallsInv, CallsInv', KeyInv, FreshInv, [Next]_vars
  PROVE  FreshInv'
<1>1. ASSUME NEW a \in Accounts, Settled(a)' PROVE Fresh(a)'
  <2>1. CASE Settled(a) /\ promised'[a] = promised[a] /\ \A p \in Clients : account[p] # a
    <3>1. keychain'[a] = keychain[a] /\ files'[a] = files[a] /\ Fresh(a)
      BY <2>1, OthersKept DEF FreshInv
    <3>2. CASE flag' = flag
      BY <2>1, <3>1, <3>2 DEF Fresh
    <3>3. CASE flag' # flag
      <4>1. flag' = TRUE /\ ~flag
        BY <3>3, FlagStays DEF Mark, TypeOK
      <4>2. files'[a] = None
        BY <3>1, <4>1 DEF KeyInv
      <4> QED BY <4>1, <4>2 DEF Fresh
    <3> QED BY <3>2, <3>3
  <2>2. ASSUME NEW p \in Clients, account[p] = a, pc[p] # "idle", pc'[p] = "idle"
        PROVE  Fresh(a)'
    BY <1>1, <2>2, FreshDone
  <2> QED BY <1>1, <2>1, <2>2, SettledFrom
<1>2. \A p \in Clients :
        /\ pc'[p] \in {"writing", "verifying"} => ~flag'
        /\ pc'[p] = "unlinking" =>
              keychain'[account'[p]] = None \/ account'[p] \in lingering'
  BY FreshCalls
<1> QED BY <1>1, <1>2 DEF FreshInv

-----------------------------------------------------------------------------
(* The secrets that bootstrap runs with *)

\* Bootstrap's account has no other client; the users' accounts are not its own.
LEMMA BootAccounts ==
  ASSUME CallsInv, NEW p \in Clients, account[p] \in {Dek, Link}
  PROVE  p = Boot /\ pc[Boot] # "idle" /\ boot = IF account[p] = Dek THEN "dek" ELSE "link"
<1>1. pc[p] # "idle"
  BY Shapes DEF CallsInv
<1>2. p = Boot
  <2>1. p \in Users => account[p] \in UserAccounts \cup {None}
    BY DEF CallsInv
  <2>2. {Dek, Link} \cap (UserAccounts \cup {None}) = {}
    BY Shapes
  <2> QED BY <2>1, <2>2, Shapes
<1> QED BY <1>1, <1>2, Shapes DEF CallsInv

\* Nothing that RunInv speaks of has changed.
LEMMA RunKept ==
  ASSUME RunInv, Steady, UNCHANGED <<boot, dek, link, row, first>>,
         Visible(Dek)' = Visible(Dek), Visible(Link)' = Visible(Link),
         pc'[Boot] # "idle" => pc[Boot] # "idle"
  PROVE  RunInv'
BY DEF RunInv, SecretsStable, CapturesReadable

\* Bootstrap's own steps and the captures: nothing is written to the secrets.
LEMMA RunOn ==
  ASSUME TypeOK, TypeOK', CallsInv, RunInv, Steady, UNCHANGED <<mode, secrets>>,
         \/ LoadDek \/ LoadLink \/ CountRows \/ WipeFiles \/ WipeRows \/ WipeSkips
         \/ WipeFails \/ Start \/ \E c \in Captures : TakeCapture(c)
  PROVE  RunInv'
<1> USE DEF calls, table, secrets
<1>0. Visible(Dek)' = Visible(Dek) /\ Visible(Link)' = Visible(Link)
  BY VisibleKept, Shapes
<1>1. None \notin Ids /\ Torn \notin Ids
  BY IdsGrow, Shapes DEF TypeOK
<1>2. first # None => first = <<Visible(Dek), Visible(Link)>>
                      /\ Visible(Dek) \in Ids /\ Visible(Link) \in Ids
  BY DEF RunInv, TypeOK
<1>3. CASE LoadDek
  <2>1. CASE Visible(Dek) = None
    <3>1. first = None
      BY <1>1, <1>2, <2>1
    <3>2. \A c \in Captures : row[c] \in {None, Lost}
      BY <2>1 DEF RunInv, CapturesReadable
    <3>3. UNCHANGED <<boot, first, row>> /\ boot = "dek"
      BY <1>1, <1>3, <2>1, Shapes DEF LoadDek
    <3> QED BY <3>1, <3>2, <3>3 DEF RunInv, SecretsStable, CapturesReadable
  <2>2. CASE Visible(Dek) # None
    <3>1. /\ UNCHANGED <<first, row, pc>> /\ pc[Boot] = "idle"
          /\ boot' = "dead" \/ (boot' = "link" /\ dek' = Visible(Dek))
      BY <1>3, <2>2 DEF LoadDek
    <3> QED BY <1>0, <3>1 DEF RunInv, SecretsStable, CapturesReadable
  <2> QED BY <2>1, <2>2
<1>4. CASE LoadLink
  <2>1. UNCHANGED <<first, row, dek>> /\ boot = "link" /\ dek = Visible(Dek)
    BY <1>4 DEF LoadLink, RunInv
  <2>2. CASE Visible(Link) = None
    <3>1. first = None
      BY <1>1, <1>2, <2>2
    <3>2. boot' = boot
      BY <1>1, <1>4, <2>2, Shapes DEF LoadLink
    <3> QED BY <1>0, <2>1, <3>1, <3>2 DEF RunInv, SecretsStable, CapturesReadable
  <2>3. CASE Visible(Link) # None
    <3>1. /\ UNCHANGED pc /\ pc[Boot] = "idle"
          /\ boot' = "dead" \/ (boot' = "starting" /\ link' = Visible(Link))
      BY <1>4, <2>3 DEF LoadLink
    <3> QED BY <1>0, <2>1, <3>1 DEF RunInv, SecretsStable, CapturesReadable
  <2> QED BY <2>2, <2>3
<1>5. CASE CountRows \/ WipeFiles \/ WipeRows \/ WipeSkips \/ WipeFails
  <2>1. /\ UNCHANGED <<first, dek, link, pc>> /\ pc[Boot] = "idle"
        /\ boot \in {"counting", "wipeFiles", "wipeRows", "wipeSkips"}
        /\ boot' \in {"link", "wipeFiles", "wipeRows", "wipeSkips"}
        /\ \A c \in Captures : row'[c] = row[c] \/ row'[c] = None
    BY <1>5 DEF CountRows, WipeFiles, WipeRows, WipeSkips, WipeFails, CallsInv
  <2>2. dek' = Visible(Dek)'
    BY <1>0, <2>1 DEF RunInv
  <2>3. CapturesReadable'
    BY <1>0, <2>1 DEF RunInv, CapturesReadable, Steady
  <2> QED BY <1>0, <2>1, <2>2, <2>3 DEF RunInv, SecretsStable
<1>6. CASE Start
  <2>1. /\ UNCHANGED <<dek, link, pc, row>> /\ pc[Boot] = "idle" /\ boot' = "up"
        /\ dek = Visible(Dek) /\ link = Visible(Link)
        /\ first' = IF first = None THEN <<dek, link>> ELSE first
    BY <1>6 DEF Start, RunInv, CallsInv
  <2>2. first' = <<dek, link>>
    BY <1>2, <2>1
  <2> QED BY <1>0, <2>1, <2>2 DEF RunInv, SecretsStable, CapturesReadable
<1>7. ASSUME NEW c \in Captures, TakeCapture(c) PROVE RunInv'
  <2>1. /\ UNCHANGED <<boot, dek, link, pc, first>> /\ pc[Boot] = "idle" /\ boot = "up"
        /\ dek = Visible(Dek)
        /\ \A d \in Captures : row'[d] = row[d] \/ row'[d] = dek
    BY <1>7 DEF TakeCapture, proc, RunInv, CallsInv, TypeOK
  <2>2. CapturesReadable'
    BY <1>0, <2>1 DEF RunInv, CapturesReadable, Steady
  <2> QED BY <1>0, <2>1, <2>2 DEF RunInv, SecretsStable, Steady
<1> QED BY <1>3, <1>4, <1>5, <1>6, <1>7

\* A step of a call that bootstrap makes: nothing has come up yet.
LEMMA RunCall ==
  ASSUME TypeOK, TypeOK', CallsInv, CallsInv', KeyInv, KeyInv', SteadyInv, SteadyInv',
         RunInv, Steady, mode' = mode, [Next]_vars, pc[Boot] # "idle", StoreStep(Boot)
  PROVE  RunInv'
<1> USE DEF calls, table, proc
<1>0. Boot \in Clients
  BY Shapes
<1>1. /\ UNCHANGED <<first, row, dek, link>>
      /\ \/ boot' = boot
         \/ /\ pc'[Boot] = "idle" /\ account[Boot] = Dek /\ boot' \in {"counting", "dead"}
         \/ /\ pc'[Boot] = "idle" /\ account[Boot] # Dek /\ boot' \in {"starting", "dead"}
  BY <1>0 DEF StoreStep, KeyringSet, KeyringVerify, Mark, Master, NewMaster, Encrypt,
      StoreFails, KeyringDelete, Unlink, Return, Goto, TypeOK
<1>2. first = None
  BY DEF RunInv
<1>3. boot' \in {"counting", "starting"} /\ pc'[Boot] = "idle" =>
         promised'[account[Boot]] = value[Boot]
  <2>1. account[Boot] \in Accounts /\ pc[Boot] \in Storing /\ boot \in {"dek", "link"}
    BY <1>0 DEF CallsInv, TypeOK
  <2> QED BY <1>0, <2>1
      DEF StoreStep, KeyringSet, KeyringVerify, Mark, Master, NewMaster, Encrypt,
          StoreFails, KeyringDelete, Unlink, Return, Goto, TypeOK, Storing
<1>4. ASSUME NEW a \in Accounts, a = account[Boot],
             boot' \in {"counting", "starting"}, pc'[Boot] = "idle"
      PROVE  value[Boot] = Visible(a)'
  <2>1. value[Boot] \in Ids
    BY <1>0 DEF CallsInv
  <2>2. Torn \notin Ids
    BY IdsGrow, Shapes DEF TypeOK
  <2>3. pc[Boot] \in Storing /\ "unlinking" \notin Storing
    BY DEF CallsInv, Storing
  <2> QED BY <1>0, <1>3, <1>4, <2>1, <2>2, <2>3, CallDone
<1>5. CASE account[Boot] = Dek
  <2>1. boot = "dek" /\ value[Boot] = dek /\ \A c \in Captures : row[c] \in {None, Lost}
    BY <1>5, Shapes DEF CallsInv, RunInv
  <2>2. boot' = "counting" => dek = Visible(Dek)'
    BY <1>1, <1>4, <1>5, <2>1, Shapes
  <2> QED BY <1>1, <1>2, <1>5, <2>1, <2>2 DEF RunInv, SecretsStable, CapturesReadable
<1>6. CASE account[Boot] # Dek
  <2>1. account[Boot] = Link /\ boot = "link" /\ value[Boot] = link /\ dek = Visible(Dek)
    BY <1>6 DEF CallsInv, RunInv
  <2>2. Visible(Dek)' = Visible(Dek)
    <3>1. \A p \in Clients : account[p] # Dek
      BY <1>6, BootAccounts, Shapes
    <3> QED BY <3>1, VisibleOthers, Shapes
  <2>3. boot' = "starting" => link = Visible(Link)'
    BY <1>1, <1>4, <2>1, Shapes
  <2>4. CapturesReadable'
    BY <1>1, <2>2 DEF RunInv, CapturesReadable, Steady
  <2> QED BY <1>1, <1>2, <2>1, <2>2, <2>3, <2>4 DEF RunInv, SecretsStable
<1> QED BY <1>5, <1>6

\* The process dies: an interrupted minting left no capture and no first secrets.
LEMMA RunCrash ==
  ASSUME TypeOK, TypeOK', CallsInv, KeyInv, KeyInv', SteadyInv, SteadyInv',
         RunInv, Steady, mode' = mode, Crash
  PROVE  RunInv'
<1>1. /\ boot' = "dek" /\ pc'[Boot] = "idle" /\ UNCHANGED <<row, first>>
  BY Shapes DEF Crash, table
<1>2. [Next]_vars
  BY DEF Next
<1>3. ASSUME NEW a \in {Dek, Link}, \A p \in Clients : account[p] # a
      PROVE  Visible(a)' = Visible(a)
  BY <1>2, <1>3, VisibleOthers, Shapes
<1>4. pc[Boot] = "idle" => /\ \A p \in Clients : account[p] # Dek /\ account[p] # Link
  BY BootAccounts
<1>5. first # None => Visible(Dek)' = first[1] /\ Visible(Link)' = first[2]
  BY <1>3, <1>4 DEF RunInv
<1>6. CapturesReadable'
  <2>1. CASE \A p \in Clients : account[p] # Dek
    BY <1>1, <1>3, <2>1 DEF RunInv, CapturesReadable
  <2>2. ASSUME NEW p \in Clients, account[p] = Dek PROVE CapturesReadable'
    <3>1. \A c \in Captures : row[c] \in {None, Lost}
      BY <2>2, BootAccounts DEF RunInv
    <3> QED BY <1>1, <3>1 DEF CapturesReadable
  <2> QED BY <2>1, <2>2
<1> QED BY <1>1, <1>5, <1>6 DEF RunInv, SecretsStable

LEMMA RunStep ==
  ASSUME TypeOK, TypeOK', CallsInv, CallsInv', KeyInv, KeyInv', SteadyInv, SteadyInv',
         RunInv, Steady, Steady', mode' = mode, [Next]_vars
  PROVE  RunInv'
<1> USE DEF calls, table, proc
<1>1. CASE UNCHANGED vars
  <2>1. UNCHANGED <<mode, secrets, boot, dek, link, row, first, pc>>
    BY <1>1 DEF vars
  <2> QED BY <2>1, RunKept, VisibleKept, Shapes
<1>2. ASSUME NEW p \in Clients, StoreStep(p) PROVE RunInv'
  <2>1. pc[p] # "idle"
    BY <1>2 DEF StoreStep, KeyringSet, KeyringVerify, Mark, Master, NewMaster, Encrypt,
        StoreFails, KeyringDelete, Unlink
  <2>2. CASE p = Boot
    BY <1>2, <2>1, <2>2, RunCall
  <2>3. CASE p # Boot
    <3>1. UNCHANGED <<boot, dek, link, row, first>> /\ pc'[Boot] = pc[Boot]
      BY <1>2, <2>3, Shapes DEF StoreStep, KeyringSet, KeyringVerify, Mark, Master,
          NewMaster, Encrypt, StoreFails, KeyringDelete, Unlink, Return, Goto, TypeOK
    <3>2. pc[Boot] = "idle"
      BY <2>1, <2>3, Shapes DEF CallsInv
    <3>3. \A q \in Clients : account[q] # Dek /\ account[q] # Link
      BY <3>2, BootAccounts
    <3>4. Visible(Dek)' = Visible(Dek) /\ Visible(Link)' = Visible(Link)
      BY <3>3, VisibleOthers, Shapes
    <3> QED BY <3>1, <3>4, RunKept
  <2> QED BY <2>2, <2>3
<1>3. ASSUME NEW u \in Users, NEW a \in UserAccounts, Save(u, a) \/ Clear(u, a)
      PROVE  RunInv'
  <2>1. UNCHANGED <<mode, secrets, boot, dek, link, row, first>> /\ pc'[Boot] = pc[Boot]
    BY <1>3, Shapes DEF Save, Clear, BeginStore, Goto, TypeOK
  <2> QED BY <2>1, RunKept, VisibleKept, Shapes
<1>4. CASE \/ LoadDek \/ LoadLink \/ CountRows \/ WipeFiles \/ WipeRows \/ WipeSkips
           \/ WipeFails \/ Start \/ \E c \in Captures : TakeCapture(c)
  <2>1. UNCHANGED <<mode, secrets>>
    BY <1>4 DEF LoadDek, LoadLink, CountRows, WipeFiles, WipeRows, WipeSkips, WipeFails,
        Start, TakeCapture
  <2> QED BY <1>4, <2>1, RunOn
<1>5. CASE Lapse
  BY <1>5 DEF Lapse
<1>6. CASE Crash
  BY <1>6, RunCrash
<1> QED BY <1>1, <1>2, <1>3, <1>4, <1>5, <1>6 DEF Next, BootStep

-----------------------------------------------------------------------------
(* The invariant, and what follows *)

LEMMA InitInv == Init => TypeOK /\ VaultInv
<1> SUFFICES ASSUME Init PROVE TypeOK /\ VaultInv
  OBVIOUS
<1> USE DEF Init
<1>1. TypeOK
  <2>1. Ids = {Lost}
    BY DEF Ids, Lost
  <2>2. CallsType
    BY DEF CallsType, Secret, Stages, Points
  <2>3. SecretsType
    BY DEF SecretsType, Secret
  <2>4. RestType
    <3>1. row \in [Captures -> Secret]
      BY <2>1 DEF Secret
    <3>2. nextId \in Nat \ {0, 1}
      BY DEF Lost
    <3> QED BY <3>1, <3>2 DEF RestType, Secret
  <2> QED BY <2>2, <2>3, <2>4, TypeParts
<1>2. CallsInv
  BY Shapes DEF CallsInv, Storing
<1>3. KeyInv
  BY DEF KeyInv, FilesDecrypt
<1>4. SteadyInv /\ FreshInv
  BY DEF SteadyInv, FreshInv, Fresh, Settled
<1>5. \A a \in Accounts : Visible(a) = None
  BY DEF Visible, FromFile
<1>6. RunInv /\ SavedReadable
  <2>1. \A c \in Captures : row[c] \in {None, Lost}
    OBVIOUS
  <2> QED BY <1>5, <2>1, Shapes
      DEF RunInv, SecretsStable, CapturesReadable, SavedReadable, Settled
<1> QED BY <1>1, <1>2, <1>3, <1>4, <1>6 DEF VaultInv, BootInv

LEMMA VaultStep ==
  ASSUME TypeOK, VaultInv, [Next /\ Patient']_vars
  PROVE  TypeOK' /\ VaultInv'
<1>1. CallsInv /\ KeyInv /\ FreshInv /\ (Steady => SteadyInv /\ RunInv /\ SavedReadable)
  BY DEF VaultInv, BootInv
<1>2. [Next]_vars
  OBVIOUS
<1>3. TypeOK'
  BY <1>1, <1>2, TypeStep
<1>4. CallsInv'
  BY <1>1, <1>3, CallsStep
<1>5. KeyInv'
  BY <1>1, <1>2, <1>3, <1>4, KeyStep
<1>6. FreshInv'
  BY <1>1, <1>2, <1>3, <1>4, FreshStep
<1>7. ASSUME Steady' PROVE SteadyInv' /\ BootInv'
  <2>1. Steady /\ mode' = mode
    BY <1>2, <1>7, SteadyBefore
  <2>2. SteadyInv'
    BY <1>1, <1>2, <2>1, SteadyStep
  <2>3. RunInv'
    BY <1>1, <1>2, <1>3, <1>4, <1>5, <1>7, <2>1, <2>2, RunStep
  <2>4. SavedReadable'
    BY <1>1, <1>2, <1>3, <1>4, <1>5, <2>1, <2>2, SavedStep
  <2> QED BY <2>2, <2>3, <2>4 DEF BootInv
<1> QED BY <1>3, <1>4, <1>5, <1>6, <1>7 DEF VaultInv

THEOREM VaultCorrect == PatientSpec => [](TypeOK /\ VaultInv)
BY InitInv, VaultStep, PTL DEF PatientSpec

\* A whole fallback file was encrypted under the master key that is there, for
\* any number of lapses of the keychain and deaths of the process
\* (load_or_init_fallback_master_key, encrypt_to_file).
THEOREM FilesCorrect == PatientSpec => []FilesDecrypt
<1>1. VaultInv => FilesDecrypt
  BY DEF VaultInv, KeyInv
<1> QED BY <1>1, VaultCorrect, PTL

\* As long as the keychain behaves as it did, every process that comes up runs
\* with the DEK and the link secret of the first (bootstrap, load_or_init).
THEOREM SecretsCorrect == PatientSpec => []SecretsStable
<1>1. VaultInv => SecretsStable
  BY DEF VaultInv, BootInv, RunInv, SecretsStable
<1> QED BY <1>1, VaultCorrect, PTL

\* Then what this version captured is decrypted by the DEK the next boot loads,
\* whatever step the cleanup has come to (cleanup_undecryptable_captures).
THEOREM CapturesCorrect == PatientSpec => []CapturesReadable
<1>1. VaultInv => CapturesReadable
  BY DEF VaultInv, BootInv, RunInv, CapturesReadable
<1> QED BY <1>1, VaultCorrect, PTL

\* Then a read returns what the last finished save or clear of the account left,
\* unless a removal failed in that clear (store_secret, delete_secret, load_secret).
THEOREM SavedCorrect == PatientSpec => []SavedReadable
<1>1. VaultInv => SavedReadable
  BY DEF VaultInv, BootInv, SavedReadable
<1> QED BY <1>1, VaultCorrect, PTL

\* For any changes of the keychain and deaths of the process, a read of a settled
\* account returns its newest value, nothing or an error, and no older value
\* (store_secret, mark_fallback_in_use, delete_secret, load_secret).
THEOREM NeverStaleCorrect == PatientSpec => []NeverStale
<1>1. ASSUME TypeOK, VaultInv PROVE NeverStale
  <2> SUFFICES ASSUME NEW a \in Accounts, Settled(a)
               PROVE  Visible(a) \in {promised[a], None, Torn}
    BY DEF NeverStale
  <2>1. KeyInv /\ Fresh(a)
    BY <1>1 DEF VaultInv, FreshInv
  <2>2. FromFile(a) = IF files[a] \in {None, Torn} THEN files[a] ELSE files[a].value
    BY <1>1, <2>1, FileReads
  <2>3. ~flag => files[a] = None
    BY <2>1 DEF KeyInv
  <2> QED BY <2>1, <2>2, <2>3 DEF Visible, Fresh
<1> QED BY <1>1, VaultCorrect, PTL

=============================================================================
