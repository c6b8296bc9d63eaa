---------------------------- MODULE OAuthProofs ----------------------------
(***************************************************************************)
(* Proofs about OAuthFlow, for any number of flows, callbacks, refreshes,  *)
(* clears, restarts and faults: type correctness, that a verifier is       *)
(* redeemed once, that rotation loses no token, that the token and the     *)
(* client are cleared together, and that every flow is told its end.       *)
(***************************************************************************)
EXTENDS OAuthFlow, TLAPS

\* The steps of Next, one disjunct per action.
LEMMA NextCases ==
  ASSUME Next
  PROVE  \/ SaveCreds
         \/ Disconnect
         \/ \E s \in Clears : ClearToken(s)
         \/ \E s \in Clears : ClearTokenFails(s)
         \/ \E s \in Clears : ClearCreds(s)
         \/ \E s \in Clears : ClearCredsFails(s)
         \/ \E f \in Flows : Begin(f)
         \/ \E f \in Flows : Poll(f)
         \/ \E f \in Flows : Denied(f)
         \/ \E c \in Callbacks, f \in Flows : Arrive(c, f)
         \/ \E c \in Callbacks : CheckCreds(c)
         \/ \E c \in Callbacks : CredsVanished(c)
         \/ \E c \in Callbacks : Exchange(c)
         \/ \E c \in Callbacks : ExchangeFails(c)
         \/ \E c \in Callbacks : StoreToken(c)
         \/ \E c \in Callbacks : StoreTokenFails(c)
         \/ \E c \in Callbacks : MarkComplete(c)
         \/ \E c \in Callbacks : Abandon(c)
         \/ \E c \in Callbacks : AbandonStoring(c)
         \/ \E c \in Callbacks : StoreDetached(c)
         \/ \E r \in Refreshes : RefreshBegin(r)
         \/ \E r \in Refreshes : RefreshRead(r)
         \/ \E r \in Refreshes : RefreshReadFails(r)
         \/ \E r \in Refreshes : RefreshAnswered(r)
         \/ \E r \in Refreshes : RefreshRotated(r)
         \/ \E r \in Refreshes : RefreshAnswerLost(r)
         \/ \E r \in Refreshes : RefreshStore(r)
         \/ \E r \in Refreshes : RefreshStoreFails(r)
         \/ Restart
BY DEF Next, ClearStep, CallbackStep, RefreshStep

-----------------------------------------------------------------------------
(* Types *)

\* A mark only changes an entry's outcome, of no flow if the entry is gone.
LEMMA MarkedKeeps ==
  ASSUME NEW f, NEW field \in {"completed", "error"},
         flow \in [Flows -> Entry \cup {None}]
  PROVE  /\ Marked(f, field) \in [Flows -> Entry \cup {None}]
         /\ \A g \in Flows : Marked(f, field)[g] = None <=> flow[g] = None
         /\ \A g \in Flows : flow[g] # None =>
              Marked(f, field)[g].fresh = flow[g].fresh
         /\ field = "error" => \A g \in Flows : flow[g] # None =>
              Marked(f, field)[g].completed = flow[g].completed
BY NoneAssumption DEF Marked, Entry

\* Every step keeps the types: tokens in use are tokens Google has minted, and
\* marking or taking from a flow that was swept changes nothing.
THEOREM TypeCorrect == Spec => []TypeOK
<1>1. Init => TypeOK
  <2> SUFFICES ASSUME Init PROVE TypeOK
    OBVIOUS
  <2>1. nextToken = 1 /\ 1 .. nextToken - 1 = {}
    BY DEF Init
  <2>2. /\ pc \in [Tasks -> Points]
        /\ flow \in [Flows -> Entry \cup {None}]
        /\ at \in [Callbacks -> Flows \cup {None}]
        /\ own \in [Callbacks -> BOOLEAN]
        /\ old \in [Tasks -> 1 .. nextToken - 1 \cup {None}]
        /\ new \in [Tasks -> 1 .. nextToken - 1 \cup {None}]
    BY DEF Init, Points
  <2>3. creds \in BOOLEAN /\ clashed \in BOOLEAN
    BY DEF Init
  <2>4. /\ nextToken \in Nat \ {0} /\ token \in 1 .. nextToken - 1 \cup {None}
        /\ valid \subseteq 1 .. nextToken - 1 /\ begun \subseteq Flows
        /\ abandoned \subseteq Flows \cup {None}
    BY DEF Init
  <2>5. /\ writes \in 0 .. MaxWrites /\ crashes \in 0 .. MaxCrashes
        /\ faults \in 0 .. MaxFaults
    BY BoundsAssumption DEF Init
  <2> QED BY <2>2, <2>3, <2>4, <2>5 DEF TypeOK
<1>2. TypeOK /\ [Next]_vars => TypeOK'
  <2> SUFFICES ASSUME TypeOK, [Next]_vars PROVE TypeOK'
    OBVIOUS
  <2>0. ASSUME UNCHANGED vars PROVE TypeOK'
    BY <2>0 DEF TypeOK, vars, store, locals, model
  <2>1. ASSUME SaveCreds PROVE TypeOK'
    BY <2>1, BoundsAssumption DEF TypeOK, SaveCreds, Points, Tasks, Busy, locals
  <2>2. ASSUME Disconnect PROVE TypeOK'
    BY <2>2, BoundsAssumption
    DEF TypeOK, Disconnect, Points, Tasks, Busy, locals
  <2>3. ASSUME NEW s \in Clears, ClearToken(s) PROVE TypeOK'
    BY <2>3 DEF TypeOK, ClearToken, Points, Tasks, Goto, Busy
  <2>4. ASSUME NEW s \in Clears, ClearTokenFails(s) PROVE TypeOK'
    BY <2>4, BoundsAssumption
    DEF TypeOK, ClearTokenFails, Points, Tasks, Goto, Fails, Busy, store
  <2>5. ASSUME NEW s \in Clears, ClearCreds(s) PROVE TypeOK'
    BY <2>5 DEF TypeOK, ClearCreds, Points, Tasks, Goto, Ends, model
  <2>6. ASSUME NEW s \in Clears, ClearCredsFails(s) PROVE TypeOK'
    BY <2>6, BoundsAssumption
    DEF TypeOK, ClearCredsFails, Points, Tasks, Goto, Ends, Fails, store
  <2>7. ASSUME NEW f \in Flows, Begin(f) PROVE TypeOK'
    <3>1. begun' \subseteq Flows
      BY <2>7 DEF TypeOK, Begin
    <3>2. flow' \in [Flows -> Entry \cup {None}]
      BY <2>7 DEF TypeOK, Begin, Entry
    <3> QED BY <2>7, <3>1, <3>2 DEF TypeOK, Begin, store, locals
  <2>8. ASSUME NEW f \in Flows, Poll(f) PROVE TypeOK'
    BY <2>8 DEF TypeOK, Poll, Points, Tasks, store, locals, model
  <2>9. ASSUME NEW f \in Flows, Denied(f) PROVE TypeOK'
    BY <2>9, MarkedKeeps DEF TypeOK, Denied, Points, Tasks, store, locals, model
  <2>10. ASSUME NEW c \in Callbacks, NEW f \in Flows, Arrive(c, f) PROVE TypeOK'
    <3>1. flow[f] \in Entry
      BY <2>10 DEF TypeOK, Arrive
    <3>2. own' \in [Callbacks -> BOOLEAN]
      BY <2>10, <3>1 DEF TypeOK, Arrive, Entry
    <3>3. flow' \in [Flows -> Entry \cup {None}]
      BY <2>10, <3>1 DEF TypeOK, Arrive, Entry
    <3>4. /\ pc' \in [Tasks -> Points]
          /\ at' \in [Callbacks -> Flows \cup {None}]
      BY <2>10 DEF TypeOK, Arrive, Goto, Points
    <3>5. clashed' \in BOOLEAN
      BY <2>10 DEF TypeOK, Arrive, Clearing, Busy
    <3> QED BY <2>10, <3>2, <3>3, <3>4, <3>5 DEF TypeOK, Arrive, store
  <2>11. ASSUME NEW c \in Callbacks, CheckCreds(c) PROVE TypeOK'
    BY <2>11 DEF TypeOK, CheckCreds, Points, Tasks, Goto, store, model
  <2>12. ASSUME NEW c \in Callbacks, CredsVanished(c) PROVE TypeOK'
    BY <2>12, MarkedKeeps, BoundsAssumption
    DEF TypeOK, CredsVanished, Points, Tasks, Goto, Ends, Fails, store
  <2>13. ASSUME NEW c \in Callbacks, Exchange(c) PROVE TypeOK'
    BY <2>13 DEF TypeOK, Exchange, Points, Tasks, Goto, store
  <2>14. ASSUME NEW c \in Callbacks, ExchangeFails(c) PROVE TypeOK'
    BY <2>14, MarkedKeeps
    DEF TypeOK, ExchangeFails, Points, Tasks, Goto, Ends, store, model
  <2>15. ASSUME NEW c \in Callbacks, StoreToken(c) PROVE TypeOK'
    BY <2>15 DEF TypeOK, StoreToken, Points, Tasks, Goto, model
  <2>16. ASSUME NEW c \in Callbacks, StoreTokenFails(c) PROVE TypeOK'
    BY <2>16, MarkedKeeps, BoundsAssumption
    DEF TypeOK, StoreTokenFails, Points, Tasks, Goto, Ends, Fails, store
  <2>17. ASSUME NEW c \in Callbacks, MarkComplete(c) PROVE TypeOK'
    BY <2>17, MarkedKeeps
    DEF TypeOK, MarkComplete, Points, Tasks, Goto, Ends, store, model
  <2>18. ASSUME NEW r \in Refreshes, RefreshBegin(r) PROVE TypeOK'
    BY <2>18 DEF TypeOK, RefreshBegin, Points, Tasks, Goto, Busy, store
  <2>19. ASSUME NEW r \in Refreshes, RefreshRead(r) PROVE TypeOK'
    BY <2>19 DEF TypeOK, RefreshRead, Points, Tasks, Goto, store, model
  <2>20. ASSUME NEW r \in Refreshes, RefreshReadFails(r) PROVE TypeOK'
    BY <2>20, BoundsAssumption
    DEF TypeOK, RefreshReadFails, Points, Tasks, Goto, Ends, Fails, store
  <2>21. ASSUME NEW r \in Refreshes, RefreshAnswered(r) PROVE TypeOK'
    BY <2>21
    DEF TypeOK, RefreshAnswered, Points, Tasks, Goto, Ends, store, model
  <2>22. ASSUME NEW r \in Refreshes, RefreshRotated(r) PROVE TypeOK'
    <3>1. /\ nextToken' = nextToken + 1 /\ nextToken \in Nat \ {0}
          /\ 1 .. nextToken' - 1 = 1 .. nextToken - 1 \cup {nextToken}
      BY <2>22 DEF TypeOK, RefreshRotated
    <3>5. /\ valid \subseteq 1 .. nextToken - 1
          /\ valid' = (valid \ {old[r]}) \cup {nextToken}
      BY <2>22 DEF TypeOK, RefreshRotated
    <3>6. ASSUME NEW x \in valid' PROVE x \in 1 .. nextToken' - 1
      <4>1. x \in 1 .. nextToken - 1 \/ x = nextToken
        BY <3>5
      <4> QED BY <4>1, <3>1
    <3>2. valid' \subseteq 1 .. nextToken' - 1 /\ nextToken' \in Nat \ {0}
      BY <3>1, <3>6
    <3>3. /\ new' \in [Tasks -> 1 .. nextToken' - 1 \cup {None}]
          /\ old' \in [Tasks -> 1 .. nextToken' - 1 \cup {None}]
          /\ token' \in 1 .. nextToken' - 1 \cup {None}
      BY <2>22, <3>1 DEF TypeOK, RefreshRotated, store
    <3>4. pc' \in [Tasks -> Points]
      BY <2>22 DEF TypeOK, RefreshRotated, Goto, Points
    <3> QED BY <2>22, <3>2, <3>3, <3>4 DEF TypeOK, RefreshRotated, store
  <2>23. ASSUME NEW r \in Refreshes, RefreshAnswerLost(r) PROVE TypeOK'
    <3>1. valid' \subseteq 1 .. nextToken' - 1 /\ nextToken' = nextToken
      BY <2>23 DEF TypeOK, RefreshAnswerLost
    <3>2. /\ pc' \in [Tasks -> Points]
          /\ at' \in [Callbacks -> Flows \cup {None}]
          /\ own' \in [Callbacks -> BOOLEAN]
      BY <2>23 DEF TypeOK, RefreshAnswerLost, Ends, Goto, Points
    <3>3. /\ old' \in [Tasks -> 1 .. nextToken - 1 \cup {None}]
          /\ new' \in [Tasks -> 1 .. nextToken - 1 \cup {None}]
      BY <2>23 DEF TypeOK, RefreshAnswerLost, Ends
    <3>4. faults' \in 0 .. MaxFaults
      BY <2>23, BoundsAssumption DEF TypeOK, RefreshAnswerLost, Fails
    <3> QED BY <2>23, <3>1, <3>2, <3>3, <3>4
    DEF TypeOK, RefreshAnswerLost, store
  <2>24. ASSUME NEW r \in Refreshes, RefreshStore(r) PROVE TypeOK'
    BY <2>24 DEF TypeOK, RefreshStore, Points, Tasks, Goto, Ends, model
  <2>25. ASSUME NEW r \in Refreshes, RefreshStoreFails(r) PROVE TypeOK'
    BY <2>25, BoundsAssumption
    DEF TypeOK, RefreshStoreFails, Points, Tasks, Goto, Ends, Fails, store
  <2>26. ASSUME Restart PROVE TypeOK'
    BY <2>26, BoundsAssumption DEF TypeOK, Restart, Points, Tasks, Busy, store
  <2>27. ASSUME NEW c \in Callbacks, Abandon(c) PROVE TypeOK'
    BY <2>27
    DEF TypeOK, Points, Tasks, Abandon, Goto, Ends, store
  <2>28. ASSUME NEW c \in Callbacks, AbandonStoring(c) PROVE TypeOK'
    BY <2>28
    DEF TypeOK, Points, Tasks, AbandonStoring, Goto, store
  <2>29. ASSUME NEW c \in Callbacks, StoreDetached(c) PROVE TypeOK'
    BY <2>29, BoundsAssumption
    DEF TypeOK, Points, Tasks, StoreDetached, Goto, Ends, Fails, model
  <2> QED BY <2>0, <2>1, <2>2, <2>3, <2>4, <2>5, <2>6, <2>7, <2>8, <2>9, <2>10,
     <2>11, <2>12, <2>13, <2>14, <2>15, <2>16, <2>17, <2>18, <2>19, <2>20,
     <2>21, <2>22, <2>23, <2>24, <2>25, <2>26, <2>27, <2>28, <2>29,
     NextCases
<1> QED BY <1>1, <1>2, PTL DEF Spec

-----------------------------------------------------------------------------
(* The verifier *)

\* Whoever has a flow's verifier came for a flow that was begun, so a flow that
\* begins later cannot be one a verifier is already out for.
VerifierInv ==
  /\ VerifierInOnePlace
  /\ \A c \in Callbacks : own[c] => at[c] \in begun

\* A step that hands out no verifier, begins no flow and renews none keeps it.
LEMMA VerifierFrame ==
  ASSUME VerifierInv, TypeOK, TypeOK', begun' = begun,
         \A c \in Callbacks : own'[c] => own[c] /\ at'[c] = at[c],
         \A f \in Flows : flow'[f] # None =>
           flow[f] # None /\ flow'[f].fresh = flow[f].fresh
  PROVE  VerifierInv'
<1>1. ASSUME NEW c \in Callbacks, own'[c]
      PROVE  flow'[at'[c]] = None \/ ~flow'[at'[c]].fresh
  <2>1. own[c] /\ at'[c] = at[c] /\ at[c] \in Flows
    BY <1>1 DEF VerifierInv, TypeOK
  <2> QED BY <2>1 DEF VerifierInv, VerifierInOnePlace
<1>2. \A c \in Callbacks : own'[c] => at'[c] \in begun'
  BY DEF VerifierInv
<1>3. \A c, d \in Callbacks : own'[c] /\ own'[d] /\ at'[d] = at'[c] => d = c
  BY DEF VerifierInv, VerifierInOnePlace
<1> QED BY <1>1, <1>2, <1>3 DEF VerifierInv, VerifierInOnePlace

\* A verifier is redeemed by one callback, however many repeat the redirect
\* and whatever is swept, harvested or marked meanwhile (take_verifier).
THEOREM VerifierCorrect == Spec => []VerifierInOnePlace
<1>1. Init => VerifierInv
  BY DEF Init, VerifierInv, VerifierInOnePlace
<1>2. TypeOK /\ TypeOK' /\ VerifierInv /\ [Next]_vars => VerifierInv'
  <2> SUFFICES ASSUME TypeOK, TypeOK', VerifierInv, [Next]_vars PROVE VerifierInv'
    OBVIOUS
  <2>0. ASSUME UNCHANGED vars PROVE VerifierInv'
    BY <2>0 DEF VerifierInv, VerifierInOnePlace, vars, locals, model
  <2>1. ASSUME SaveCreds PROVE VerifierInv'
    BY <2>1 DEF VerifierInv, VerifierInOnePlace, TypeOK, SaveCreds, locals
  <2>2. ASSUME Disconnect PROVE VerifierInv'
    BY <2>2 DEF VerifierInv, VerifierInOnePlace, TypeOK, Disconnect, locals
  <2>3. ASSUME NEW s \in Clears, ClearToken(s) PROVE VerifierInv'
    BY <2>3 DEF VerifierInv, VerifierInOnePlace, TypeOK, ClearToken
  <2>4. ASSUME NEW s \in Clears, ClearTokenFails(s) PROVE VerifierInv'
    BY <2>4 DEF VerifierInv, VerifierInOnePlace, TypeOK, ClearTokenFails
  <2>5. ASSUME NEW s \in Clears, ClearCreds(s) PROVE VerifierInv'
    BY <2>5 DEF VerifierInv, VerifierInOnePlace, TypeOK, ClearCreds, Ends, model
  <2>6. ASSUME NEW s \in Clears, ClearCredsFails(s) PROVE VerifierInv'
    BY <2>6 DEF VerifierInv, VerifierInOnePlace, TypeOK, ClearCredsFails, Ends
  <2>7. ASSUME NEW f \in Flows, Begin(f) PROVE VerifierInv'
    BY <2>7 DEF VerifierInv, VerifierInOnePlace, TypeOK, Begin, locals
  <2>8. ASSUME NEW f \in Flows, Poll(f) PROVE VerifierInv'
    BY <2>8 DEF VerifierInv, VerifierInOnePlace, TypeOK, Poll, locals, model
  <2>9. ASSUME NEW f \in Flows, Denied(f) PROVE VerifierInv'
    <3>1. flow' = Marked(f, "error") /\ flow \in [Flows -> Entry \cup {None}]
      BY <2>9 DEF Denied, TypeOK
    <3>2. \A g \in Flows : flow'[g] # None =>
            flow[g] # None /\ flow'[g].fresh = flow[g].fresh
      BY <3>1, MarkedKeeps
    <3> QED BY <2>9, <3>2, VerifierFrame DEF Denied, locals, model
  <2>10. ASSUME NEW c \in Callbacks, NEW f \in Flows, Arrive(c, f) PROVE VerifierInv'
    BY <2>10 DEF VerifierInv, VerifierInOnePlace, TypeOK, Arrive
  <2>11. ASSUME NEW c \in Callbacks, CheckCreds(c) PROVE VerifierInv'
    BY <2>11 DEF VerifierInv, VerifierInOnePlace, TypeOK, CheckCreds, model
  <2>12. ASSUME NEW c \in Callbacks, CredsVanished(c) PROVE VerifierInv'
    <3>1. flow' = Marked(at[c], "error") /\ flow \in [Flows -> Entry \cup {None}]
      BY <2>12 DEF CredsVanished, TypeOK
    <3>2. \A g \in Flows : flow'[g] # None =>
            flow[g] # None /\ flow'[g].fresh = flow[g].fresh
      BY <3>1, MarkedKeeps
    <3>3. \A d \in Callbacks : own'[d] => own[d] /\ at'[d] = at[d]
      BY <2>12 DEF CredsVanished, Ends, TypeOK
    <3> QED BY <2>12, <3>2, <3>3, VerifierFrame DEF CredsVanished, model
  <2>13. ASSUME NEW c \in Callbacks, Exchange(c) PROVE VerifierInv'
    BY <2>13 DEF VerifierInv, VerifierInOnePlace, TypeOK, Exchange
  <2>14. ASSUME NEW c \in Callbacks, ExchangeFails(c) PROVE VerifierInv'
    <3>1. flow' = Marked(at[c], "error") /\ flow \in [Flows -> Entry \cup {None}]
      BY <2>14 DEF ExchangeFails, TypeOK
    <3>2. \A g \in Flows : flow'[g] # None =>
            flow[g] # None /\ flow'[g].fresh = flow[g].fresh
      BY <3>1, MarkedKeeps
    <3>3. \A d \in Callbacks : own'[d] => own[d] /\ at'[d] = at[d]
      BY <2>14 DEF ExchangeFails, Ends, TypeOK
    <3> QED BY <2>14, <3>2, <3>3, VerifierFrame DEF ExchangeFails, model
  <2>15. ASSUME NEW c \in Callbacks, StoreToken(c) PROVE VerifierInv'
    BY <2>15 DEF VerifierInv, VerifierInOnePlace, TypeOK, StoreToken, model
  <2>16. ASSUME NEW c \in Callbacks, StoreTokenFails(c) PROVE VerifierInv'
    <3>1. flow' = Marked(at[c], "error") /\ flow \in [Flows -> Entry \cup {None}]
      BY <2>16 DEF StoreTokenFails, TypeOK
    <3>2. \A g \in Flows : flow'[g] # None =>
            flow[g] # None /\ flow'[g].fresh = flow[g].fresh
      BY <3>1, MarkedKeeps
    <3>3. \A d \in Callbacks : own'[d] => own[d] /\ at'[d] = at[d]
      BY <2>16 DEF StoreTokenFails, Ends, TypeOK
    <3> QED BY <2>16, <3>2, <3>3, VerifierFrame DEF StoreTokenFails, model
  <2>17. ASSUME NEW c \in Callbacks, MarkComplete(c) PROVE VerifierInv'
    <3>1. flow' = Marked(at[c], "completed") /\ flow \in [Flows -> Entry \cup {None}]
      BY <2>17 DEF MarkComplete, TypeOK
    <3>2. \A g \in Flows : flow'[g] # None =>
            flow[g] # None /\ flow'[g].fresh = flow[g].fresh
      BY <3>1, MarkedKeeps
    <3>3. \A d \in Callbacks : own'[d] => own[d] /\ at'[d] = at[d]
      BY <2>17 DEF MarkComplete, Ends, TypeOK
    <3> QED BY <2>17, <3>2, <3>3, VerifierFrame DEF MarkComplete, model
  <2>18. ASSUME NEW r \in Refreshes, RefreshBegin(r) PROVE VerifierInv'
    BY <2>18 DEF VerifierInv, VerifierInOnePlace, TypeOK, RefreshBegin
  <2>19. ASSUME NEW r \in Refreshes, RefreshRead(r) PROVE VerifierInv'
    BY <2>19 DEF VerifierInv, VerifierInOnePlace, TypeOK, RefreshRead, model
  <2>20. ASSUME NEW r \in Refreshes, RefreshReadFails(r) PROVE VerifierInv'
    BY <2>20 DEF VerifierInv, VerifierInOnePlace, TypeOK, RefreshReadFails, Ends
  <2>21. ASSUME NEW r \in Refreshes, RefreshAnswered(r) PROVE VerifierInv'
    BY <2>21
    DEF VerifierInv, VerifierInOnePlace, TypeOK, RefreshAnswered, Ends, model
  <2>22. ASSUME NEW r \in Refreshes, RefreshRotated(r) PROVE VerifierInv'
    BY <2>22 DEF VerifierInv, VerifierInOnePlace, TypeOK, RefreshRotated
  <2>23. ASSUME NEW r \in Refreshes, RefreshAnswerLost(r) PROVE VerifierInv'
    BY <2>23
    DEF VerifierInv, VerifierInOnePlace, TypeOK, RefreshAnswerLost, Ends
  <2>24. ASSUME NEW r \in Refreshes, RefreshStore(r) PROVE VerifierInv'
    BY <2>24
    DEF VerifierInv, VerifierInOnePlace, TypeOK, RefreshStore, Ends, model
  <2>25. ASSUME NEW r \in Refreshes, RefreshStoreFails(r) PROVE VerifierInv'
    BY <2>25
    DEF VerifierInv, VerifierInOnePlace, TypeOK, RefreshStoreFails, Ends
  <2>26. ASSUME Restart PROVE VerifierInv'
    BY <2>26 DEF VerifierInv, VerifierInOnePlace, TypeOK, Restart
  <2>27. ASSUME NEW c \in Callbacks, Abandon(c) PROVE VerifierInv'
    BY <2>27
    DEF VerifierInv, VerifierInOnePlace, TypeOK, Abandon, Goto, Ends, store
  <2>28. ASSUME NEW c \in Callbacks, AbandonStoring(c) PROVE VerifierInv'
    BY <2>28
    DEF VerifierInv, VerifierInOnePlace, TypeOK, AbandonStoring, Goto, store
  <2>29. ASSUME NEW c \in Callbacks, StoreDetached(c) PROVE VerifierInv'
    BY <2>29
    DEF VerifierInv, VerifierInOnePlace, TypeOK, StoreDetached, Goto, Ends, Fails, model
  <2> QED BY <2>0, <2>1, <2>2, <2>3, <2>4, <2>5, <2>6, <2>7, <2>8, <2>9, <2>10,
     <2>11, <2>12, <2>13, <2>14, <2>15, <2>16, <2>17, <2>18, <2>19, <2>20,
     <2>21, <2>22, <2>23, <2>24, <2>25, <2>26, <2>27, <2>28, <2>29,
     NextCases
<1>3. VerifierInv => VerifierInOnePlace
  BY DEF VerifierInv
<1> QED BY <1>1, <1>2, <1>3, TypeCorrect, PTL DEF Spec

-----------------------------------------------------------------------------
(* The stored token *)

\* The task has a token from Google that it is about to store.
Pending(t) == pc[t] \in {"storing", "detached", "rotating"}

\* A token on its way to the store is accepted by Google, and nobody else has
\* it: it is not stored, was read by no task and is not on its way twice.  So no
\* other refresh can have rotated it away before it is stored.
TokenInv ==
  crashes = 0 /\ faults = 0 =>
    /\ token # None =>
         token \in valid \/ \E r \in Refreshes : pc[r] = "rotating" /\ old[r] = token
    /\ \A t \in Tasks : Pending(t) =>
         /\ new[t] \in valid /\ new[t] # token
         /\ \A u \in Tasks : old[u] # new[t]
         /\ \A u \in Tasks : u # t /\ Pending(u) => new[u] # new[t]

\* None is not a token.
LEMMA NoneNotValid ==
  ASSUME TypeOK
  PROVE  None \notin valid
<1>1. nextToken \in Nat /\ valid \subseteq 1 .. nextToken - 1
  BY DEF TypeOK
<1>2. \A x \in valid : x \in Nat
  BY <1>1
<1> QED BY <1>2, NoneAssumption

\* A step that at most forgets tokens, and lets no refresh go that is rotating.
LEMMA TokenFrame ==
  ASSUME TypeOK, TokenInv, valid' = valid, crashes' = crashes, faults' = faults,
         token' \in {token, None},
         \A t \in Tasks : Pending(t)' => Pending(t) /\ new'[t] = new[t],
         \A t \in Tasks : old'[t] \in {old[t], None},
         \A r \in Refreshes : pc[r] = "rotating" =>
           pc'[r] = "rotating" /\ old'[r] = old[r]
  PROVE  TokenInv'
<1> SUFFICES ASSUME crashes = 0, faults = 0 PROVE TokenInv'
  BY DEF TokenInv
<1>1. None \notin valid
  BY NoneNotValid
<1>2. token' # None =>
        token' \in valid' \/ \E r \in Refreshes : pc'[r] = "rotating" /\ old'[r] = token'
  BY DEF TokenInv
<1>3. ASSUME NEW t \in Tasks, Pending(t)'
      PROVE  /\ new'[t] \in valid' /\ new'[t] # token'
             /\ \A u \in Tasks : old'[u] # new'[t]
             /\ \A u \in Tasks : u # t /\ Pending(u)' => new'[u] # new'[t]
  BY <1>1, <1>3 DEF TokenInv
<1> QED BY <1>2, <1>3 DEF TokenInv, Pending

\* A task stores the token it has from Google, and ends.
LEMMA TokenStored ==
  ASSUME TypeOK, TokenInv, NEW r \in Tasks, Pending(r), token' = new[r], Ends(r),
         UNCHANGED <<valid, crashes, faults>>
  PROVE  TokenInv'
<1> SUFFICES ASSUME crashes = 0, faults = 0 PROVE TokenInv'
  BY DEF TokenInv
<1>1. ~Pending(r)' /\ old'[r] = None
  BY DEF Pending, Ends, Goto, TypeOK
<1>2. ASSUME NEW u \in Tasks, u # r
      PROVE  pc'[u] = pc[u] /\ old'[u] = old[u] /\ new'[u] = new[u]
  BY <1>2 DEF Ends, Goto, TypeOK
<1>3. None \notin valid
  BY NoneNotValid
<1>4. token' \in valid'
  BY DEF TokenInv
<1>5. ASSUME NEW t \in Tasks, Pending(t)'
      PROVE  /\ new'[t] \in valid' /\ new'[t] # token'
             /\ \A u \in Tasks : old'[u] # new'[t]
             /\ \A u \in Tasks : u # t /\ Pending(u)' => new'[u] # new'[t]
  <2>1. t # r /\ Pending(t) /\ new'[t] = new[t]
    BY <1>1, <1>2, <1>5 DEF Pending
  <2>2. new'[t] \in valid' /\ new'[t] # token'
    BY <2>1 DEF TokenInv
  <2>3. \A u \in Tasks : old'[u] # new'[t]
    BY <1>1, <1>2, <1>3, <2>1 DEF TokenInv
  <2>4. \A u \in Tasks : u # t /\ Pending(u)' => new'[u] # new'[t]
    BY <1>1, <1>2, <2>1 DEF TokenInv, Pending
  <2> QED BY <2>2, <2>3, <2>4
<1> QED BY <1>4, <1>5 DEF TokenInv, Pending

\* Refreshes and callbacks in any number and order never leave a token in the
\* store that Google voided, except while its successor is being stored
\* (refresh_access_token).
THEOREM TokenCorrect == Spec => []StoredTokenLive
<1>1. Init => TokenInv
  BY DEF Init, TokenInv, Pending
<1>2. TypeOK /\ TokenInv /\ [Next]_vars => TokenInv'
  <2> SUFFICES ASSUME TypeOK, TokenInv, [Next]_vars PROVE TokenInv'
    OBVIOUS
  <2>0. ASSUME UNCHANGED vars PROVE TokenInv'
    BY <2>0 DEF TokenInv, Pending, vars, store, locals, model
  <2>1. ASSUME SaveCreds PROVE TokenInv'
    BY <2>1 DEF TokenInv, Pending, TypeOK, SaveCreds, Tasks, locals
  <2>2. ASSUME Disconnect PROVE TokenInv'
    BY <2>2, TokenFrame DEF TypeOK, Pending, Disconnect, Tasks, locals
  <2>3. ASSUME NEW s \in Clears, ClearToken(s) PROVE TokenInv'
    BY <2>3, TokenFrame DEF TypeOK, Pending, ClearToken, Tasks, Goto
  <2>4. ASSUME NEW s \in Clears, ClearTokenFails(s) PROVE TokenInv'
    BY <2>4
    DEF TokenInv, Pending, TypeOK, ClearTokenFails, Tasks, Goto, Fails, store
  <2>5. ASSUME NEW s \in Clears, ClearCreds(s) PROVE TokenInv'
    BY <2>5, TokenFrame
    DEF TypeOK, Pending, ClearCreds, Tasks, Goto, Ends, model
  <2>6. ASSUME NEW s \in Clears, ClearCredsFails(s) PROVE TokenInv'
    BY <2>6 DEF TokenInv, Pending, TypeOK, ClearCredsFails, Tasks, Goto, Ends,
       Fails, store
  <2>7. ASSUME NEW f \in Flows, Begin(f) PROVE TokenInv'
    BY <2>7 DEF TokenInv, Pending, TypeOK, Begin, Tasks, store, locals
  <2>8. ASSUME NEW f \in Flows, Poll(f) PROVE TokenInv'
    BY <2>8 DEF TokenInv, Pending, TypeOK, Poll, Tasks, store, locals, model
  <2>9. ASSUME NEW f \in Flows, Denied(f) PROVE TokenInv'
    BY <2>9 DEF TokenInv, Pending, TypeOK, Denied, Tasks, store, locals, model
  <2>10. ASSUME NEW c \in Callbacks, NEW f \in Flows, Arrive(c, f) PROVE TokenInv'
    BY <2>10 DEF TokenInv, Pending, TypeOK, Arrive, Tasks, Goto, store
  <2>11. ASSUME NEW c \in Callbacks, CheckCreds(c) PROVE TokenInv'
    BY <2>11
    DEF TokenInv, Pending, TypeOK, CheckCreds, Tasks, Goto, store, model
  <2>12. ASSUME NEW c \in Callbacks, CredsVanished(c) PROVE TokenInv'
    <3>1. faults' = faults \/ faults' = faults + 1
      BY <2>12 DEF CredsVanished, Fails
    <3>2. CASE faults' # faults
      BY <2>12, <3>1, <3>2 DEF TokenInv, TypeOK
    <3>3. CASE faults' = faults
      BY <2>12, <3>3, TokenFrame, TasksAssumption
      DEF CredsVanished, TypeOK, Pending, Tasks, Goto, Ends, store
    <3> QED BY <3>2, <3>3
  <2>13. ASSUME NEW c \in Callbacks, Exchange(c) PROVE TokenInv'
    BY <2>13, NoneAssumption, TasksAssumption
    DEF TokenInv, Pending, TypeOK, Exchange, Tasks, Goto, store
  <2>14. ASSUME NEW c \in Callbacks, ExchangeFails(c) PROVE TokenInv'
    BY <2>14, TokenFrame
    DEF TypeOK, Pending, ExchangeFails, Tasks, Goto, Ends, store, model
  <2>15. ASSUME NEW c \in Callbacks, StoreToken(c) PROVE TokenInv'
    BY <2>15 DEF TokenInv, Pending, TypeOK, StoreToken, Tasks, Goto, model
  <2>16. ASSUME NEW c \in Callbacks, StoreTokenFails(c) PROVE TokenInv'
    BY <2>16 DEF TokenInv, Pending, TypeOK, StoreTokenFails, Tasks, Goto, Ends,
       Fails, store
  <2>17. ASSUME NEW c \in Callbacks, MarkComplete(c) PROVE TokenInv'
    BY <2>17, TokenFrame
    DEF TypeOK, Pending, MarkComplete, Tasks, Goto, Ends, store, model
  <2>18. ASSUME NEW r \in Refreshes, RefreshBegin(r) PROVE TokenInv'
    BY <2>18 DEF TokenInv, Pending, TypeOK, RefreshBegin, Tasks, Goto, store
  <2>19. ASSUME NEW r \in Refreshes, RefreshRead(r) PROVE TokenInv'
    BY <2>19
    DEF TokenInv, Pending, TypeOK, RefreshRead, Tasks, Goto, store, model
  <2>20. ASSUME NEW r \in Refreshes, RefreshReadFails(r) PROVE TokenInv'
    BY <2>20 DEF TokenInv, Pending, TypeOK, RefreshReadFails, Tasks, Goto,
       Ends, Fails, store
  <2>21. ASSUME NEW r \in Refreshes, RefreshAnswered(r) PROVE TokenInv'
    BY <2>21, TokenFrame
    DEF TypeOK, Pending, RefreshAnswered, Tasks, Goto, Ends, store, model
  <2>22. ASSUME NEW r \in Refreshes, RefreshRotated(r) PROVE TokenInv'
    BY <2>22, NoneAssumption, TasksAssumption
    DEF TokenInv, Pending, TypeOK, RefreshRotated, Tasks, Goto, store
  <2>23. ASSUME NEW r \in Refreshes, RefreshAnswerLost(r) PROVE TokenInv'
    BY <2>23 DEF TokenInv, Pending, TypeOK, RefreshAnswerLost, Tasks, Goto,
       Ends, Fails, store
  <2>24. ASSUME NEW r \in Refreshes, RefreshStore(r) PROVE TokenInv'
    BY <2>24, TokenStored DEF RefreshStore, Pending, Tasks, model
  <2>25. ASSUME NEW r \in Refreshes, RefreshStoreFails(r) PROVE TokenInv'
    BY <2>25 DEF TokenInv, Pending, TypeOK, RefreshStoreFails, Tasks, Goto,
       Ends, Fails, store
  <2>26. ASSUME Restart PROVE TokenInv'
    BY <2>26 DEF TokenInv, Pending, TypeOK, Restart, Tasks, store
  <2>27. ASSUME NEW c \in Callbacks, Abandon(c) PROVE TokenInv'
    BY <2>27, TokenFrame
    DEF TypeOK, Pending, Tasks, Abandon, Goto, Ends, store
  <2>28. ASSUME NEW c \in Callbacks, AbandonStoring(c) PROVE TokenInv'
    BY <2>28, TokenFrame
    DEF TypeOK, Pending, Tasks, AbandonStoring, Goto, store
  <2>29. ASSUME NEW c \in Callbacks, StoreDetached(c) PROVE TokenInv'
    <3>1. CASE token' = new[c] /\ UNCHANGED faults
      BY <2>29, <3>1, TokenStored DEF StoreDetached, Pending, Tasks
    <3>2. CASE Fails
      BY <2>29, <3>2 DEF TokenInv, TypeOK, StoreDetached, Fails
    <3> QED BY <2>29, <3>1, <3>2 DEF StoreDetached
  <2> QED BY <2>0, <2>1, <2>2, <2>3, <2>4, <2>5, <2>6, <2>7, <2>8, <2>9, <2>10,
     <2>11, <2>12, <2>13, <2>14, <2>15, <2>16, <2>17, <2>18, <2>19, <2>20,
     <2>21, <2>22, <2>23, <2>24, <2>25, <2>26, <2>27, <2>28, <2>29,
     NextCases
<1>3. TokenInv => StoredTokenLive
  BY DEF TokenInv, StoredTokenLive
<1> QED BY <1>1, <1>2, <1>3, TypeCorrect, PTL DEF Spec

-----------------------------------------------------------------------------
(* The token and its client *)

\* Each kind of task keeps to its own points.
PointsInv ==
  /\ \A c \in Callbacks :
       pc[c] \in {"idle", "checking", "exchanging", "storing", "marking",
                 "detached", "done"}
  /\ \A r \in Refreshes : pc[r] \in {"idle", "reading", "refreshing", "rotating", "done"}
  /\ \A s \in Clears : pc[s] \in {"idle", "clearing", "done"}

\* The points of a task are those of its code.
LEMMA PointsCorrect == Spec => []PointsInv
<1>1. Init => PointsInv
  BY DEF Init, PointsInv, Tasks
<1>2. TypeOK /\ PointsInv /\ [Next]_vars => PointsInv'
  <2> SUFFICES ASSUME TypeOK, PointsInv, [Next]_vars PROVE PointsInv'
    OBVIOUS
  <2>0. ASSUME UNCHANGED vars PROVE PointsInv'
    BY <2>0 DEF PointsInv, vars, locals
  <2>1. ASSUME SaveCreds PROVE PointsInv'
    BY <2>1 DEF PointsInv, TypeOK, SaveCreds, Tasks, locals
  <2>2. ASSUME Disconnect PROVE PointsInv'
    BY <2>2 DEF PointsInv, TypeOK, Disconnect, Tasks, locals
  <2>3. ASSUME NEW s \in Clears, ClearToken(s) PROVE PointsInv'
    BY <2>3, TasksAssumption DEF PointsInv, TypeOK, ClearToken, Tasks, Goto
  <2>4. ASSUME NEW s \in Clears, ClearTokenFails(s) PROVE PointsInv'
    BY <2>4, TasksAssumption DEF PointsInv, TypeOK, ClearTokenFails, Tasks, Goto
  <2>5. ASSUME NEW s \in Clears, ClearCreds(s) PROVE PointsInv'
    BY <2>5 DEF PointsInv, TypeOK, ClearCreds, Tasks, Goto, Ends
  <2>6. ASSUME NEW s \in Clears, ClearCredsFails(s) PROVE PointsInv'
    BY <2>6 DEF PointsInv, TypeOK, ClearCredsFails, Tasks, Goto, Ends
  <2>7. ASSUME NEW f \in Flows, Begin(f) PROVE PointsInv'
    BY <2>7 DEF PointsInv, TypeOK, Begin, Tasks, locals
  <2>8. ASSUME NEW f \in Flows, Poll(f) PROVE PointsInv'
    BY <2>8 DEF PointsInv, TypeOK, Poll, Tasks, locals
  <2>9. ASSUME NEW f \in Flows, Denied(f) PROVE PointsInv'
    BY <2>9 DEF PointsInv, TypeOK, Denied, Tasks, locals
  <2>10. ASSUME NEW c \in Callbacks, NEW f \in Flows, Arrive(c, f) PROVE PointsInv'
    BY <2>10, TasksAssumption DEF PointsInv, TypeOK, Arrive, Tasks, Goto
  <2>11. ASSUME NEW c \in Callbacks, CheckCreds(c) PROVE PointsInv'
    BY <2>11 DEF PointsInv, TypeOK, CheckCreds, Tasks, Goto
  <2>12. ASSUME NEW c \in Callbacks, CredsVanished(c) PROVE PointsInv'
    BY <2>12 DEF PointsInv, TypeOK, CredsVanished, Tasks, Goto, Ends
  <2>13. ASSUME NEW c \in Callbacks, Exchange(c) PROVE PointsInv'
    BY <2>13 DEF PointsInv, TypeOK, Exchange, Tasks, Goto
  <2>14. ASSUME NEW c \in Callbacks, ExchangeFails(c) PROVE PointsInv'
    BY <2>14 DEF PointsInv, TypeOK, ExchangeFails, Tasks, Goto, Ends
  <2>15. ASSUME NEW c \in Callbacks, StoreToken(c) PROVE PointsInv'
    BY <2>15 DEF PointsInv, TypeOK, StoreToken, Tasks, Goto
  <2>16. ASSUME NEW c \in Callbacks, StoreTokenFails(c) PROVE PointsInv'
    BY <2>16 DEF PointsInv, TypeOK, StoreTokenFails, Tasks, Goto, Ends
  <2>17. ASSUME NEW c \in Callbacks, MarkComplete(c) PROVE PointsInv'
    BY <2>17 DEF PointsInv, TypeOK, MarkComplete, Tasks, Goto, Ends
  <2>18. ASSUME NEW r \in Refreshes, RefreshBegin(r) PROVE PointsInv'
    BY <2>18, TasksAssumption DEF PointsInv, TypeOK, RefreshBegin, Tasks, Goto
  <2>19. ASSUME NEW r \in Refreshes, RefreshRead(r) PROVE PointsInv'
    BY <2>19 DEF PointsInv, TypeOK, RefreshRead, Tasks, Goto
  <2>20. ASSUME NEW r \in Refreshes, RefreshReadFails(r) PROVE PointsInv'
    BY <2>20 DEF PointsInv, TypeOK, RefreshReadFails, Tasks, Goto, Ends
  <2>21. ASSUME NEW r \in Refreshes, RefreshAnswered(r) PROVE PointsInv'
    BY <2>21 DEF PointsInv, TypeOK, RefreshAnswered, Tasks, Goto, Ends
  <2>22. ASSUME NEW r \in Refreshes, RefreshRotated(r) PROVE PointsInv'
    BY <2>22 DEF PointsInv, TypeOK, RefreshRotated, Tasks, Goto
  <2>23. ASSUME NEW r \in Refreshes, RefreshAnswerLost(r) PROVE PointsInv'
    BY <2>23 DEF PointsInv, TypeOK, RefreshAnswerLost, Tasks, Goto, Ends
  <2>24. ASSUME NEW r \in Refreshes, RefreshStore(r) PROVE PointsInv'
    BY <2>24 DEF PointsInv, TypeOK, RefreshStore, Tasks, Goto, Ends
  <2>25. ASSUME NEW r \in Refreshes, RefreshStoreFails(r) PROVE PointsInv'
    BY <2>25 DEF PointsInv, TypeOK, RefreshStoreFails, Tasks, Goto, Ends
  <2>26. ASSUME Restart PROVE PointsInv'
    BY <2>26 DEF PointsInv, TypeOK, Restart, Tasks
  <2>27. ASSUME NEW c \in Callbacks, Abandon(c) PROVE PointsInv'
    BY <2>27
    DEF PointsInv, TypeOK, Tasks, Abandon, Goto, Ends, store
  <2>28. ASSUME NEW c \in Callbacks, AbandonStoring(c) PROVE PointsInv'
    BY <2>28
    DEF PointsInv, TypeOK, Tasks, AbandonStoring, Goto, store
  <2>29. ASSUME NEW c \in Callbacks, StoreDetached(c) PROVE PointsInv'
    BY <2>29
    DEF PointsInv, TypeOK, Tasks, StoreDetached, Goto, Ends, Fails, model
  <2> QED BY <2>0, <2>1, <2>2, <2>3, <2>4, <2>5, <2>6, <2>7, <2>8, <2>9, <2>10,
     <2>11, <2>12, <2>13, <2>14, <2>15, <2>16, <2>17, <2>18, <2>19, <2>20,
     <2>21, <2>22, <2>23, <2>24, <2>25, <2>26, <2>27, <2>28, <2>29,
     NextCases
<1> QED BY <1>1, <1>2, TypeCorrect, PTL DEF Spec

\* Until a command and a task clash, a clear has the store to itself, and finds
\* and leaves no token; a task that may store one has seen the client, which
\* only a clear takes away.
PairInv ==
  ~clashed /\ faults = 0 =>
    /\ token # None => creds
    /\ Clearing => ~Traffic /\ token = None
    /\ \A c \in Callbacks : pc[c] \in {"exchanging", "storing", "detached", "marking"} =>
         creds
    /\ \A r \in Refreshes : Busy(r) => creds

\* cmd_clear_gmail_oauth_creds leaves no token without its client, wherever the
\* process dies, unless it overlaps a task that uses them or a call fails.
THEOREM PairCorrect == Spec => []PairKept
<1>1. Init => PairInv
  BY DEF Init, PairInv, Clearing, Traffic, Busy, Tasks
<1>2. TypeOK /\ PointsInv /\ PairInv /\ [Next]_vars => PairInv'
  <2> SUFFICES ASSUME TypeOK, PointsInv, PairInv, [Next]_vars PROVE PairInv'
    OBVIOUS
  <2>0. ASSUME UNCHANGED vars PROVE PairInv'
    BY <2>0 DEF PairInv, Clearing, Traffic, Busy, vars, store, locals, model
  <2>1. ASSUME SaveCreds PROVE PairInv'
    BY <2>1
    DEF PairInv, TypeOK, SaveCreds, Clearing, Traffic, Busy, Tasks, locals
  <2>2. ASSUME Disconnect PROVE PairInv'
    BY <2>2
    DEF PairInv, TypeOK, Disconnect, Clearing, Traffic, Busy, Tasks, locals
  <2>3. ASSUME NEW s \in Clears, ClearToken(s) PROVE PairInv'
    BY <2>3, TasksAssumption
    DEF PairInv, TypeOK, ClearToken, Clearing, Traffic, Busy, Tasks, Goto
  <2>4. ASSUME NEW s \in Clears, ClearTokenFails(s) PROVE PairInv'
    BY <2>4 DEF PairInv, TypeOK, ClearTokenFails, Clearing, Traffic, Busy,
       Tasks, Goto, Fails, store
  <2>5. ASSUME NEW s \in Clears, ClearCreds(s) PROVE PairInv'
    BY <2>5 DEF PairInv, TypeOK, ClearCreds, Clearing, Traffic, Busy, Tasks,
       Goto, Ends, model
  <2>6. ASSUME NEW s \in Clears, ClearCredsFails(s) PROVE PairInv'
    BY <2>6 DEF PairInv, TypeOK, ClearCredsFails, Clearing, Traffic, Busy,
       Tasks, Goto, Ends, Fails, store
  <2>7. ASSUME NEW f \in Flows, Begin(f) PROVE PairInv'
    BY <2>7
    DEF PairInv, TypeOK, Begin, Clearing, Traffic, Busy, Tasks, store, locals
  <2>8. ASSUME NEW f \in Flows, Poll(f) PROVE PairInv'
    BY <2>8 DEF PairInv, TypeOK, Poll, Clearing, Traffic, Busy, Tasks, store,
       locals, model
  <2>9. ASSUME NEW f \in Flows, Denied(f) PROVE PairInv'
    BY <2>9 DEF PairInv, TypeOK, Denied, Clearing, Traffic, Busy, Tasks, store,
       locals, model
  <2>10. ASSUME NEW c \in Callbacks, NEW f \in Flows, Arrive(c, f) PROVE PairInv'
    BY <2>10, TasksAssumption
    DEF PairInv, TypeOK, Arrive, Clearing, Traffic, Busy, Tasks, Goto, store
  <2>11. ASSUME NEW c \in Callbacks, CheckCreds(c) PROVE PairInv'
    BY <2>11 DEF PairInv, TypeOK, CheckCreds, Clearing, Traffic, Busy, Tasks,
       Goto, store, model
  <2>12. ASSUME NEW c \in Callbacks, CredsVanished(c) PROVE PairInv'
    BY <2>12 DEF PairInv, TypeOK, CredsVanished, Clearing, Traffic, Busy,
       Tasks, Goto, Ends, Fails, store
  <2>13. ASSUME NEW c \in Callbacks, Exchange(c) PROVE PairInv'
    BY <2>13
    DEF PairInv, TypeOK, Exchange, Clearing, Traffic, Busy, Tasks, Goto, store
  <2>14. ASSUME NEW c \in Callbacks, ExchangeFails(c) PROVE PairInv'
    BY <2>14 DEF PairInv, TypeOK, ExchangeFails, Clearing, Traffic, Busy,
       Tasks, Goto, Ends, store, model
  <2>15. ASSUME NEW c \in Callbacks, StoreToken(c) PROVE PairInv'
    BY <2>15
    DEF PairInv, TypeOK, StoreToken, Clearing, Traffic, Busy, Tasks, Goto, model
  <2>16. ASSUME NEW c \in Callbacks, StoreTokenFails(c) PROVE PairInv'
    BY <2>16 DEF PairInv, TypeOK, StoreTokenFails, Clearing, Traffic, Busy,
       Tasks, Goto, Ends, Fails, store
  <2>17. ASSUME NEW c \in Callbacks, MarkComplete(c) PROVE PairInv'
    BY <2>17 DEF PairInv, TypeOK, MarkComplete, Clearing, Traffic, Busy, Tasks,
       Goto, Ends, store, model
  <2>18. ASSUME NEW r \in Refreshes, RefreshBegin(r) PROVE PairInv'
    BY <2>18, TasksAssumption DEF PairInv, TypeOK, RefreshBegin, Clearing,
       Traffic, Busy, Tasks, Goto, store
  <2>19. ASSUME NEW r \in Refreshes, RefreshRead(r) PROVE PairInv'
    BY <2>19 DEF PairInv, TypeOK, RefreshRead, Clearing, Traffic, Busy, Tasks,
       Goto, store, model
  <2>20. ASSUME NEW r \in Refreshes, RefreshReadFails(r) PROVE PairInv'
    BY <2>20 DEF PairInv, TypeOK, RefreshReadFails, Clearing, Traffic, Busy,
       Tasks, Goto, Ends, Fails, store
  <2>21. ASSUME NEW r \in Refreshes, RefreshAnswered(r) PROVE PairInv'
    BY <2>21 DEF PairInv, TypeOK, RefreshAnswered, Clearing, Traffic, Busy,
       Tasks, Goto, Ends, store, model
  <2>22. ASSUME NEW r \in Refreshes, RefreshRotated(r) PROVE PairInv'
    BY <2>22 DEF PairInv, TypeOK, RefreshRotated, Clearing, Traffic, Busy,
       Tasks, Goto, store
  <2>23. ASSUME NEW r \in Refreshes, RefreshAnswerLost(r) PROVE PairInv'
    BY <2>23 DEF PairInv, TypeOK, RefreshAnswerLost, Clearing, Traffic, Busy,
       Tasks, Goto, Ends, Fails, store
  <2>24. ASSUME NEW r \in Refreshes, RefreshStore(r) PROVE PairInv'
    BY <2>24 DEF PairInv, TypeOK, RefreshStore, Clearing, Traffic, Busy, Tasks,
       Goto, Ends, model
  <2>25. ASSUME NEW r \in Refreshes, RefreshStoreFails(r) PROVE PairInv'
    BY <2>25 DEF PairInv, TypeOK, RefreshStoreFails, Clearing, Traffic, Busy,
       Tasks, Goto, Ends, Fails, store
  <2>26. ASSUME Restart PROVE PairInv'
    BY <2>26 DEF PairInv, TypeOK, Restart, Clearing, Traffic, Busy, Tasks, store
  <2>27. ASSUME NEW c \in Callbacks, Abandon(c) PROVE PairInv'
    BY <2>27
    DEF PairInv, TypeOK, Clearing, Traffic, Busy, Tasks, Abandon, Goto, Ends, store
  <2>28. ASSUME NEW c \in Callbacks, AbandonStoring(c) PROVE PairInv'
    BY <2>28
    DEF PairInv, TypeOK, Clearing, Traffic, Busy, Tasks, AbandonStoring, Goto, store
  <2>29. ASSUME NEW c \in Callbacks, StoreDetached(c) PROVE PairInv'
    BY <2>29
    DEF PairInv, TypeOK, Clearing, Traffic, Busy, Tasks, StoreDetached, Goto, Ends, Fails, model
  <2> QED BY <2>0, <2>1, <2>2, <2>3, <2>4, <2>5, <2>6, <2>7, <2>8, <2>9, <2>10,
     <2>11, <2>12, <2>13, <2>14, <2>15, <2>16, <2>17, <2>18, <2>19, <2>20,
     <2>21, <2>22, <2>23, <2>24, <2>25, <2>26, <2>27, <2>28, <2>29,
     NextCases
<1>3. PairInv => PairKept
  BY DEF PairInv, PairKept
<1> QED BY <1>1, <1>2, <1>3, TypeCorrect, PointsCorrect, PTL DEF Spec

-----------------------------------------------------------------------------
(* The window is told the truth *)

\* Until a command and a task clash, nothing removes the token between its
\* storing and the mark.
ConnectInv ==
  /\ \A t \in Callbacks \cup Refreshes : Pending(t) => new[t] # None
  /\ ~clashed => \A c \in Callbacks : pc[c] = "marking" => token # None

\* A flow turns to completed only when the refresh token is in the store
\* (complete_auth, then mark_complete), unless a command meddled.
THEOREM ConnectedCorrect == Spec => ConnectedHasToken
<1>1. Init => ConnectInv
  BY DEF Init, ConnectInv, Pending, Tasks
<1>2. TypeOK /\ PointsInv /\ ConnectInv /\ [Next]_vars => ConnectInv'
  <2> SUFFICES ASSUME TypeOK, PointsInv, ConnectInv, [Next]_vars PROVE ConnectInv'
    OBVIOUS
  <2>0. ASSUME UNCHANGED vars PROVE ConnectInv'
    BY <2>0 DEF ConnectInv, Pending, vars, store, locals, model
  <2>1. ASSUME SaveCreds PROVE ConnectInv'
    BY <2>1
    DEF ConnectInv, Pending, TypeOK, SaveCreds, Traffic, Busy, Tasks, locals
  <2>2. ASSUME Disconnect PROVE ConnectInv'
    BY <2>2
    DEF ConnectInv, Pending, TypeOK, Disconnect, Traffic, Busy, Tasks, locals
  <2>3. ASSUME NEW s \in Clears, ClearToken(s) PROVE ConnectInv'
    BY <2>3
    DEF ConnectInv, Pending, TypeOK, ClearToken, Traffic, Busy, Tasks, Goto
  <2>4. ASSUME NEW s \in Clears, ClearTokenFails(s) PROVE ConnectInv'
    BY <2>4 DEF ConnectInv, Pending, TypeOK, ClearTokenFails, Traffic, Busy,
       Tasks, Goto, Fails, store
  <2>5. ASSUME NEW s \in Clears, ClearCreds(s) PROVE ConnectInv'
    BY <2>5
    DEF ConnectInv, Pending, TypeOK, ClearCreds, Tasks, Goto, Ends, model
  <2>6. ASSUME NEW s \in Clears, ClearCredsFails(s) PROVE ConnectInv'
    BY <2>6 DEF ConnectInv, Pending, TypeOK, ClearCredsFails, Tasks, Goto,
       Ends, Fails, store
  <2>7. ASSUME NEW g \in Flows, Begin(g) PROVE ConnectInv'
    BY <2>7 DEF ConnectInv, Pending, TypeOK, Begin, Tasks, store, locals
  <2>8. ASSUME NEW g \in Flows, Poll(g) PROVE ConnectInv'
    BY <2>8 DEF ConnectInv, Pending, TypeOK, Poll, Tasks, store, locals, model
  <2>9. ASSUME NEW g \in Flows, Denied(g) PROVE ConnectInv'
    BY <2>9 DEF ConnectInv, Pending, TypeOK, Denied, Tasks, store, locals, model
  <2>10. ASSUME NEW c \in Callbacks, NEW g \in Flows, Arrive(c, g) PROVE ConnectInv'
    BY <2>10
    DEF ConnectInv, Pending, TypeOK, Arrive, Clearing, Busy, Tasks, Goto, store
  <2>11. ASSUME NEW c \in Callbacks, CheckCreds(c) PROVE ConnectInv'
    BY <2>11
    DEF ConnectInv, Pending, TypeOK, CheckCreds, Tasks, Goto, store, model
  <2>12. ASSUME NEW c \in Callbacks, CredsVanished(c) PROVE ConnectInv'
    BY <2>12 DEF ConnectInv, Pending, TypeOK, CredsVanished, Tasks, Goto, Ends,
       Fails, store
  <2>13. ASSUME NEW c \in Callbacks, Exchange(c) PROVE ConnectInv'
    BY <2>13, NoneAssumption DEF ConnectInv, Pending, TypeOK, Exchange, Tasks, Goto, store
  <2>14. ASSUME NEW c \in Callbacks, ExchangeFails(c) PROVE ConnectInv'
    BY <2>14 DEF ConnectInv, Pending, TypeOK, ExchangeFails, Tasks, Goto, Ends,
       store, model
  <2>15. ASSUME NEW c \in Callbacks, StoreToken(c) PROVE ConnectInv'
    BY <2>15 DEF ConnectInv, Pending, TypeOK, StoreToken, Tasks, Goto, model
  <2>16. ASSUME NEW c \in Callbacks, StoreTokenFails(c) PROVE ConnectInv'
    BY <2>16 DEF ConnectInv, Pending, TypeOK, StoreTokenFails, Tasks, Goto,
       Ends, Fails, store
  <2>17. ASSUME NEW c \in Callbacks, MarkComplete(c) PROVE ConnectInv'
    BY <2>17 DEF ConnectInv, Pending, TypeOK, MarkComplete, Tasks, Goto, Ends,
       store, model
  <2>18. ASSUME NEW r \in Refreshes, RefreshBegin(r) PROVE ConnectInv'
    BY <2>18 DEF ConnectInv, Pending, TypeOK, RefreshBegin, Clearing, Busy,
       Tasks, Goto, store
  <2>19. ASSUME NEW r \in Refreshes, RefreshRead(r) PROVE ConnectInv'
    BY <2>19
    DEF ConnectInv, Pending, TypeOK, RefreshRead, Tasks, Goto, store, model
  <2>20. ASSUME NEW r \in Refreshes, RefreshReadFails(r) PROVE ConnectInv'
    BY <2>20 DEF ConnectInv, Pending, TypeOK, RefreshReadFails, Tasks, Goto,
       Ends, Fails, store
  <2>21. ASSUME NEW r \in Refreshes, RefreshAnswered(r) PROVE ConnectInv'
    BY <2>21 DEF ConnectInv, Pending, TypeOK, RefreshAnswered, Tasks, Goto,
       Ends, store, model
  <2>22. ASSUME NEW r \in Refreshes, RefreshRotated(r) PROVE ConnectInv'
    BY <2>22, NoneAssumption DEF ConnectInv, Pending, TypeOK, RefreshRotated, Tasks, Goto, store
  <2>23. ASSUME NEW r \in Refreshes, RefreshAnswerLost(r) PROVE ConnectInv'
    BY <2>23 DEF ConnectInv, Pending, TypeOK, RefreshAnswerLost, Tasks, Goto,
       Ends, Fails, store
  <2>24. ASSUME NEW r \in Refreshes, RefreshStore(r) PROVE ConnectInv'
    BY <2>24
    DEF ConnectInv, Pending, TypeOK, RefreshStore, Tasks, Goto, Ends, model
  <2>25. ASSUME NEW r \in Refreshes, RefreshStoreFails(r) PROVE ConnectInv'
    BY <2>25 DEF ConnectInv, Pending, TypeOK, RefreshStoreFails, Tasks, Goto,
       Ends, Fails, store
  <2>26. ASSUME Restart PROVE ConnectInv'
    BY <2>26 DEF ConnectInv, Pending, TypeOK, Restart, Busy, Tasks, store
  <2>27. ASSUME NEW c \in Callbacks, Abandon(c) PROVE ConnectInv'
    BY <2>27
    DEF ConnectInv, Pending, TypeOK, Tasks, Abandon, Goto, Ends, store
  <2>28. ASSUME NEW c \in Callbacks, AbandonStoring(c) PROVE ConnectInv'
    BY <2>28
    DEF ConnectInv, Pending, TypeOK, Tasks, AbandonStoring, Goto, store
  <2>29. ASSUME NEW c \in Callbacks, StoreDetached(c) PROVE ConnectInv'
    BY <2>29
    DEF ConnectInv, Pending, TypeOK, Tasks, StoreDetached, Goto, Ends, Fails, model
  <2> QED BY <2>0, <2>1, <2>2, <2>3, <2>4, <2>5, <2>6, <2>7, <2>8, <2>9, <2>10,
     <2>11, <2>12, <2>13, <2>14, <2>15, <2>16, <2>17, <2>18, <2>19, <2>20,
     <2>21, <2>22, <2>23, <2>24, <2>25, <2>26, <2>27, <2>28, <2>29,
     NextCases
<1>3. TypeOK /\ ConnectInv /\ [Next]_vars =>
        [\A f \in Flows : Completes(f) => token' # None \/ clashed']_vars
  <2> SUFFICES ASSUME TypeOK, ConnectInv, Next, NEW f \in Flows, Completes(f)
               PROVE  token' # None \/ clashed'
    OBVIOUS
  <2>1. UNCHANGED flow => ~Completes(f)
    BY DEF Completes
  <2>2. ASSUME NEW g \in Flows, Begin(g) \/ Poll(g) PROVE ~Completes(f)
    BY <2>2 DEF Completes, TypeOK, Entry, Begin, Poll
  <2>3. ASSUME NEW c \in Callbacks, NEW g \in Flows, Arrive(c, g)
        PROVE  ~Completes(f)
    BY <2>3 DEF Completes, TypeOK, Entry, Arrive
  <2>4. ASSUME NEW g \in Flows \cup {None}, flow' = Marked(g, "error")
        PROVE  ~Completes(f)
    BY <2>4, MarkedKeeps DEF Completes, TypeOK
  <2>5. ASSUME NEW g \in Flows, Denied(g) PROVE ~Completes(f)
    BY <2>4, <2>5 DEF Denied
  <2>6. ASSUME NEW c \in Callbacks,
               CredsVanished(c) \/ ExchangeFails(c) \/ StoreTokenFails(c)
        PROVE  ~Completes(f)
    <3>1. at[c] \in Flows \cup {None} /\ flow' = Marked(at[c], "error")
      BY <2>6 DEF TypeOK, CredsVanished, ExchangeFails, StoreTokenFails
    <3> QED BY <3>1, <2>4
  <2>7. ASSUME Restart PROVE ~Completes(f)
    BY <2>7 DEF Restart, Completes
  <2>8. ASSUME NEW c \in Callbacks, MarkComplete(c)
        PROVE  token' # None \/ clashed'
    BY <2>8 DEF ConnectInv, MarkComplete, store, model
  <2>9. \/ UNCHANGED flow \/ Restart
        \/ \E g \in Flows : Begin(g) \/ Poll(g) \/ Denied(g)
        \/ \E c \in Callbacks, g \in Flows : Arrive(c, g)
        \/ \E c \in Callbacks : CredsVanished(c) \/ ExchangeFails(c)
                                 \/ StoreTokenFails(c) \/ MarkComplete(c)
    BY NextCases
    DEF SaveCreds, Disconnect, ClearToken, ClearTokenFails, ClearCreds,
        ClearCredsFails, CheckCreds, Exchange, StoreToken, Abandon, AbandonStoring,
        StoreDetached, RefreshBegin,
        RefreshRead, RefreshReadFails, RefreshAnswered, RefreshRotated,
        RefreshAnswerLost, RefreshStore, RefreshStoreFails
  <2> QED BY <2>1, <2>2, <2>3, <2>5, <2>6, <2>7, <2>8, <2>9
<1> QED
  BY <1>1, <1>2, <1>3, TypeCorrect, PointsCorrect, PTL DEF Spec, ConnectedHasToken

-----------------------------------------------------------------------------
(* Every flow is told *)

\* Who has a verifier came for a flow, and is at work; a callback that stores or
\* marks a token has it.
AtWork(c) == Busy(c) /\ pc[c] # "detached"

ToldInv ==
  /\ \A c \in Callbacks : own[c] => at[c] \in Flows /\ AtWork(c)
  /\ \A c \in Callbacks : pc[c] \in {"storing", "marking"} => own[c]
  /\ FlowsAreTold

\* A step that renews no flow, and lets no verifier go whose flow is in progress.
LEMMA ToldFrame ==
  ASSUME TypeOK, ToldInv, abandoned \subseteq abandoned',
         \A c \in Callbacks : own'[c] => own[c] /\ at'[c] = at[c] /\ AtWork(c)',
         \A c \in Callbacks : pc'[c] \in {"storing", "marking"} => own'[c],
         \A f \in Flows : InProgress(f)' /\ ~flow'[f].fresh =>
            /\ InProgress(f) /\ ~flow[f].fresh
            /\ \A c \in Callbacks : own[c] /\ at[c] = f => own'[c] \/ f \in abandoned'
  PROVE  ToldInv'
<1>1. ASSUME NEW f \in Flows, InProgress(f)', ~flow'[f].fresh
      PROVE  f \in abandoned' \/ \E c \in Callbacks : own'[c] /\ at'[c] = f
  <2>1. f \in abandoned \/ \E c \in Callbacks : own[c] /\ at[c] = f
    BY <1>1 DEF ToldInv, FlowsAreTold
  <2> QED BY <1>1, <2>1
<1> QED BY <1>1 DEF ToldInv, FlowsAreTold

\* The callback ends with a mark: its flow is no longer in progress.
LEMMA ToldMarked ==
  ASSUME TypeOK, ToldInv, NEW c \in Callbacks, Ends(c), abandoned' = abandoned,
         NEW field \in {"completed", "error"}, flow' = Marked(at[c], field)
  PROVE  ToldInv'
<1>1. /\ \A d \in Callbacks : own'[d] => d # c /\ own[d] /\ at'[d] = at[d]
      /\ \A d \in Callbacks : pc'[d] = IF d = c THEN "done" ELSE pc[d]
      /\ \A d \in Callbacks : d # c => own'[d] = own[d]
  BY DEF Ends, Goto, TypeOK, Tasks
<1>2. ASSUME NEW f \in Flows, InProgress(f)', ~flow'[f].fresh
      PROVE  InProgress(f) /\ ~flow[f].fresh /\ f # at[c]
  BY <1>2 DEF InProgress, Marked, TypeOK, Entry
<1>3. \A d \in Callbacks : own'[d] => AtWork(d)'
  BY <1>1 DEF ToldInv, AtWork, Busy
<1>4. \A d \in Callbacks : pc'[d] \in {"storing", "marking"} => own'[d]
  BY <1>1 DEF ToldInv
<1> QED BY <1>1, <1>2, <1>3, <1>4, ToldFrame

\* A flow of the table whose verifier was taken is in progress only while its
\* callback is at work or because its browser went away (handle_oauth_callback),
\* for any number of flows, callbacks, sweeps, restarts and failing calls.
THEOREM ToldCorrect == Spec => []FlowsAreTold
<1>1. Init => ToldInv
  BY NoneAssumption DEF Init, ToldInv, FlowsAreTold, InProgress, Tasks
<1>2. TypeOK /\ ToldInv /\ [Next]_vars => ToldInv'
  <2> SUFFICES ASSUME TypeOK, ToldInv, [Next]_vars PROVE ToldInv'
    OBVIOUS
  <2>1. ASSUME UNCHANGED <<flow, abandoned>>,
               \A c \in Callbacks : pc'[c] = pc[c] /\ own'[c] = own[c] /\ at'[c] = at[c]
        PROVE  ToldInv'
    BY <2>1 DEF ToldInv, FlowsAreTold, InProgress, AtWork, Busy
  <2>2. CASE UNCHANGED vars \/ SaveCreds \/ Disconnect
    BY <2>1, <2>2 DEF vars, locals, model, SaveCreds, Disconnect
  <2>3. ASSUME NEW s \in Clears,
               ClearToken(s) \/ ClearTokenFails(s) \/ ClearCreds(s) \/ ClearCredsFails(s)
        PROVE  ToldInv'
    <3>1. \A c \in Callbacks : pc'[c] = pc[c] /\ own'[c] = own[c] /\ at'[c] = at[c]
      BY <2>3, TasksAssumption DEF ClearToken, ClearTokenFails, ClearCreds,
         ClearCredsFails, Ends, Goto, TypeOK, Tasks
    <3> QED BY <2>1, <2>3, <3>1
      DEF ClearToken, ClearTokenFails, ClearCreds, ClearCredsFails, model
  <2>4. ASSUME NEW r \in Refreshes, RefreshStep(r) PROVE ToldInv'
    <3>1. \A c \in Callbacks : pc'[c] = pc[c] /\ own'[c] = own[c] /\ at'[c] = at[c]
      BY <2>4, TasksAssumption DEF RefreshStep, RefreshBegin, RefreshRead,
         RefreshReadFails, RefreshAnswered, RefreshRotated, RefreshAnswerLost,
         RefreshStore, RefreshStoreFails, Ends, Goto, TypeOK, Tasks
    <3> QED BY <2>1, <2>4, <3>1 DEF RefreshStep, RefreshBegin, RefreshRead,
         RefreshReadFails, RefreshAnswered, RefreshRotated, RefreshAnswerLost,
         RefreshStore, RefreshStoreFails, model
  <2>5. ASSUME NEW f \in Flows, Begin(f) \/ Poll(f) \/ Denied(f) PROVE ToldInv'
    <3>1. UNCHANGED <<pc, own, at, abandoned>>
      BY <2>5 DEF Begin, Poll, Denied, locals, model
    <3>2. ASSUME NEW g \in Flows, InProgress(g)', ~flow'[g].fresh
          PROVE  InProgress(g) /\ ~flow[g].fresh
      BY <2>5, <3>2, NoneAssumption
      DEF Begin, Poll, Denied, Marked, InProgress, TypeOK, Entry
    <3> QED BY <3>1, <3>2, ToldFrame DEF ToldInv, AtWork, Busy
  <2>6. ASSUME NEW c \in Callbacks, NEW f \in Flows, Arrive(c, f) PROVE ToldInv'
    <3>1. /\ pc[c] = "idle" /\ flow[f] # None /\ abandoned' = abandoned
          /\ own'[c] = flow[f].fresh /\ at'[c] = f /\ pc'[c] = "checking"
          /\ \A d \in Callbacks : d # c =>
               own'[d] = own[d] /\ at'[d] = at[d] /\ pc'[d] = pc[d]
          /\ flow' = [flow EXCEPT ![f].fresh = FALSE]
      BY <2>6 DEF Arrive, Goto, TypeOK, Tasks
    <3>2. ~own[c]
      BY <3>1 DEF ToldInv, AtWork, Busy
    <3>3. ASSUME NEW g \in Flows, InProgress(g)', ~flow'[g].fresh
          PROVE  g \in abandoned' \/ \E d \in Callbacks : own'[d] /\ at'[d] = g
      <4>1. InProgress(g) /\ (g # f => flow'[g] = flow[g])
        BY <3>1, <3>3, NoneAssumption DEF InProgress, TypeOK, Entry
      <4>2. CASE ~flow[g].fresh
        <5>1. g \in abandoned \/ \E d \in Callbacks : own[d] /\ at[d] = g
          BY <4>1, <4>2 DEF ToldInv, FlowsAreTold
        <5> QED BY <3>1, <3>2, <5>1
      <4>3. CASE flow[g].fresh
        <5>1. g = f
          BY <3>3, <4>1, <4>3
        <5> QED BY <3>1, <4>3, <5>1
      <4>4. flow[g] \in Entry
        BY <4>1 DEF InProgress, TypeOK
      <4> QED BY <4>2, <4>3
    <3>4. /\ \A d \in Callbacks : own'[d] => at'[d] \in Flows /\ AtWork(d)'
          /\ \A d \in Callbacks : pc'[d] \in {"storing", "marking"} => own'[d]
      BY <3>1 DEF ToldInv, AtWork, Busy
    <3> QED BY <3>3, <3>4 DEF ToldInv, FlowsAreTold
  <2>7. ASSUME NEW c \in Callbacks, CheckCreds(c) \/ Exchange(c) \/ StoreToken(c)
        PROVE  ToldInv'
    <3>1. /\ UNCHANGED <<flow, own, at, abandoned>>
          /\ \A d \in Callbacks : d # c => pc'[d] = pc[d]
          /\ pc'[c] \in {"exchanging", "storing", "marking"}
          /\ pc'[c] # "exchanging" => own[c]
      BY <2>7 DEF CheckCreds, Exchange, StoreToken, Goto, model, ToldInv, TypeOK, Tasks
    <3> QED BY <3>1, ToldFrame DEF ToldInv, AtWork, Busy, InProgress
  <2>8. ASSUME NEW c \in Callbacks,
               CredsVanished(c) \/ ExchangeFails(c) \/ StoreTokenFails(c) \/ MarkComplete(c)
        PROVE  ToldInv'
    <3>1. /\ Ends(c) /\ abandoned' = abandoned
          /\ flow' = Marked(at[c], "error") \/ flow' = Marked(at[c], "completed")
      BY <2>8 DEF CredsVanished, ExchangeFails, StoreTokenFails, MarkComplete, model
    <3> QED BY <3>1, ToldMarked
  <2>9. ASSUME NEW c \in Callbacks, Abandon(c) \/ AbandonStoring(c) PROVE ToldInv'
    <3>1. /\ flow' = flow /\ abandoned \subseteq abandoned'
          /\ own[c] => at[c] \in abandoned'
          /\ ~own'[c] /\ pc'[c] \in {"done", "detached"}
          /\ \A d \in Callbacks : d # c =>
               own'[d] = own[d] /\ at'[d] = at[d] /\ pc'[d] = pc[d]
      BY <2>9 DEF Abandon, AbandonStoring, Ends, Goto, TypeOK, Tasks
    <3>2. \A d \in Callbacks : own'[d] => own[d] /\ at'[d] = at[d] /\ AtWork(d)'
      BY <3>1 DEF ToldInv, AtWork, Busy
    <3>3. \A d \in Callbacks : pc'[d] \in {"storing", "marking"} => own'[d]
      BY <3>1 DEF ToldInv
    <3> QED BY <3>1, <3>2, <3>3, ToldFrame DEF InProgress
  <2>10. ASSUME NEW c \in Callbacks, StoreDetached(c) PROVE ToldInv'
    <3>1. /\ UNCHANGED <<flow, abandoned>> /\ pc[c] = "detached"
          /\ ~own'[c] /\ pc'[c] = "done"
          /\ \A d \in Callbacks : d # c =>
               own'[d] = own[d] /\ at'[d] = at[d] /\ pc'[d] = pc[d]
      BY <2>10 DEF StoreDetached, Ends, Goto, TypeOK, Tasks
    <3>2. ~own[c]
      BY <3>1 DEF ToldInv, AtWork
    <3> QED BY <3>1, <3>2, ToldFrame DEF ToldInv, AtWork, Busy, InProgress
  <2>11. CASE Restart
    BY <2>11, NoneAssumption DEF Restart, ToldInv, FlowsAreTold, InProgress, AtWork, Busy, TypeOK, Tasks
  <2> QED BY <2>2, <2>3, <2>4, <2>5, <2>6, <2>7, <2>8, <2>9, <2>10, <2>11
    DEF Next, ClearStep, CallbackStep
<1>3. ToldInv => FlowsAreTold
  BY DEF ToldInv
<1> QED BY <1>1, <1>2, <1>3, TypeCorrect, PTL DEF Spec
=============================================================================
