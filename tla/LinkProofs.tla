----------------------------- MODULE LinkProofs -----------------------------
(***************************************************************************)
(* Proofs about ReviewLinks, for any number of recommendations, requests,  *)
(* ports, restarts and lost secrets, and for any lifetime of a link: type  *)
(* correctness, that the row is reached by good links only, that an answer *)
(* tells the truth, and that the requests implement the verdict board.     *)
(***************************************************************************)
EXTENDS ReviewLinks, TLAPS

\* A link as it is mailed: a Lifetime long and signed over its own fields.
Whole(l) ==
    /\ l.exp = l.issued + Lifetime
    /\ l.sig = Signature(l.sig.key, l.rec, l.action, l.issued, l.exp)

\* Where a request past its check may come from.
FromPage(c) == call[c].query = None /\ call[c].rec \in saved

FromMail(c) ==
    /\ call[c].query \in mail
    /\ call[c].query.sig.key = secret
    /\ call[c].rec = call[c].query.rec
    /\ call[c].action = call[c].query.action

\* What holds of a request at each point, and why: what arrived is a mailed link
\* or one that lost a field; the check lets the mailed ones of this secret
\* through; an answer is given for a reason that lasts as long as the process.
CallInv(c) ==
    /\ call[c] = [pc |-> call[c].pc, rec |-> call[c].rec, action |-> call[c].action,
                  at |-> call[c].at, query |-> call[c].query]
    /\ call[c].at <= clock
    /\ call[c].rec \in Recs \union {None} /\ call[c].action \in Actions \union {None}
    /\ call[c].pc \in {"arrived", "rejected"} =>
        /\ \E l \in mail : call[c].query \in Arrivals(l)
        /\ call[c].rec = call[c].query.rec
        /\ call[c].action = call[c].query.action
    /\ call[c].pc \in {"verified", "stamped", "recorded", "not_found"} => FromPage(c) \/ FromMail(c)
    /\ call[c].pc = "verified" /\ call[c].query # None => call[c].at <= call[c].query.exp
    /\ call[c].pc = "rejected" /\ call[c].query \in mail
        => call[c].query.exp < clock \/ call[c].query.sig.key # secret
    /\ call[c].pc = "not_found" => call[c].rec \notin saved
    /\ ~Up => call[c] = Idle

LinkInv ==
    /\ \A l \in mail : Whole(l)
    /\ \A c \in Calls : CallInv(c)

\* The steps of Next, one disjunct per action.
LEMMA NextCases ==
  ASSUME Next
  PROVE  \/ \E r \in Recs : SaveRec(r)
         \/ \E r \in Recs : MailRec(r)
         \/ \E c \in Calls : Open(c)
         \/ \E c \in Calls : Check(c)
         \/ \E c \in Calls : ReadClock(c)
         \/ \E c \in Calls : SetDisposition(c)
         \/ \E c \in Calls : UpdateRow(c)
         \/ \E c \in Calls : UpdateNoRow(c)
         \/ \E c \in Calls : UpdateFails(c)
         \/ \E c \in Calls : Respond(c)
         \/ Crash \/ (\E p \in Ports : Boot(p)) \/ Tick
BY DEF Next

-----------------------------------------------------------------------------
(* Links *)

\* The links mailed for a recommendation are well typed and whole.
LEMMA SignedWhole ==
  ASSUME TypeOK, Up, NEW r \in Recs, NEW a \in Actions
  PROVE  /\ SignedLink(r, a) \in Links
         /\ Whole(SignedLink(r, a))
         /\ SignedLink(r, a).rec = r
BY LinkAssumption DEF TypeOK, Up, SignedLink, Signature, Links, Whole

\* What arrives of a link names its recommendation and verdict, or none.
LEMMA ArrivalNames ==
  ASSUME NEW l \in Links, NEW q \in Arrivals(l)
  PROVE  q.rec \in {l.rec, None} /\ q.action \in {l.action, None}
BY LinkAssumption DEF Links, Arrivals

\* A link that lost a field does not pass the check: the signature is over
\* every field, so what verifies is a link as it was mailed.
LEMMA VerifiedWasMailed ==
  ASSUME secret \in Nat, NEW l \in Links, Whole(l), NEW q \in Arrivals(l),
         q.action \in Actions, Verify(q)
  PROVE  q = l /\ l.sig.key = secret /\ clock <= l.exp
<1>1. q.sig = Signature(secret, q.rec, q.action, q.issued, q.exp) /\ clock <= q.exp
  BY DEF Verify
<1>2. /\ l.sig = Signature(l.sig.key, l.rec, l.action, l.issued, l.exp)
      /\ l.rec \in Recs /\ l.action \in Actions
  BY DEF Whole, Links
<1>3. CASE q = l
  BY <1>1, <1>2, <1>3 DEF Signature
<1>4. ASSUME NEW f \in Loses,
             q = [l EXCEPT ![f] = IF f \in {"issued", "exp"} THEN 0 ELSE None]
      PROVE  q = l
  <2>1. CASE f \in {"rec", "action"}
    <3>1. q.sig = l.sig /\ (q.rec = None \/ q.action = None)
      BY <1>4, <2>1 DEF Links
    <3> QED BY <3>1, <1>1, <1>2, LinkAssumption DEF Signature
  <2>2. CASE f = "issued"
    <3>1. q.sig = l.sig /\ q = [l EXCEPT !.issued = 0] /\ q.issued = 0
      BY <1>4, <2>2 DEF Links
    <3>2. l.issued = 0
      BY <3>1, <1>1, <1>2 DEF Signature
    <3> QED BY <3>1, <3>2 DEF Links
  <2>3. CASE f = "exp"
    <3>1. q.sig = l.sig /\ q = [l EXCEPT !.exp = 0] /\ q.exp = 0
      BY <1>4, <2>3 DEF Links
    <3>2. l.exp = 0
      BY <3>1, <1>1, <1>2 DEF Signature
    <3> QED BY <3>1, <3>2 DEF Links
  <2>4. CASE f = "sig"
    <3>1. /\ q.sig = None /\ q.rec = l.rec /\ q.action = l.action
          /\ q.issued = l.issued /\ q.exp = l.exp
      BY <1>4, <2>4 DEF Links
    <3>2. q.sig \in [key : Nat, rec : Recs, action : Actions, issued : Nat, exp : Nat]
      BY <3>1, <1>1 DEF Signature, Links
    <3> QED BY <3>1, <3>2, LinkAssumption
  <2> QED BY <2>1, <2>2, <2>3, <2>4, LinkAssumption
<1>5. q = l
  BY <1>3, <1>4 DEF Arrivals
<1> QED BY <1>3, <1>5, <1>1

-----------------------------------------------------------------------------
(* Types and the inductive invariant *)

\* A request that a step leaves alone keeps its part of the invariant while
\* the mail, the rows and the secret stay and the clock does not go back.
LEMMA CallKept ==
  ASSUME NEW c \in Calls, CallInv(c), call[c].at \in Nat, call'[c] = call[c],
         clock \in Nat, clock' \in Nat, clock <= clock', mail \subseteq Links,
         UNCHANGED <<mail, saved, secret>>, Up' \/ UNCHANGED port
  PROVE  CallInv(c)'
<1>1. ~Up' => ~Up
  BY DEF Up
<1>2. call[c].at <= clock'
  BY DEF CallInv
<1> QED BY <1>1, <1>2 DEF CallInv, FromPage, FromMail, Arrivals, Links

\* Every step keeps the types: a request past its check carries a
\* recommendation and a verdict that exist, and a verdict stands on a saved row
\* with a time the clock has reached.
LEMMA TypeStep ==
  ASSUME TypeOK, LinkInv, [Next]_vars
  PROVE  TypeOK'
<1> USE DEF TypeOK, Step, Answers
<1>t. \A c \in Calls :
        /\ call[c] = [pc |-> call[c].pc, rec |-> call[c].rec, action |-> call[c].action,
                      at |-> call[c].at, query |-> call[c].query]
        /\ call[c].at <= clock
  BY DEF LinkInv, CallInv
<1>0. CASE UNCHANGED vars
  BY <1>0 DEF vars
<1>1. ASSUME NEW r \in Recs, SaveRec(r) PROVE TypeOK'
  BY <1>1 DEF SaveRec
<1>2. ASSUME NEW r \in Recs, MailRec(r) PROVE TypeOK'
  <2>1. mail' \subseteq Links
    BY <1>2, SignedWhole DEF MailRec
  <2> QED BY <1>2, <2>1 DEF MailRec
<1>3. ASSUME NEW c \in Calls, Open(c) PROVE TypeOK'
  <2>1. \A d \in Calls \ {c} : call'[d] = call[d]
    BY <1>3 DEF Open
  <2>2. call'[c].pc = "arrived" /\ call'[c].at = clock
    BY <1>3 DEF Open
  <2>3. DOMAIN call' = Calls
    BY <1>3 DEF Open
  <2> QED BY <1>3, <2>1, <2>2, <2>3 DEF Open
<1>4. ASSUME NEW c \in Calls, Check(c) PROVE TypeOK'
  <2>1. \A d \in Calls \ {c} : call'[d] = call[d]
    BY <1>4 DEF Check
  <2>2. /\ call'[c].pc \in {"malformed", "rejected", "verified"}
        /\ call'[c].at = call[c].at
    BY <1>4, <1>t DEF Check
  <2>3. call'[c].pc = "verified" => call'[c].rec \in Recs /\ call'[c].action \in Actions
    <3> SUFFICES ASSUME call'[c].pc = "verified"
                 PROVE  call'[c].rec \in Recs /\ call'[c].action \in Actions
      OBVIOUS
    <3>1. call[c].query.action \in Actions /\ Verify(call[c].query)
      BY <1>4, <1>t DEF Check
    <3>2. PICK l \in mail : call[c].query \in Arrivals(l)
      BY <1>4 DEF Check, LinkInv, CallInv
    <3>3. call[c].query = l
      BY <3>1, <3>2, VerifiedWasMailed DEF LinkInv
    <3>4. call'[c].rec = l.rec /\ call'[c].action = l.action
      BY <1>4, <1>t, <3>3 DEF Check, LinkInv, CallInv
    <3> QED BY <3>4 DEF Links
  <2>4. DOMAIN call' = Calls
    BY <1>4 DEF Check
  <2> QED BY <1>4, <2>1, <2>2, <2>3, <2>4 DEF Check
<1>5. ASSUME NEW c \in Calls, ReadClock(c) PROVE TypeOK'
  <2>1. \A d \in Calls \ {c} : call'[d] = call[d]
    BY <1>5 DEF ReadClock
  <2>2. /\ call'[c].pc = "stamped" /\ call'[c].at = clock
        /\ call'[c].rec = call[c].rec /\ call'[c].action = call[c].action
    BY <1>5, <1>t DEF ReadClock
  <2>3. DOMAIN call' = Calls
    BY <1>5 DEF ReadClock
  <2> QED BY <1>5, <2>1, <2>2, <2>3 DEF ReadClock
<1>6. ASSUME NEW c \in Calls, SetDisposition(c) PROVE TypeOK'
  <2>1. \A d \in Calls \ {c} : call'[d] = call[d]
    BY <1>6 DEF SetDisposition
  <2>2. PICK r \in saved, a \in Actions : call' =
          [call EXCEPT ![c] = [Idle EXCEPT !.pc = "verified", !.rec = r, !.action = a]]
    BY <1>6 DEF SetDisposition
  <2>3. call'[c].pc = "verified" /\ call'[c].at = 0 /\ call'[c].rec = r /\ call'[c].action = a
    BY <2>2 DEF Idle
  <2>4. DOMAIN call' = Calls
    BY <2>2
  <2> QED BY <1>6, <2>1, <2>3, <2>4 DEF SetDisposition
<1>7. ASSUME NEW c \in Calls, UpdateRow(c) PROVE TypeOK'
  <2>1. \A d \in Calls \ {c} : call'[d] = call[d]
    BY <1>7 DEF UpdateRow
  <2>2. /\ call'[c].pc = "recorded" /\ call'[c].at = call[c].at
        /\ call'[c].rec = call[c].rec /\ call'[c].action = call[c].action
    BY <1>7, <1>t DEF UpdateRow
  <2>3. DOMAIN call' = Calls
    BY <1>7 DEF UpdateRow
  <2>4. call[c].rec \in Recs /\ call[c].action \in Actions
    BY <1>7 DEF UpdateRow
  <2>5. /\ verdict' \in [Recs -> Actions \union {None}]
        /\ stamp' \in [Recs -> Nat \union {None}]
    BY <1>7, <2>4 DEF UpdateRow
  <2>6. \A r \in Recs :
          /\ (verdict'[r] = None) = (stamp'[r] = None)
          /\ verdict'[r] # None => r \in saved /\ stamp'[r] <= clock
    BY <1>7, <2>4, <1>t, LinkAssumption DEF UpdateRow
  <2> QED BY <1>7, <2>1, <2>2, <2>3, <2>4, <2>5, <2>6 DEF UpdateRow
<1>8. ASSUME NEW c \in Calls, UpdateNoRow(c) \/ UpdateFails(c) PROVE TypeOK'
  <2>1. \A d \in Calls \ {c} : call'[d] = call[d]
    BY <1>8 DEF UpdateNoRow, UpdateFails
  <2>2. /\ call'[c].pc \in {"not_found", "failed"} /\ call'[c].at = call[c].at
        /\ call'[c].rec = call[c].rec /\ call'[c].action = call[c].action
    BY <1>8, <1>t DEF UpdateNoRow, UpdateFails
  <2>3. DOMAIN call' = Calls
    BY <1>8 DEF UpdateNoRow, UpdateFails
  <2>4. call[c].pc = "stamped"
    BY <1>8 DEF UpdateNoRow, UpdateFails
  <2> QED BY <1>8, <2>1, <2>2, <2>3, <2>4 DEF UpdateNoRow, UpdateFails
<1>9. ASSUME NEW c \in Calls, Respond(c) PROVE TypeOK'
  BY <1>9 DEF Respond, Idle
<1>10. CASE Crash
  BY <1>10 DEF Crash, Idle
<1>11. ASSUME NEW p \in Ports, Boot(p) PROVE TypeOK'
  BY <1>11 DEF Boot
<1>12. CASE Tick
  <2>1. clock' \in Nat /\ \A n \in Nat : n <= clock => n <= clock'
    BY <1>12 DEF Tick
  <2>2. \A r \in Recs : verdict[r] # None => stamp[r] \in Nat
    BY <1>12
  <2> QED BY <1>12, <2>1, <2>2 DEF Tick
<1> QED BY <1>0, <1>1, <1>2, <1>3, <1>4, <1>5, <1>6, <1>7, <1>8, <1>9, <1>10, <1>11, <1>12, NextCases

\* Every step keeps what the links and the requests are to each other.
LEMMA LinkStep ==
  ASSUME TypeOK, LinkInv, [Next]_vars
  PROVE  LinkInv'
<1>t. /\ clock \in Nat /\ secret \in Nat /\ mail \subseteq Links /\ saved \subseteq Recs
      /\ \A c \in Calls : CallInv(c) /\ call[c].at \in Nat
      /\ DOMAIN call = Calls
  BY DEF TypeOK, LinkInv
<1>0. CASE UNCHANGED vars
  <2>1. ASSUME NEW c \in Calls PROVE CallInv(c)'
    BY <1>0, <1>t, CallKept DEF vars
  <2> QED BY <1>0, <2>1 DEF vars, LinkInv, Whole
<1>w. ASSUME mail' = mail, NEW c \in Calls, \A d \in Calls \ {c} : call'[d] = call[d],
             clock' = clock, UNCHANGED <<saved, secret, port>>, CallInv(c)'
      PROVE  LinkInv'
  <2>1. ASSUME NEW d \in Calls \ {c} PROVE CallInv(d)'
    BY <1>w, <1>t, CallKept
  <2> QED BY <1>w, <2>1 DEF LinkInv, Whole
<1>1. ASSUME NEW r \in Recs, SaveRec(r) PROVE LinkInv'
  <2>1. ASSUME NEW c \in Calls PROVE CallInv(c)'
    <3> USE <1>1 DEF SaveRec
    <3>1. call[c].pc = "not_found" => call[c].rec # r
      <4> SUFFICES ASSUME call[c].pc = "not_found" PROVE call[c].rec # r
        OBVIOUS
      <4>1. FromMail(c)
        BY <1>t DEF CallInv, FromPage
      <4> QED BY <4>1 DEF FromMail, Mailed
    <3> QED BY <3>1, <1>t DEF CallInv, FromPage, FromMail, Arrivals, Up
  <2> QED BY <1>1, <2>1 DEF SaveRec, LinkInv, Whole
<1>2. ASSUME NEW r \in Recs, MailRec(r) PROVE LinkInv'
  <2>m. /\ UNCHANGED <<clock, port, secret, saved, call>>
        /\ mail' = mail \union {SignedLink(r, a) : a \in Actions}
        /\ Up /\ ~Mailed(r)
    BY <1>2 DEF MailRec
  <2>1. \A l \in mail' \ mail : Whole(l) /\ l.rec = r
    BY <2>m, SignedWhole
  <2>2. ASSUME NEW c \in Calls PROVE CallInv(c)'
    <3>1. ASSUME call[c].pc = "rejected", call[c].query \in mail'
          PROVE  call[c].query \in mail
      <4>1. PICK l \in mail : call[c].query \in Arrivals(l)
        BY <3>1, <1>t DEF CallInv
      <4>2. call[c].query.rec \in {l.rec, None} /\ l.rec # r
        BY <4>1, <1>t, <2>m, ArrivalNames DEF Mailed
      <4> QED BY <4>2, <2>1, <3>1, LinkAssumption
    <3> QED BY <3>1, <2>m, <1>t DEF CallInv, FromPage, FromMail, Arrivals, Up
  <2>3. \A l \in mail' : Whole(l)
    BY <2>1 DEF LinkInv
  <2> QED BY <2>2, <2>3 DEF LinkInv, Whole
<1>3. ASSUME NEW c \in Calls, Open(c) PROVE LinkInv'
  <2>l. PICK l \in mail : \E q \in Arrivals(l) :
          call' = [call EXCEPT ![c] = [pc |-> "arrived", rec |-> q.rec, action |-> q.action,
                                       at |-> clock, query |-> q]]
    BY <1>3 DEF Open
  <2>1. PICK q \in Arrivals(l) :
          call' = [call EXCEPT ![c] = [pc |-> "arrived", rec |-> q.rec, action |-> q.action,
                                       at |-> clock, query |-> q]]
    BY <2>l
  <2>2. call'[c] = [pc |-> "arrived", rec |-> q.rec, action |-> q.action,
                    at |-> clock, query |-> q]
    BY <2>1, <1>t
  <2>3. q.rec \in Recs \union {None} /\ q.action \in Actions \union {None}
    BY <1>t, ArrivalNames DEF Links
  <2>4. UNCHANGED <<mail, clock, saved, secret, port>> /\ Up
    BY <1>3 DEF Open
  <2>5. CallInv(c)'
    BY <2>2, <2>3, <2>4, <1>t DEF CallInv, Arrivals, Up
  <2>6. \A d \in Calls \ {c} : call'[d] = call[d]
    BY <2>1
  <2> QED BY <2>4, <2>5, <2>6, <1>w
<1>4. ASSUME NEW c \in Calls, Check(c) PROVE LinkInv'
  <2>1. /\ UNCHANGED <<mail, clock, saved, secret, port>> /\ Up
        /\ \A d \in Calls \ {c} : call'[d] = call[d]
    BY <1>4, <1>t DEF Check, Step, CallInv, Idle
  <2>2. PICK l \in mail : call[c].query \in Arrivals(l)
    BY <1>4, <1>t DEF Check, CallInv
  <2> DEFINE q == call[c].query
  <2>3. CASE call' = [call EXCEPT ![c].pc = "malformed"]
    <3>1. call'[c] = [call[c] EXCEPT !.pc = "malformed"]
      BY <2>3, <1>t
    <3> QED BY <3>1, <2>1, <1>t, <1>w DEF CallInv, Up
  <2>4. CASE q.action \in Actions /\ ~Verify(q) /\ call' = [call EXCEPT ![c].pc = "rejected"]
    <3>1. call'[c] = [call[c] EXCEPT !.pc = "rejected"]
      BY <2>4, <1>t
    <3>2. ASSUME q \in mail PROVE q.exp < clock \/ q.sig.key # secret
      <4>1. Whole(q) /\ q \in Links
        BY <3>2, <1>t DEF LinkInv
      <4> QED BY <4>1, <2>4, <1>t, LinkAssumption DEF Whole, Verify, Links
    <3>3. CallInv(c)'
      BY <3>1, <3>2, <2>1, <1>4, <1>t DEF Check, CallInv, Up, Arrivals
    <3> QED BY <3>3, <2>1, <1>w
  <2>5. CASE q.action \in Actions /\ Verify(q) /\ call' = [call EXCEPT ![c].pc = "verified"]
    <3>1. call'[c] = [call[c] EXCEPT !.pc = "verified"]
      BY <2>5, <1>t
    <3>2. q = l /\ q.sig.key = secret /\ clock <= q.exp
      BY <2>5, <2>2, <1>t, VerifiedWasMailed DEF LinkInv
    <3>3. q.exp \in Nat
      BY <3>2, <1>t DEF Links
    <3>4. call[c].at <= q.exp
      BY <3>2, <3>3, <1>t DEF CallInv
    <3>5. CallInv(c)'
      BY <3>1, <3>2, <3>4, <2>1, <1>4, <1>t DEF Check, CallInv, Up, FromMail
    <3> QED BY <3>5, <2>1, <1>w
  <2> QED BY <2>3, <2>4, <2>5, <1>4 DEF Check, Step
<1>5. ASSUME NEW c \in Calls, ReadClock(c) PROVE LinkInv'
  <2>1. /\ UNCHANGED <<mail, clock, saved, secret, port>> /\ Up
        /\ \A d \in Calls \ {c} : call'[d] = call[d]
    BY <1>5, <1>t DEF ReadClock, CallInv, Idle
  <2>2. call'[c] = [pc |-> "stamped", rec |-> call[c].rec, action |-> call[c].action,
                    at |-> clock, query |-> call[c].query]
    <3>1. call'[c] = [call[c] EXCEPT !.pc = "stamped", !.at = clock]
      BY <1>5, <1>t DEF ReadClock
    <3> QED BY <3>1, <1>t DEF CallInv
  <2>3. CallInv(c)'
    BY <2>1, <2>2, <1>5, <1>t DEF ReadClock, CallInv, FromPage, FromMail, Up
  <2> QED BY <2>1, <2>3, <1>w
<1>6. ASSUME NEW c \in Calls, SetDisposition(c) PROVE LinkInv'
  <2>1. PICK r \in saved, a \in Actions : call' =
          [call EXCEPT ![c] = [Idle EXCEPT !.pc = "verified", !.rec = r, !.action = a]]
    BY <1>6 DEF SetDisposition
  <2>2. call'[c] = [pc |-> "verified", rec |-> r, action |-> a, at |-> 0, query |-> None]
    BY <2>1, <1>t DEF Idle
  <2>3. UNCHANGED <<mail, clock, saved, secret, port>> /\ Up
    BY <1>6 DEF SetDisposition
  <2>4. CallInv(c)'
    BY <2>2, <2>3, <1>t DEF CallInv, FromPage, Up
  <2>5. \A d \in Calls \ {c} : call'[d] = call[d]
    BY <2>1
  <2> QED BY <2>3, <2>4, <2>5, <1>w
<1>7. ASSUME NEW c \in Calls, UpdateRow(c) \/ UpdateNoRow(c) \/ UpdateFails(c) PROVE LinkInv'
  <2> USE DEF UpdateRow, UpdateNoRow, UpdateFails, Step
  <2>1. /\ UNCHANGED <<mail, clock, saved, secret, port>> /\ Up
        /\ \A d \in Calls \ {c} : call'[d] = call[d]
    BY <1>7, <1>t DEF CallInv, Idle
  <2>2. PICK pc \in {"recorded", "not_found", "failed"} :
          /\ call'[c] = [call[c] EXCEPT !.pc = pc]
          /\ pc = "not_found" => call[c].rec \notin saved
    BY <1>7, <1>t
  <2>3. CallInv(c)'
    BY <2>1, <2>2, <1>7, <1>t DEF CallInv, FromPage, FromMail, Up
  <2> QED BY <2>1, <2>3, <1>w
<1>8. ASSUME NEW c \in Calls, Respond(c) PROVE LinkInv'
  <2>1. /\ UNCHANGED <<mail, clock, saved, secret, port>>
        /\ \A d \in Calls \ {c} : call'[d] = call[d]
        /\ call'[c] = Idle
    BY <1>8, <1>t DEF Respond
  <2>2. CallInv(c)'
    BY <2>1, <1>t DEF CallInv, Idle
  <2> QED BY <2>1, <2>2, <1>w
<1>9. CASE Crash
  <2>1. ASSUME NEW c \in Calls PROVE CallInv(c)'
    BY <1>9, <1>t DEF Crash, CallInv, Idle
  <2> QED BY <1>9, <2>1 DEF Crash, LinkInv, Whole
<1>10. ASSUME NEW p \in Ports, Boot(p) PROVE LinkInv'
  <2>1. ASSUME NEW c \in Calls PROVE CallInv(c)'
    <3>1. call'[c] = Idle
      BY <1>10, <1>t DEF Boot, CallInv
    <3> QED BY <3>1, <1>10, <1>t DEF Boot, CallInv, Idle
  <2> QED BY <1>10, <2>1 DEF Boot, LinkInv, Whole
<1>11. CASE Tick
  <2>1. ASSUME NEW c \in Calls PROVE CallInv(c)'
    BY <1>11, <1>t, CallKept DEF Tick
  <2> QED BY <1>11, <2>1 DEF Tick, LinkInv, Whole
<1> QED BY <1>0, <1>1, <1>2, <1>3, <1>4, <1>5, <1>6, <1>7, <1>8, <1>9, <1>10, <1>11, NextCases

\* The initial states satisfy the invariant.
LEMMA LinkInit == Init => TypeOK /\ LinkInv
BY LinkAssumption DEF Init, TypeOK, LinkInv, CallInv, Idle, Up, Answers

LEMMA LinkCorrect == Spec => [](TypeOK /\ LinkInv)
<1>1. TypeOK /\ LinkInv /\ [Next]_vars => TypeOK' /\ LinkInv'
  BY TypeStep, LinkStep
<1> QED BY <1>1, LinkInit, PTL DEF Spec

-----------------------------------------------------------------------------
(* The theorems *)

\* Types hold for any number of requests, restarts and lost secrets, and a
\* verdict stands on a saved row with a time that has passed.
THEOREM TypeCorrect == Spec => []TypeOK
BY LinkCorrect, PTL

\* The row is reached by whole links of this secret that arrived in time, and
\* by the page, whatever a mail program loses and however late a handler writes.
THEOREM GoodLinksCorrect == Spec => []OnlyGoodLinksReachTheRow
<1>1. TypeOK /\ LinkInv => OnlyGoodLinksReachTheRow
  BY DEF LinkInv, CallInv, FromPage, FromMail, OnlyGoodLinksReachTheRow
<1> QED BY <1>1, LinkCorrect, PTL

\* A whole link is rejected only after its last day or under another secret, and
\* "not found" is answered only where the cycle's save failed.
THEOREM AnswerCorrect == Spec => []AnswerTellsCause
<1>1. TypeOK /\ LinkInv => AnswerTellsCause
  BY DEF LinkInv, CallInv, FromPage, FromMail, AnswerTellsCause, Mailed
<1> QED BY <1>1, LinkCorrect, PTL

-----------------------------------------------------------------------------
(* The verdict board *)

\* The board's view of a request: Board's request in the refinement mapping.
Request == [c \in Calls |-> [rec |-> call[c].rec, action |-> call[c].action,
                             state |-> RequestState(call[c].pc)]]

\* The board's state of a request, point by point.
LEMMA RequestStates ==
  /\ RequestState("idle") = "none"
  /\ \A pc \in {"arrived", "verified", "stamped"} : RequestState(pc) = "open"
  /\ RequestState("recorded") = "done"
  /\ \A pc \in {"malformed", "rejected", "not_found", "failed"} :
        RequestState(pc) = "refused"
BY DEF RequestState

\* A step of the requests is a step of the board: the update of the row is the
\* moment a request takes effect, and the board sees neither the check that lets
\* a request pass, nor the clock read, nor the links.
LEMMA BoardStep ==
  ASSUME TypeOK, LinkInv, [Next]_vars
  PROVE  [Board!Next]_<<verdict, Request>>
<1> USE DEF Step
<1>t. /\ \A c \in Calls :
            call[c] = [pc |-> call[c].pc, rec |-> call[c].rec, action |-> call[c].action,
                       at |-> call[c].at, query |-> call[c].query]
      /\ DOMAIN call = Calls
  BY DEF TypeOK, LinkInv, CallInv
<1>r. \A c \in Calls : /\ Request[c] = [rec |-> call[c].rec, action |-> call[c].action,
                                        state |-> RequestState(call[c].pc)]
                       /\ Request[c].rec = call[c].rec /\ Request[c].action = call[c].action
                       /\ Request[c].state = RequestState(call[c].pc)
  BY DEF Request
<1>s. ASSUME UNCHANGED <<verdict, call>> PROVE UNCHANGED <<verdict, Request>>
  BY <1>s DEF Request, RequestState
\* What one request's step means to the board.
<1>m. ASSUME NEW c \in Calls, \A d \in Calls \ {c} : call'[d] = call[d]
      PROVE  Request' = [Request EXCEPT ![c] =
                [rec |-> call'[c].rec, action |-> call'[c].action,
                 state |-> RequestState(call'[c].pc)]]
  <2>1. \A d \in Calls \ {c} : RequestState(call'[d].pc) = RequestState(call[d].pc)
    BY <1>m DEF RequestState
  <2>2. Request' = [d \in Calls |-> [rec |-> call'[d].rec, action |-> call'[d].action,
                                     state |-> RequestState(call'[d].pc)]]
    BY DEF Request, RequestState
  <2> QED BY <1>m, <2>1, <2>2 DEF Request
<1>0. CASE UNCHANGED vars
  BY <1>0, <1>s DEF vars
<1>1. CASE \E r \in Recs : SaveRec(r) \/ MailRec(r)
  BY <1>1, <1>s DEF SaveRec, MailRec
<1>2. ASSUME NEW c \in Calls, Open(c) \/ SetDisposition(c) PROVE Board!Next
  <2>1. /\ call[c].pc = "idle" /\ verdict' = verdict
        /\ \A d \in Calls \ {c} : call'[d] = call[d]
    BY <1>2, <1>t DEF Open, SetDisposition
  <2>2. call'[c].pc \in {"arrived", "verified"}
    <3>1. Open(c) => call'[c].pc = "arrived"
      BY <1>t DEF Open
    <3>2. SetDisposition(c) => call'[c].pc = "verified"
      BY <1>t DEF SetDisposition, Idle
    <3> QED BY <1>2, <3>1, <3>2
  <2>3. CallInv(c)'
    BY LinkStep DEF LinkInv
  <2>4. PICK r \in Recs \union {None}, a \in Actions \union {None} :
          call'[c].rec = r /\ call'[c].action = a
    BY <2>3 DEF CallInv
  <2>5. Request[c].state = "none" /\ RequestState(call'[c].pc) = "open"
    BY <2>1, <2>2, <1>r, RequestStates
  <2>6. Board!Ask(c, r, a)
    BY <2>1, <2>4, <2>5, <1>m DEF Board!Ask, Request
  <2> QED BY <2>4, <2>6 DEF Board!Next
<1>3. ASSUME NEW c \in Calls, NEW pc \in {"malformed", "rejected", "not_found", "failed"},
             call[c].pc \in {"arrived", "verified", "stamped"},
             call' = [call EXCEPT ![c].pc = pc], verdict' = verdict
      PROVE  Board!Next
  <2>1. /\ \A d \in Calls \ {c} : call'[d] = call[d]
        /\ call'[c].pc = pc /\ call'[c].rec = call[c].rec /\ call'[c].action = call[c].action
    BY <1>3, <1>t
  <2>2. Request[c].state = "open" /\ RequestState(pc) = "refused"
    BY <1>3, <1>r, RequestStates
  <2>3. Request' = [Request EXCEPT ![c].state = "refused"]
    BY <2>1, <2>2, <1>m, <1>r DEF Request
  <2> QED BY <1>3, <2>2, <2>3 DEF Board!Next, Board!Refuse, Request
<1>4. ASSUME NEW c \in Calls, Check(c) PROVE [Board!Next]_<<verdict, Request>>
  <2>1. CASE call'  = [call EXCEPT ![c].pc = "verified"]
    <3>1. /\ \A d \in Calls \ {c} : call'[d] = call[d]
          /\ call'[c].pc = "verified" /\ call'[c].rec = call[c].rec
          /\ call'[c].action = call[c].action
      BY <2>1, <1>t
    <3>2. RequestState(call'[c].pc) = RequestState(call[c].pc)
      BY <1>4, <3>1, RequestStates DEF Check
    <3>3. Request' = Request
      BY <3>1, <3>2, <1>m, <1>r DEF Request
    <3> QED BY <1>4, <3>3 DEF Check
  <2> QED BY <1>4, <2>1, <1>3 DEF Check
<1>5. ASSUME NEW c \in Calls, ReadClock(c) PROVE UNCHANGED <<verdict, Request>>
  <2>1. /\ \A d \in Calls \ {c} : call'[d] = call[d]
        /\ call'[c].pc = "stamped" /\ call'[c].rec = call[c].rec
        /\ call'[c].action = call[c].action
    BY <1>5, <1>t DEF ReadClock
  <2>2. RequestState(call'[c].pc) = RequestState(call[c].pc)
    BY <1>5, <2>1, RequestStates DEF ReadClock
  <2>3. Request' = Request
    BY <2>1, <2>2, <1>m, <1>r DEF Request
  <2> QED BY <1>5, <2>3 DEF ReadClock
<1>6. ASSUME NEW c \in Calls, UpdateRow(c) PROVE Board!Next
  <2>1. /\ \A d \in Calls \ {c} : call'[d] = call[d]
        /\ call'[c].pc = "recorded" /\ call'[c].rec = call[c].rec
        /\ call'[c].action = call[c].action
    BY <1>6, <1>t DEF UpdateRow
  <2>2. Request[c].state = "open" /\ RequestState(call'[c].pc) = "done"
    BY <1>6, <2>1, <1>r, RequestStates DEF UpdateRow
  <2>3. Request' = [Request EXCEPT ![c].state = "done"]
    BY <2>1, <2>2, <1>m, <1>r DEF Request
  <2>4. call[c].rec \in Recs /\ call[c].action \in Actions
    BY <1>6 DEF UpdateRow, TypeOK
  <2>5. verdict' = [verdict EXCEPT ![Request[c].rec] = Request[c].action]
    BY <1>6, <1>r DEF UpdateRow
  <2> QED BY <2>2, <2>3, <2>4, <2>5, <1>r DEF Board!Next, Board!TakeEffect, Request
<1>7. ASSUME NEW c \in Calls, UpdateNoRow(c) \/ UpdateFails(c) PROVE Board!Next
  BY <1>7, <1>3 DEF UpdateNoRow, UpdateFails
<1>8. ASSUME NEW c \in Calls, Respond(c) PROVE Board!Next
  <2>1. (\A d \in Calls \ {c} : call'[d] = call[d]) /\ call'[c] = Idle
    BY <1>8, <1>t DEF Respond
  <2>2. Request[c].state \in {"done", "refused"}
    BY <1>8, <1>r, RequestStates DEF Respond, Answers
  <2>3. Request' = [Request EXCEPT ![c] = Board!Idle]
    BY <2>1, <1>m, RequestStates DEF Idle, Board!Idle
  <2> QED BY <1>8, <2>2, <2>3 DEF Respond, Board!Next, Board!Answer, Request
<1>9. CASE Crash
  <2>1. Request' = [c \in Calls |-> Board!Idle]
    BY <1>9, RequestStates DEF Crash, Request, Idle, Board!Idle
  <2> QED BY <1>9, <2>1 DEF Crash, Board!Next, Board!Die, Request
<1>10. CASE Tick \/ \E p \in Ports : Boot(p)
  BY <1>10, <1>s DEF Tick, Boot
<1> QED BY <1>0, <1>1, <1>2, <1>4, <1>5, <1>6, <1>7, <1>8, <1>9, <1>10, NextCases

\* The requests implement the verdict board: a page that says a verdict is
\* recorded was given after exactly one update of that row with that verdict.
THEOREM BoardCorrect == Spec => ImplementsBoard
<1>1. Init => Board!Init
  BY RequestStates DEF Init, Idle, Board!Init, Board!Idle
<1>2. TypeOK /\ LinkInv /\ [Next]_vars => [Board!Next]_(Board!vars)
  BY BoardStep DEF Board!vars, Request
<1> QED BY <1>1, <1>2, LinkCorrect, PTL DEF Spec, ImplementsBoard, Board!Spec
=============================================================================
