--------------------------- MODULE AnalysisProofs ---------------------------
(***************************************************************************)
(* Proofs about Analysis, for any days, answers, prices, tiers, verdicts   *)
(* and limits.  What a loop computes is proved by induction: the library's *)
(* induction theorems take a predicate, so Least and Induct say the same   *)
(* of a set of numbers, Recursion that a function defined by its steps     *)
(* exists, and ArrangedOrder what Arrange's sequences are.                 *)
(***************************************************************************)
EXTENDS Analysis, FiniteSetTheorems, TLAPS

-----------------------------------------------------------------------------
(* Induction and recursion over numbers *)

Below == {ss \in Nat \X Nat : ss[1] < ss[2]}

\* A set of numbers that is not empty has a smallest one.
LEMMA Least ==
  ASSUME NEW T \in SUBSET Nat, T # {}
  PROVE  \E n \in T : \A m \in T : n <= m
<1>1. IsWellFoundedOn(Below, Nat)
  BY NatLessThanWellFounded DEF OpToRel, Below
<1>2. PICK x \in T : \A y \in T : ~ (<<y, x>> \in Below)
  BY <1>1, WFMin
<1>3. \A y \in T : ~(y < x)
  BY <1>2 DEF Below
<1>4. ASSUME NEW y \in T PROVE x <= y
  <2>1. ~(y < x) /\ x \in Nat /\ y \in Nat
    BY <1>3
  <2> QED BY <2>1
<1> QED BY <1>4

LEMMA Induct ==
  ASSUME NEW S \in SUBSET Nat, 0 \in S, \A n \in S : n + 1 \in S
  PROVE  S = Nat
<1> SUFFICES ASSUME Nat \ S # {} PROVE FALSE
  OBVIOUS
<1>1. PICK n \in Nat \ S : \A m \in Nat \ S : n <= m
  BY Least
<1>2. n # 0 /\ n - 1 \in Nat /\ ~(n <= n - 1)
  OBVIOUS
<1>3. n - 1 \in S
  BY <1>1, <1>2
<1>4. (n - 1) + 1 \in S
  BY <1>3
<1> QED BY <1>1, <1>4

\* The same up to a number N.
LEMMA InductTo ==
  ASSUME NEW N \in Nat, NEW S, 0 \in S, \A n \in 0..N - 1 : n \in S => n + 1 \in S
  PROVE  0..N \subseteq S
<1> DEFINE T == {n \in Nat : n <= N => n \in S}
<1>1. 0 \in T /\ \A n \in T : n + 1 \in T
  OBVIOUS
<1>2. T = Nat
  <2> HIDE DEF T
  <2>1. T \subseteq Nat
    BY DEF T
  <2> QED BY <1>1, <2>1, Induct
<1> QED BY <1>2

\* There is a function of 0..N with a given value at 0 and a given step.
Follows(f, N, S, base, step) ==
  f \in [0..N -> S] /\ f[0] = base /\ \A n \in 1..N : f[n] = step[<<f[n - 1], n>>]
LEMMA Recursion ==
  ASSUME NEW N \in Nat, NEW S, NEW base \in S, NEW step \in [S \X (1..N) -> S]
  PROVE  \E f : Follows(f, N, S, base, step)
<1> DEFINE Good(f, k) == f[0] = base /\ \A n \in 1..k : f[n] = step[<<f[n - 1], n>>]
           G == {k \in 0..N : \E f \in [0..N -> S] : Good(f, k)}
<1>1. 0 \in G
  <2>1. [n \in 0..N |-> base] \in [0..N -> S] /\ Good([n \in 0..N |-> base], 0)
    OBVIOUS
  <2>2. 0 \in 0..N
    OBVIOUS
  <2> QED BY <2>1, <2>2
<1>2. ASSUME NEW k \in 0..N - 1, k \in G PROVE k + 1 \in G
  <2>1. PICK f \in [0..N -> S] : Good(f, k)
    BY <1>2
  <2> DEFINE g == [f EXCEPT ![k + 1] = step[<<f[k], k + 1>>]]
  <2>2. k \in 0..N /\ k + 1 \in 1..N /\ k + 1 \in 0..N
    OBVIOUS
  <2>3. step[<<f[k], k + 1>>] \in S
    BY <2>2
  <2>4. g \in [0..N -> S]
    BY <2>3
  <2>5. g[0] = base
    BY <2>1
  <2>6. \A n \in 1..k : g[n] = f[n] /\ g[n - 1] = f[n - 1]
    BY <2>2
  <2>7. g[k + 1] = step[<<f[k], k + 1>>] /\ g[k] = f[k]
    BY <2>2
  <2>8. ASSUME NEW n \in 1..k + 1 PROVE g[n] = step[<<g[n - 1], n>>]
    <3>1. CASE n = k + 1
      <4>1. n - 1 = k
        BY <3>1
      <4> QED BY <2>7, <3>1, <4>1
    <3>2. CASE n # k + 1
      <4>1. n \in 1..k
        BY <3>2
      <4> QED BY <2>1, <2>6, <4>1
    <3> QED BY <3>1, <3>2
  <2> QED BY <2>2, <2>4, <2>5, <2>8
<1> HIDE DEF G
<1>3. 0..N \subseteq G
  BY <1>1, <1>2, InductTo
<1>4. N \in G
  BY <1>3
<1> QED BY <1>4 DEF G, Follows

-----------------------------------------------------------------------------
(* Sequences *)

LEMMA Listed ==
  ASSUME NEW N \in Nat, NEW T, NEW s \in [1..N -> T]
  PROVE  s \in Seq(T) /\ Len(s) = N
OBVIOUS

LEMMA Appended ==
  ASSUME NEW T, NEW s \in Seq(T), NEW x
  PROVE  Append(s, x) = [k \in 1..Len(s) + 1 |-> IF k <= Len(s) THEN s[k] ELSE x]
<1>1. s \in Seq(T \union {x}) /\ x \in T \union {x}
  OBVIOUS
<1> DEFINE a == Append(s, x)
<1>2. /\ a \in Seq(T \union {x}) /\ Len(a) = Len(s) + 1
      /\ \A k \in 1..Len(s) + 1 : a[k] = IF k <= Len(s) THEN s[k] ELSE x
  BY <1>1
<1> HIDE DEF a
<1>3. a = [k \in 1..Len(a) |-> a[k]]
  BY <1>2
<1>4. a = [k \in 1..Len(s) + 1 |-> IF k <= Len(s) THEN s[k] ELSE x]
  BY <1>2, <1>3
<1> QED BY <1>4 DEF a

LEMMA Ends ==
  ASSUME NEW T, NEW s \in Seq(T), s # <<>>
  PROVE  /\ Len(s) \in 1..Len(s) /\ Len(s) - 1 \in Nat
         /\ Last(s) = s[Len(s)]
         /\ Front(s) \in Seq(T) /\ Len(Front(s)) = Len(s) - 1
         /\ Front(s) = [k \in 1..Len(s) - 1 |-> s[k]]
<1>1. Len(s) \in 1..Len(s) /\ Len(s) - 1 \in Nat
  OBVIOUS
<1>2. Front(s) = [k \in 1..Len(s) - 1 |-> s[k]]
  BY <1>1 DEF Front
<1>3. \A k \in 1..Len(s) - 1 : s[k] \in T
  BY <1>1
<1>4. Front(s) \in [1..Len(s) - 1 -> T]
  BY <1>2, <1>3
<1> QED BY <1>1, <1>2, <1>4, Listed DEF Last

LEMMA Concatenated ==
  ASSUME NEW T, NEW s \in Seq(T), NEW t \in Seq(T), NEW w, w = s \o t
  PROVE  /\ w \in Seq(T) /\ Len(w) = Len(s) + Len(t)
         /\ \A i \in 1..Len(s) : w[i] = s[i]
         /\ \A i \in 1..Len(t) : w[Len(s) + i] = t[i]
<1>1. ASSUME NEW i \in 1..Len(t) PROVE w[Len(s) + i] = t[i]
  <2>1. /\ Len(s) + i \in 1..Len(s) + Len(t) /\ ~(Len(s) + i <= Len(s))
        /\ Len(s) + i - Len(s) = i
    OBVIOUS
  <2> QED BY <2>1
<1> QED BY <1>1

-----------------------------------------------------------------------------
(* Sorting and filtering *)

\* R is a strict total order on S.
Orders(R, S) ==
  /\ \A x \in S : <<x, x>> \notin R
  /\ \A x, y, z \in S : <<x, y>> \in R /\ <<y, z>> \in R => <<x, z>> \in R
  /\ \A x, y \in S : x # y => <<x, y>> \in R \/ <<y, x>> \in R

\* Sorting: every element has one place, and the order of the places is R.
LEMMA ArrangedOrder ==
  ASSUME NEW S, IsFiniteSet(S), NEW R, Orders(R, S)
  PROVE  /\ Arranged(S, R) \in [1..Cardinality(S) -> S]
         /\ \A x \in S : \E k \in 1..Cardinality(S) : Arranged(S, R)[k] = x
         /\ \A j, k \in 1..Cardinality(S) :
              j < k <=> <<Arranged(S, R)[j], Arranged(S, R)[k]>> \in R
         /\ \A k \in 1..Cardinality(S) :
              Cardinality({y \in S : <<y, Arranged(S, R)[k]>> \in R}) = k - 1
<1> DEFINE n == Cardinality(S)
           Before(x) == {y \in S : <<y, x>> \in R}
           rank == [x \in S |-> Cardinality(Before(x))]
<1>1. n \in Nat
  BY FS_CardinalityType
<1>2. ASSUME NEW x \in S
      PROVE  IsFiniteSet(Before(x)) /\ rank[x] \in 0..n - 1
  <2>1. Before(x) \in SUBSET S /\ x \notin Before(x)
    BY DEF Orders
  <2>2. /\ IsFiniteSet(Before(x)) /\ Cardinality(Before(x)) <= n
        /\ n = Cardinality(Before(x)) => S = Before(x)
    BY <2>1, FS_Subset
  <2>3. Cardinality(Before(x)) \in Nat
    BY <2>2, FS_CardinalityType
  <2>4. n # Cardinality(Before(x))
    BY <2>1, <2>2
  <2> HIDE DEF Before, n
  <2>5. Cardinality(Before(x)) \in 0..n - 1
    BY <1>1, <2>2, <2>3, <2>4
  <2> QED BY <2>2, <2>5
<1>3. ASSUME NEW x \in S, NEW y \in S, <<x, y>> \in R PROVE rank[x] < rank[y]
  <2>1. Before(x) \in SUBSET Before(y) /\ x \in Before(y) /\ x \notin Before(x)
    BY <1>3 DEF Orders
  <2>2. /\ Cardinality(Before(x)) <= Cardinality(Before(y))
        /\ Cardinality(Before(y)) = Cardinality(Before(x)) => Before(y) = Before(x)
    BY <1>2, <2>1, FS_Subset
  <2>3. Cardinality(Before(x)) # Cardinality(Before(y))
    BY <2>1, <2>2
  <2>4. rank[x] = Cardinality(Before(x)) /\ rank[y] = Cardinality(Before(y))
    OBVIOUS
  <2>5. Cardinality(Before(x)) \in Nat /\ Cardinality(Before(y)) \in Nat
    BY <1>2, FS_CardinalityType
  <2> HIDE DEF Before
  <2>6. Cardinality(Before(x)) < Cardinality(Before(y))
    BY <2>2, <2>3, <2>5
  <2> QED BY <2>4, <2>6
<1> HIDE DEF rank, n
<1>4. rank \in Injection(S, 0..n - 1)
  <2>1. rank \in [S -> 0..n - 1]
    BY <1>2 DEF rank
  <2>2. ASSUME NEW x \in S, NEW y \in S, x # y PROVE rank[x] # rank[y]
    <3>1. rank[x] < rank[y] \/ rank[y] < rank[x]
      BY <1>3, <2>2 DEF Orders
    <3> QED BY <2>1, <3>1
  <2> QED BY <2>1, <2>2 DEF Injection, IsInjective
<1>5. rank \in Surjection(S, 0..n - 1)
  <2>1. IsFiniteSet(0..n - 1) /\ Cardinality(0..n - 1) = n
    BY <1>1, FS_Interval
  <2>2. Cardinality(S) = Cardinality(0..n - 1) <=> rank \in Surjection(S, 0..n - 1)
    BY <1>4, <2>1, FS_Injection
  <2> QED BY <2>1, <2>2 DEF n
<1>6. ASSUME NEW k \in 1..n
      PROVE  Arranged(S, R)[k] \in S /\ rank[Arranged(S, R)[k]] = k - 1
  <2>1. k - 1 \in 0..n - 1
    BY <1>1
  <2>2. \E x \in S : rank[x] = k - 1
    BY <1>5, <2>1 DEF Surjection
  <2>3. Arranged(S, R)[k] = CHOOSE x \in S : rank[x] = k - 1
    BY DEF Arranged, rank, n
  <2> QED BY <2>2, <2>3
<1>7. Arranged(S, R) \in [1..n -> S]
  BY <1>6 DEF Arranged, n
<1>8. ASSUME NEW x \in S PROVE \E k \in 1..n : Arranged(S, R)[k] = x
  <2>0. rank[x] \in 0..n - 1
    BY <1>2
  <2>1. rank[x] + 1 \in 1..n /\ (rank[x] + 1) - 1 = rank[x]
    BY <1>1, <2>0
  <2>2. rank[Arranged(S, R)[rank[x] + 1]] = rank[x] /\ Arranged(S, R)[rank[x] + 1] \in S
    BY <1>6, <2>1
  <2>3. Arranged(S, R)[rank[x] + 1] = x
    BY <1>4, <2>2 DEF Injection, IsInjective
  <2> QED BY <2>1, <2>3
<1>9. ASSUME NEW j \in 1..n, NEW k \in 1..n
      PROVE  j < k <=> <<Arranged(S, R)[j], Arranged(S, R)[k]>> \in R
  <2> DEFINE x == Arranged(S, R)[j]
             y == Arranged(S, R)[k]
  <2>1. x \in S /\ y \in S /\ rank[x] = j - 1 /\ rank[y] = k - 1
    BY <1>6
  <2> HIDE DEF x, y
  <2>2. <<x, y>> \in R => j < k
    <3>1. <<x, y>> \in R => rank[x] < rank[y]
      BY <1>3, <2>1
    <3> QED BY <1>1, <2>1, <3>1
  <2>3. j < k => <<x, y>> \in R
    <3>1. j < k => x # y
      BY <1>1, <2>1
    <3>2. <<y, x>> \in R => rank[y] < rank[x]
      BY <1>3, <2>1
    <3>3. <<y, x>> \in R => ~(j < k)
      BY <1>1, <2>1, <3>2
    <3> QED BY <2>1, <3>1, <3>3 DEF Orders
  <2> QED BY <2>2, <2>3 DEF x, y
<1>10. ASSUME NEW k \in 1..n
       PROVE  Cardinality({y \in S : <<y, Arranged(S, R)[k]>> \in R}) = k - 1
  BY <1>6 DEF rank
<1> QED BY <1>7, <1>8, <1>9, <1>10 DEF n

LEMMA RisingOrders ==
  ASSUME NEW at \in SUBSET Int
  PROVE  Orders(Rising(at), at) /\ \A i, j \in at : <<i, j>> \in Rising(at) <=> i < j
<1>1. \A i, j \in at : <<i, j>> \in Rising(at) <=> i < j
  BY DEF Rising
<1>2. \A i, j, k \in at : i < j /\ j < k => i < k
  OBVIOUS
<1>3. \A i, j \in at : ~(i < i) /\ (i # j => i < j \/ j < i)
  OBVIOUS
<1> QED BY <1>1, <1>2, <1>3 DEF Orders

\* Filtering: the positions that are kept, in their order.
Places(at) == Arranged(at, Rising(at))

LEMMA PickedOrder ==
  ASSUME NEW A, NEW s \in Seq(A), NEW at \in SUBSET DOMAIN s
  PROVE  /\ IsFiniteSet(at) /\ Cardinality(at) \in Nat
         /\ Places(at) \in [1..Cardinality(at) -> at]
         /\ \A i \in at : \E k \in 1..Cardinality(at) : Places(at)[k] = i
         /\ \A j, k \in 1..Cardinality(at) : j < k <=> Places(at)[j] < Places(at)[k]
         /\ Picked(s, at) \in Seq(A) /\ Len(Picked(s, at)) = Cardinality(at)
         /\ \A k \in 1..Cardinality(at) : Picked(s, at)[k] = s[Places(at)[k]]
<1>1. DOMAIN s = 1..Len(s) /\ Len(s) \in Nat /\ \A i \in DOMAIN s : s[i] \in A
  OBVIOUS
<1>2. IsFiniteSet(at) /\ Cardinality(at) \in Nat
  <2>1. IsFiniteSet(1..Len(s))
    BY <1>1, FS_Interval
  <2>2. IsFiniteSet(at)
    BY <1>1, <2>1, FS_Subset
  <2> QED BY <2>2, FS_CardinalityType
<1>3. Orders(Rising(at), at)
  <2>1. at \in SUBSET Int
    BY <1>1
  <2> QED BY <2>1, RisingOrders
<1>4. /\ Places(at) \in [1..Cardinality(at) -> at]
      /\ \A i \in at : \E k \in 1..Cardinality(at) : Places(at)[k] = i
      /\ \A j, k \in 1..Cardinality(at) :
           j < k <=> <<Places(at)[j], Places(at)[k]>> \in Rising(at)
  BY <1>2, <1>3, ArrangedOrder DEF Places
<1>5. \A j, k \in 1..Cardinality(at) : j < k <=> Places(at)[j] < Places(at)[k]
  BY <1>4 DEF Rising
<1>6. Picked(s, at) = [k \in 1..Cardinality(at) |-> s[Places(at)[k]]]
  BY DEF Picked, Places
<1>7. \A k \in 1..Cardinality(at) : s[Places(at)[k]] \in A
  BY <1>1, <1>4
<1>8. Picked(s, at) \in [1..Cardinality(at) -> A]
  BY <1>6, <1>7
<1>9. Picked(s, at) \in Seq(A) /\ Len(Picked(s, at)) = Cardinality(at)
  BY <1>2, <1>8
<1> QED BY <1>2, <1>4, <1>5, <1>6, <1>9

-----------------------------------------------------------------------------
(* Clustering: the day and the loop over it *)

\* A day is its captures, each at one place.
LEMMA DayIs ==
  ASSUME NEW caps, GoodDay(caps)
  PROVE  /\ InOrder(caps) \in Seq(caps)
         /\ \A i \in 1..Len(InOrder(caps)) :
              InOrder(caps)[i].at \in Int /\ InOrder(caps)[i].id \in Nat
         /\ \A i, j \in 1..Len(InOrder(caps)) :
              InOrder(caps)[i].id = InOrder(caps)[j].id => i = j
<1> DEFINE R == {p \in caps \X caps : Earlier(p[1], p[2])}
           day == InOrder(caps)
           n == Cardinality(caps)
<1>1. /\ IsFiniteSet(caps) /\ n \in Nat
      /\ \A c \in caps : c.at \in Int /\ c.id \in Int
      /\ \A c, d \in caps : c.id = d.id => c = d
  BY FS_CardinalityType DEF GoodDay
<1>2. Orders(R, caps)
  <2>1. \A c, d \in caps : <<c, d>> \in R <=> Earlier(c, d)
    OBVIOUS
  <2>2. \A c \in caps : ~Earlier(c, c)
    BY <1>1 DEF Earlier
  <2>3. ASSUME NEW c \in caps, NEW d \in caps, NEW e \in caps, Earlier(c, d), Earlier(d, e)
        PROVE  Earlier(c, e)
    BY <1>1, <2>3 DEF Earlier
  <2>4. ASSUME NEW c \in caps, NEW d \in caps, c # d PROVE Earlier(c, d) \/ Earlier(d, c)
    <3>1. c.id # d.id
      BY <1>1, <2>4
    <3> QED BY <1>1, <3>1 DEF Earlier
  <2> HIDE DEF R
  <2> QED BY <2>1, <2>2, <2>3, <2>4 DEF Orders
<1>3. /\ day \in [1..n -> caps]
      /\ \A j, k \in 1..n : j < k <=> <<day[j], day[k]>> \in R
  BY <1>1, <1>2, ArrangedOrder DEF InOrder
<1>4. day \in Seq(caps) /\ Len(day) = n
  BY <1>1, <1>3
<1>5. ASSUME NEW i \in 1..n, NEW j \in 1..n, day[i].id = day[j].id PROVE i = j
  <2>1. day[i] = day[j] /\ day[i] \in caps
    BY <1>1, <1>3, <1>5
  <2>2. <<day[i], day[j]>> \notin R /\ <<day[j], day[i]>> \notin R
    BY <1>2, <2>1 DEF Orders
  <2>3. ~(i < j) /\ ~(j < i)
    BY <1>3, <2>2
  <2> QED BY <1>1, <2>3
<1>6. \A i \in 1..n : day[i].at \in Int /\ day[i].id \in Nat
  BY <1>3 DEF GoodDay
<1> QED BY <1>4, <1>5, <1>6

\* The session of the captures from lo to hi, and when it is one.
Stretch(day, lo, hi) ==
  [signature |-> AppSignature(day[lo]), start |-> day[lo].at, end |-> day[hi].at,
   ids |-> [k \in 1..hi - lo + 1 |-> day[lo + k - 1].id]]
Whole(day, lo, hi) ==
  /\ \A i \in lo..hi - 1 : Alike(day, i)
  /\ \A i \in lo..hi : AppSignature(day[i]) = AppSignature(day[lo])
  /\ ~Long(day, lo, hi)

\* The sessions with the bounds b, a sequence of pairs.
Sessions(day, b) == [k \in 1..Len(b) |-> Stretch(day, b[k][1], b[k][2])]

\* What neighbours that belong together and are apart have behind them.
Cut(day, i) == \E j \in 1..i : Long(day, j, i + 1) /\ \A l \in j..i : Alike(day, l)

\* b after n turns of the loop.
Bounds(day, n, b) ==
  /\ b \in Seq((1..n) \X (1..n))
  /\ \A k \in 1..Len(b) : b[k][1] <= b[k][2] /\ Whole(day, b[k][1], b[k][2])
  /\ \A k, l \in 1..Len(b) : l < k => b[l][2] < b[k][1]
  /\ \A k \in 1..Len(b) - 1 : b[k][2] - b[k][1] + 1 >= MinCaptures
  /\ n # 0 => b # <<>> /\ b[Len(b)][2] = n
  /\ \A i \in 1..n - 1 : Alike(day, i) =>
        Cut(day, i) \/ \E k \in 1..Len(b) : b[k][1] <= i /\ i + 1 <= b[k][2]

-----------------------------------------------------------------------------
(* Clustering: one turn of the loop *)

\* The sessions of a longer and of a shorter sequence of bounds.
LEMMA SessionsAre ==
  ASSUME NEW day, NEW b \in Seq(Nat \X Nat)
  PROVE  /\ Len(Sessions(day, b)) = Len(b)
         /\ Sessions(day, b) = <<>> <=> b = <<>>
         /\ \A k \in 1..Len(b) : Sessions(day, b)[k] = Stretch(day, b[k][1], b[k][2])
         /\ \A lo, hi \in Nat : Sessions(day, Append(b, <<lo, hi>>))
                                  = Append(Sessions(day, b), Stretch(day, lo, hi))
         /\ b # <<>> => /\ Last(Sessions(day, b)) = Stretch(day, b[Len(b)][1], b[Len(b)][2])
                        /\ Front(b) \in Seq(Nat \X Nat)
                        /\ Sessions(day, Front(b)) = Front(Sessions(day, b))
<1> DEFINE S(k) == Stretch(day, b[k][1], b[k][2])
           T == {S(k) : k \in 1..Len(b)}
<1>1. Len(b) \in Nat /\ Sessions(day, b) = [k \in 1..Len(b) |-> S(k)]
  BY DEF Sessions
<1>2. Sessions(day, b) \in Seq(T) /\ Len(Sessions(day, b)) = Len(b)
  <2>1. \A k \in 1..Len(b) : S(k) \in T
    OBVIOUS
  <2> HIDE DEF S, T
  <2>2. Sessions(day, b) \in [1..Len(b) -> T]
    BY <1>1, <2>1
  <2> QED BY <1>1, <2>2, Listed
<1>3. Sessions(day, b) = <<>> <=> b = <<>>
  <2>1. Sessions(day, b) = <<>> <=> Len(Sessions(day, b)) = 0
    BY <1>2
  <2>2. b = <<>> <=> Len(b) = 0
    OBVIOUS
  <2> QED BY <1>2, <2>1, <2>2
<1>4. ASSUME NEW lo \in Nat, NEW hi \in Nat
      PROVE  Sessions(day, Append(b, <<lo, hi>>)) = Append(Sessions(day, b), Stretch(day, lo, hi))
  <2> DEFINE c == Append(b, <<lo, hi>>)
  <2>1. Len(c) = Len(b) + 1 /\ c[Len(b) + 1] = <<lo, hi>> /\ \A k \in 1..Len(b) : c[k] = b[k]
    OBVIOUS
  <2>2. Sessions(day, c) = [k \in 1..Len(b) + 1 |-> Stretch(day, c[k][1], c[k][2])]
    BY <2>1 DEF Sessions
  <2> HIDE DEF c
  <2>3. Append(Sessions(day, b), Stretch(day, lo, hi))
          = [k \in 1..Len(b) + 1 |-> IF k <= Len(b) THEN Sessions(day, b)[k] ELSE Stretch(day, lo, hi)]
    BY <1>2, Appended
  <2>4. \A k \in 1..Len(b) + 1 :
          Stretch(day, c[k][1], c[k][2])
            = IF k <= Len(b) THEN Sessions(day, b)[k] ELSE Stretch(day, lo, hi)
    <3> SUFFICES ASSUME NEW k \in 1..Len(b) + 1
                 PROVE  Stretch(day, c[k][1], c[k][2])
                          = IF k <= Len(b) THEN Sessions(day, b)[k] ELSE Stretch(day, lo, hi)
      OBVIOUS
    <3>1. CASE k <= Len(b)
      <4>1. k \in 1..Len(b)
        BY <1>1, <3>1
      <4> QED BY <1>1, <2>1, <3>1, <4>1
    <3>2. CASE ~(k <= Len(b))
      <4>1. k = Len(b) + 1
        BY <1>1, <3>2
      <4>2. c[k][1] = lo /\ c[k][2] = hi
        BY <2>1, <4>1
      <4> QED BY <3>2, <4>2
    <3> QED BY <3>1, <3>2
  <2> QED BY <2>2, <2>3, <2>4 DEF c
<1>5. ASSUME b # <<>>
      PROVE  /\ Last(Sessions(day, b)) = S(Len(b))
             /\ Front(b) \in Seq(Nat \X Nat)
             /\ Sessions(day, Front(b)) = Front(Sessions(day, b))
  <2>1. Len(b) \in 1..Len(b) /\ Len(b) - 1 \in Nat
    BY <1>5, Ends
  <2>2. Last(Sessions(day, b)) = S(Len(b))
    BY <1>1, <1>2, <1>3, <1>5, <2>1, Ends
  <2>3. /\ Front(b) \in Seq(Nat \X Nat) /\ Len(Front(b)) = Len(b) - 1
        /\ \A k \in 1..Len(b) - 1 : Front(b)[k] = b[k]
    BY <1>5, <2>1, Ends
  <2>4. Sessions(day, Front(b)) = [k \in 1..Len(b) - 1 |-> Stretch(day, Front(b)[k][1], Front(b)[k][2])]
    BY <2>3 DEF Sessions
  <2>5. Front(Sessions(day, b)) = [k \in 1..Len(b) - 1 |-> Sessions(day, b)[k]]
    BY <1>2, <1>3, <1>5, Ends
  <2>6. \A k \in 1..Len(b) - 1 : Stretch(day, Front(b)[k][1], Front(b)[k][2]) = Sessions(day, b)[k]
    <3> SUFFICES ASSUME NEW k \in 1..Len(b) - 1
                 PROVE  Stretch(day, Front(b)[k][1], Front(b)[k][2]) = Sessions(day, b)[k]
      OBVIOUS
    <3>1. k \in 1..Len(b)
      BY <1>1
    <3> QED BY <1>1, <2>3, <3>1
  <2> QED BY <2>2, <2>3, <2>4, <2>5, <2>6
<1> QED BY <1>1, <1>2, <1>3, <1>4, <1>5

\* A session of one capture, and a session that takes in the next.
LEMMA StretchGrows ==
  ASSUME NEW day, NEW lo \in Nat, NEW hi \in Nat, lo <= hi
  PROVE  /\ Opened(day[lo]) = Stretch(day, lo, lo)
         /\ Len(Stretch(day, lo, hi).ids) = hi - lo + 1
         /\ Extended(Stretch(day, lo, hi), day[hi + 1]) = Stretch(day, lo, hi + 1)
<1> DEFINE Ids(h) == [k \in 1..h - lo + 1 |-> day[lo + k - 1].id]
<1>1. ASSUME NEW h \in Nat, lo <= h
      PROVE  /\ h - lo + 1 \in Nat
             /\ Ids(h) \in Seq({day[lo + k - 1].id : k \in 1..h - lo + 1})
             /\ Len(Ids(h)) = h - lo + 1
  <2> DEFINE T == {day[lo + k - 1].id : k \in 1..h - lo + 1}
  <2>1. h - lo + 1 \in Nat
    BY <1>1
  <2>2. Ids(h) \in [1..h - lo + 1 -> T]
    OBVIOUS
  <2> HIDE DEF Ids, T
  <2>3. Ids(h) \in Seq(T) /\ Len(Ids(h)) = h - lo + 1
    BY <2>1, <2>2, Listed
  <2> QED BY <2>1, <2>3 DEF T
<1>2. <<day[lo].id>> = Ids(lo)
  <2>1. lo - lo + 1 = 1 /\ \A k \in 1..1 : lo + k - 1 = lo
    OBVIOUS
  <2>2. Ids(lo) = [k \in 1..1 |-> day[lo].id]
    BY <2>1
  <2> QED BY <2>2
<1>3. Append(Ids(hi), day[hi + 1].id) = Ids(hi + 1)
  <2>1. /\ hi - lo + 1 \in Nat /\ Len(Ids(hi)) = hi - lo + 1
        /\ Ids(hi) \in Seq({day[lo + k - 1].id : k \in 1..hi - lo + 1})
    BY <1>1
  <2>2. hi - lo + 1 + 1 = hi + 1 - lo + 1
    OBVIOUS
  <2>3. Append(Ids(hi), day[hi + 1].id)
          = [k \in 1..hi + 1 - lo + 1 |-> IF k <= hi - lo + 1 THEN Ids(hi)[k] ELSE day[hi + 1].id]
    <3> DEFINE s == Ids(hi)
               T == {day[lo + k - 1].id : k \in 1..hi - lo + 1}
               x == day[hi + 1].id
    <3>1. s \in Seq(T) /\ Len(s) = hi - lo + 1
      BY <2>1
    <3> HIDE DEF Ids, s, T, x
    <3>2. Append(s, x) = [k \in 1..Len(s) + 1 |-> IF k <= Len(s) THEN s[k] ELSE x]
      BY <3>1, Appended
    <3>3. Append(s, x) = [k \in 1..hi + 1 - lo + 1 |-> IF k <= hi - lo + 1 THEN s[k] ELSE x]
      BY <3>1, <3>2, <2>2
    <3> QED BY <3>3 DEF s, x
  <2>4. ASSUME NEW k \in 1..hi + 1 - lo + 1
        PROVE  (IF k <= hi - lo + 1 THEN Ids(hi)[k] ELSE day[hi + 1].id) = day[lo + k - 1].id
    <3>1. CASE k <= hi - lo + 1
      <4>1. k \in 1..hi - lo + 1
        BY <3>1
      <4> QED BY <3>1, <4>1
    <3>2. CASE ~(k <= hi - lo + 1)
      <4>1. lo + k - 1 = hi + 1
        BY <3>2
      <4> QED BY <3>2, <4>1
    <3> QED BY <3>1, <3>2
  <2> QED BY <2>3, <2>4
<1>4. Stretch(day, lo, hi) = [signature |-> AppSignature(day[lo]), start |-> day[lo].at,
                              end |-> day[hi].at, ids |-> Ids(hi)]
  BY DEF Stretch
<1>5. Stretch(day, lo, lo) = [signature |-> AppSignature(day[lo]), start |-> day[lo].at,
                              end |-> day[lo].at, ids |-> Ids(lo)]
  BY DEF Stretch
<1>6. Stretch(day, lo, hi + 1) = [signature |-> AppSignature(day[lo]), start |-> day[lo].at,
                                  end |-> day[hi + 1].at, ids |-> Ids(hi + 1)]
  BY DEF Stretch
<1>7. Len(Stretch(day, lo, hi).ids) = hi - lo + 1
  BY <1>1, <1>4
<1> HIDE DEF Ids
<1>8. Opened(day[lo]) = Stretch(day, lo, lo)
  BY <1>2, <1>5 DEF Opened
<1>9. Extended(Stretch(day, lo, hi), day[hi + 1]) = Stretch(day, lo, hi + 1)
  <2>1. Stretch(day, lo, hi).ids = Ids(hi)
    BY <1>4
  <2> DEFINE r == Stretch(day, lo, hi)
             s == AppSignature(day[lo])
             q == [r EXCEPT !.end = day[hi + 1].at, !.ids = Ids(hi + 1)]
  <2>2. Extended(r, day[hi + 1]) = q
    BY <1>3, <2>1 DEF Extended
  <2>3. r = [signature |-> s, start |-> day[lo].at, end |-> day[hi].at, ids |-> Ids(hi)]
    BY <1>4
  <2> HIDE DEF r, s
  <2>4. q \in [signature : {s}, start : {day[lo].at}, end : {day[hi + 1].at}, ids : {Ids(hi + 1)}]
    BY <2>3
  <2> HIDE DEF q
  <2>5. q = [signature |-> s, start |-> day[lo].at, end |-> day[hi + 1].at, ids |-> Ids(hi + 1)]
    BY <2>4
  <2> QED BY <1>6, <2>2, <2>5 DEF r, s
<1> QED BY <1>7, <1>8, <1>9

\* The bounds of one turn more: those that are kept, and the last session's.
LEMMA Grows ==
  ASSUME NEW day, NEW n \in Nat, NEW b \in Seq((1..n) \X (1..n)), NEW lo \in 1..n + 1,
         \A k \in 1..Len(b) : /\ b[k][1] <= b[k][2] /\ Whole(day, b[k][1], b[k][2])
                              /\ b[k][2] < lo
                              /\ b[k][2] - b[k][1] + 1 >= MinCaptures,
         \A k, l \in 1..Len(b) : l < k => b[l][2] < b[k][1],
         Whole(day, lo, n + 1),
         \A i \in 1..n : Alike(day, i) =>
            Cut(day, i) \/ lo <= i \/ \E k \in 1..Len(b) : b[k][1] <= i /\ i + 1 <= b[k][2]
  PROVE  Bounds(day, n + 1, Append(b, <<lo, n + 1>>))
<1> DEFINE m == Len(b)
           P == (1..n + 1) \X (1..n + 1)
           c == Append(b, <<lo, n + 1>>)
<1>1. m \in Nat /\ b \in Seq(P) /\ <<lo, n + 1>> \in P
  <2>1. (1..n) \X (1..n) \subseteq P
    OBVIOUS
  <2>2. b \in Seq(P)
    <3>1. b \in [1..Len(b) -> P] /\ Len(b) \in Nat
      BY <2>1
    <3> HIDE DEF P
    <3> QED BY <3>1, Listed
  <2> QED BY <2>2
<1>2. \A k \in 1..m : b[k][1] \in 1..n /\ b[k][2] \in 1..n
  OBVIOUS
<1>3. /\ c \in Seq(P) /\ Len(c) = m + 1 /\ c # <<>>
      /\ c[m + 1] = <<lo, n + 1>>
      /\ \A k \in 1..m : c[k] = b[k]
  <2> HIDE DEF P
  <2> QED BY <1>1, SMTT(30)
<1> HIDE DEF c, m
<1>4. c[m + 1][1] = lo /\ c[m + 1][2] = n + 1
  BY <1>3
<1>5. \A k \in 1..m + 1 : k = m + 1 \/ k \in 1..m
  BY <1>1
<1>6. \A k \in 1..Len(c) : c[k][1] <= c[k][2] /\ Whole(day, c[k][1], c[k][2])
  <2>1. \A k \in 1..m : c[k][1] <= c[k][2] /\ Whole(day, c[k][1], c[k][2])
    BY <1>3 DEF m
  <2>2. c[m + 1][1] <= c[m + 1][2] /\ Whole(day, c[m + 1][1], c[m + 1][2])
    BY <1>4
  <2> QED BY <1>3, <1>5, <2>1, <2>2
<1>7. ASSUME NEW k \in 1..m + 1, NEW l \in 1..m + 1, l < k PROVE c[l][2] < c[k][1]
  <2>1. l \in 1..m
    BY <1>1, <1>7
  <2>2. CASE k = m + 1
    BY <1>3, <1>4, <2>1, <2>2 DEF m
  <2>3. CASE k \in 1..m
    BY <1>3, <1>7, <2>1, <2>3 DEF m
  <2> QED BY <1>5, <2>2, <2>3
<1>8. \A k \in 1..m : c[k][2] - c[k][1] + 1 >= MinCaptures
  BY <1>3 DEF m
<1>9. ASSUME NEW i \in 1..n, Alike(day, i)
      PROVE  Cut(day, i) \/ \E k \in 1..m + 1 : c[k][1] <= i /\ i + 1 <= c[k][2]
  <2>1. CASE lo <= i
    <3>1. m + 1 \in 1..m + 1 /\ c[m + 1][1] <= i /\ i + 1 <= c[m + 1][2]
      BY <1>1, <1>4, <2>1
    <3> QED BY <3>1
  <2>2. CASE \E k \in 1..m : b[k][1] <= i /\ i + 1 <= b[k][2]
    <3>1. PICK k \in 1..m : b[k][1] <= i /\ i + 1 <= b[k][2]
      BY <2>2
    <3>2. k \in 1..m + 1 /\ c[k] = b[k]
      BY <1>1, <1>3
    <3> QED BY <3>1, <3>2
  <2> QED BY <1>9, <2>1, <2>2 DEF m
<1>10. /\ \A k \in 1..Len(c) - 1 : c[k][2] - c[k][1] + 1 >= MinCaptures
       /\ \A i \in 1..n + 1 - 1 : Alike(day, i) =>
            Cut(day, i) \/ \E k \in 1..Len(c) : c[k][1] <= i /\ i + 1 <= c[k][2]
  <2>1. Len(c) - 1 = m /\ n + 1 - 1 = n /\ Len(c) = m + 1
    BY <1>1, <1>3
  <2>2. \A k \in 1..Len(c) - 1 : c[k][2] - c[k][1] + 1 >= MinCaptures
    <3> SUFFICES ASSUME NEW k \in 1..Len(c) - 1 PROVE c[k][2] - c[k][1] + 1 >= MinCaptures
      OBVIOUS
    <3>1. k \in 1..m
      BY <2>1
    <3> QED BY <1>8, <3>1
  <2>3. ASSUME NEW i \in 1..n + 1 - 1, Alike(day, i)
        PROVE  Cut(day, i) \/ \E k \in 1..Len(c) : c[k][1] <= i /\ i + 1 <= c[k][2]
    <3>1. i \in 1..n
      BY <2>1
    <3> HIDE DEF c
    <3> QED BY <1>9, <2>1, <2>3, <3>1
  <2> QED BY <2>2, <2>3
<1>11. \A k, l \in 1..Len(c) : l < k => c[l][2] < c[k][1]
  BY <1>3, <1>7
<1>12. c[Len(c)][2] = n + 1
  BY <1>3, <1>4
<1>13. Bounds(day, n + 1, c)
  <2> HIDE DEF P
  <2> QED BY <1>3, <1>6, <1>10, <1>11, <1>12 DEF Bounds, P
<1> QED BY <1>13 DEF c

\* Captures of some day, at their times.
Timed(day) == \A i \in 1..Len(day) : day[i].at \in Int

\* After a turn of the loop the sessions are those of some bounds, if they were
\* before: it opens a session, or joins the capture to the last.
LEMMA Turn ==
  ASSUME NEW D, NEW day \in Seq(D), Timed(day), NEW n \in 0..Len(day) - 1, NEW b, Bounds(day, n, b)
  PROVE  \E c : Bounds(day, n + 1, c) /\ Join(Sessions(day, b), day[n + 1]) = Sessions(day, c)
<1> DEFINE acc == Sessions(day, b)
           m == Len(b)
           lo == b[m][1]
<1>1. /\ Len(day) \in Nat /\ n \in Nat /\ n + 1 \in 1..Len(day) /\ m \in Nat
      /\ b \in Seq((1..n) \X (1..n))
      /\ MinCaptures \in Int /\ MinCaptures <= 2 /\ MaxDuration \in Int /\ MaxGap \in Int
  BY LimitsAssumption DEF Bounds
<1>2. b \in Seq(Nat \X Nat)
  <2>1. (1..n) \X (1..n) \subseteq Nat \X Nat
    OBVIOUS
  <2>2. b \in [1..Len(b) -> Nat \X Nat]
    BY <1>1, <2>1
  <2> QED BY <1>1, <2>2, Listed
<1>3. /\ acc = <<>> <=> b = <<>>
      /\ \A lower, upper \in Nat : Sessions(day, Append(b, <<lower, upper>>))
                                     = Append(acc, Stretch(day, lower, upper))
  BY <1>2, SessionsAre
<1>4. ASSUME b # <<>>
      PROVE  /\ m \in 1..m /\ n # 0 /\ lo \in 1..n /\ b[m][2] = n
             /\ Last(acc) = Stretch(day, lo, n) /\ Len(Last(acc).ids) = n - lo + 1
             /\ Sessions(day, Front(b)) = Front(acc)
             /\ Front(b) \in Seq(Nat \X Nat) /\ Front(b) \in Seq((1..n) \X (1..n))
             /\ Len(Front(b)) = m - 1 /\ \A k \in 1..m - 1 : k \in 1..m /\ Front(b)[k] = b[k]
  <2>1. m \in 1..m /\ Len(Front(b)) = m - 1 /\ \A k \in 1..m - 1 : k \in 1..m /\ Front(b)[k] = b[k]
    <3>1. /\ m \in 1..m /\ Len(Front(b)) = m - 1
          /\ Front(b) = [k \in 1..m - 1 |-> b[k]]
      BY <1>2, <1>4, Ends
    <3>2. \A k \in 1..m - 1 : k \in 1..m
      BY <1>1
    <3> HIDE DEF m
    <3> QED BY <3>1, <3>2
  <2>2. Front(b) \in Seq((1..n) \X (1..n))
    BY <1>1, <1>4, Ends
  <2>3. b[m] \in (1..n) \X (1..n)
    BY <1>1, <2>1
  <2>4. n # 0
    BY <2>3
  <2>5. b[m][2] = n /\ lo \in 1..n
    BY <1>4, <2>3, <2>4 DEF Bounds
  <2>6. /\ Last(acc) = Stretch(day, lo, n)
        /\ Sessions(day, Front(b)) = Front(acc) /\ Front(b) \in Seq(Nat \X Nat)
    BY <1>2, <1>4, <2>5, SessionsAre
  <2>7. Len(Last(acc).ids) = n - lo + 1
    <3>1. lo \in Nat /\ n \in Nat /\ lo <= n
      BY <1>1, <2>5
    <3> HIDE DEF lo, acc
    <3>2. Len(Stretch(day, lo, n).ids) = n - lo + 1
      BY <3>1, StretchGrows
    <3> QED BY <2>6, <3>2
  <2> QED BY <2>1, <2>2, <2>4, <2>5, <2>6, <2>7
<1>5. \A k \in 1..m : b[k][1] \in 1..n /\ b[k][2] \in 1..n
  BY <1>1
<1>6. /\ \A k \in 1..m : b[k][1] <= b[k][2] /\ Whole(day, b[k][1], b[k][2])
      /\ \A k, l \in 1..m : l < k => b[l][2] < b[k][1]
      /\ \A k \in 1..m - 1 : b[k][2] - b[k][1] + 1 >= MinCaptures
      /\ \A i \in 1..n - 1 : Alike(day, i) =>
            Cut(day, i) \/ \E k \in 1..m : b[k][1] <= i /\ i + 1 <= b[k][2]
  BY DEF Bounds
<1>7. \A i \in 1..n + 1 : day[i].at \in Int
  BY <1>1 DEF Timed
<1> HIDE DEF acc, m, lo
<1>8. CASE b = <<>> \/ Splits(Last(acc), day[n + 1])
  <2> DEFINE keep == b = <<>> \/ Len(Last(acc).ids) >= MinCaptures
             f == IF keep THEN b ELSE Front(b)
             c == Append(f, <<n + 1, n + 1>>)
  <2>1. f \in Seq((1..n) \X (1..n)) /\ f \in Seq(Nat \X Nat) /\ Len(f) <= m /\ Len(f) \in Nat
    <3>1. CASE keep
      BY <1>1, <1>2, <3>1 DEF m
    <3>2. CASE ~keep
      <4>1. /\ Front(b) \in Seq((1..n) \X (1..n)) /\ Front(b) \in Seq(Nat \X Nat)
            /\ Len(Front(b)) = m - 1
        BY <1>4, <3>2
      <4>2. Len(Front(b)) <= m /\ Len(Front(b)) \in Nat
        BY <1>1, <4>1
      <4> QED BY <3>2, <4>1, <4>2
    <3> QED BY <3>1, <3>2
  <2>2. \A k \in 1..Len(f) : k \in 1..m /\ f[k] = b[k]
    <3>1. CASE keep
      BY <3>1 DEF m
    <3>2. CASE ~keep
      BY <1>4, <3>2
    <3> QED BY <3>1, <3>2
  <2>3. Sessions(day, f) = Weighed(acc)
    <3>1. CASE keep
      BY <1>3, <3>1 DEF Weighed, acc
    <3>2. CASE ~keep
      BY <1>3, <1>4, <3>2 DEF Weighed
    <3> QED BY <3>1, <3>2
  <2>4. \A k \in 1..Len(f) : f[k][2] - f[k][1] + 1 >= MinCaptures
    <3>1. CASE keep
      <4>1. ASSUME NEW k \in 1..m PROVE b[k][2] - b[k][1] + 1 >= MinCaptures
        <5>1. CASE k = m
          <6>1. b # <<>>
            BY <1>1, <5>1 DEF m
          <6> QED BY <1>4, <3>1, <5>1, <6>1 DEF lo
        <5>2. CASE k # m
          <6>1. k \in 1..m - 1
            BY <1>1, <5>2
          <6> QED BY <1>6, <6>1
        <5> QED BY <5>1, <5>2
      <4> QED BY <3>1, <4>1 DEF m
    <3>2. CASE ~keep
      <4>1. Len(f) = m - 1
        BY <1>4, <3>2
      <4> HIDE DEF f
      <4> QED BY <1>6, <2>2, <4>1
    <3> QED BY <3>1, <3>2
  \* A session that is dropped holds no two captures.
  <2>5. \A k \in 1..m : k \in 1..Len(f) \/ ~(b[k][1] < b[k][2])
    <3>1. CASE keep
      BY <3>1 DEF m
    <3>2. CASE ~keep
      <4>1. Len(f) = m - 1 /\ b[m][2] = n /\ lo \in 1..n /\ ~(n - lo + 1 >= MinCaptures)
        BY <1>4, <3>2
      <4> HIDE DEF f, keep
      <4>2. ~(lo < n)
        BY <1>1, <4>1
      <4>3. \A k \in 1..m : k = m \/ k \in 1..Len(f)
        BY <1>1, <4>1
      <4> QED BY <4>1, <4>2, <4>3 DEF lo
    <3> QED BY <3>1, <3>2
  <2> HIDE DEF f, keep
  <2>6. Whole(day, n + 1, n + 1)
    <3>1. n + 1 \in 1..n + 1 /\ \A i \in n + 1..n + 1 : i = n + 1
      BY <1>1
    <3>2. day[n + 1].at \in Int
      BY <1>7, <3>1
    <3>3. day[n + 1].at - day[n + 1].at = 0 /\ ~(0 > MaxDuration)
      BY <3>2, LimitsAssumption
    <3>4. \A i \in n + 1..n + 1 - 1 : FALSE
      BY <1>1
    <3> QED BY <3>1, <3>3, <3>4 DEF Whole, Long
  \* Two that belong together are apart because the session has its length.
  <2>7. ASSUME n # 0, Alike(day, n) PROVE Cut(day, n)
    <3>1. b # <<>>
      BY <2>7 DEF Bounds
    <3>2. m \in 1..m /\ lo \in 1..n /\ b[m][2] = n /\ Last(acc) = Stretch(day, lo, n)
      BY <1>4, <3>1
    <3>3. Whole(day, lo, n)
      BY <1>6, <3>2 DEF lo
    <3>4. n \in lo..n
      BY <1>1, <3>2
    <3>5. AppSignature(day[lo]) = AppSignature(day[n + 1]) /\ day[n + 1].at - day[n].at <= MaxGap
      BY <2>7, <3>3, <3>4 DEF Whole, Alike
    <3>6. n \in 1..n + 1 /\ n + 1 \in 1..n + 1
      BY <1>1, <2>7
    <3>7. day[n].at \in Int /\ day[n + 1].at \in Int
      BY <1>7, <3>6
    <3>8. /\ Last(acc).signature = AppSignature(day[lo]) /\ Last(acc).start = day[lo].at
          /\ Last(acc).end = day[n].at
      BY <3>2 DEF Stretch
    <3>9. Splits(Last(acc), day[n + 1])
      BY <1>8, <3>1
    <3>10. Long(day, lo, n + 1)
      BY <1>1, <3>5, <3>7, <3>8, <3>9 DEF Splits, Long
    <3>11. \A l \in lo..n : l = n \/ l \in lo..n - 1
      BY <1>1, <3>2
    <3>12. \A l \in lo..n : Alike(day, l)
      BY <2>7, <3>3, <3>11 DEF Whole
    <3> QED BY <3>2, <3>10, <3>12 DEF Cut
  <2>8. Bounds(day, n + 1, c)
    <3>1. n + 1 \in 1..n + 1
      BY <1>1
    <3>2. ASSUME NEW k \in 1..Len(f)
          PROVE  /\ f[k][1] <= f[k][2] /\ Whole(day, f[k][1], f[k][2])
                 /\ f[k][2] < n + 1 /\ f[k][2] - f[k][1] + 1 >= MinCaptures
      <4>1. k \in 1..m /\ f[k] = b[k] /\ b[k][2] \in 1..n
        BY <1>5, <2>2
      <4>2. f[k][2] < n + 1
        BY <1>1, <4>1
      <4> QED BY <1>6, <2>4, <4>1, <4>2
    <3>3. \A k, l \in 1..Len(f) : l < k => f[l][2] < f[k][1]
      BY <1>6, <2>2
    <3>4. ASSUME NEW i \in 1..n, Alike(day, i)
          PROVE  \/ Cut(day, i) \/ n + 1 <= i
                 \/ \E k \in 1..Len(f) : f[k][1] <= i /\ i + 1 <= f[k][2]
      <4>1. CASE i = n
        BY <2>7, <3>4, <4>1
      <4>2. CASE i # n
        <5>1. i \in 1..n - 1
          BY <1>1, <4>2
        <5>2. CASE Cut(day, i)
          BY <5>2
        <5>3. CASE \E k \in 1..m : b[k][1] <= i /\ i + 1 <= b[k][2]
          <6>1. PICK k \in 1..m : b[k][1] <= i /\ i + 1 <= b[k][2]
            BY <5>3
          <6>2. b[k][1] \in 1..n /\ b[k][2] \in 1..n
            BY <1>5
          <6>3. b[k][1] < b[k][2]
            BY <6>1, <6>2
          <6>4. k \in 1..Len(f) /\ f[k] = b[k]
            BY <2>2, <2>5, <6>3
          <6> QED BY <6>1, <6>4
        <5> QED BY <1>6, <3>4, <5>1, <5>2, <5>3
      <4> QED BY <4>1, <4>2
    <3> QED BY <1>1, <2>1, <2>6, <3>1, <3>2, <3>3, <3>4, Grows
  <2>9. Join(acc, day[n + 1]) = Sessions(day, c)
    <3>1. Join(acc, day[n + 1]) = Append(Weighed(acc), Opened(day[n + 1]))
      BY <1>3, <1>8 DEF Join
    <3>2. Opened(day[n + 1]) = Stretch(day, n + 1, n + 1)
      <4>1. n + 1 \in Nat /\ n + 1 <= n + 1
        BY <1>1
      <4> QED BY <4>1, StretchGrows
    <3>3. Sessions(day, c) = Append(Sessions(day, f), Stretch(day, n + 1, n + 1))
      <4>1. n + 1 \in Nat
        BY <1>1
      <4> QED BY <2>1, <4>1, SessionsAre
    <3> HIDE DEF c
    <3> QED BY <2>3, <3>1, <3>2, <3>3
  <2> QED BY <2>8, <2>9 DEF acc
<1>9. CASE ~(b = <<>> \/ Splits(Last(acc), day[n + 1]))
  <2> DEFINE f == Front(b)
             c == Append(f, <<lo, n + 1>>)
  <2>1. /\ b # <<>> /\ ~Splits(Last(acc), day[n + 1])
    BY <1>9
  <2>2. /\ m \in 1..m /\ n # 0 /\ lo \in 1..n /\ b[m][2] = n
        /\ n \in 1..n + 1 /\ n + 1 \in 1..n + 1 /\ lo \in Nat /\ lo <= n
    <3>1. m \in 1..m /\ n # 0 /\ lo \in 1..n /\ b[m][2] = n
      BY <1>4, <2>1
    <3> QED BY <1>1, <3>1
  <2>3. /\ f \in Seq((1..n) \X (1..n)) /\ f \in Seq(Nat \X Nat) /\ Len(f) = m - 1
        /\ \A k \in 1..m - 1 : k \in 1..m /\ f[k] = b[k]
        /\ Sessions(day, f) = Front(acc) /\ Last(acc) = Stretch(day, lo, n)
    BY <1>4, <2>1
  <2> HIDE DEF f
  <2>4. /\ AppSignature(day[lo]) = AppSignature(day[n + 1])
        /\ day[n + 1].at - day[n].at <= MaxGap
        /\ ~(day[n + 1].at - day[lo].at > MaxDuration)
    <3>1. Last(acc).signature = AppSignature(day[lo]) /\ Last(acc).start = day[lo].at /\ Last(acc).end = day[n].at
      BY <1>4, <2>1 DEF Stretch
    <3>2. day[n].at \in Int /\ day[n + 1].at \in Int
      BY <1>7, <2>2
    <3> QED BY <1>1, <2>1, <3>1, <3>2, SMTT(30) DEF Splits
  <2>5. Whole(day, lo, n)
    BY <1>4, <1>6, <2>1 DEF lo
  <2>6. Alike(day, n)
    <3>1. n \in lo..n
      BY <1>1, <2>2
    <3>2. AppSignature(day[n]) = AppSignature(day[lo])
      BY <2>5, <3>1 DEF Whole
    <3> QED BY <2>4, <3>2 DEF Alike
  <2>7. Whole(day, lo, n + 1)
    <3>1. \A i \in lo..n : i = n \/ i \in lo..n - 1
      BY <1>1, <2>2
    <3>2. \A i \in lo..n + 1 : i = n + 1 \/ i \in lo..n
      BY <1>1, <2>2
    <3>3. n + 1 - 1 = n
      BY <1>1
    <3> QED BY <2>4, <2>5, <2>6, <3>1, <3>2, <3>3 DEF Whole, Long
  <2>8. Bounds(day, n + 1, c)
    <3>1. f \in Seq((1..n) \X (1..n)) /\ Len(f) = m - 1 /\ lo \in 1..n + 1
      BY <1>1, <2>2, <2>3
    <3>2. ASSUME NEW k \in 1..m - 1
          PROVE  /\ f[k] = b[k] /\ f[k][1] <= f[k][2] /\ Whole(day, f[k][1], f[k][2])
                 /\ f[k][2] < lo /\ f[k][2] - f[k][1] + 1 >= MinCaptures
      <4>1. k \in 1..m /\ f[k] = b[k]
        BY <2>3
      <4>2. k < m
        BY <1>1
      <4> QED BY <1>6, <2>2, <4>1, <4>2 DEF lo
    <3>3. \A k, l \in 1..m - 1 : l < k => f[l][2] < f[k][1]
      <4>1. \A k \in 1..m - 1 : k \in 1..m
        BY <1>1
      <4> QED BY <1>6, <3>2, <4>1
    <3>4. ASSUME NEW i \in 1..n, Alike(day, i)
          PROVE  Cut(day, i) \/ lo <= i \/ \E k \in 1..m - 1 : f[k][1] <= i /\ i + 1 <= f[k][2]
      <4>1. CASE i = n
        BY <1>1, <2>2, <4>1
      <4>2. CASE i # n
        <5>1. i \in 1..n - 1
          BY <1>1, <4>2
        <5>2. Cut(day, i) \/ \E k \in 1..m : b[k][1] <= i /\ i + 1 <= b[k][2]
          BY <1>6, <3>4, <5>1
        <5>3. \A k \in 1..m : k = m \/ k \in 1..m - 1
          BY <1>1
        <5> QED BY <3>2, <5>2, <5>3 DEF lo
      <4> QED BY <4>1, <4>2
    <3> QED BY <1>1, <2>7, <3>1, <3>2, <3>3, <3>4, Grows
  <2>9. Join(acc, day[n + 1]) = Sessions(day, c)
    <3>1. Join(acc, day[n + 1])
            = Append(Front(acc), Extended(Last(acc), day[n + 1]))
      BY <1>3, <2>1 DEF Join
    <3>2. Last(acc) = Stretch(day, lo, n)
      BY <2>3
    <3>3. Extended(Stretch(day, lo, n), day[n + 1]) = Stretch(day, lo, n + 1)
      BY <1>1, <2>2, StretchGrows
    <3>4. Sessions(day, c) = Append(Sessions(day, f), Stretch(day, lo, n + 1))
      <4>1. f \in Seq(Nat \X Nat) /\ n + 1 \in Nat
        BY <1>1, <2>3
      <4> QED BY <2>2, <4>1, SessionsAre
    <3>5. Sessions(day, f) = Front(acc)
      BY <2>3
    <3> HIDE DEF c
    <3> QED BY <3>1, <3>2, <3>3, <3>4, <3>5
  <2> QED BY <2>8, <2>9 DEF acc
<1> QED BY <1>8, <1>9

-----------------------------------------------------------------------------
(* Clustering: the whole loop *)

\* A function that takes the loop's turns as long as they give sessions.
LEMMA Loop ==
  ASSUME NEW D, NEW day \in Seq(D), Timed(day), NEW f, f[0] = <<>>,
         \A n \in 1..Len(day) :
            (\E b \in Seq(Nat \X Nat) : Join(f[n - 1], day[n]) = Sessions(day, b))
              => f[n] = Join(f[n - 1], day[n])
  PROVE  \A n \in 0..Len(day) : \E b : Bounds(day, n, b) /\ f[n] = Sessions(day, b)
<1> DEFINE G == {n \in 0..Len(day) : \E b : Bounds(day, n, b) /\ f[n] = Sessions(day, b)}
<1>1. 0 \in G
  <2>1. Bounds(day, 0, <<>>)
    BY DEF Bounds
  <2>2. <<>> \in Seq(Nat \X Nat)
    OBVIOUS
  <2>3. Sessions(day, <<>>) = <<>>
    BY <2>2, SessionsAre
  <2>4. 0 \in 0..Len(day)
    OBVIOUS
  <2> QED BY <2>1, <2>3, <2>4
<1>2. ASSUME NEW n \in 0..Len(day) - 1, n \in G PROVE n + 1 \in G
  <2>1. PICK b : Bounds(day, n, b) /\ f[n] = Sessions(day, b)
    BY <1>2
  <2>2. PICK c : Bounds(day, n + 1, c) /\ Join(Sessions(day, b), day[n + 1]) = Sessions(day, c)
    BY <2>1, Turn
  <2>3. n + 1 \in 1..Len(day) /\ n + 1 - 1 = n /\ n + 1 \in 0..Len(day)
    OBVIOUS
  <2>4. c \in Seq(Nat \X Nat)
    <3>1. c \in Seq((1..n + 1) \X (1..n + 1)) /\ (1..n + 1) \X (1..n + 1) \subseteq Nat \X Nat
      BY <2>2 DEF Bounds
    <3>2. c \in [1..Len(c) -> Nat \X Nat] /\ Len(c) \in Nat
      BY <3>1
    <3> QED BY <3>2, Listed
  <2>5. Join(f[n], day[n + 1]) = Sessions(day, c)
    BY <2>1, <2>2
  <2>6. f[n + 1] = Sessions(day, c)
    BY <2>3, <2>4, <2>5, SMTT(30)
  <2> QED BY <2>2, <2>3, <2>6
<1> HIDE DEF G
<1>3. 0..Len(day) \subseteq G
  <2>1. Len(day) \in Nat
    OBVIOUS
  <2> QED BY <1>1, <1>2, <2>1, InductTo
<1> QED BY <1>3 DEF G

\* What the loop has after each of its turns.
LEMMA TurnsAre ==
  ASSUME NEW D, NEW day \in Seq(D), Timed(day)
  PROVE  \A n \in 0..Len(day) : \E b : Bounds(day, n, b) /\ Turns(day)[n] = Sessions(day, b)
<1> DEFINE N == Len(day)
           S == {Sessions(day, b) : b \in Seq(Nat \X Nat)}
           step == [p \in S \X (1..N) |->
                      IF Join(p[1], day[p[2]]) \in S THEN Join(p[1], day[p[2]]) ELSE <<>>]
           Unfolds(f) == f = [n \in 0..N |-> IF n = 0 THEN <<>> ELSE Join(f[n - 1], day[n])]
<1>1. N \in Nat
  OBVIOUS
<1>2. <<>> \in S
  <2>1. <<>> \in Seq(Nat \X Nat)
    OBVIOUS
  <2>2. Sessions(day, <<>>) = <<>>
    BY <2>1, SessionsAre
  <2> QED BY <2>1, <2>2
<1>3. \E f : Unfolds(f)
  <2>1. step \in [S \X (1..N) -> S]
    <3> HIDE DEF S
    <3> QED BY <1>2
  <2>2. \A s \in S, n \in 1..N : Join(s, day[n]) \in S => step[<<s, n>>] = Join(s, day[n])
    <3> HIDE DEF S
    <3> QED OBVIOUS
  <2> HIDE DEF step, S
  <2>3. PICK f \in [0..N -> S] : f[0] = <<>> /\ \A n \in 1..N : f[n] = step[<<f[n - 1], n>>]
    <3> DEFINE none == <<>>
    <3>1. none \in S
      BY <1>2
    <3> HIDE DEF N, none
    <3>2. \E f : Follows(f, N, S, none, step)
      BY <1>1, <2>1, <3>1, Recursion
    <3> QED BY <3>2 DEF none, Follows
  <2>4. \A n \in 1..N : n - 1 \in 0..N
    BY <1>1
  <2>5. \A n \in 1..N : Join(f[n - 1], day[n]) \in S => f[n] = Join(f[n - 1], day[n])
    BY <2>2, <2>3, <2>4
  <2>6. \A n \in 1..N : (\E b \in Seq(Nat \X Nat) : Join(f[n - 1], day[n]) = Sessions(day, b))
                          <=> Join(f[n - 1], day[n]) \in S
    BY DEF S
  <2>7. \A n \in 0..N : \E b : Bounds(day, n, b) /\ f[n] = Sessions(day, b)
    <3>1. f[0] = <<>>
      BY <2>3
    <3>2. \A n \in 1..Len(day) :
             (\E b \in Seq(Nat \X Nat) : Join(f[n - 1], day[n]) = Sessions(day, b))
               => f[n] = Join(f[n - 1], day[n])
      BY <2>5, <2>6
    <3> HIDE DEF N
    <3>3. \A n \in 0..Len(day) : \E b : Bounds(day, n, b) /\ f[n] = Sessions(day, b)
      BY <3>1, <3>2, Loop
    <3> QED BY <3>3 DEF N
  <2>8. ASSUME NEW n \in 1..N PROVE f[n] = Join(f[n - 1], day[n])
    <3>1. n - 1 \in 0..N - 1 /\ n - 1 \in 0..N /\ n - 1 + 1 = n
      BY <1>1
    <3>2. PICK b : Bounds(day, n - 1, b) /\ f[n - 1] = Sessions(day, b)
      BY <2>7, <3>1
    <3>3. PICK c : Bounds(day, n - 1 + 1, c)
                   /\ Join(Sessions(day, b), day[n - 1 + 1]) = Sessions(day, c)
      BY <3>1, <3>2, Turn
    <3>4. c \in Seq(Nat \X Nat)
      <4>1. c \in Seq((1..n) \X (1..n)) /\ (1..n) \X (1..n) \subseteq Nat \X Nat
        BY <3>1, <3>3 DEF Bounds
      <4>2. c \in [1..Len(c) -> Nat \X Nat] /\ Len(c) \in Nat
        BY <4>1
      <4> QED BY <4>2, Listed
    <3>5. Join(f[n - 1], day[n]) = Sessions(day, c)
      BY <3>1, <3>2, <3>3
    <3> QED BY <2>5, <2>6, <3>4, <3>5
  <2>9. \A n \in 0..N : f[n] = IF n = 0 THEN <<>> ELSE Join(f[n - 1], day[n])
    <3>1. \A n \in 0..N : n = 0 \/ n \in 1..N
      BY <1>1
    <3> HIDE DEF N
    <3> QED BY <2>3, <2>8, <3>1
  <2>10. f = [n \in 0..N |-> f[n]]
    BY <2>3
  <2>11. Unfolds(f)
    <3> HIDE DEF N
    <3> QED BY <2>9, <2>10
  <2> QED BY <2>11
<1>4. Turns(day) = CHOOSE f : Unfolds(f)
  BY DEF Turns
<1>5. Unfolds(Turns(day))
  <2> HIDE DEF Unfolds
  <2> QED BY <1>3, <1>4
<1> HIDE DEF S, step
<1>6. /\ Turns(day)[0] = <<>>
      /\ \A n \in 1..N : Turns(day)[n] = Join(Turns(day)[n - 1], day[n])
  <2>1. 0 \in 0..N /\ \A n \in 1..N : n \in 0..N /\ n # 0
    BY <1>1
  <2> DEFINE f == Turns(day)
  <2>2. f = [n \in 0..N |-> IF n = 0 THEN <<>> ELSE Join(f[n - 1], day[n])]
    BY <1>5
  <2> HIDE DEF f, N
  <2> QED BY <2>1, <2>2 DEF f
<1> QED BY <1>6, Loop

\* The bounds of the sessions a day of N captures is made of.
Divides(day, N, b) ==
  /\ b \in Seq((1..N) \X (1..N))
  /\ \A k \in 1..Len(b) : /\ b[k][1] <= b[k][2] /\ Whole(day, b[k][1], b[k][2])
                          /\ b[k][2] - b[k][1] + 1 >= MinCaptures
  /\ \A k, l \in 1..Len(b) : l < k => b[l][2] < b[k][1]
  /\ \A i \in 1..N - 1 : Alike(day, i) =>
        Cut(day, i) \/ \E k \in 1..Len(b) : b[k][1] <= i /\ i + 1 <= b[k][2]

LEMMA ClustersAre ==
  ASSUME NEW caps, GoodDay(caps)
  PROVE  \E b : /\ Divides(InOrder(caps), Len(InOrder(caps)), b)
                /\ ClusterCaptures(caps) = Sessions(InOrder(caps), b)
<1> DEFINE day == InOrder(caps)
           N == Len(day)
<1>1. day \in Seq(caps) /\ N \in Nat /\ N \in 0..N /\ Timed(day)
  <2>1. day \in Seq(caps) /\ Timed(day)
    BY DayIs DEF Timed
  <2> HIDE DEF day
  <2> QED BY <2>1
<1> HIDE DEF day, N
<1>2. PICK b : Bounds(day, N, b) /\ Turns(day)[N] = Sessions(day, b)
  BY <1>1, TurnsAre DEF N
<1> DEFINE m == Len(b)
           lo == b[m][1]
<1>3. /\ b \in Seq((1..N) \X (1..N)) /\ m \in Nat
      /\ \A k \in 1..m : b[k][1] <= b[k][2] /\ Whole(day, b[k][1], b[k][2])
      /\ \A k, l \in 1..m : l < k => b[l][2] < b[k][1]
      /\ \A k \in 1..m - 1 : b[k][2] - b[k][1] + 1 >= MinCaptures
      /\ \A i \in 1..N - 1 : Alike(day, i) =>
            Cut(day, i) \/ \E k \in 1..m : b[k][1] <= i /\ i + 1 <= b[k][2]
      /\ b # <<>> => b[m][2] = N
  <2>1. b \in Seq((1..N) \X (1..N)) /\ m \in Nat
    BY <1>2 DEF Bounds
  <2>2. b # <<>> => N # 0
    BY <1>1, <2>1
  <2> QED BY <1>2, <2>1, <2>2 DEF Bounds
<1>4. b \in Seq(Nat \X Nat)
  <2>1. (1..N) \X (1..N) \subseteq Nat \X Nat
    BY <1>1
  <2>2. b \in [1..Len(b) -> Nat \X Nat]
    BY <1>3, <2>1
  <2> QED BY <1>3, <2>2, Listed
<1> DEFINE acc == Sessions(day, b)
<1>5. ClusterCaptures(caps) = Weighed(acc)
  BY <1>2 DEF ClusterCaptures, day, N
<1>6. ASSUME b # <<>>
      PROVE  /\ m \in 1..m /\ lo \in 1..N /\ b[m][2] = N /\ Len(Last(acc).ids) = N - lo + 1
             /\ Sessions(day, Front(b)) = Front(acc) /\ acc # <<>>
             /\ Front(b) \in Seq((1..N) \X (1..N)) /\ Len(Front(b)) = m - 1
             /\ \A k \in 1..m - 1 : k \in 1..m /\ Front(b)[k] = b[k]
  <2>1. /\ m \in 1..m /\ Front(b) \in Seq((1..N) \X (1..N)) /\ Len(Front(b)) = m - 1
        /\ Front(b) = [k \in 1..m - 1 |-> b[k]]
    BY <1>3, <1>6, Ends
  <2>2. \A k \in 1..m - 1 : k \in 1..m
    BY <1>3
  <2>3. b[m] \in (1..N) \X (1..N)
    BY <1>3, <2>1
  <2>4. /\ acc # <<>> /\ Sessions(day, Front(b)) = Front(acc)
        /\ Last(acc) = Stretch(day, lo, b[m][2])
    BY <1>4, <1>6, SessionsAre
  <2> HIDE DEF m, acc, lo
  <2>5. b[m][2] = N
    BY <1>3, <1>6
  <2>6. lo \in 1..N
    BY <2>3 DEF lo
  <2>7. Len(Last(acc).ids) = N - lo + 1
    <3>1. lo \in Nat /\ N \in Nat /\ lo <= N
      BY <1>1, <2>6
    <3>2. Len(Stretch(day, lo, N).ids) = N - lo + 1
      BY <3>1, StretchGrows
    <3> QED BY <2>4, <2>5, <3>2
  <2>8. \A k \in 1..m - 1 : k \in 1..m /\ Front(b)[k] = b[k]
    BY <2>1, <2>2
  <2> QED BY <2>1, <2>4, <2>5, <2>6, <2>7, <2>8
<1>7. acc = <<>> <=> b = <<>>
  BY <1>4, SessionsAre
<1> HIDE DEF m, lo, acc
<1>8. CASE b = <<>> \/ Len(Last(acc).ids) >= MinCaptures
  <2>1. Weighed(acc) = Sessions(day, b)
    BY <1>7, <1>8 DEF Weighed, acc
  <2>2. ASSUME NEW k \in 1..m PROVE b[k][2] - b[k][1] + 1 >= MinCaptures
    <3>1. CASE k = m
      <4>1. b # <<>>
        BY <1>3, <3>1 DEF m
      <4> QED BY <1>6, <1>8, <3>1, <4>1 DEF lo
    <3>2. CASE k # m
      <4>1. k \in 1..m - 1
        BY <1>3, <3>2
      <4> QED BY <1>3, <4>1
    <3> QED BY <3>1, <3>2
  <2>3. Divides(day, N, b)
    BY <1>3, <2>2 DEF Divides, m
  <2> QED BY <1>5, <2>1, <2>3 DEF day, N
<1>9. CASE ~(b = <<>> \/ Len(Last(acc).ids) >= MinCaptures)
  <2> DEFINE f == Front(b)
  <2>1. b # <<>>
    BY <1>9
  <2>2. /\ m \in 1..m /\ lo \in 1..N /\ b[m][2] = N /\ ~(N - lo + 1 >= MinCaptures)
        /\ f \in Seq((1..N) \X (1..N)) /\ Len(f) = m - 1 /\ acc # <<>>
        /\ \A k \in 1..m - 1 : k \in 1..m /\ f[k] = b[k]
    BY <1>6, <1>9
  <2>3. Weighed(acc) = Sessions(day, f)
    BY <1>6, <1>7, <1>9 DEF Weighed
  <2> HIDE DEF f
  <2>4. \A k \in 1..Len(f) : /\ f[k][1] <= f[k][2] /\ Whole(day, f[k][1], f[k][2])
                             /\ f[k][2] - f[k][1] + 1 >= MinCaptures
    BY <1>3, <2>2
  <2>5. ASSUME NEW k \in 1..Len(f), NEW l \in 1..Len(f), l < k PROVE f[l][2] < f[k][1]
    <3>1. k \in 1..m /\ l \in 1..m /\ f[k] = b[k] /\ f[l] = b[l]
      BY <2>2
    <3> QED BY <1>3, <2>5, <3>1
  <2>6. ~(lo < N)
    BY <1>1, <2>2, LimitsAssumption
  <2>7. ASSUME NEW i \in 1..N - 1, Alike(day, i), ~Cut(day, i)
        PROVE  \E k \in 1..Len(f) : f[k][1] <= i /\ i + 1 <= f[k][2]
    <3>1. PICK k \in 1..m : b[k][1] <= i /\ i + 1 <= b[k][2]
      BY <1>3, <2>7
    <3>2. b[k][1] \in 1..N /\ b[k][2] \in 1..N
      BY <1>3, <3>1 DEF m
    <3>3. b[k][1] < b[k][2]
      BY <3>1, <3>2
    <3>4. k # m
      BY <2>2, <2>6, <3>3 DEF lo
    <3>5. k \in 1..Len(f) /\ f[k] = b[k]
      BY <1>3, <2>2, <3>4
    <3> QED BY <3>1, <3>5
  <2>8. Divides(day, N, f)
    BY <2>2, <2>4, <2>5, <2>7 DEF Divides
  <2> QED BY <1>5, <2>3, <2>8 DEF day, N
<1> QED BY <1>8, <1>9

\* A cluster's captures are where its session is.
LEMMA PlacesAre ==
  ASSUME NEW D, NEW day \in Seq(D),
         \A i, j \in 1..Len(day) : day[i].id = day[j].id => i = j,
         NEW lo \in 1..Len(day), NEW hi \in 1..Len(day), lo <= hi
  PROVE  /\ PlacesOf(day, Stretch(day, lo, hi)) = lo..hi
         /\ Min(lo..hi) = lo /\ Max(lo..hi) = hi
         /\ Cardinality(lo..hi) = hi - lo + 1
<1> DEFINE c == Stretch(day, lo, hi)
<1>1. Len(day) \in Nat /\ DOMAIN day = 1..Len(day) /\ lo \in Int /\ hi \in Int
  OBVIOUS
<1>2. ASSUME NEW i \in 1..Len(day) PROVE PlaceOf(day, day[i].id) = i
  BY <1>1, <1>2 DEF PlaceOf
<1>3. DOMAIN c.ids = 1..hi - lo + 1 /\ \A k \in 1..hi - lo + 1 : c.ids[k] = day[lo + k - 1].id
  BY DEF Stretch
<1> HIDE DEF c
<1>4. ASSUME NEW k \in 1..hi - lo + 1
      PROVE  PlaceOf(day, c.ids[k]) = lo + k - 1 /\ lo + k - 1 \in lo..hi
  <2>1. lo + k - 1 \in lo..hi /\ lo + k - 1 \in 1..Len(day)
    BY <1>1
  <2> QED BY <1>2, <1>3, <2>1
<1>5. ASSUME NEW i \in lo..hi PROVE \E k \in 1..hi - lo + 1 : i = lo + k - 1
  <2>1. i - lo + 1 \in 1..hi - lo + 1 /\ i = lo + (i - lo + 1) - 1
    BY <1>1
  <2> QED BY <2>1
<1>6. PlacesOf(day, c) = lo..hi
  <2>1. PlacesOf(day, c) = {PlaceOf(day, c.ids[k]) : k \in 1..hi - lo + 1}
    BY <1>3 DEF PlacesOf
  <2>2. {PlaceOf(day, c.ids[k]) : k \in 1..hi - lo + 1} = {lo + k - 1 : k \in 1..hi - lo + 1}
    BY <1>4
  <2>3. {lo + k - 1 : k \in 1..hi - lo + 1} = lo..hi
    BY <1>4, <1>5
  <2> QED BY <2>1, <2>2, <2>3
<1>7. Min(lo..hi) = lo
  <2>1. \A x, y \in lo..hi : x <= y /\ y <= x => x = y
    BY <1>1
  <2>2. lo \in lo..hi /\ \A y \in lo..hi : lo <= y
    BY <1>1
  <2> QED BY <2>1, <2>2 DEF Min
<1>8. Max(lo..hi) = hi
  <2>1. \A x, y \in lo..hi : x >= y /\ y >= x => x = y
    BY <1>1
  <2>2. hi \in lo..hi /\ \A y \in lo..hi : hi >= y
    BY <1>1
  <2> QED BY <2>1, <2>2 DEF Max
<1>9. Cardinality(lo..hi) = hi - lo + 1
  BY <1>1, FS_Interval
<1> QED BY <1>6, <1>7, <1>8, <1>9 DEF c

\* The bounds say what SessionsAreWhole says of the clusters.
LEMMA WholeSessions ==
  ASSUME GoodDay(captures), clusters = ClusterCaptures(captures)
  PROVE  SessionsAreWhole
<1> DEFINE day == InOrder(captures)
           N == Len(day)
           Session(k) == PlacesOf(day, clusters[k])
<1>1. /\ day \in Seq(captures) /\ N \in Nat
      /\ \A i, j \in 1..N : day[i].id = day[j].id => i = j
  <2>1. /\ day \in Seq(captures)
        /\ \A i, j \in 1..N : day[i].id = day[j].id => i = j
    BY DayIs
  <2> HIDE DEF day
  <2> QED BY <2>1
<1>2. PICK b : Divides(day, N, b) /\ clusters = Sessions(day, b)
  BY ClustersAre
<1> HIDE DEF day, N
<1> DEFINE m == Len(b)
           lo(k) == b[k][1]
           hi(k) == b[k][2]
<1>3. /\ b \in Seq((1..N) \X (1..N)) /\ m \in Nat
      /\ \A k \in 1..m : /\ lo(k) <= hi(k) /\ Whole(day, lo(k), hi(k))
                         /\ hi(k) - lo(k) + 1 >= MinCaptures
      /\ \A k, l \in 1..m : l < k => hi(l) < lo(k)
      /\ \A i \in 1..N - 1 : Alike(day, i) =>
            Cut(day, i) \/ \E k \in 1..m : lo(k) <= i /\ i + 1 <= hi(k)
  BY <1>2 DEF Divides
<1>4. \A k \in 1..m : lo(k) \in 1..N /\ hi(k) \in 1..N
  BY <1>3
<1>5. DOMAIN clusters = 1..m /\ \A k \in 1..m : clusters[k] = Stretch(day, lo(k), hi(k))
  BY <1>2 DEF Sessions
<1> HIDE DEF m, lo, hi
<1>6. ASSUME NEW k \in 1..m
      PROVE  /\ Session(k) = lo(k)..hi(k) /\ Min(Session(k)) = lo(k) /\ Max(Session(k)) = hi(k)
             /\ Cardinality(Session(k)) = hi(k) - lo(k) + 1
  <2>1. lo(k) \in 1..N /\ hi(k) \in 1..N /\ lo(k) <= hi(k) /\ clusters[k] = Stretch(day, lo(k), hi(k))
    BY <1>3, <1>4, <1>5
  <2>2. /\ PlacesOf(day, Stretch(day, lo(k), hi(k))) = lo(k)..hi(k)
        /\ Min(lo(k)..hi(k)) = lo(k) /\ Max(lo(k)..hi(k)) = hi(k)
        /\ Cardinality(lo(k)..hi(k)) = hi(k) - lo(k) + 1
    <3>1. \A i, j \in 1..Len(day) : day[i].id = day[j].id => i = j
      BY <1>1 DEF N
    <3>2. lo(k) \in 1..Len(day) /\ hi(k) \in 1..Len(day)
      BY <2>1 DEF N
    <3> QED BY <1>1, <2>1, <3>1, <3>2, PlacesAre
  <2>3. Session(k) = lo(k)..hi(k)
    BY <2>1, <2>2
  <2> HIDE DEF Session
  <2> QED BY <2>2, <2>3
<1> HIDE DEF Session
<1>7. ASSUME NEW k \in DOMAIN clusters
      PROVE  /\ Session(k) = Min(Session(k))..Max(Session(k)) /\ Cardinality(Session(k)) >= MinCaptures
             /\ \A i \in Min(Session(k))..Max(Session(k)) - 1 : Alike(day, i)
             /\ ~Long(day, Min(Session(k)), Max(Session(k)))
             /\ \A l \in 1..k - 1 : Max(Session(l)) < Min(Session(k))
  <2>1. k \in 1..m
    BY <1>5
  <2>2. Session(k) = Min(Session(k))..Max(Session(k)) /\ Cardinality(Session(k)) >= MinCaptures
    BY <1>3, <1>6, <2>1
  <2>3. /\ \A i \in Min(Session(k))..Max(Session(k)) - 1 : Alike(day, i)
        /\ ~Long(day, Min(Session(k)), Max(Session(k)))
    BY <1>3, <1>6, <2>1 DEF Whole
  <2>4. ASSUME NEW l \in 1..k - 1 PROVE Max(Session(l)) < Min(Session(k))
    <3>1. l \in 1..m /\ l < k
      BY <1>3, <2>1
    <3> QED BY <1>3, <1>6, <2>1, <3>1
  <2> QED BY <2>2, <2>3, <2>4
<1>8. ASSUME NEW i \in 1..Len(day) - 1, Alike(day, i)
      PROVE  \/ \E k \in DOMAIN clusters : {i, i + 1} \subseteq Session(k)
             \/ \E j \in 1..i : Long(day, j, i + 1) /\ \A l \in j..i : Alike(day, l)
  <2>1. CASE Cut(day, i)
    BY <2>1 DEF Cut
  <2>2. CASE \E k \in 1..m : lo(k) <= i /\ i + 1 <= hi(k)
    <3>1. PICK k \in 1..m : lo(k) <= i /\ i + 1 <= hi(k)
      BY <2>2
    <3>2. lo(k) \in 1..N /\ hi(k) \in 1..N
      BY <1>4
    <3>3. i \in lo(k)..hi(k) /\ i + 1 \in lo(k)..hi(k)
      BY <1>1, <3>1, <3>2
    <3> QED BY <1>5, <1>6, <3>3
  <2> QED BY <1>3, <1>8, <2>1, <2>2 DEF N
<1> QED BY <1>7, <1>8 DEF SessionsAreWhole, Session, day

-----------------------------------------------------------------------------
(* The ceiling and the sessions *)

\* While it summarises a run has the day it loaded, clustered, and has spent no
\* more than the ceiling; between runs it has spent nothing.
SpendInv ==
  /\ stage \in {"idle", "summarise", "synthesise", "parse", "rank"}
  /\ run \in 0..MaxRuns /\ summaries \in Nat /\ spent \in Nat
  /\ stage = "idle" => spent = 0 /\ summaries = 0
  /\ stage = "summarise" =>
       /\ GoodDay(captures) /\ clusters = ClusterCaptures(captures)
       /\ summaries <= Len(clusters) /\ spent <= Ceiling
  /\ stage \in {"synthesise", "parse", "rank"} => spent - SynthesisPrice <= Ceiling

\* The estimate of a summary is a number.
LEMMA EstimateIs ==
  ASSUME SpendInv, stage = "summarise", summaries < Len(clusters)
  PROVE  Estimate \in Nat /\ Len(clusters) \in Nat
<1> DEFINE day == InOrder(captures)
           N == Len(day)
<1>1. GoodDay(captures) /\ clusters = ClusterCaptures(captures)
  BY DEF SpendInv
<1>2. PICK b : Divides(day, N, b) /\ clusters = Sessions(day, b)
  BY <1>1, ClustersAre
<1>3. N \in Nat
  <2>1. day \in Seq(captures)
    BY <1>1, DayIs
  <2> HIDE DEF day
  <2> QED BY <2>1
<1> HIDE DEF day, N
<1>4. /\ Len(b) \in Nat /\ b \in Seq(Nat \X Nat)
      /\ \A k \in 1..Len(b) : b[k][1] \in Nat /\ b[k][2] \in Nat /\ b[k][1] <= b[k][2]
  <2>1. b \in Seq((1..N) \X (1..N)) /\ \A k \in 1..Len(b) : b[k][1] <= b[k][2]
    BY <1>2 DEF Divides
  <2>2. (1..N) \X (1..N) \subseteq Nat \X Nat
    BY <1>3
  <2>3. Len(b) \in Nat /\ b \in [1..Len(b) -> Nat \X Nat]
    BY <2>1, <2>2
  <2> QED BY <2>1, <2>3, Listed
<1>5. Len(clusters) = Len(b) /\ \A k \in 1..Len(b) : clusters[k] = Stretch(day, b[k][1], b[k][2])
  BY <1>2, <1>4, SessionsAre
<1>6. summaries + 1 \in 1..Len(b)
  BY <1>4, <1>5 DEF SpendInv
<1>7. Len(clusters[summaries + 1].ids) \in Nat
  <2> DEFINE lo == b[summaries + 1][1]
             hi == b[summaries + 1][2]
  <2>1. lo \in Nat /\ hi \in Nat /\ lo <= hi /\ clusters[summaries + 1] = Stretch(day, lo, hi)
    BY <1>4, <1>5, <1>6
  <2> HIDE DEF lo, hi
  <2>2. Len(Stretch(day, lo, hi).ids) = hi - lo + 1
    BY <2>1, StretchGrows
  <2> QED BY <2>1, <2>2
<1>8. \A x, y, z \in Nat : x + y * z \in Nat
  OBVIOUS
<1>9. Estimate \in Nat
  BY <1>7, <1>8, PricesAssumption DEF Estimate
<1> QED BY <1>4, <1>5, <1>9

LEMMA SpendInitially == Init => SpendInv
BY DaysAssumption DEF Init, SpendInv

LEMMA SpendInductive == SpendInv /\ [Next]_vars => SpendInv'
<1> SUFFICES ASSUME SpendInv, [Next]_vars PROVE SpendInv'
  OBVIOUS
<1>1. CASE Begin
  <2>1. stage = "idle" /\ spent' = 0 /\ summaries' = 0 /\ stage' = "summarise" /\ run' = run + 1
    BY <1>1 DEF Begin, SpendInv
  <2>2. run' \in 1..MaxRuns
    BY <1>1, DaysAssumption DEF Begin, SpendInv
  <2>3. GoodDay(captures') /\ clusters' = ClusterCaptures(captures')
    BY <1>1, <2>2, DaysAssumption DEF Begin
  <2>4. Len(clusters') \in Nat
    <3>1. PICK b : /\ Divides(InOrder(captures'), Len(InOrder(captures')), b)
                   /\ clusters' = Sessions(InOrder(captures'), b)
      BY <2>3, ClustersAre
    <3>2. Len(b) \in Nat
      BY <3>1 DEF Divides
    <3>3. clusters' = [k \in 1..Len(b) |-> Stretch(InOrder(captures'), b[k][1], b[k][2])]
      BY <3>1 DEF Sessions
    <3> DEFINE S(k) == Stretch(InOrder(captures'), b[k][1], b[k][2])
               T == {S(k) : k \in 1..Len(b)}
    <3>4. clusters' \in [1..Len(b) -> T]
      BY <3>3
    <3> HIDE DEF T
    <3> QED BY <3>2, <3>4, Listed
  <2>5. 0 <= Len(clusters') /\ 0 <= Ceiling /\ run' \in 0..MaxRuns
    BY <2>2, <2>4, PricesAssumption
  <2> QED BY <2>1, <2>3, <2>5 DEF SpendInv
<1>2. CASE Summarise
  <2>1. Estimate \in Nat /\ Len(clusters) \in Nat
    BY <1>2, EstimateIs DEF Summarise
  <2>2. /\ spent' \in Nat /\ spent' <= Ceiling
        /\ summaries' \in Nat /\ summaries' <= Len(clusters)
    BY <1>2, <2>1 DEF Summarise, SpendInv
  <2> QED BY <1>2, <2>2 DEF Summarise, SpendInv
<1>3. CASE Return
  BY <1>3 DEF Return, SpendInv
<1>4. CASE Compose
  <2>1. spent \in Nat /\ spent <= Ceiling /\ SynthesisPrice \in Nat /\ Ceiling \in Nat
    BY <1>4, PricesAssumption DEF Compose, SpendInv
  <2>2. spent' \in Nat /\ spent' - SynthesisPrice <= Ceiling
    BY <1>4, <2>1 DEF Compose
  <2> QED BY <1>4, <2>2 DEF Compose, SpendInv
<1>5. CASE Answered
  BY <1>5 DEF Answered, SpendInv
<1>6. CASE Parse
  BY <1>6 DEF Parse, SpendInv
<1>7. ASSUME NEW i, NEW v, Dispose(i, v) PROVE SpendInv'
  BY <1>7 DEF Dispose, local, SpendInv
<1>8. CASE UNCHANGED vars
  BY <1>8 DEF vars, SpendInv
<1> QED BY <1>1, <1>2, <1>3, <1>4, <1>5, <1>6, <1>7, <1>8
    DEF Next, SummaryFails, SynthesisFails, ParseFails, Deliver, TiersUnreadable

\* No run spends more on summaries than the ceiling, whatever the days, prices
\* and limits (summarize_clusters' running total).
THEOREM CeilingCorrect == Spec => []WithinCeiling
<1>1. SpendInv => WithinCeiling
  BY DEF SpendInv, WithinCeiling
<1> QED BY <1>1, SpendInitially, SpendInductive, PTL DEF Spec

\* Whatever captures a day has, its clusters are whole sessions of it
\* (cluster_captures).
THEOREM SessionsCorrect == Spec => []SessionsAreWhole
<1>1. SpendInv => SessionsAreWhole
  <2>1. ASSUME SpendInv, stage = "summarise" PROVE SessionsAreWhole
    BY <2>1, WholeSessions DEF SpendInv
  <2>2. stage # "summarise" => SessionsAreWhole
    BY DEF SessionsAreWhole
  <2> QED BY <2>1, <2>2
<1> QED BY <1>1, SpendInitially, SpendInductive, PTL DEF Spec

-----------------------------------------------------------------------------
(* Ranking: the order *)

LEMMA MinIs ==
  ASSUME NEW T \in SUBSET Nat, T # {}
  PROVE  Min(T) \in T /\ \A n \in T : Min(T) <= n
<1>1. PICK n \in T : \A m \in T : n <= m
  BY Least
<1> QED BY <1>1 DEF Min

\* What a recommendation is.
Rows ==
  {r \in [valid : BOOLEAN, name : SUBSET STRING, further : SUBSET STRING, tier : STRING,
          frequency : Int, minutes : Int, complexity : STRING, confidence : Int, cites : Seq(Int)] :
     IsFiniteSet(r.name) /\ IsFiniteSet(r.further)}

LEMMA ScoreIs ==
  ASSUME NEW r \in Rows
  PROVE  Score(r) \in Int
<1>1. r.frequency \in Int /\ r.minutes \in Int /\ r.confidence \in Int
  BY DEF Rows
<1> DEFINE found == {i \in DOMAIN Tiers : Tiers[i].id = r.tier}
           first == Tiers[Min(found)]
<1>2. ASSUME found # {}
      PROVE  first.weight \in Int /\ first.multiplier \in Int
  <2>1. found \in SUBSET Nat
    BY TiersAssumption
  <2>2. Min(found) \in found
    BY <1>2, <2>1, MinIs
  <2>3. Min(found) \in DOMAIN Tiers
    BY <2>2
  <2>4. \A i \in DOMAIN Tiers : Tiers[i].weight \in Int /\ Tiers[i].multiplier \in Int
    <3> DEFINE T == [id : STRING, weight : Int, scoring : STRING, multiplier : Int, enabled : BOOLEAN]
    <3>1. Tiers \in Seq(T)
      BY TiersAssumption
    <3>2. \A t \in T : t.weight \in Int /\ t.multiplier \in Int
      OBVIOUS
    <3> HIDE DEF T
    <3> QED BY <3>1, <3>2
  <2> HIDE DEF found
  <2> QED BY <2>3, <2>4
<1>3. Ease(r.complexity) \in Int
  BY DEF Ease
<1> HIDE DEF found, first
<1>4. \A v, w, x, y \in Int : v * w * x * y \in Int /\ v * w * x \in Int
  OBVIOUS
<1>5. /\ found # {} => r.frequency * r.minutes * Ease(r.complexity) * first.weight \in Int
      /\ found # {} => r.confidence * first.weight * first.multiplier \in Int
  <2> DEFINE e == Ease(r.complexity)
             w == first.weight
             m == first.multiplier
  <2>1. e \in Int /\ (found # {} => w \in Int /\ m \in Int)
    BY <1>2, <1>3
  <2> HIDE DEF e, w, m
  <2>2. /\ found # {} => r.frequency * r.minutes * e * w \in Int
        /\ found # {} => r.confidence * w * m \in Int
    BY <1>1, <1>4, <2>1
  <2> QED BY <2>2 DEF e, w, m
<1>6. Score(r) = IF found = {} \/ ~first.enabled THEN 0
                 ELSE IF first.scoring = "quantitative"
                 THEN r.frequency * r.minutes * Ease(r.complexity) * first.weight
                 ELSE r.confidence * first.weight * first.multiplier
  BY DEF Score, found, first
<1> DEFINE quantity == r.frequency * r.minutes * Ease(r.complexity) * first.weight
           quality == r.confidence * first.weight * first.multiplier
<1> HIDE DEF quantity, quality
<1>7. Score(r) = IF found = {} \/ ~first.enabled THEN 0
                 ELSE IF first.scoring = "quantitative" THEN quantity ELSE quality
  BY <1>6 DEF quantity, quality
<1>8. found # {} => quantity \in Int /\ quality \in Int
  BY <1>5 DEF quantity, quality
<1> QED BY <1>7, <1>8

\* What comes first in rank_recommendations orders any positions: by what is
\* suppressed, by score and by position.
LEMMA FirstOrders ==
  ASSUME NEW at \in SUBSET Int, NEW low, NEW worth, \A i \in at : worth[i] \in Int,
         NEW R, \A i, j \in at : <<i, j>> \in R <=>
           \/ (~low[i] /\ low[j]) \/ ((low[i] <=> low[j]) /\ worth[i] > worth[j])
           \/ (i < j /\ ~(\/ (~low[j] /\ low[i])
                          \/ ((low[j] <=> low[i]) /\ worth[j] > worth[i])))
  PROVE  Orders(R, at)
<1>1. ASSUME NEW i \in at PROVE <<i, i>> \notin R
  <2>1. i \in Int /\ worth[i] \in Int
    OBVIOUS
  <2> QED BY <2>1
<1>2. ASSUME NEW i \in at, NEW j \in at, NEW k \in at, <<i, j>> \in R, <<j, k>> \in R
      PROVE  <<i, k>> \in R
  <2>1. /\ i \in Int /\ j \in Int /\ k \in Int
        /\ worth[i] \in Int /\ worth[j] \in Int /\ worth[k] \in Int
    OBVIOUS
  <2> QED BY <1>2, <2>1
<1>3. ASSUME NEW i \in at, NEW j \in at, i # j PROVE <<i, j>> \in R \/ <<j, i>> \in R
  <2>1. i \in Int /\ j \in Int /\ worth[i] \in Int /\ worth[j] \in Int
    OBVIOUS
  <2> QED BY <1>3, <2>1
<1> QED BY <1>1, <1>2, <1>3 DEF Orders

\* Ranking moves rows, and none stands before one that precedes it.
LEMMA RankIs ==
  ASSUME NEW list \in Seq(Rows)
  PROVE  /\ Rank(list) \in Seq(Rows) /\ Len(Rank(list)) = Len(list)
         /\ \A k \in 1..Len(list) : \E i \in 1..Len(list) : Rank(list)[k] = list[i]
         /\ \A j, k \in 1..Len(list) : j < k => ~Precedes(Rank(list)[k], Rank(list)[j])
<1> DEFINE at == DOMAIN list
           n == Len(list)
           low == [i \in at |-> Suppressed(list[i])]
           worth == [i \in at |-> Score(list[i])]
           First(i, j) == \/ Precedes(list[i], list[j])
                          \/ i < j /\ ~Precedes(list[j], list[i])
           R == {p \in at \X at : First(p[1], p[2])}
           order == Arranged(at, R)
<1>1. at = 1..n /\ n \in Nat /\ IsFiniteSet(at) /\ Cardinality(at) = n /\ at \in SUBSET Int
  <2>1. at = 1..n /\ n \in Nat
    OBVIOUS
  <2>2. IsFiniteSet(1..n) /\ Cardinality(1..n) = n
    <3> HIDE DEF at, n
    <3>1. 1 \in Int /\ n \in Int
      BY <2>1
    <3>2. IsFiniteSet(1..n) /\ Cardinality(1..n) = IF 1 > n THEN 0 ELSE n - 1 + 1
      BY ONLY <3>1, FS_Interval
    <3>3. (IF 1 > n THEN 0 ELSE n - 1 + 1) = n
      BY <2>1
    <3> QED BY <3>2, <3>3
  <2> QED BY <2>1, <2>2
<1>2. \A i \in at : worth[i] \in Int
  BY ScoreIs
<1>3. \A i, j \in at : Precedes(list[i], list[j]) <=>
        \/ (~low[i] /\ low[j]) \/ ((low[i] <=> low[j]) /\ worth[i] > worth[j])
  <2> SUFFICES ASSUME NEW i \in at, NEW j \in at
               PROVE  Precedes(list[i], list[j]) <=>
                        \/ (~low[i] /\ low[j]) \/ ((low[i] <=> low[j]) /\ worth[i] > worth[j])
    OBVIOUS
  <2> DEFINE x == list[i]
             y == list[j]
  <2>1. Suppressed(x) \in BOOLEAN /\ Suppressed(y) \in BOOLEAN
    BY DEF Suppressed
  <2>2. low[i] = Suppressed(x) /\ low[j] = Suppressed(y) /\ worth[i] = Score(x) /\ worth[j] = Score(y)
    OBVIOUS
  <2> HIDE DEF x, y, low, worth
  <2>3. Precedes(x, y) <=>
          \/ (~Suppressed(x) /\ Suppressed(y))
          \/ ((Suppressed(x) <=> Suppressed(y)) /\ Score(x) > Score(y))
    BY <2>1 DEF Precedes
  <2>4. Precedes(x, y) <=>
          \/ (~low[i] /\ low[j]) \/ ((low[i] <=> low[j]) /\ worth[i] > worth[j])
    BY <2>2, <2>3
  <2> QED BY <2>4 DEF x, y
<1>4. \A i, j \in at : <<i, j>> \in R <=> First(i, j)
  OBVIOUS
<1> HIDE DEF low, worth, R
<1>5. Orders(R, at)
  <2>1. \A i, j \in at : <<i, j>> \in R <=>
           \/ (~low[i] /\ low[j]) \/ ((low[i] <=> low[j]) /\ worth[i] > worth[j])
           \/ (i < j /\ ~(\/ (~low[j] /\ low[i])
                          \/ ((low[j] <=> low[i]) /\ worth[j] > worth[i])))
    BY <1>3, <1>4
  <2> HIDE DEF at
  <2> QED BY <1>1, <1>2, <2>1, FirstOrders
<1>6. /\ order \in [1..n -> at]
      /\ \A j, k \in 1..n : j < k <=> <<order[j], order[k]>> \in R
  <2> HIDE DEF at, n
  <2> QED BY <1>1, <1>5, ArrangedOrder
<1>7. Rank(list) = [k \in 1..n |-> list[order[k]]]
  BY <1>1 DEF Rank, R
<1> HIDE DEF order
<1>8. \A k \in 1..n : order[k] \in 1..n /\ list[order[k]] \in Rows /\ Rank(list)[k] = list[order[k]]
  BY <1>1, <1>6, <1>7
<1>9. Rank(list) \in Seq(Rows) /\ Len(Rank(list)) = n
  <2>1. Rank(list) \in [1..n -> Rows]
    BY <1>7, <1>8
  <2> QED BY <1>1, <2>1, Listed
<1>10. ASSUME NEW j \in 1..n, NEW k \in 1..n, j < k
       PROVE  ~Precedes(Rank(list)[k], Rank(list)[j])
  <2>1. order[j] \in at /\ order[k] \in at /\ <<order[j], order[k]>> \in R
    BY <1>6, <1>10
  <2>2. First(order[j], order[k])
    BY <1>4, <2>1
  <2>3. ~(Precedes(list[order[j]], list[order[k]]) /\ Precedes(list[order[k]], list[order[j]]))
    BY <1>2, <1>3, <2>1
  <2> QED BY <1>8, <2>2, <2>3
<1> QED BY <1>8, <1>9, <1>10

-----------------------------------------------------------------------------
(* Ranking: the email *)

\* Of the positions up to v each is its own place.
LEMMA FirstPlaces ==
  ASSUME NEW v \in Nat
  PROVE  Cardinality(1..v) = v /\ \A k \in 1..v : Places(1..v)[k] = k
<1>1. IsFiniteSet(1..v) /\ Cardinality(1..v) = v
  BY FS_Interval
<1>2. Orders(Rising(1..v), 1..v) /\ \A i, j \in 1..v : <<i, j>> \in Rising(1..v) <=> i < j
  BY RisingOrders
<1>3. ASSUME NEW k \in 1..v PROVE Places(1..v)[k] = k
  <2> DEFINE p == Places(1..v)[k]
             B == {y \in 1..v : <<y, p>> \in Rising(1..v)}
  <2>1. p \in 1..v /\ Cardinality(B) = k - 1
    <3> DEFINE S == 1..v
               R == Rising(S)
    <3>1. IsFiniteSet(S) /\ Orders(R, S) /\ k \in 1..Cardinality(S)
      BY <1>1, <1>2
    <3> HIDE DEF S, R
    <3>2. /\ Arranged(S, R) \in [1..Cardinality(S) -> S]
          /\ Cardinality({y \in S : <<y, Arranged(S, R)[k]>> \in R}) = k - 1
      BY <3>1, ArrangedOrder
    <3>3. Arranged(S, R)[k] \in S
      BY <3>1, <3>2
    <3> QED BY <3>2, <3>3 DEF S, R, Places
  <2> HIDE DEF p
  <2>2. B = {y \in 1..v : y < p}
    BY <1>2, <2>1
  <2>3. {y \in 1..v : y < p} = 1..p - 1
    BY <2>1
  <2>4. p - 1 \in Nat /\ Cardinality(1..p - 1) = p - 1
    <3>1. 1 \in Int /\ p - 1 \in Int /\ p - 1 \in Nat
      BY <2>1
    <3> QED BY <3>1, FS_Interval
  <2>5. p - 1 = k - 1
    BY <2>1, <2>2, <2>3, <2>4
  <2>6. p = k
    BY <2>1, <2>5
  <2> QED BY <2>6 DEF p
<1> QED BY <1>1, <1>3

\* What is not suppressed is in front of what is, and the email shows just that.
LEMMA RenderIs ==
  ASSUME NEW list \in Seq(Rows),
         \A j, k \in 1..Len(list) : j < k => ~Precedes(list[k], list[j])
  PROVE  \E v \in 0..Len(list) :
           /\ \A i \in 1..Len(list) : Suppressed(list[i]) <=> i > v
           /\ Render(list).top = SubSeq(list, 1, Min({TopCount, v}))
           /\ Render(list).rest = SubSeq(list, Min({TopCount, v}) + 1, v)
<1> DEFINE n == Len(list)
           at == {i \in DOMAIN list : ~Suppressed(list[i])}
<1>1. n \in Nat /\ DOMAIN list = 1..n /\ at \in SUBSET (1..n)
  OBVIOUS
\* The first suppressed position, or the one behind the end.
<1>2. PICK w \in {i \in 1..n + 1 : i = n + 1 \/ Suppressed(list[i])} :
        \A i \in {i \in 1..n + 1 : i = n + 1 \/ Suppressed(list[i])} : w <= i
  <2>1. n + 1 \in {i \in 1..n + 1 : i = n + 1 \/ Suppressed(list[i])}
    BY <1>1
  <2>2. {i \in 1..n + 1 : i = n + 1 \/ Suppressed(list[i])} \in SUBSET Nat
    BY <1>1
  <2> HIDE DEF n
  <2> QED BY <2>1, <2>2, Least
<1> DEFINE v == w - 1
<1>3. v \in Nat /\ v <= n /\ v \in 0..n
  BY <1>1, <1>2
<1>4. ASSUME NEW i \in 1..n PROVE Suppressed(list[i]) <=> i > v
  <2>1. Suppressed(list[i]) => i > v
    BY <1>1, <1>2
  <2>2. ASSUME i > v PROVE Suppressed(list[i])
    <3>1. w <= i /\ w \in 1..n
      BY <1>1, <1>2, <2>2
    <3>2. Suppressed(list[w])
      BY <1>1, <1>2, <3>1
    <3>3. CASE w = i
      BY <3>2, <3>3
    <3>4. CASE w # i
      <4>1. w < i
        BY <1>1, <3>1, <3>4
      <4>2. ~Precedes(list[i], list[w])
        BY <3>1, <4>1
      <4> QED BY <3>2, <4>2 DEF Precedes
    <3> QED BY <3>3, <3>4
  <2> QED BY <2>1, <2>2
<1> HIDE DEF v
<1>5. at = 1..v
  <2>1. \A i \in 1..n : i \in 1..v <=> ~(i > v)
    BY <1>1, <1>3
  <2>2. 1..v \subseteq 1..n
    BY <1>1, <1>3
  <2> QED BY <1>1, <1>4, <2>1, <2>2
<1> DEFINE visible == Picked(list, at)
<1>6. visible = [k \in 1..v |-> list[k]]
  <2>1. visible = [k \in 1..Cardinality(at) |-> list[Places(at)[k]]]
    BY DEF Picked, Places
  <2> HIDE DEF at
  <2>2. Cardinality(at) = v /\ \A k \in 1..v : Places(at)[k] = k
    BY <1>3, <1>5, FirstPlaces
  <2> QED BY <2>1, <2>2
<1>7. visible \in Seq(Rows) /\ Len(visible) = v
  <2>1. \A k \in 1..v : list[k] \in Rows
    BY <1>1, <1>3
  <2>2. visible \in [1..v -> Rows]
    BY <1>6, <2>1
  <2> HIDE DEF visible
  <2> QED BY <1>3, <2>2, Listed
<1> DEFINE top == Min({TopCount, v})
<1>8. top \in Nat /\ top <= v /\ top <= TopCount
  <2>1. {TopCount, v} \in SUBSET Nat /\ {TopCount, v} # {}
    BY <1>3, TiersAssumption
  <2>2. Min({TopCount, v}) \in {TopCount, v} /\ \A x \in {TopCount, v} : Min({TopCount, v}) <= x
    BY <2>1, MinIs
  <2> QED BY <2>1, <2>2
<1>9. /\ Render(list).top = SubSeq(visible, 1, top)
      /\ Render(list).rest = SubSeq(visible, top + 1, v)
  BY <1>7 DEF Render
<1> HIDE DEF top, visible
<1>10. SubSeq(visible, 1, top) = SubSeq(list, 1, top)
  <2>1. \A k \in 1..top : visible[k] = list[k]
    BY <1>3, <1>6, <1>8
  <2> QED BY <1>1, <1>3, <1>7, <1>8, <2>1
<1>11. SubSeq(visible, top + 1, v) = SubSeq(list, top + 1, v)
  BY <1>1, <1>3, <1>6, <1>7, <1>8
<1> QED BY <1>3, <1>4, <1>9, <1>10, <1>11 DEF top

\* What the ranking and the email promise together.
LEMMA OnTop ==
  ASSUME saved.list \in Seq(Rows),
         \A j, k \in 1..Len(saved.list) : j < k => ~Precedes(saved.list[k], saved.list[j]),
         email = Render(saved.list)
  PROVE  BestOnTop
<1> DEFINE list == saved.list
           n == Len(list)
<1>1. n \in Nat /\ DOMAIN list = 1..n /\ list \in Seq(Rows)
  OBVIOUS
<1>2. \A j, k \in 1..n : j < k => ~Precedes(list[k], list[j])
  OBVIOUS
<1>3. PICK v \in 0..n :
        /\ \A i \in 1..n : Suppressed(list[i]) <=> i > v
        /\ email.top = SubSeq(list, 1, Min({TopCount, v}))
        /\ email.rest = SubSeq(list, Min({TopCount, v}) + 1, v)
  BY RenderIs
<1> DEFINE top == Min({TopCount, v})
<1>4. top \in Nat /\ top <= v /\ top <= TopCount /\ (top < v => top = TopCount)
  <2>1. {TopCount, v} \in SUBSET Nat /\ {TopCount, v} # {} /\ v \in Int /\ TopCount \in Int
    BY TiersAssumption
  <2>2. Min({TopCount, v}) \in {TopCount, v} /\ \A x \in {TopCount, v} : Min({TopCount, v}) <= x
    BY <2>1, MinIs
  <2> QED BY <2>1, <2>2
<1>5. email.top = SubSeq(list, 1, top) /\ email.rest = SubSeq(list, top + 1, v)
  BY <1>3
<1> HIDE DEF top, list, n
<1>6. v \in Nat /\ v <= n
  BY <1>1, <1>3
<1>7. /\ email.top \in Seq(Rows) /\ Len(email.top) = top
      /\ \A i \in 1..top : email.top[i] = list[i]
  <2>1. \A i \in 1..top : list[i] \in Rows
    BY <1>1, <1>4, <1>6 DEF n
  <2>2. email.top = [i \in 1..top |-> list[i]]
    BY <1>1, <1>4, <1>5, <1>6 DEF n
  <2>3. email.top \in [1..top -> Rows]
    BY <2>1, <2>2
  <2> QED BY <1>4, <2>2, <2>3, Listed
<1>8. /\ email.rest \in Seq(Rows) /\ Len(email.rest) = v - top
      /\ \A i \in 1..v - top : email.rest[i] = list[top + i]
  <2>1. \A i \in 1..v - top : list[top + i] \in Rows
    BY <1>1, <1>4, <1>6 DEF n
  <2>2. email.rest = [i \in 1..v - top |-> list[top + i]]
    BY <1>1, <1>4, <1>5, <1>6 DEF n
  <2>3. email.rest \in [1..v - top -> Rows] /\ v - top \in Nat
    <3>1. v - top \in Nat
      BY <1>4, <1>6
    <3>2. email.rest \in [1..v - top -> Rows]
      BY <2>1, <2>2
    <3> QED BY <3>1, <3>2
  <2> HIDE DEF top
  <2>4. email.rest \in Seq(Rows) /\ Len(email.rest) = v - top
    BY <2>3, Listed
  <2> QED BY <2>2, <2>4
<1> DEFINE shown == email.top \o email.rest
<1>9. shown \in Seq(Rows) /\ Len(shown) = v /\ \A i \in 1..v : shown[i] = list[i]
  <2>1. /\ shown \in Seq(Rows) /\ Len(shown) = top + (v - top)
        /\ \A i \in 1..top : shown[i] = email.top[i]
        /\ \A i \in 1..v - top : shown[top + i] = email.rest[i]
    <3>1. email.top \in Seq(Rows) /\ email.rest \in Seq(Rows)
      BY <1>7, <1>8
    <3>2. /\ shown \in Seq(Rows) /\ Len(shown) = Len(email.top) + Len(email.rest)
          /\ \A i \in 1..Len(email.top) : shown[i] = email.top[i]
          /\ \A i \in 1..Len(email.rest) : shown[Len(email.top) + i] = email.rest[i]
      <4> DEFINE s == email.top
                 u == email.rest
      <4>1. s \in Seq(Rows) /\ u \in Seq(Rows) /\ shown = s \o u
        BY <3>1
      <4> HIDE DEF s, u, shown
      <4>2. /\ shown \in Seq(Rows) /\ Len(shown) = Len(s) + Len(u)
            /\ \A i \in 1..Len(s) : shown[i] = s[i]
            /\ \A i \in 1..Len(u) : shown[Len(s) + i] = u[i]
        BY <4>1, Concatenated
      <4> QED BY <4>2 DEF s, u
    <3>3. Len(email.top) = top /\ Len(email.rest) = v - top
      BY <1>7, <1>8
    <3> HIDE DEF shown
    <3> QED BY <3>2, <3>3
  <2>2. top + (v - top) = v
    BY <1>4, <1>6
  <2> HIDE DEF shown
  <2>3. ASSUME NEW i \in 1..v PROVE shown[i] = list[i]
    <3>1. CASE i <= top
      <4>1. i \in 1..top
        BY <3>1
      <4> QED BY <1>7, <2>1, <4>1
    <3>2. CASE ~(i <= top)
      <4>1. i - top \in 1..v - top /\ top + (i - top) = i
        BY <1>4, <1>6, <3>2
      <4> QED BY <1>8, <2>1, <4>1
    <3> QED BY <3>1, <3>2
  <2> QED BY <2>1, <2>2, <2>3
<1> HIDE DEF shown
<1>10. Len(email.top) <= TopCount /\ (email.rest # <<>> => Len(email.top) = TopCount)
  BY <1>4, <1>6, <1>7, <1>8
<1>11. IsPrefix(shown, list)
  <2>1. Len(shown) <= Len(list)
    BY <1>6, <1>9 DEF n
  <2>2. SubSeq(shown, 1, v) = [i \in 1..v |-> shown[i]] /\ SubSeq(list, 1, v) = [i \in 1..v |-> list[i]]
    BY <1>1, <1>6, <1>9 DEF n
  <2>3. SubSeq(shown, 1, v) = SubSeq(list, 1, v)
    BY <1>9, <2>2
  <2> QED BY <1>9, <2>1, <2>3 DEF IsPrefix
<1>12. \A i \in DOMAIN list : list[i].confidence < Threshold <=> i > Len(shown)
  BY <1>1, <1>3, <1>9 DEF Suppressed, list, n
<1>13. ASSUME NEW r \in ToSet(email.top), NEW q \in ToSet(email.rest) PROVE Score(r) >= Score(q)
  <2>1. PICK j \in 1..top : r = email.top[j]
    BY <1>7 DEF ToSet
  <2>2. PICK k \in 1..v - top : q = email.rest[k]
    BY <1>8 DEF ToSet
  <2>3. /\ j \in 1..n /\ top + k \in 1..n /\ j < top + k /\ ~(j > v) /\ ~(top + k > v)
        /\ n \in Nat
    BY <1>1, <1>4, <1>6, <2>1, <2>2
  <2>4. r = list[j] /\ q = list[top + k]
    BY <1>7, <1>8, <2>1, <2>2
  <2>5. ~Suppressed(r) /\ ~Suppressed(q)
    BY <1>3, <2>3, <2>4 DEF list, n
  <2>6. ~Precedes(q, r)
    BY <1>2, <2>3, <2>4
  <2>7. Suppressed(r) = Suppressed(q)
    BY <2>5 DEF Suppressed
  <2>8. r \in Rows /\ q \in Rows
    BY <1>1, <2>3, <2>4 DEF n
  <2>9. Score(r) \in Int /\ Score(q) \in Int
    BY <2>8, ScoreIs
  <2> QED BY <2>6, <2>7, <2>9 DEF Precedes
<1> QED BY <1>10, <1>11, <1>12, <1>13 DEF BestOnTop, shown, list

-----------------------------------------------------------------------------
(* Answers: the text of a list *)

Tokens == Entries \union Marks

\* Where the q-th token of the k-th entry is, the comma or bracket before the
\* entry its 0-th; and that token.
Pos(k, q) == 12 * k - 11 + q
Glyph(list, k, q) ==
  IF q = 0 THEN IF k = 1 THEN "lbracket" ELSE "comma" ELSE Text(list[k])[q]

LEMMA Twelves ==
  ASSUME NEW p \in Nat \ {0}
  PROVE  \E k \in Nat \ {0}, q \in 0..11 : p = Pos(k, q)
<1> DEFINE S == {n \in Nat : \E k \in Nat \ {0}, q \in 0..11 : n + 1 = Pos(k, q)}
<1>1. 0 \in S
  <2>1. 1 \in Nat \ {0} /\ 0 \in 0..11 /\ 0 + 1 = Pos(1, 0)
    BY DEF Pos
  <2> QED BY <2>1
<1>2. ASSUME NEW n \in S PROVE n + 1 \in S
  <2>1. PICK k \in Nat \ {0}, q \in 0..11 : n + 1 = Pos(k, q)
    OBVIOUS
  <2>2. CASE q = 11
    <3>1. k + 1 \in Nat \ {0} /\ 0 \in 0..11 /\ n + 1 + 1 = Pos(k + 1, 0)
      BY <2>1, <2>2 DEF Pos
    <3> QED BY <3>1
  <2>3. CASE q # 11
    <3>1. q + 1 \in 0..11 /\ n + 1 + 1 = Pos(k, q + 1)
      BY <2>1, <2>3 DEF Pos
    <3> QED BY <3>1
  <2> QED BY <2>2, <2>3
<1>3. S = Nat
  <2>1. S \in SUBSET Nat
    OBVIOUS
  <2> HIDE DEF S
  <2> QED BY <1>1, <1>2, <2>1, Induct
<1>4. p - 1 \in Nat /\ p - 1 + 1 = p
  OBVIOUS
<1>5. p - 1 \in S
  <2> HIDE DEF S
  <2> QED BY <1>3, <1>4
<1> QED BY <1>4, <1>5

LEMMA TextIs ==
  ASSUME NEW e
  PROVE  /\ Len(Text(e)) = 11 /\ DOMAIN Text(e) = 1..11
         /\ Text(e)[1] = "lbrace" /\ Text(e)[2] = "quote" /\ Text(e)[3] = "backslash"
         /\ Text(e)[4] = "quote" /\ Text(e)[5] = "rbrace" /\ Text(e)[6] = "quote"
         /\ Text(e)[7] = "lbracket" /\ Text(e)[8] = "datum" /\ Text(e)[9] = "rbracket"
         /\ Text(e)[10] = e /\ Text(e)[11] = "rbrace"
         /\ e \in Entries => Text(e) \in Seq(Tokens)
<1>1. Len(Text(e)) = 11 /\ DOMAIN Text(e) = 1..11 /\ Text(e) = [q \in 1..11 |-> Text(e)[q]]
  BY DEF Text
<1>2. /\ Text(e)[1] = "lbrace" /\ Text(e)[2] = "quote" /\ Text(e)[3] = "backslash"
      /\ Text(e)[4] = "quote" /\ Text(e)[5] = "rbrace" /\ Text(e)[6] = "quote"
      /\ Text(e)[7] = "lbracket" /\ Text(e)[8] = "datum" /\ Text(e)[9] = "rbracket"
      /\ Text(e)[10] = e /\ Text(e)[11] = "rbrace"
  BY DEF Text
<1>3. ASSUME e \in Entries, NEW q \in 1..11 PROVE Text(e)[q] \in Tokens
  <2>1. q = 1 \/ q = 2 \/ q = 3 \/ q = 4 \/ q = 5 \/ q = 6 \/ q = 7 \/ q = 8 \/ q = 9 \/ q = 10 \/ q = 11
    OBVIOUS
  <2> QED BY <1>2, <1>3, <2>1 DEF Tokens, Marks
<1>4. ASSUME e \in Entries PROVE Text(e) \in Seq(Tokens)
  <2>1. Text(e) \in [1..11 -> Tokens] /\ 11 \in Nat
    BY <1>1, <1>3, <1>4
  <2> QED BY <2>1, Listed
<1> QED BY <1>1, <1>2, <1>4

\* The text of the first n entries, before the last bracket.
Spells(u, list, n) ==
  /\ u \in Seq(Tokens) /\ Len(u) = (IF n = 0 THEN 1 ELSE 12 * n)
  /\ u[1] = "lbracket"
  /\ \A k \in 1..n, q \in 0..11 : u[Pos(k, q)] = Glyph(list, k, q)

LEMMA SpellsOn ==
  ASSUME NEW list \in Seq(Entries), NEW n \in 1..Len(list), NEW u, Spells(u, list, n - 1)
  PROVE  Spells(u \o (IF n = 1 THEN <<>> ELSE <<"comma">>) \o Text(list[n]), list, n)
<1> DEFINE comma == IF n = 1 THEN <<>> ELSE <<"comma">>
           v == u \o comma
           x == Text(list[n])
           w == v \o x
<1>1. /\ n \in Nat /\ n # 0 /\ n - 1 \in Nat /\ list[n] \in Entries
      /\ Len(u) = (IF n = 1 THEN 1 ELSE 12 * n - 12) /\ u \in Seq(Tokens) /\ u[1] = "lbracket"
  BY DEF Spells
<1>2. x \in Seq(Tokens) /\ Len(x) = 11
  BY <1>1, TextIs
<1>3. comma \in Seq(Tokens) /\ Len(comma) = (IF n = 1 THEN 0 ELSE 1) /\ (n # 1 => comma[1] = "comma")
  <2>1. "comma" \in Tokens
    BY DEF Tokens, Marks
  <2>2. CASE n = 1
    BY <2>2
  <2>3. CASE n # 1
    <3>1. Len(<<"comma">>) = 1 /\ <<"comma">>[1] = "comma"
      OBVIOUS
    <3>2. <<"comma">> \in Seq(Tokens)
      <4> DEFINE t == "comma"
      <4>1. t \in Tokens
        BY <2>1
      <4> HIDE DEF t
      <4>2. <<t>> \in Seq(Tokens)
        BY <4>1
      <4> QED BY <4>2 DEF t
    <3> QED BY <2>3, <3>1, <3>2
  <2> QED BY <2>2, <2>3
<1>4. /\ v \in Seq(Tokens) /\ Len(v) = 12 * n - 11
      /\ \A i \in 1..Len(u) : v[i] = u[i]
      /\ n # 1 => v[12 * n - 11] = "comma"
  <2>1. /\ v \in Seq(Tokens) /\ Len(v) = Len(u) + Len(comma)
        /\ \A i \in 1..Len(u) : v[i] = u[i]
        /\ \A i \in 1..Len(comma) : v[Len(u) + i] = comma[i]
    <3> DEFINE c == comma
    <3>1. c \in Seq(Tokens) /\ u \in Seq(Tokens) /\ v = u \o c
      BY <1>1, <1>3
    <3> HIDE DEF comma, c, v
    <3>2. /\ v \in Seq(Tokens) /\ Len(v) = Len(u) + Len(c)
          /\ \A i \in 1..Len(u) : v[i] = u[i]
          /\ \A i \in 1..Len(c) : v[Len(u) + i] = c[i]
      BY <3>1, Concatenated
    <3> QED BY <3>2 DEF c
  <2> HIDE DEF comma, v
  <2>2. Len(v) = 12 * n - 11
    <3>1. CASE n = 1
      <4>1. Len(u) = 1 /\ Len(comma) = 0
        BY <1>1, <1>3, <3>1
      <4> QED BY <2>1, <3>1, <4>1
    <3>2. CASE n # 1
      <4>1. Len(u) = 12 * n - 12 /\ Len(comma) = 1
        BY <1>1, <1>3, <3>2
      <4> QED BY <1>1, <2>1, <4>1
    <3> QED BY <3>1, <3>2
  <2>3. ASSUME n # 1 PROVE v[12 * n - 11] = "comma"
    <3>1. 1 \in 1..Len(comma) /\ Len(u) + 1 = 12 * n - 11 /\ comma[1] = "comma"
      <4>1. Len(u) = 12 * n - 12 /\ Len(comma) = 1 /\ comma[1] = "comma"
        BY <1>1, <1>3, <2>3
      <4>2. 12 * n - 12 + 1 = 12 * n - 11 /\ 1 \in 1..1
        BY <1>1
      <4>3. 1 \in 1..Len(comma)
        BY <4>1, <4>2
      <4>4. Len(u) + 1 = 12 * n - 11
        BY <4>1, <4>2
      <4> QED BY <4>1, <4>3, <4>4
    <3>2. v[Len(u) + 1] = comma[1]
      BY <2>1, <3>1
    <3> QED BY <3>1, <3>2
  <2> QED BY <2>1, <2>2, <2>3
<1>5. /\ w \in Seq(Tokens) /\ Len(w) = 12 * n
      /\ \A i \in 1..12 * n - 11 : w[i] = v[i]
      /\ \A q \in 1..11 : w[12 * n - 11 + q] = x[q]
  <2>1. v \in Seq(Tokens) /\ x \in Seq(Tokens) /\ w = v \o x
    BY <1>2, <1>4
  <2> HIDE DEF v, x, w
  <2>2. /\ w \in Seq(Tokens) /\ Len(w) = Len(v) + Len(x)
        /\ \A i \in 1..Len(v) : w[i] = v[i]
        /\ \A i \in 1..Len(x) : w[Len(v) + i] = x[i]
    BY <2>1, Concatenated
  <2>3. 12 * n - 11 + 11 = 12 * n
    BY <1>1
  <2>4. Len(v) = 12 * n - 11 /\ Len(x) = 11
    BY <1>2, <1>4 DEF x
  <2> QED BY <2>2, <2>3, <2>4
<1> HIDE DEF comma, v, w
<1>6. 1 \in 1..Len(u) /\ 1 \in 1..12 * n - 11 /\ \A i \in 1..Len(u) : i \in 1..12 * n - 11
  BY <1>1
<1>7. \A i \in 1..Len(u) : w[i] = u[i]
  BY <1>4, <1>5, <1>6
<1>8. ASSUME NEW k \in 1..n, NEW q \in 0..11 PROVE w[Pos(k, q)] = Glyph(list, k, q)
  <2>1. CASE k = n /\ q # 0
    <3>1. q \in 1..11 /\ Pos(k, q) = 12 * n - 11 + q
      BY <2>1 DEF Pos
    <3> QED BY <1>5, <2>1, <3>1 DEF Glyph
  <2>2. CASE k = n /\ q = 0 /\ n = 1
    <3>1. Pos(k, q) = 1
      BY <2>2 DEF Pos
    <3> QED BY <1>1, <1>6, <1>7, <2>2, <3>1 DEF Glyph
  <2>3. CASE k = n /\ q = 0 /\ n # 1
    <3>1. Pos(k, q) = 12 * n - 11 /\ 12 * n - 11 \in 1..12 * n - 11
      BY <1>1, <2>3 DEF Pos
    <3> QED BY <1>4, <1>5, <2>3, <3>1 DEF Glyph
  <2>4. CASE k # n
    <3>1. k \in 1..n - 1 /\ n # 1
      BY <1>1, <2>4
    <3>2. Pos(k, q) \in 1..Len(u)
      BY <1>1, <3>1 DEF Pos
    <3>3. u[Pos(k, q)] = Glyph(list, k, q)
      BY <3>1 DEF Spells
    <3> QED BY <1>7, <3>2, <3>3
  <2> QED BY <2>1, <2>2, <2>3, <2>4
<1>9. w[1] = "lbracket"
  BY <1>1, <1>6, <1>7
<1>10. Spells(w, list, n)
  BY <1>1, <1>5, <1>8, <1>9 DEF Spells
<1> QED BY <1>10 DEF w, v, comma

\* The text of a list, its length in full.
Length(n) == IF n = 0 THEN 2 ELSE 12 * n + 1

LEMMA ArrayTextIs ==
  ASSUME NEW list \in Seq(Entries)
  PROVE  /\ ArrayText(list) \in Seq(Tokens) /\ Len(ArrayText(list)) = Length(Len(list))
         /\ ArrayText(list)[1] = "lbracket" /\ ArrayText(list)[Length(Len(list))] = "rbracket"
         /\ \A k \in 1..Len(list), q \in 0..11 : ArrayText(list)[Pos(k, q)] = Glyph(list, k, q)
<1> DEFINE N == Len(list)
           On(s, n) == s \o (IF n = 1 THEN <<>> ELSE <<"comma">>) \o Text(list[n])
           Unfolds(f) == f = [n \in 0..N |-> IF n = 0 THEN <<"lbracket">> ELSE On(f[n - 1], n)]
           base == <<"lbracket">>
           step == [p \in Seq(Tokens) \X (1..N) |-> On(p[1], p[2])]
<1>1. N \in Nat /\ \A n \in 1..N : list[n] \in Entries
  OBVIOUS
<1>2. "lbracket" \in Tokens /\ "rbracket" \in Tokens /\ "comma" \in Tokens
  BY DEF Tokens, Marks
<1>3. base \in Seq(Tokens)
  <2> DEFINE t == "lbracket"
  <2>1. t \in Tokens
    BY <1>2
  <2> HIDE DEF t
  <2>2. <<t>> \in Seq(Tokens)
    BY <2>1
  <2> QED BY <2>2 DEF t
<1>4. Spells(<<"lbracket">>, list, 0)
  <2>1. Len(<<"lbracket">>) = 1 /\ <<"lbracket">>[1] = "lbracket"
    OBVIOUS
  <2>2. \A k \in 1..0 : FALSE
    OBVIOUS
  <2> QED BY <1>3, <2>1, <2>2 DEF Spells
<1>5. ASSUME NEW f, Unfolds(f)
      PROVE  /\ f[0] = <<"lbracket">> /\ \A n \in 0..N : Spells(f[n], list, n)
  <2> HIDE DEF On
  <2>1. 0 \in 0..N /\ \A n \in 0..N - 1 : n + 1 \in 0..N /\ n + 1 \in 1..N /\ n + 1 # 0 /\ n + 1 - 1 = n
    BY <1>1
  <2>2. f[0] = <<"lbracket">> /\ \A n \in 0..N - 1 : f[n + 1] = On(f[n], n + 1)
    <3> HIDE DEF N
    <3>1. \A n \in 0..N : f[n] = IF n = 0 THEN <<"lbracket">> ELSE On(f[n - 1], n)
      BY <1>5
    <3>2. f[0] = <<"lbracket">>
      BY <2>1, <3>1
    <3>3. ASSUME NEW n \in 0..N - 1 PROVE f[n + 1] = On(f[n], n + 1)
      <4>1. n + 1 \in 0..N /\ n + 1 # 0 /\ n + 1 - 1 = n
        BY <2>1
      <4> HIDE DEF Unfolds
      <4> QED BY <3>1, <4>1
    <3> QED BY <3>2, <3>3
  <2> HIDE DEF Unfolds
  <2> DEFINE G == {n \in 0..N : Spells(f[n], list, n)}
  <2>3. 0 \in G
    BY <1>4, <2>1, <2>2
  <2>4. ASSUME NEW n \in 0..N - 1, n \in G PROVE n + 1 \in G
    <3>1. n + 1 \in 1..N /\ n + 1 \in 0..N /\ n + 1 - 1 = n
      BY <2>1
    <3>2. Spells(f[n], list, n + 1 - 1)
      BY <2>4, <3>1
    <3>3. Spells(On(f[n], n + 1), list, n + 1)
      <4> DEFINE m == n + 1
                 v == f[n]
      <4>1. m \in 1..N /\ Spells(v, list, m - 1)
        BY <3>1, <3>2
      <4> HIDE DEF m, v
      <4>2. Spells(On(v, m), list, m)
        BY <4>1, SpellsOn DEF On
      <4> QED BY <4>2 DEF m, v
    <3> QED BY <2>2, <3>1, <3>3
  <2> HIDE DEF G, N
  <2>5. 0..N \subseteq G
    BY <1>1, <2>3, <2>4, InductTo
  <2> QED BY <2>2, <2>5 DEF G
<1>6. \E f : Unfolds(f)
  <2>1. ASSUME NEW s \in Seq(Tokens), NEW n \in 1..N PROVE On(s, n) \in Seq(Tokens)
    <3>1. Text(list[n]) \in Seq(Tokens)
      BY <1>1, TextIs
    <3>2. (IF n = 1 THEN <<>> ELSE <<"comma">>) \in Seq(Tokens)
      <4> DEFINE t == "comma"
      <4>1. t \in Tokens
        BY <1>2
      <4> HIDE DEF t
      <4>2. <<t>> \in Seq(Tokens) /\ <<>> \in Seq(Tokens)
        BY <4>1
      <4> QED BY <4>2 DEF t
    <3> DEFINE c == IF n = 1 THEN <<>> ELSE <<"comma">>
               x == Text(list[n])
    <3>3. c \in Seq(Tokens) /\ x \in Seq(Tokens)
      BY <3>1, <3>2
    <3> HIDE DEF c, x
    <3>4. s \o c \o x \in Seq(Tokens)
      BY <3>3
    <3> QED BY <3>4 DEF c, x
  <2> HIDE DEF On
  <2>2. step \in [Seq(Tokens) \X (1..N) -> Seq(Tokens)]
    BY <2>1
  <2>3. \A s \in Seq(Tokens), n \in 1..N : step[<<s, n>>] = On(s, n)
    OBVIOUS
  <2> HIDE DEF step, base, N
  <2>4. PICK f : Follows(f, N, Seq(Tokens), base, step)
    BY <1>1, <1>3, <2>2, Recursion
  <2>5. f \in [0..N -> Seq(Tokens)] /\ f[0] = base /\ \A n \in 1..N : f[n] = step[<<f[n - 1], n>>]
    BY <2>4 DEF Follows
  <2>6. ASSUME NEW n \in 0..N PROVE f[n] = IF n = 0 THEN <<"lbracket">> ELSE On(f[n - 1], n)
    <3>1. CASE n = 0
      BY <2>5, <3>1 DEF base
    <3>2. CASE n # 0
      <4>1. n \in 1..N /\ n - 1 \in 0..N
        BY <1>1, <3>2
      <4>2. f[n - 1] \in Seq(Tokens)
        BY <2>5, <4>1
      <4> QED BY <2>3, <2>5, <3>2, <4>1, <4>2
    <3> QED BY <3>1, <3>2
  <2>7. f = [n \in 0..N |-> f[n]]
    BY <2>5
  <2>8. Unfolds(f)
    BY <2>6, <2>7
  <2> QED BY <2>8
<1> DEFINE U == CHOOSE f : Unfolds(f)
<1>7. Unfolds(U)
  <2> HIDE DEF Unfolds
  <2> QED BY <1>6
<1>8. ArrayText(list) = Append(U[N], "rbracket")
  BY DEF ArrayText
<1> HIDE DEF U
<1>9. Spells(U[N], list, N)
  <2>1. N \in 0..N
    BY <1>1
  <2> HIDE DEF N
  <2> QED BY <1>5, <1>7, <2>1
<1> HIDE DEF Unfolds, On, step, base
<1> DEFINE u == U[N]
           a == ArrayText(list)
<1>10. /\ u \in Seq(Tokens) /\ Len(u) = (IF N = 0 THEN 1 ELSE 12 * N) /\ u[1] = "lbracket"
       /\ \A k \in 1..N, q \in 0..11 : u[Pos(k, q)] = Glyph(list, k, q)
  BY <1>9 DEF Spells
<1>11. a = Append(u, "rbracket")
  BY <1>8
<1> HIDE DEF u, a, N
<1>12. /\ a \in Seq(Tokens) /\ Len(a) = Len(u) + 1 /\ a[Len(u) + 1] = "rbracket"
       /\ \A i \in 1..Len(u) : a[i] = u[i]
  <2> DEFINE t == "rbracket"
  <2>1. t \in Tokens /\ a = Append(u, t) /\ u \in Seq(Tokens)
    BY <1>2, <1>10, <1>11
  <2> HIDE DEF t
  <2>2. /\ a \in Seq(Tokens) /\ Len(a) = Len(u) + 1 /\ a[Len(u) + 1] = t
        /\ \A i \in 1..Len(u) : a[i] = u[i]
    BY <2>1
  <2> QED BY <2>2 DEF t
<1>13. Len(u) + 1 = Length(N) /\ Len(u) \in Nat /\ 1 \in 1..Len(u)
  <2>1. CASE N = 0
    BY <1>10, <2>1 DEF Length
  <2>2. CASE N # 0
    <3>1. Len(u) = 12 * N
      BY <1>10, <2>2
    <3> QED BY <1>1, <2>2, <3>1 DEF Length
  <2> QED BY <2>1, <2>2
<1>14. ASSUME NEW k \in 1..N, NEW q \in 0..11 PROVE a[Pos(k, q)] = Glyph(list, k, q)
  <2>1. N # 0 /\ Len(u) = 12 * N
    BY <1>1, <1>10
  <2>2. Pos(k, q) \in 1..Len(u)
    BY <1>1, <2>1 DEF Pos
  <2> QED BY <1>10, <1>12, <2>2
<1> QED BY <1>10, <1>12, <1>13, <1>14 DEF a, N

-----------------------------------------------------------------------------
(* Answers: reading *)

\* Positions that are given in rising order are in their places.
LEMMA Enumerated ==
  ASSUME NEW N \in Nat, NEW g \in [1..N -> Nat], \A j, k \in 1..N : j < k => g[j] < g[k]
  PROVE  \A at : at = {g[k] : k \in 1..N} =>
           /\ at \in SUBSET Nat /\ Cardinality(at) = N
           /\ \A k \in 1..N : Places(at)[k] = g[k]
<1> DEFINE S(n) == {g[k] : k \in 1..n}
<1>1. ASSUME NEW n \in 0..N PROVE IsFiniteSet(S(n)) /\ Cardinality(S(n)) = n
  <2> DEFINE h == [k \in 1..n |-> g[k]]
             X == 1..n
             Y == S(n)
  <2>1. \A k \in X : k \in 1..N /\ k \in Int
    BY <1>1
  <2>2. \A j, k \in X : j # k => g[j] # g[k]
    <3>1. \A j, k \in X : j < k \/ k < j \/ j = k
      BY <2>1
    <3>2. \A k \in X : g[k] \in Nat
      BY <2>1
    <3> QED BY <2>1, <3>1, <3>2
  <2>3. h \in [X -> Y] /\ (\A y \in Y : \E k \in X : h[k] = y) /\ \A j, k \in X : h[j] = h[k] => j = k
    BY <2>2
  <2>4. h \in Bijection(X, Y)
    <3> HIDE DEF h, X, Y
    <3>1. h \in Injection(X, Y)
      BY <2>3 DEF Injection, IsInjective
    <3>2. h \in Surjection(X, Y)
      BY <2>3 DEF Surjection
    <3> QED BY <3>1, <3>2 DEF Bijection
  <2>5. IsFiniteSet(X) /\ Cardinality(X) = n
    BY FS_Interval
  <2> HIDE DEF h, X, Y
  <2>6. ExistsBijection(X, Y)
    BY <2>4 DEF ExistsBijection
  <2>7. IsFiniteSet(Y) /\ Cardinality(Y) = n
    BY <2>5, <2>6, FS_Bijection
  <2> QED BY <2>7 DEF Y
<1> SUFFICES ASSUME NEW at, at = S(N)
             PROVE  /\ at \in SUBSET Nat /\ Cardinality(at) = N
                    /\ \A k \in 1..N : Places(at)[k] = g[k]
  OBVIOUS
<1>2. at \in SUBSET Nat /\ IsFiniteSet(at) /\ Cardinality(at) = N
  <2>1. N \in 0..N
    OBVIOUS
  <2>2. IsFiniteSet(S(N)) /\ Cardinality(S(N)) = N
    BY <1>1, <2>1
  <2> QED BY <2>2
<1>3. Orders(Rising(at), at) /\ \A i, j \in at : <<i, j>> \in Rising(at) <=> i < j
  <2>1. at \in SUBSET Int
    BY <1>2
  <2> HIDE DEF S
  <2> QED BY <2>1, RisingOrders
<1>4. /\ Places(at) \in [1..N -> at]
      /\ \A x \in at : \E k \in 1..N : Places(at)[k] = x
      /\ \A k \in 1..N : Cardinality({y \in at : <<y, Places(at)[k]>> \in Rising(at)}) = k - 1
  <2> HIDE DEF S
  <2>1. IsFiniteSet(at) /\ Orders(Rising(at), at)
    BY <1>2, <1>3
  <2>2. /\ Places(at) \in [1..Cardinality(at) -> at]
        /\ \A x \in at : \E k \in 1..Cardinality(at) : Places(at)[k] = x
        /\ \A k \in 1..Cardinality(at) :
             Cardinality({y \in at : <<y, Places(at)[k]>> \in Rising(at)}) = k - 1
    BY <2>1, ArrangedOrder DEF Places
  <2> QED BY <1>2, <2>2
<1>5. ASSUME NEW k \in 1..N PROVE Places(at)[k] = g[k]
  <2>1. g[k] \in at
    OBVIOUS
  <2>2. PICK j \in 1..N : Places(at)[j] = g[k]
    <3> HIDE DEF S
    <3> QED BY <1>4, <2>1
  <2>3. {y \in at : <<y, g[k]>> \in Rising(at)} = S(k - 1)
    <3>1. ASSUME NEW y \in at PROVE <<y, g[k]>> \in Rising(at) <=> y \in S(k - 1)
      <4>1. PICK i \in 1..N : y = g[i]
        OBVIOUS
      <4>2. <<y, g[k]>> \in Rising(at) <=> g[i] < g[k]
        BY <1>3, <2>1, <4>1
      <4>3. g[i] < g[k] <=> i < k
        <5>1. i < k \/ i = k \/ k < i
          OBVIOUS
        <5>2. g[i] \in Nat /\ g[k] \in Nat
          OBVIOUS
        <5> QED BY <5>1, <5>2
      <4>4. y \in S(k - 1) <=> \E l \in 1..k - 1 : g[l] = g[i]
        BY <4>1
      <4>5. \A l \in 1..k - 1 : l \in 1..N /\ l < k
        OBVIOUS
      <4>6. i < k => i \in 1..k - 1
        OBVIOUS
      <4>7. \A l \in 1..k - 1 : g[l] < g[k]
        BY <4>5
      <4> HIDE DEF S
      <4> QED BY <4>2, <4>3, <4>4, <4>6, <4>7
    <3>2. S(k - 1) \subseteq at
      <4>1. \A l \in 1..k - 1 : l \in 1..N
        OBVIOUS
      <4> QED BY <4>1
    <3> HIDE DEF S
    <3> QED BY <3>1, <3>2
  <2>4. k - 1 \in 0..N /\ Cardinality({y \in at : <<y, g[k]>> \in Rising(at)}) = j - 1
    <3> HIDE DEF S
    <3> QED BY <1>4, <2>2
  <2>5. k - 1 = j - 1
    <3> HIDE DEF S
    <3> QED BY <1>1, <2>3, <2>4
  <2>6. k = j
    BY <2>5
  <2> QED BY <2>2, <2>6
<1> QED BY <1>2, <1>5

LEMMA GlyphIs ==
  ASSUME NEW list \in Seq(Entries), NEW k \in Nat
  PROVE  /\ k = 1 => Glyph(list, k, 0) = "lbracket"
         /\ k # 1 => Glyph(list, k, 0) = "comma"
         /\ Glyph(list, k, 1) = "lbrace" /\ Glyph(list, k, 2) = "quote"
         /\ Glyph(list, k, 3) = "backslash" /\ Glyph(list, k, 4) = "quote"
         /\ Glyph(list, k, 5) = "rbrace" /\ Glyph(list, k, 6) = "quote"
         /\ Glyph(list, k, 7) = "lbracket" /\ Glyph(list, k, 8) = "datum"
         /\ Glyph(list, k, 9) = "rbracket" /\ Glyph(list, k, 10) = list[k]
         /\ Glyph(list, k, 11) = "rbrace"
<1>1. \A q \in 1..11 : Glyph(list, k, q) = Text(list[k])[q]
  BY DEF Glyph
<1>2. /\ Glyph(list, k, 1) = Text(list[k])[1] /\ Glyph(list, k, 2) = Text(list[k])[2]
      /\ Glyph(list, k, 3) = Text(list[k])[3] /\ Glyph(list, k, 4) = Text(list[k])[4]
      /\ Glyph(list, k, 5) = Text(list[k])[5] /\ Glyph(list, k, 6) = Text(list[k])[6]
      /\ Glyph(list, k, 7) = Text(list[k])[7] /\ Glyph(list, k, 8) = Text(list[k])[8]
      /\ Glyph(list, k, 9) = Text(list[k])[9] /\ Glyph(list, k, 10) = Text(list[k])[10]
      /\ Glyph(list, k, 11) = Text(list[k])[11]
  BY <1>1
<1>3. (k = 1 => Glyph(list, k, 0) = "lbracket") /\ (k # 1 => Glyph(list, k, 0) = "comma")
  BY DEF Glyph
<1>4. /\ Text(list[k])[1] = "lbrace" /\ Text(list[k])[2] = "quote"
      /\ Text(list[k])[3] = "backslash" /\ Text(list[k])[4] = "quote"
      /\ Text(list[k])[5] = "rbrace" /\ Text(list[k])[6] = "quote"
      /\ Text(list[k])[7] = "lbracket" /\ Text(list[k])[8] = "datum"
      /\ Text(list[k])[9] = "rbracket" /\ Text(list[k])[10] = list[k]
      /\ Text(list[k])[11] = "rbrace"
  BY TextIs
<1> QED BY <1>2, <1>3, <1>4

\* Where entries stand in a text: at the 10th place of each.
LEMMA EntriesAt ==
  ASSUME NEW list \in Seq(Entries)
  PROVE  {i \in DOMAIN ArrayText(list) : ArrayText(list)[i] \in Entries}
           = {Pos(k, 10) : k \in 1..Len(list)}
<1> DEFINE A == ArrayText(list)
           N == Len(list)
<1>1. N \in Nat /\ \A k \in 1..N : list[k] \in Entries
  OBVIOUS
<1>2. /\ A \in Seq(Tokens) /\ Len(A) = Length(N) /\ A[1] = "lbracket" /\ A[Length(N)] = "rbracket"
      /\ \A k \in 1..N, q \in 0..11 : A[Pos(k, q)] = Glyph(list, k, q)
  BY ArrayTextIs
<1>3. DOMAIN A = 1..Length(N)
  <2> HIDE DEF A, N
  <2> QED BY <1>2
<1>4. \A m \in Marks : m \notin Entries
  BY ProposalAssumption DEF Marks
<1> HIDE DEF A, N
<1>5. ASSUME NEW k \in 1..N PROVE Pos(k, 10) \in DOMAIN A /\ A[Pos(k, 10)] \in Entries
  <2>1. 10 \in 0..11
    OBVIOUS
  <2>2. A[Pos(k, 10)] = Glyph(list, k, 10) /\ Glyph(list, k, 10) = list[k]
    BY <1>2, <2>1, GlyphIs
  <2>3. N # 0 /\ Pos(k, 10) \in 1..12 * N + 1
    BY <1>1 DEF Pos
  <2> QED BY <1>1, <1>3, <2>2, <2>3 DEF Length
<1>6. ASSUME NEW i \in DOMAIN A, A[i] \in Entries PROVE \E k \in 1..N : i = Pos(k, 10)
  <2>1. "lbracket" \in Marks /\ "rbracket" \in Marks /\ "comma" \in Marks
    BY DEF Marks
  <2>2. i # 1 /\ i # Length(N)
    BY <1>2, <1>4, <1>6, <2>1
  <2>3. N # 0 /\ i \in 2..12 * N
    <3>1. CASE N = 0
      BY <1>3, <2>2, <3>1 DEF Length
    <3>2. CASE N # 0
      BY <1>1, <1>3, <2>2, <3>2 DEF Length
    <3> QED BY <3>1, <3>2
  <2>4. i \in Nat \ {0}
    BY <1>1, <2>3
  <2>5. PICK k \in Nat \ {0}, q \in 0..11 : i = Pos(k, q)
    BY <2>4, Twelves
  <2>6. k \in 1..N
    <3>1. 12 * k - 11 + q <= 12 * N
      BY <1>1, <2>3, <2>5 DEF Pos
    <3>2. k <= N
      BY <1>1, <3>1
    <3> QED BY <1>1, <3>2
  <2>7. A[i] = Glyph(list, k, q)
    BY <1>2, <2>5, <2>6
  <2>8. CASE q = 0
    BY <1>4, <1>6, <2>1, <2>7, <2>8, GlyphIs
  <2>9. CASE q # 0 /\ q # 10
    <3>1. q = 1 \/ q = 2 \/ q = 3 \/ q = 4 \/ q = 5 \/ q = 6 \/ q = 7 \/ q = 8 \/ q = 9 \/ q = 11
      BY <2>9
    <3>2. Glyph(list, k, q) \in Marks
      BY <3>1, GlyphIs DEF Marks
    <3> QED BY <1>4, <1>6, <2>7, <3>2
  <2> QED BY <2>5, <2>6, <2>8, <2>9
<1> QED BY <1>5, <1>6 DEF A, N

\* The text of a list is read as that list.
LEMMA ReadsWhole ==
  ASSUME NEW list \in Seq(Entries)
  PROVE  Reads(ArrayText(list)) = {list}
<1> DEFINE A == ArrayText(list)
           N == Len(list)
           at == {i \in DOMAIN A : A[i] \in Entries}
           g == [k \in 1..N |-> Pos(k, 10)]
<1>1. N \in Nat /\ A \in Seq(Tokens) /\ \A k \in 1..N : A[Pos(k, 10)] = list[k]
  <2>1. \A k \in 1..N : 10 \in 0..11 /\ A[Pos(k, 10)] = Glyph(list, k, 10)
    BY ArrayTextIs
  <2>2. \A k \in 1..N : Glyph(list, k, 10) = list[k]
    BY GlyphIs
  <2> QED BY <2>1, <2>2, ArrayTextIs
<1>2. at = {g[k] : k \in 1..N}
  <2>1. at = {Pos(k, 10) : k \in 1..N}
    BY EntriesAt
  <2> HIDE DEF at
  <2> QED BY <2>1
<1>3. g \in [1..N -> Nat] /\ \A j, k \in 1..N : j < k => g[j] < g[k]
  BY DEF Pos
<1>4. Cardinality(at) = N /\ \A k \in 1..N : Places(at)[k] = g[k]
  <2> HIDE DEF at, g, N
  <2> QED BY <1>1, <1>2, <1>3, Enumerated
<1>5. /\ Picked(A, at) \in Seq(Tokens) /\ Len(Picked(A, at)) = N
      /\ \A k \in 1..N : Picked(A, at)[k] = A[Places(at)[k]]
  <2>1. at \in SUBSET DOMAIN A
    OBVIOUS
  <2> HIDE DEF at, A, N
  <2> QED BY <1>1, <1>4, <2>1, PickedOrder
<1>6. \A k \in 1..N : Picked(A, at)[k] = list[k]
  <2>1. \A k \in 1..N : g[k] = Pos(k, 10)
    OBVIOUS
  <2> HIDE DEF at, A, N, g
  <2> QED BY <1>1, <1>4, <1>5, <2>1
<1>7. Picked(A, at) = list
  <2> DEFINE p == Picked(A, at)
  <2>1. p \in Seq(Tokens) /\ Len(p) = N /\ \A k \in 1..N : p[k] = list[k]
    BY <1>5, <1>6
  <2> HIDE DEF p
  <2>2. p = list
    BY <2>1
  <2> QED BY <2>2 DEF p
<1>8. Reads(A) = {l \in {Picked(A, at)} : ArrayText(l) = A}
  BY DEF Reads
<1> QED BY <1>7, <1>8

-----------------------------------------------------------------------------
(* Answers: the scan *)

\* A state of the scan, mode saying whether it is in a string, behind a backslash.
Modes == {"text", "string", "escape"}
Full(a, b, c, s, x, d) ==
  [at |-> a, braces |-> b, brackets |-> c, string |-> s, escape |-> x, close |-> d]
Scanned(a, b, c, m, d) == Full(a, b, c, m # "text", m = "escape", d)
Scans == {Scanned(a, b, c, m, d) : a \in Int, b \in Int, c \in Int, m \in Modes, d \in Int}

\* One turn of the scan, token by token.
LEMMA ScanIs ==
  ASSUME NEW a \in Int, NEW b \in Int, NEW c \in Int, NEW m \in Modes, NEW d \in Int, NEW t
  PROVE  /\ m = "escape" => Scan(Scanned(a, b, c, m, d), t) = Scanned(a + 1, b, c, "string", d)
         /\ m = "string" => Scan(Scanned(a, b, c, m, d), t) =
              Scanned(a + 1, b, c, IF t = "backslash" THEN "escape"
                                   ELSE IF t = "quote" THEN "text" ELSE "string", d)
         /\ m = "text" =>
              /\ t = "quote" => Scan(Scanned(a, b, c, m, d), t) = Scanned(a + 1, b, c, "string", d)
              /\ t = "lbrace" => Scan(Scanned(a, b, c, m, d), t) = Scanned(a + 1, b + 1, c, m, d)
              /\ t = "rbrace" => Scan(Scanned(a, b, c, m, d), t)
                                   = Scanned(a + 1, b - 1, c, m, IF b = 1 /\ c = 1 THEN a + 1 ELSE d)
              /\ t = "lbracket" => Scan(Scanned(a, b, c, m, d), t) = Scanned(a + 1, b, c + 1, m, d)
              /\ t = "rbracket" => Scan(Scanned(a, b, c, m, d), t) = Scanned(a + 1, b, c - 1, m, d)
              /\ t \notin {"quote", "lbrace", "rbrace", "lbracket", "rbracket"} =>
                   Scan(Scanned(a, b, c, m, d), t) = Scanned(a + 1, b, c, m, d)
<1> DEFINE s == m # "text"
           x == m = "escape"
<1>0. /\ s \in BOOLEAN /\ x \in BOOLEAN /\ Scanned(a, b, c, m, d) = Full(a, b, c, s, x, d)
      /\ s <=> m \in {"string", "escape"}
      /\ x <=> m = "escape"
  BY DEF Scanned, Modes
<1> HIDE DEF s, x
<1> DEFINE r == Full(a, b, c, s, x, d)
           A == a + 1
           n == Full(A, b, c, s, x, d)
           f == FALSE
           y == TRUE
           u == t # "quote"
           v == t = "backslash"
           w == IF b = 1 /\ c = 1 THEN a + 1 ELSE d
           B == b + 1
           L == b - 1
           C == c + 1
           E == c - 1
<1>1. s \in BOOLEAN /\ x \in BOOLEAN /\ f \in BOOLEAN /\ y \in BOOLEAN /\ u \in BOOLEAN /\ v \in BOOLEAN /\ w \in Int
      /\ A \in Int /\ B \in Int /\ L \in Int /\ C \in Int /\ E \in Int
  BY <1>0
<1>2. /\ r.at = a /\ r.braces = b /\ r.brackets = c /\ r.string = s /\ r.escape = x /\ r.close = d
  BY Zenon DEF Full
<1>3. [r EXCEPT !.at = @ + 1] = n
  <2>1. [r EXCEPT !.at = A] = n
    <3> HIDE DEF A
    <3> QED BY <1>1 DEF Full
  <2> HIDE DEF r, n
  <2> QED BY <1>2, <2>1
<1>4. n.at = A /\ n.braces = b /\ n.brackets = c /\ n.close = d
  BY Zenon DEF Full
<1> DEFINE N1 == [n EXCEPT !.escape = f]
           N2 == [n EXCEPT !.escape = v, !.string = u]
           N3 == [n EXCEPT !.string = y]
           N4 == [n EXCEPT !.braces = B]
           N5 == [n EXCEPT !.braces = L, !.close = w]
           N6 == [n EXCEPT !.brackets = C]
           N7 == [n EXCEPT !.brackets = E]
<1>5. N1 = Full(A, b, c, s, f, d) /\ N3 = Full(A, b, c, y, x, d)
  <2> HIDE DEF f, y, A
  <2>1. N1 = Full(A, b, c, s, f, d)
    BY <1>1 DEF Full
  <2>2. N3 = Full(A, b, c, y, x, d)
    BY <1>1 DEF Full
  <2> QED BY <2>1, <2>2
<1>6. /\ N4 = Full(A, B, c, s, x, d) /\ N6 = Full(A, b, C, s, x, d)
      /\ N7 = Full(A, b, E, s, x, d)
  <2> HIDE DEF A, B, C, E
  <2> QED BY <1>1 DEF Full
<1>7. N2 = Full(A, b, c, u, v, d)
  <2> HIDE DEF A, u, v
  <2>1. [n EXCEPT !.escape = v] = Full(A, b, c, s, v, d)
    BY <1>1 DEF Full
  <2>2. [Full(A, b, c, s, v, d) EXCEPT !.string = u] = Full(A, b, c, u, v, d)
    BY <1>1 DEF Full
  <2> HIDE DEF n
  <2> QED BY <2>1, <2>2, Zenon
<1>8. N5 = Full(A, L, c, s, x, w)
  <2> HIDE DEF A, L, w
  <2>1. [n EXCEPT !.braces = L] = Full(A, L, c, s, x, d)
    BY <1>1 DEF Full
  <2>2. [Full(A, L, c, s, x, d) EXCEPT !.close = w] = Full(A, L, c, s, x, w)
    BY <1>1 DEF Full
  <2> HIDE DEF n
  <2> QED BY <2>1, <2>2, Zenon
<1>9. /\ x => Scan(r, t) = N1
      /\ ~x /\ s => Scan(r, t) = N2
      /\ ~x /\ ~s => /\ t = "quote" => Scan(r, t) = N3
                     /\ t = "lbrace" => Scan(r, t) = N4
                     /\ t = "rbrace" => Scan(r, t) = N5
                     /\ t = "lbracket" => Scan(r, t) = N6
                     /\ t = "rbracket" => Scan(r, t) = N7
                     /\ t \notin {"quote", "lbrace", "rbrace", "lbracket", "rbracket"} => Scan(r, t) = n
  <2> HIDE DEF r, n
  <2>1. CASE x
    BY <1>2, <1>3, <2>1, Zenon DEF Scan
  <2>2. CASE ~x /\ s
    BY <1>2, <1>3, <2>2, Zenon DEF Scan
  <2>3. CASE ~x /\ ~s
    <3>1. ASSUME t = "quote" PROVE Scan(r, t) = N3
      BY <1>2, <1>3, <2>3, <3>1, Zenon DEF Scan
    <3>2. ASSUME t = "lbrace" PROVE Scan(r, t) = N4
      <4>1. Scan(r, t) = [n EXCEPT !.braces = n.braces + 1]
        BY <1>2, <1>3, <2>3, <3>2, Zenon DEF Scan
      <4> QED BY <1>4, <4>1
    <3>3. ASSUME t = "rbrace" PROVE Scan(r, t) = N5
      <4> DEFINE o == [r EXCEPT !.at = @ + 1]
                 z == IF r.braces = 1 /\ r.brackets = 1 THEN o.at ELSE o.close
      <4>1. Scan(r, t) = [o EXCEPT !.braces = o.braces - 1, !.close = z]
        <5>1. r.escape = FALSE /\ r.string = FALSE
          BY <1>2, <2>3
        <5> QED BY <3>3, <5>1, Zenon DEF Scan
      <4>2. o = n
        BY <1>3
      <4> HIDE DEF o
      <4>3. z = w /\ n.braces - 1 = L
        BY <1>2, <1>4, <4>2
      <4> HIDE DEF z, w, L
      <4> QED BY <4>1, <4>2, <4>3
    <3>4. ASSUME t = "lbracket" PROVE Scan(r, t) = N6
      <4>1. Scan(r, t) = [n EXCEPT !.brackets = n.brackets + 1]
        BY <1>2, <1>3, <2>3, <3>4, Zenon DEF Scan
      <4> QED BY <1>4, <4>1
    <3>5. ASSUME t = "rbracket" PROVE Scan(r, t) = N7
      <4>1. Scan(r, t) = [n EXCEPT !.brackets = n.brackets - 1]
        BY <1>2, <1>3, <2>3, <3>5, Zenon DEF Scan
      <4> QED BY <1>4, <4>1
    <3>6. ASSUME t \notin {"quote", "lbrace", "rbrace", "lbracket", "rbracket"} PROVE Scan(r, t) = n
      BY <1>2, <1>3, <2>3, <3>6, Zenon DEF Scan
    <3> QED BY <2>3, <3>1, <3>2, <3>3, <3>4, <3>5, <3>6
  <2> QED BY <2>1, <2>2, <2>3
<1> HIDE DEF r, n, N1, N2, N3, N4, N5, N6, N7
<1>10. r = Scanned(a, b, c, m, d)
  BY <1>0 DEF r
<1>11. CASE m = "escape"
  <2>1. Full(A, b, c, s, f, d) = Scanned(A, b, c, "string", d)
    BY <1>0, <1>11 DEF Scanned, Full
  <2> QED BY <1>0, <1>5, <1>9, <1>10, <1>11, <2>1
<1>12. CASE m = "string"
  <2> DEFINE o == IF t = "backslash" THEN "escape" ELSE IF t = "quote" THEN "text" ELSE "string"
  <2>1. (o # "text" <=> u) /\ (o = "escape" <=> v)
    OBVIOUS
  <2>2. Full(A, b, c, u, v, d) = Scanned(A, b, c, o, d)
    <3> HIDE DEF o, u, v, A
    <3> QED BY <1>1, <2>1 DEF Scanned, Full
  <2> HIDE DEF o
  <2>3. Scan(r, t) = Scanned(A, b, c, o, d)
    BY <1>0, <1>7, <1>9, <1>12, <2>2
  <2> QED BY <1>10, <1>12, <2>3 DEF o
<1>13. CASE m = "text"
  <2>1. Full(A, b, c, y, x, d) = Scanned(A, b, c, "string", d)
    BY <1>0, <1>13 DEF Scanned, Full
  <2>2. /\ Full(A, B, c, s, x, d) = Scanned(A, B, c, m, d)
        /\ Full(A, L, c, s, x, w) = Scanned(A, L, c, m, w)
        /\ Full(A, b, C, s, x, d) = Scanned(A, b, C, m, d)
        /\ Full(A, b, E, s, x, d) = Scanned(A, b, E, m, d)
        /\ Full(A, b, c, s, x, d) = Scanned(A, b, c, m, d)
    BY DEF Scanned, s, x
  <2>3. ~x /\ ~s
    BY <1>0, <1>13
  <2> QED BY <1>5, <1>6, <1>8, <1>9, <1>10, <1>13, <2>1, <2>2, <2>3 DEF n
<1> QED BY <1>11, <1>12, <1>13 DEF Modes

LEMMA ScanTyped ==
  ASSUME NEW scan \in Scans, NEW t
  PROVE  Scan(scan, t) \in Scans
<1>1. PICK a \in Int, b \in Int, c \in Int, m \in Modes, d \in Int : scan = Scanned(a, b, c, m, d)
  BY DEF Scans
<1> DEFINE o == IF t = "backslash" THEN "escape" ELSE IF t = "quote" THEN "text" ELSE "string"
           w == IF b = 1 /\ c = 1 THEN a + 1 ELSE d
           i == "string"
<1>2. /\ o \in Modes /\ i \in Modes /\ w \in Int
      /\ a + 1 \in Int /\ b + 1 \in Int /\ b - 1 \in Int /\ c + 1 \in Int /\ c - 1 \in Int
  BY DEF Modes
<1>3. \/ Scan(scan, t) = Scanned(a + 1, b, c, i, d) \/ Scan(scan, t) = Scanned(a + 1, b, c, o, d)
      \/ Scan(scan, t) = Scanned(a + 1, b + 1, c, m, d)
      \/ Scan(scan, t) = Scanned(a + 1, b - 1, c, m, w)
      \/ Scan(scan, t) = Scanned(a + 1, b, c + 1, m, d)
      \/ Scan(scan, t) = Scanned(a + 1, b, c - 1, m, d)
      \/ Scan(scan, t) = Scanned(a + 1, b, c, m, d)
  <2>1. m = "escape" \/ m = "string" \/ m = "text"
    BY DEF Modes
  <2> QED BY <1>1, <2>1, ScanIs
<1>4. \A j, k, l, e \in Int, n \in Modes : Scanned(j, k, l, n, e) \in Scans
  BY DEF Scans
<1> HIDE DEF o, w, i
<1> QED BY <1>2, <1>3, <1>4

\* The scan behind the q-th token of the k-th entry.
Braces(q) == IF q \in 1..10 THEN 1 ELSE 0
Brackets(q) == IF q \in 7..8 THEN 2 ELSE 1
Mode(q) == IF q = 3 THEN "escape" ELSE IF q \in {2, 4, 5} THEN "string" ELSE "text"
Close(k, q) == IF q = 11 THEN 12 * k ELSE 12 * (k - 1)
ScanAt(k, q) == Scanned(Pos(k, q), Braces(q), Brackets(q), Mode(q), Close(k, q))

LEMMA ScanNext ==
  ASSUME NEW k \in Nat, NEW q \in 0..10, NEW t,
         q = 0 => t = "lbrace", q = 1 => t = "quote", q = 2 => t = "backslash",
         q = 3 => t = "quote", q = 4 => t = "rbrace", q = 5 => t = "quote",
         q = 6 => t = "lbracket", q = 7 => t = "datum", q = 8 => t = "rbracket",
         q = 9 => t \notin Marks, q = 10 => t = "rbrace"
  PROVE  Scan(ScanAt(k, q), t) = ScanAt(k, q + 1)
<1> DEFINE a == Pos(k, q)
           b == Braces(q)
           c == Brackets(q)
           m == Mode(q)
           d == Close(k, q)
           B == Braces(q + 1)
           C == Brackets(q + 1)
           M == Mode(q + 1)
           D == Close(k, q + 1)
<1>1. /\ a \in Int /\ b \in Int /\ c \in Int /\ m \in Modes /\ d \in Int
      /\ Pos(k, q + 1) = a + 1
  BY DEF Pos, Braces, Brackets, Close, Mode, Modes
<1>2. ScanAt(k, q) = Scanned(a, b, c, m, d) /\ ScanAt(k, q + 1) = Scanned(a + 1, B, C, M, D)
  BY <1>1 DEF ScanAt
<1>3. CASE q = 3
  <2>1. m = "escape"
    BY <1>3 DEF Marks, Mode
  <2>2. B = b /\ C = c
    BY <1>3 DEF Braces, Brackets
  <2>3. M = "string"
    BY <1>3 DEF Mode
  <2>4. D = d
    BY <1>3 DEF Pos, Braces, Brackets, Close
  <2> HIDE DEF a, b, c, m, d, B, C, M, D
  <2> QED BY <1>1, <1>2, <2>1, <2>2, <2>3, <2>4, ScanIs
<1>4. CASE q \in {2, 4, 5}
  <2>1. m = "string"
    BY <1>4 DEF Marks, Mode
  <2>2. B = b /\ C = c
    BY <1>4 DEF Braces, Brackets
  <2>3. M = (IF t = "backslash" THEN "escape" ELSE IF t = "quote" THEN "text" ELSE "string")
    BY <1>4 DEF Mode
  <2>4. D = d
    BY <1>4 DEF Pos, Braces, Brackets, Close
  <2> HIDE DEF a, b, c, m, d, B, C, M, D
  <2> QED BY <1>1, <1>2, <2>1, <2>2, <2>3, <2>4, ScanIs
<1>5. CASE q = 1
  <2>1. m = "text" /\ t = "quote"
    BY <1>5 DEF Marks, Mode
  <2>2. B = b /\ C = c
    BY <1>5 DEF Braces, Brackets
  <2>3. M = "string"
    BY <1>5 DEF Mode
  <2>4. D = d
    BY <1>5 DEF Pos, Braces, Brackets, Close
  <2> HIDE DEF a, b, c, m, d, B, C, M, D
  <2> QED BY <1>1, <1>2, <2>1, <2>2, <2>3, <2>4, ScanIs
<1>6. CASE q = 0
  <2>1. m = "text" /\ t = "lbrace"
    BY <1>6 DEF Marks, Mode
  <2>2. B = b + 1 /\ C = c
    BY <1>6 DEF Braces, Brackets
  <2>3. M = m
    BY <1>6 DEF Mode
  <2>4. D = d
    BY <1>6 DEF Pos, Braces, Brackets, Close
  <2> HIDE DEF a, b, c, m, d, B, C, M, D
  <2> QED BY <1>1, <1>2, <2>1, <2>2, <2>3, <2>4, ScanIs
<1>7. CASE q = 10
  <2>1. m = "text" /\ t = "rbrace"
    BY <1>7 DEF Marks, Mode
  <2>2. B = b - 1 /\ C = c
    BY <1>7 DEF Braces, Brackets
  <2>3. M = m
    BY <1>7 DEF Mode
  <2>4. D = IF b = 1 /\ c = 1 THEN a + 1 ELSE d
    BY <1>7 DEF Pos, Braces, Brackets, Close
  <2> HIDE DEF a, b, c, m, d, B, C, M, D
  <2> QED BY <1>1, <1>2, <2>1, <2>2, <2>3, <2>4, ScanIs
<1>8. CASE q = 6
  <2>1. m = "text" /\ t = "lbracket"
    BY <1>8 DEF Marks, Mode
  <2>2. B = b /\ C = c + 1
    BY <1>8 DEF Braces, Brackets
  <2>3. M = m
    BY <1>8 DEF Mode
  <2>4. D = d
    BY <1>8 DEF Pos, Braces, Brackets, Close
  <2> HIDE DEF a, b, c, m, d, B, C, M, D
  <2> QED BY <1>1, <1>2, <2>1, <2>2, <2>3, <2>4, ScanIs
<1>9. CASE q = 8
  <2>1. m = "text" /\ t = "rbracket"
    BY <1>9 DEF Marks, Mode
  <2>2. B = b /\ C = c - 1
    BY <1>9 DEF Braces, Brackets
  <2>3. M = m
    BY <1>9 DEF Mode
  <2>4. D = d
    BY <1>9 DEF Pos, Braces, Brackets, Close
  <2> HIDE DEF a, b, c, m, d, B, C, M, D
  <2> QED BY <1>1, <1>2, <2>1, <2>2, <2>3, <2>4, ScanIs
<1>10. CASE q \in {7, 9}
  <2>1. m = "text" /\ t \notin {"quote", "lbrace", "rbrace", "lbracket", "rbracket"}
    BY <1>10 DEF Marks, Mode
  <2>2. B = b /\ C = c
    BY <1>10 DEF Braces, Brackets
  <2>3. M = m
    BY <1>10 DEF Mode
  <2>4. D = d
    BY <1>10 DEF Pos, Braces, Brackets, Close
  <2> HIDE DEF a, b, c, m, d, B, C, M, D
  <2> QED BY <1>1, <1>2, <2>1, <2>2, <2>3, <2>4, ScanIs
<1>11. q \in {2, 4, 5} \/ q \in {7, 9} \/ q = 0 \/ q = 1 \/ q = 3 \/ q = 6 \/ q = 8 \/ q = 10
  OBVIOUS
<1> QED BY <1>3, <1>4, <1>5, <1>6, <1>7, <1>8, <1>9, <1>10, <1>11

LEMMA ScanStarts ==
  ASSUME NEW k \in Nat
  PROVE  /\ Scan(ScanAt(k, 11), "comma") = ScanAt(k + 1, 0)
         /\ Scan(Unscanned, "lbracket") = ScanAt(1, 0)
         /\ Unscanned \in Scans
<1> DEFINE t == "comma"
           u == "lbracket"
           m == "text"
<1>1. t \notin {"quote", "lbrace", "rbrace", "lbracket", "rbracket"} /\ m \in Modes /\ m = "text"
      /\ u = "lbracket" /\ 12 * k \in Int /\ 0 \in Int /\ 1 \in Int
  BY DEF Modes
<1>2. ScanAt(k, 11) = Scanned(12 * k, 0, 1, m, 12 * k)
  BY DEF ScanAt, Pos, Braces, Brackets, Mode, Close
<1>3. ScanAt(k + 1, 0) = Scanned(12 * k + 1, 0, 1, m, 12 * k)
  BY DEF ScanAt, Pos, Braces, Brackets, Mode, Close
<1>4. ScanAt(1, 0) = Scanned(0 + 1, 0, 0 + 1, m, 0)
  BY DEF ScanAt, Pos, Braces, Brackets, Mode, Close
<1>5. Unscanned = Scanned(0, 0, 0, m, 0)
  BY DEF Unscanned, Scanned, Full
<1> HIDE DEF t, u, m
<1>6. Scan(ScanAt(k, 11), t) = ScanAt(k + 1, 0)
  BY <1>1, <1>2, <1>3, ScanIs
<1>7. Scan(Unscanned, u) = ScanAt(1, 0)
  BY <1>1, <1>4, <1>5, ScanIs
<1>8. Unscanned \in Scans
  BY <1>1, <1>5 DEF Scans
<1> QED BY <1>6, <1>7, <1>8 DEF t, u

-----------------------------------------------------------------------------
(* Answers: the salvage *)

\* What the scan has found behind each token of a text of a list.
LEMMA Scanning ==
  ASSUME NEW list \in Seq(Entries), NEW d \in 0..12 * Len(list), NEW f, f[0] = Unscanned,
         \A n \in 1..d : f[n] = Scan(f[n - 1], ArrayText(list)[n])
  PROVE  \A k \in 1..Len(list), q \in 0..11 : Pos(k, q) <= d => f[Pos(k, q)] = ScanAt(k, q)
<1> DEFINE A == ArrayText(list)
           N == Len(list)
           G == {n \in 0..d : \A k \in 1..N, q \in 0..11 : Pos(k, q) = n => f[n] = ScanAt(k, q)}
<1>1. N \in Nat /\ d \in Nat /\ \A k \in 1..N : list[k] \in Entries
  OBVIOUS
<1>2. \A k \in 1..N, q \in 0..11 : A[Pos(k, q)] = Glyph(list, k, q)
  BY ArrayTextIs
<1>3. \A n \in 1..d : f[n] = Scan(f[n - 1], A[n])
  OBVIOUS
<1> HIDE DEF A, N
<1>4. 0 \in G
  <2>1. \A k \in 1..N, q \in 0..11 : Pos(k, q) # 0
    BY <1>1 DEF Pos
  <2> QED BY <1>1, <2>1
<1>5. ASSUME NEW n \in 0..d - 1, n \in G PROVE n + 1 \in G
  <2> SUFFICES ASSUME NEW k \in 1..N, NEW q \in 0..11, Pos(k, q) = n + 1
               PROVE  f[n + 1] = ScanAt(k, q)
    BY <1>1
  <2>1. n + 1 \in 1..d /\ n + 1 - 1 = n /\ k \in Nat
    BY <1>1
  <2>2. f[n + 1] = Scan(f[n], Glyph(list, k, q))
    <3>1. A[n + 1] = Glyph(list, k, q)
      <4>1. A[Pos(k, q)] = Glyph(list, k, q)
        BY <1>2
      <4> QED BY <4>1
    <3>2. f[n + 1] = Scan(f[n + 1 - 1], A[n + 1])
      BY <1>3, <2>1
    <3> QED BY <2>1, <3>1, <3>2
  <2>3. CASE q = 0 /\ k = 1
    <3>1. n = 0 /\ Glyph(list, k, q) = "lbracket"
      BY <1>1, <2>3, GlyphIs DEF Pos
    <3>2. f[n] = Unscanned
      BY <3>1
    <3> QED BY <2>1, <2>2, <2>3, <3>1, <3>2, ScanStarts
  <2>4. CASE q = 0 /\ k # 1
    <3> DEFINE j == k - 1
    <3>1. j \in 1..N /\ j \in Nat /\ k = j + 1 /\ 11 \in 0..11 /\ Pos(j, 11) = n
      BY <1>1, <2>4 DEF Pos
    <3>2. Glyph(list, k, q) = "comma"
      BY <2>1, <2>4, GlyphIs
    <3> HIDE DEF j
    <3>3. f[n] = ScanAt(j, 11)
      BY <1>5, <3>1
    <3>4. Scan(ScanAt(j, 11), "comma") = ScanAt(j + 1, 0)
      BY <3>1, ScanStarts
    <3> QED BY <2>2, <2>4, <3>1, <3>2, <3>3, <3>4
  <2>5. CASE q # 0
    <3> DEFINE o == q - 1
               t == Glyph(list, k, q)
    <3>1. o \in 0..10 /\ o \in 0..11 /\ q = o + 1 /\ Pos(k, o) = n
      BY <1>1, <2>5 DEF Pos
    <3>2. f[n] = ScanAt(k, o)
      BY <1>5, <3>1
    <3>3. /\ (o = 0 => t = "lbrace") /\ (o = 1 => t = "quote") /\ (o = 2 => t = "backslash")
          /\ (o = 3 => t = "quote") /\ (o = 4 => t = "rbrace") /\ (o = 5 => t = "quote")
          /\ (o = 6 => t = "lbracket") /\ (o = 7 => t = "datum") /\ (o = 8 => t = "rbracket")
          /\ (o = 9 => t \notin Marks) /\ (o = 10 => t = "rbrace")
      <4>1. list[k] \notin Marks
        BY <1>1, ProposalAssumption
      <4>2. /\ Glyph(list, k, 1) = "lbrace" /\ Glyph(list, k, 2) = "quote"
            /\ Glyph(list, k, 3) = "backslash" /\ Glyph(list, k, 4) = "quote"
            /\ Glyph(list, k, 5) = "rbrace" /\ Glyph(list, k, 6) = "quote"
            /\ Glyph(list, k, 7) = "lbracket" /\ Glyph(list, k, 8) = "datum"
            /\ Glyph(list, k, 9) = "rbracket" /\ Glyph(list, k, 10) = list[k]
            /\ Glyph(list, k, 11) = "rbrace"
        BY <2>1, GlyphIs
      <4>3. t = Glyph(list, k, o + 1)
        BY <3>1
      <4> HIDE DEF o, t
      <4> QED BY <3>1, <4>1, <4>2, <4>3
    <3> HIDE DEF o, t
    <3>4. Scan(ScanAt(k, o), t) = ScanAt(k, o + 1)
      BY <2>1, <3>1, <3>3, ScanNext
    <3> QED BY <2>2, <3>1, <3>2, <3>4 DEF t
  <2> QED BY <2>3, <2>4, <2>5
<1> HIDE DEF G
<1>6. 0..d \subseteq G
  BY <1>1, <1>4, <1>5, InductTo
<1>7. ASSUME NEW k \in 1..N, NEW q \in 0..11, Pos(k, q) <= d
      PROVE  f[Pos(k, q)] = ScanAt(k, q)
  <2>1. Pos(k, q) \in 0..d
    BY <1>1, <1>7 DEF Pos
  <2> QED BY <1>6, <2>1 DEF G
<1> QED BY <1>7 DEF N

LEMMA ScanExists ==
  ASSUME NEW w \in Seq(Tokens)
  PROVE  \E f : f = [n \in 0..Len(w) |-> IF n = 0 THEN Unscanned ELSE Scan(f[n - 1], w[n])]
<1> DEFINE N == Len(w)
           step == [p \in Scans \X (1..N) |-> Scan(p[1], w[p[2]])]
<1>1. N \in Nat
  OBVIOUS
<1>2. step \in [Scans \X (1..N) -> Scans]
  BY ScanTyped
<1>3. \A s \in Scans, n \in 1..N : step[<<s, n>>] = Scan(s, w[n])
  OBVIOUS
<1>4. Unscanned \in Scans
  BY ScanStarts
<1> HIDE DEF step, N
<1>5. PICK f : Follows(f, N, Scans, Unscanned, step)
  BY <1>1, <1>2, <1>4, Recursion
<1>6. f \in [0..N -> Scans] /\ f[0] = Unscanned /\ \A n \in 1..N : f[n] = step[<<f[n - 1], n>>]
  BY <1>5 DEF Follows
<1>7. ASSUME NEW n \in 0..N PROVE f[n] = IF n = 0 THEN Unscanned ELSE Scan(f[n - 1], w[n])
  <2>1. CASE n = 0
    BY <1>6, <2>1
  <2>2. CASE n # 0
    <3>1. n \in 1..N /\ n - 1 \in 0..N
      BY <1>1, <2>2
    <3>2. f[n - 1] \in Scans
      BY <1>6, <3>1
    <3> QED BY <1>3, <1>6, <2>2, <3>1, <3>2
  <2> QED BY <2>1, <2>2
<1>8. f = [n \in 0..N |-> f[n]]
  BY <1>6
<1>9. f = [n \in 0..N |-> IF n = 0 THEN Unscanned ELSE Scan(f[n - 1], w[n])]
  BY <1>7, <1>8
<1> QED BY <1>9 DEF N

LEMMA PrefixIs ==
  ASSUME NEW T, NEW s \in Seq(T), NEW n \in 0..Len(s)
  PROVE  /\ SubSeq(s, 1, n) \in Seq(T) /\ Len(SubSeq(s, 1, n)) = n
         /\ \A i \in 1..n : SubSeq(s, 1, n)[i] = s[i]
<1>1. n \in Nat /\ \A i \in 1..n : i \in 1..Len(s) /\ s[i] \in T
  OBVIOUS
<1>2. SubSeq(s, 1, n) = [i \in 1..n |-> s[i]]
  BY <1>1
<1> DEFINE p == SubSeq(s, 1, n)
<1>3. p \in [1..n -> T] /\ \A i \in 1..n : p[i] = s[i]
  BY <1>1, <1>2
<1> HIDE DEF p
<1>4. p \in Seq(T) /\ Len(p) = n
  BY <1>1, <1>3, Listed
<1> QED BY <1>3, <1>4 DEF p

\* Cut behind an entry and closed, the text of a list is that of its beginning.
LEMMA Closed ==
  ASSUME NEW list \in Seq(Entries), NEW m \in 1..Len(list)
  PROVE  /\ SubSeq(list, 1, m) \in Seq(Entries) /\ 12 * m < Length(Len(list))
         /\ Append(SubSeq(ArrayText(list), 1, 12 * m), "rbracket") = ArrayText(SubSeq(list, 1, m))
<1> DEFINE N == Len(list)
           A == ArrayText(list)
           l == SubSeq(list, 1, m)
           B == ArrayText(l)
           p == SubSeq(A, 1, 12 * m)
           t == "rbracket"
           C == Append(p, t)
<1>1. N \in Nat /\ m \in Nat /\ m <= N /\ 12 * m < Length(N) /\ m \in 0..N
  BY DEF Length
<1>2. l \in Seq(Entries) /\ Len(l) = m /\ \A k \in 1..m : l[k] = list[k]
  <2> HIDE DEF l
  <2>1. m \in 0..Len(list)
    BY <1>1
  <2> QED BY <2>1, PrefixIs DEF l
<1>3. /\ A \in Seq(Tokens) /\ Len(A) = Length(N)
      /\ \A k \in 1..N, q \in 0..11 : A[Pos(k, q)] = Glyph(list, k, q)
  BY ArrayTextIs
<1>4. /\ B \in Seq(Tokens) /\ Len(B) = 12 * m + 1 /\ B[12 * m + 1] = t
      /\ \A k \in 1..m, q \in 0..11 : B[Pos(k, q)] = Glyph(l, k, q)
  <2> HIDE DEF l
  <2>1. Length(Len(l)) = 12 * m + 1 /\ 1..Len(l) = 1..m
    BY <1>1, <1>2 DEF Length
  <2> QED BY <1>2, <2>1, ArrayTextIs
<1> HIDE DEF A, B, N, l
<1>5. p \in Seq(Tokens) /\ Len(p) = 12 * m /\ \A i \in 1..12 * m : p[i] = A[i]
  <2>1. 12 * m \in 0..Len(A)
    BY <1>1, <1>3
  <2> QED BY <1>3, <2>1, PrefixIs
<1>6. t \in Tokens
  BY DEF Tokens, Marks
<1> HIDE DEF p, t
<1>7. /\ C \in Seq(Tokens) /\ Len(C) = 12 * m + 1 /\ C[12 * m + 1] = t
      /\ \A i \in 1..12 * m : C[i] = p[i]
  <2>1. C \in Seq(Tokens) /\ Len(C) = Len(p) + 1 /\ C[Len(p) + 1] = t
    BY <1>5, <1>6
  <2>2. \A i \in 1..Len(p) : C[i] = p[i]
    BY <1>5, <1>6
  <2> QED BY <1>5, <2>1, <2>2
<1> HIDE DEF C
<1>8. ASSUME NEW i \in 1..12 * m PROVE C[i] = B[i]
  <2>1. i \in Nat \ {0}
    OBVIOUS
  <2>2. PICK k \in Nat \ {0}, q \in 0..11 : i = Pos(k, q)
    BY <2>1, Twelves
  <2>3. k \in 1..m /\ k \in 1..N
    <3>1. 12 * k - 11 + q <= 12 * m
      BY <2>2 DEF Pos
    <3>2. k <= m
      BY <1>1, <3>1
    <3> QED BY <1>1, <3>2
  <2>4. Glyph(l, k, q) = Glyph(list, k, q)
    BY <1>2, <2>3 DEF Glyph
  <2> QED BY <1>3, <1>4, <1>5, <1>7, <2>2, <2>3, <2>4
<1>9. \A i \in 1..12 * m + 1 : C[i] = B[i]
  BY <1>1, <1>4, <1>7, <1>8
<1>10. C = B
  BY <1>1, <1>4, <1>7, <1>9
<1> QED BY <1>1, <1>2, <1>10 DEF A, B, N, l, C, p, t

\* The last closing brace the scan keeps is that of the last whole entry.
LEMMA CloseIs ==
  ASSUME NEW list \in Seq(Entries), NEW d \in 0..Length(Len(list)) - 1, NEW f, f[0] = Unscanned,
         \A n \in 1..d : f[n] = Scan(f[n - 1], ArrayText(list)[n]),
         NEW m \in Nat, 12 * m <= d, d < 12 * m + 12
  PROVE  f[d].close = 12 * m
<1> DEFINE N == Len(list)
           A == ArrayText(list)
<1>1. N \in Nat /\ d \in Nat /\ A[1] = "lbracket"
  BY ArrayTextIs DEF Length
<1>2. d <= 12 * N \/ (N = 0 /\ d = 1)
  BY <1>1 DEF Length
<1>3. ASSUME NEW k \in Nat, NEW q \in 0..11 PROVE ScanAt(k, q).close = Close(k, q)
  BY Zenon DEF ScanAt, Scanned, Full
<1>4. CASE d = 0
  <2>1. m = 0 /\ f[d] = Unscanned
    BY <1>4
  <2> QED BY <2>1 DEF Unscanned
<1>5. CASE d = 1 /\ N = 0
  <2>1. m = 0 /\ f[d] = Scan(f[d - 1], A[d]) /\ d - 1 = 0
    BY <1>5
  <2>2. f[d] = ScanAt(1, 0)
    <3>1. f[d] = Scan(Unscanned, "lbracket")
      BY <1>1, <1>5, <2>1
    <3> QED BY <2>1, <3>1, ScanStarts
  <2>3. 1 \in Nat /\ 0 \in 0..11 /\ Close(1, 0) = 0
    BY DEF Close
  <2> QED BY <1>3, <2>1, <2>2, <2>3
<1>6. CASE d # 0 /\ d <= 12 * N
  <2>1. d \in Nat \ {0} /\ d \in 0..12 * Len(list)
    BY <1>1, <1>6
  <2>2. PICK k \in Nat \ {0}, q \in 0..11 : d = Pos(k, q)
    BY <2>1, Twelves
  <2>3. k \in 1..Len(list) /\ Pos(k, q) <= d
    <3>1. 12 * k - 11 + q <= 12 * N
      BY <1>6, <2>2 DEF Pos
    <3>2. k <= N
      BY <1>1, <3>1
    <3> QED BY <1>1, <2>2, <3>2
  <2>4. f[d] = ScanAt(k, q)
    <3>1. f[Pos(k, q)] = ScanAt(k, q)
      BY <2>1, <2>3, Scanning
    <3> QED BY <2>2, <3>1
  <2>5. Close(k, q) = 12 * m
    <3>1. 12 * k - 11 + q = d
      BY <2>2 DEF Pos
    <3>2. q = 11 => m = k
      BY <3>1
    <3>3. q # 11 => m = k - 1
      BY <3>1
    <3> QED BY <3>2, <3>3 DEF Close
  <2> QED BY <1>3, <2>2, <2>4, <2>5
<1> QED BY <1>2, <1>4, <1>5, <1>6

LEMMA SalvageIs ==
  ASSUME NEW list \in Seq(Entries), NEW d \in 0..Length(Len(list)) - 1,
         NEW m \in Nat, 12 * m <= d, d < 12 * m + 12
  PROVE  /\ m <= Len(list)
         /\ Salvage(SubSeq(ArrayText(list), 1, d)) = IF m = 0 THEN {} ELSE {SubSeq(list, 1, m)}
<1> DEFINE N == Len(list)
           A == ArrayText(list)
           w == SubSeq(A, 1, d)
           Unfolds(f) == f = [n \in 0..Len(w) |-> IF n = 0 THEN Unscanned ELSE Scan(f[n - 1], w[n])]
           U == CHOOSE f : Unfolds(f)
           close == U[Len(w)].close
<1>1. N \in Nat /\ d \in Nat /\ m <= N
  BY DEF Length
<1>2. A \in Seq(Tokens) /\ Len(A) = Length(N) /\ A[1] = "lbracket" /\ d \in 0..Len(A)
  BY ArrayTextIs DEF Length
<1>3. w \in Seq(Tokens) /\ Len(w) = d /\ \A i \in 1..d : w[i] = A[i]
  <2> HIDE DEF A
  <2> QED BY <1>2, PrefixIs
<1>4. Salvage(w) = IF w = <<>> \/ Head(w) # "lbracket" \/ close = 0 THEN {}
                   ELSE Reads(Append(SubSeq(w, 1, close), "rbracket"))
  BY DEF Salvage
<1>5. Unfolds(U)
  <2>1. \E f : Unfolds(f)
    <3> HIDE DEF w
    <3> QED BY <1>3, ScanExists
  <2> HIDE DEF Unfolds
  <2> QED BY <2>1
<1> HIDE DEF U, w
<1>6. U[0] = Unscanned /\ \A n \in 1..d : U[n] = Scan(U[n - 1], A[n])
  <2>1. \A n \in 0..d : U[n] = IF n = 0 THEN Unscanned ELSE Scan(U[n - 1], w[n])
    <3> HIDE DEF A
    <3> QED BY <1>3, <1>5
  <2>2. 0 \in 0..d /\ \A n \in 1..d : n \in 0..d /\ n # 0
    BY <1>1
  <2> HIDE DEF Unfolds, A
  <2> QED BY <1>3, <2>1, <2>2
<1> HIDE DEF Unfolds
<1>7. close = 12 * m
  <2>1. U[d].close = 12 * m
    BY <1>6, CloseIs
  <2> QED BY <1>3, <2>1
<1> HIDE DEF close
<1>8. CASE m = 0
  <2>1. close = 0
    BY <1>7, <1>8
  <2>2. Salvage(w) = {}
    BY <1>4, <2>1
  <2> QED BY <1>1, <1>8, <2>2 DEF w
<1>9. CASE m # 0
  <2>1. m \in 1..Len(list) /\ d # 0 /\ close # 0
    BY <1>1, <1>7, <1>9
  <2>2. w # <<>> /\ Head(w) = "lbracket"
    <3>1. 1 \in 1..d /\ w[1] = "lbracket" /\ Len(w) # 0
      BY <1>1, <1>2, <1>3, <2>1
    <3> QED BY <1>3, <3>1
  <2>3. SubSeq(w, 1, close) = SubSeq(A, 1, close)
    <3>1. close \in 0..d /\ close \in 0..Len(A)
      BY <1>1, <1>2, <1>7
    <3> DEFINE p == SubSeq(w, 1, close)
               q == SubSeq(A, 1, close)
    <3> HIDE DEF A
    <3>2. p \in Seq(Tokens) /\ Len(p) = close /\ \A i \in 1..close : p[i] = w[i]
      <4>1. close \in 0..Len(w)
        BY <1>3, <3>1
      <4> QED BY <1>3, <4>1, PrefixIs
    <3>3. q \in Seq(Tokens) /\ Len(q) = close /\ \A i \in 1..close : q[i] = A[i]
      BY <1>2, <3>1, PrefixIs
    <3>4. \A i \in 1..close : i \in 1..d
      BY <1>1, <3>1
    <3> HIDE DEF p, q
    <3>5. \A i \in 1..close : p[i] = q[i]
      BY <1>3, <3>2, <3>3, <3>4
    <3>6. p = q
      BY <3>1, <3>2, <3>3, <3>5
    <3> QED BY <3>6 DEF p, q
  <2>4. Salvage(w) = Reads(ArrayText(SubSeq(list, 1, m)))
    <3>1. Append(SubSeq(A, 1, 12 * m), "rbracket") = ArrayText(SubSeq(list, 1, m))
      BY <2>1, Closed
    <3> HIDE DEF A
    <3>2. SubSeq(w, 1, close) = SubSeq(A, 1, 12 * m)
      BY <1>7, <2>3
    <3>3. Salvage(w) = Reads(Append(SubSeq(w, 1, close), "rbracket"))
      BY <1>4, <2>1, <2>2
    <3> QED BY <3>1, <3>2, <3>3
  <2>5. Reads(ArrayText(SubSeq(list, 1, m))) = {SubSeq(list, 1, m)}
    <3> DEFINE l == SubSeq(list, 1, m)
    <3>1. l \in Seq(Entries)
      BY <2>1, Closed
    <3> HIDE DEF l
    <3>2. Reads(ArrayText(l)) = {l}
      BY <3>1, ReadsWhole
    <3> QED BY <3>2 DEF l
  <2> QED BY <1>1, <1>9, <2>4, <2>5 DEF w
<1> QED BY <1>8, <1>9

\* A text that was cut is read as no list.
LEMMA ReadsNothing ==
  ASSUME NEW list \in Seq(Entries), NEW d \in 0..Length(Len(list)) - 1
  PROVE  Reads(SubSeq(ArrayText(list), 1, d)) = {}
<1> DEFINE N == Len(list)
           A == ArrayText(list)
           w == SubSeq(A, 1, d)
           at == {i \in DOMAIN w : w[i] \in Entries}
           l == Picked(w, at)
<1>1. N \in Nat /\ d \in Nat
  BY DEF Length
<1>2. /\ A \in Seq(Tokens) /\ Len(A) = Length(N) /\ A[1] = "lbracket" /\ d \in 0..Len(A)
      /\ \A k \in 1..N, q \in 0..11 : A[Pos(k, q)] = Glyph(list, k, q)
  BY ArrayTextIs DEF Length
<1>3. w \in Seq(Tokens) /\ Len(w) = d /\ \A i \in 1..d : w[i] = A[i]
  <2> HIDE DEF A
  <2> QED BY <1>2, PrefixIs
<1>4. l \in Seq(Entries)
  <2>1. at \in SUBSET DOMAIN w /\ \A i \in at : w[i] \in Entries
    OBVIOUS
  <2> HIDE DEF w, at
  <2>2. /\ Cardinality(at) \in Nat /\ Places(at) \in [1..Cardinality(at) -> at]
        /\ l \in Seq(Tokens) /\ Len(l) = Cardinality(at)
        /\ \A k \in 1..Cardinality(at) : l[k] = w[Places(at)[k]]
    BY <1>3, <2>1, PickedOrder
  <2> HIDE DEF l
  <2>3. \A k \in 1..Cardinality(at) : l[k] \in Entries
    BY <2>1, <2>2
  <2>4. l \in [1..Len(l) -> Entries] /\ Len(l) \in Nat
    BY <2>2, <2>3
  <2> QED BY <2>4, Listed
<1>5. Reads(w) = {r \in {l} : ArrayText(r) = w}
  BY DEF Reads
<1> HIDE DEF l, w
<1>6. ASSUME ArrayText(l) = w PROVE FALSE
  <2> DEFINE M == Len(l)
  <2>1. M \in Nat /\ d = Length(M) /\ w[Length(M)] = "rbracket"
    BY <1>3, <1>4, <1>6, ArrayTextIs
  <2>2. d \in 1..d /\ A[d] = "rbracket"
    <3>1. d \in 1..d
      BY <2>1 DEF Length
    <3> HIDE DEF A, M
    <3> QED BY <1>3, <2>1, <3>1
  <2> HIDE DEF A, M
  <2>3. N # 0
    BY <1>1, <2>1 DEF Length
  <2>4. CASE M = 0
    <3>1. d = 2 /\ 1 \in 1..N /\ 1 \in 0..11 /\ Pos(1, 1) = 2
      BY <1>1, <2>1, <2>3, <2>4 DEF Length, Pos
    <3>2. A[2] = Glyph(list, 1, 1)
      BY <1>2, <3>1
    <3>3. Glyph(list, 1, 1) = "lbrace"
      BY GlyphIs
    <3> QED BY <2>2, <3>1, <3>2, <3>3
  <2>5. CASE M # 0
    <3> DEFINE k == M + 1
    <3>1. d = Pos(k, 0) /\ k \in 1..N /\ k \in Nat /\ k # 1 /\ 0 \in 0..11
      BY <1>1, <2>1, <2>3, <2>5 DEF Length, Pos
    <3> HIDE DEF k
    <3>2. A[d] = Glyph(list, k, 0)
      BY <1>2, <3>1
    <3>3. Glyph(list, k, 0) = "comma"
      BY <3>1, GlyphIs
    <3> QED BY <2>2, <3>2, <3>3
  <2> QED BY <2>4, <2>5
<1>7. Reads(w) = {}
  BY <1>5, <1>6
<1> QED BY <1>7 DEF w

-----------------------------------------------------------------------------
(* Answers: the whole way of an answer *)

LEMMA NoFence ==
  ASSUME NEW list \in Seq(Entries), NEW i \in 1..Length(Len(list))
  PROVE  ArrayText(list)[i] # "fence"
<1> DEFINE N == Len(list)
           A == ArrayText(list)
<1>1. N \in Nat /\ \A k \in 1..N : list[k] \in Entries
  OBVIOUS
<1>2. /\ A[1] = "lbracket" /\ A[Length(N)] = "rbracket"
      /\ \A k \in 1..N, q \in 0..11 : A[Pos(k, q)] = Glyph(list, k, q)
  BY ArrayTextIs
<1> HIDE DEF A, N
<1>3. CASE i = 1
  BY <1>2, <1>3 DEF A
<1>4. CASE i = Length(N)
  BY <1>2, <1>4 DEF A
<1>5. CASE i # 1 /\ i # Length(N)
  <2>1. N # 0 /\ i \in 1..12 * N
    BY <1>1, <1>5 DEF Length, N
  <2>2. i \in Nat \ {0}
    BY <2>1
  <2>3. PICK k \in Nat \ {0}, q \in 0..11 : i = Pos(k, q)
    BY <2>2, Twelves
  <2>4. k \in 1..N /\ k \in Nat
    <3>1. 12 * k - 11 + q <= 12 * N
      BY <1>1, <2>1, <2>3 DEF Pos
    <3>2. k <= N
      BY <1>1, <3>1
    <3> QED BY <1>1, <3>2
  <2>5. A[i] = Glyph(list, k, q)
    BY <1>2, <2>3, <2>4
  <2>6. list[k] # "fence"
    BY <1>1, <2>4, ProposalAssumption DEF Marks
  <2>7. q = 0 \/ q = 1 \/ q = 2 \/ q = 3 \/ q = 4 \/ q = 5 \/ q = 6 \/ q = 7 \/ q = 8
        \/ q = 9 \/ q = 10 \/ q = 11
    OBVIOUS
  <2>8. Glyph(list, k, q) # "fence"
    BY <2>4, <2>6, <2>7, GlyphIs
  <2> QED BY <2>5, <2>8 DEF A
<1> QED BY <1>3, <1>4, <1>5

LEMMA FenceIs ==
  ASSUME NEW s \in Seq(Tokens)
  PROVE  /\ Fence(s) \in Seq(Tokens) /\ Len(Fence(s)) = Len(s) + 2
         /\ Fence(s)[1] = "fence" /\ Fence(s)[Len(s) + 2] = "fence"
         /\ \A i \in 1..Len(s) : Fence(s)[i + 1] = s[i]
<1> DEFINE t == "fence"
           o == <<t>>
           u == o \o s
           w == u \o o
<1>1. t \in Tokens
  BY DEF Tokens, Marks
<1>2. o \in Seq(Tokens) /\ Len(o) = 1 /\ o[1] = t
  <2> HIDE DEF t
  <2> QED BY <1>1
<1>3. Fence(s) = w
  BY DEF Fence
<1> HIDE DEF t, o
<1>4. /\ u \in Seq(Tokens) /\ Len(u) = 1 + Len(s) /\ \A i \in 1..1 : u[i] = o[i]
      /\ \A i \in 1..Len(s) : u[1 + i] = s[i]
  <2> DEFINE v == u
             x == s
             y == o
  <2>1. x \in Seq(Tokens) /\ y \in Seq(Tokens) /\ v = y \o x
    BY <1>2
  <2> HIDE DEF v, u, x, y
  <2>3. /\ v \in Seq(Tokens) /\ Len(v) = Len(y) + Len(x) /\ \A i \in 1..Len(y) : v[i] = y[i]
        /\ \A i \in 1..Len(x) : v[Len(y) + i] = x[i]
    BY <2>1, Concatenated
  <2>2. /\ v \in Seq(Tokens) /\ Len(v) = Len(o) + Len(s) /\ \A i \in 1..Len(o) : v[i] = o[i]
        /\ \A i \in 1..Len(s) : v[Len(o) + i] = s[i]
    BY <2>3 DEF x, y
  <2> QED BY <1>2, <2>2 DEF v
<1> HIDE DEF u
<1>5. /\ w \in Seq(Tokens) /\ Len(w) = Len(u) + 1 /\ \A i \in 1..Len(u) : w[i] = u[i]
      /\ \A i \in 1..1 : w[Len(u) + i] = o[i]
  <2> DEFINE v == w
             x == o
             y == u
  <2>1. x \in Seq(Tokens) /\ y \in Seq(Tokens) /\ v = y \o x
    BY <1>2, <1>4
  <2> HIDE DEF v, w, x, y
  <2>3. /\ v \in Seq(Tokens) /\ Len(v) = Len(y) + Len(x) /\ \A i \in 1..Len(y) : v[i] = y[i]
        /\ \A i \in 1..Len(x) : v[Len(y) + i] = x[i]
    BY <2>1, Concatenated
  <2>2. /\ v \in Seq(Tokens) /\ Len(v) = Len(u) + Len(o) /\ \A i \in 1..Len(u) : v[i] = u[i]
        /\ \A i \in 1..Len(o) : v[Len(u) + i] = o[i]
    BY <2>3 DEF x, y
  <2> QED BY <1>2, <2>2 DEF v
<1> HIDE DEF w
<1> DEFINE n == Len(s)
<1>6. n \in Nat /\ 1 \in 1..1 /\ 1 + n + 1 = n + 2 /\ 1 \in 1..1 + n
      /\ \A i \in 1..n : 1 + i \in 1..1 + n /\ 1 + i = i + 1
  OBVIOUS
<1> HIDE DEF n
<1>7. Len(u) = 1 + n /\ Len(w) = n + 2 /\ w[1] = t
  <2>1. Len(u) = 1 + n
    BY <1>4 DEF n
  <2>2. Len(w) = n + 2
    BY <1>5, <1>6, <2>1
  <2> QED BY <1>2, <1>4, <1>5, <1>6, <2>1, <2>2
<1>8. w[n + 2] = t
  BY <1>2, <1>5, <1>6, <1>7
<1>9. \A i \in 1..n : w[i + 1] = s[i]
  BY <1>4, <1>5, <1>6, <1>7 DEF n
<1> QED BY <1>3, <1>5, <1>7, <1>8, <1>9 DEF n, t

\* How much of an answer's text is there without its fence.
Bare(a) ==
  IF ~a.fenced THEN a.cut
  ELSE IF a.cut = 0 THEN 0
  ELSE IF a.cut = Length(Len(a.list)) + 2 THEN a.cut - 2 ELSE a.cut - 1

LEMMA Stripped ==
  ASSUME NEW a, GoodReply(a)
  PROVE  /\ Bare(a) \in 0..Length(Len(a.list))
         /\ StripFence(Raw(a)) = SubSeq(ArrayText(a.list), 1, Bare(a))
<1> DEFINE list == a.list
           A == ArrayText(list)
           L == Length(Len(list))
           F == Fence(A)
           c == a.cut
           raw == Raw(a)
<1>1. /\ list \in Seq(Entries) /\ c \in Nat /\ a.fenced \in BOOLEAN
      /\ c <= Len(A) + (IF a.fenced THEN 2 ELSE 0)
  BY DEF GoodReply
<1>2. /\ A \in Seq(Tokens) /\ Len(A) = L /\ L \in Nat /\ A[1] = "lbracket"
      /\ \A i \in 1..L : A[i] # "fence"
  <2> HIDE DEF list
  <2>1. A \in Seq(Tokens) /\ Len(A) = L /\ A[1] = "lbracket"
    BY <1>1, ArrayTextIs
  <2>2. L \in Nat
    BY <1>1 DEF Length
  <2> QED BY <1>1, <2>1, <2>2, NoFence
<1>3. /\ F \in Seq(Tokens) /\ Len(F) = L + 2 /\ F[1] = "fence" /\ F[L + 2] = "fence"
      /\ \A i \in 1..L : F[i + 1] = A[i]
  <2> HIDE DEF A, L
  <2> QED BY <1>2, FenceIs
<1>4. raw = IF a.fenced THEN SubSeq(F, 1, c) ELSE SubSeq(A, 1, c)
  BY DEF Raw
<1>5. Bare(a) = IF ~a.fenced THEN c ELSE IF c = 0 THEN 0 ELSE IF c = L + 2 THEN c - 2 ELSE c - 1
  BY DEF Bare
<1> HIDE DEF list, A, L, F, c, raw
<1>6. StripFence(raw) =
        IF raw = <<>> \/ Head(raw) # "fence" THEN raw
        ELSE IF Tail(raw) # <<>> /\ Last(Tail(raw)) = "fence" THEN Front(Tail(raw)) ELSE Tail(raw)
  BY DEF StripFence
<1>7. CASE ~a.fenced
  <2>1. c \in 0..L /\ raw = SubSeq(A, 1, c) /\ Bare(a) = c
    BY <1>1, <1>2, <1>4, <1>5, <1>7
  <2>2. raw \in Seq(Tokens) /\ Len(raw) = c /\ \A i \in 1..c : raw[i] = A[i]
    BY <1>2, <2>1, PrefixIs
  <2>3. raw = <<>> \/ Head(raw) # "fence"
    <3>1. CASE c = 0
      BY <2>2, <3>1
    <3>2. CASE c # 0
      <4>1. 1 \in 1..c /\ Head(raw) = raw[1]
        BY <2>1, <2>2, <3>2
      <4> QED BY <1>2, <2>2, <4>1
    <3> QED BY <3>1, <3>2
  <2> QED BY <1>6, <2>1, <2>3 DEF raw, list, A, L
<1>8. CASE a.fenced /\ c = 0
  <2>1. 0 \in 0..L /\ 0 \in 0..Len(A) /\ 0 \in 0..Len(F) /\ raw = SubSeq(F, 1, 0) /\ Bare(a) = 0
    BY <1>2, <1>3, <1>4, <1>5, <1>8
  <2>2. raw \in Seq(Tokens) /\ Len(raw) = 0
    BY <1>3, <2>1, PrefixIs
  <2>3. SubSeq(A, 1, 0) \in Seq(Tokens) /\ Len(SubSeq(A, 1, 0)) = 0
    BY <1>2, <2>1, PrefixIs
  <2>4. raw = <<>> /\ SubSeq(A, 1, 0) = <<>>
    BY <2>2, <2>3
  <2> QED BY <1>6, <2>1, <2>4 DEF raw, list, A, L
<1>9. CASE a.fenced /\ c # 0
  <2> DEFINE e == c - 1
             rest == Tail(raw)
             d == IF e = L + 1 THEN L ELSE e
             p == SubSeq(A, 1, d)
  <2>1. /\ e \in 0..L + 1 /\ c = e + 1 /\ e \in Nat /\ c \in 0..L + 2 /\ raw = SubSeq(F, 1, c)
        /\ Bare(a) = d /\ d \in 0..L
    BY <1>1, <1>2, <1>4, <1>5, <1>9
  <2>2. raw \in Seq(Tokens) /\ Len(raw) = e + 1 /\ \A i \in 1..e + 1 : raw[i] = F[i]
    <3>1. c \in 0..Len(F)
      BY <1>3, <2>1
    <3>2. raw \in Seq(Tokens) /\ Len(raw) = c /\ \A i \in 1..c : raw[i] = F[i]
      BY <1>3, <2>1, <3>1, PrefixIs
    <3> QED BY <2>1, <3>2
  <2>3. p \in Seq(Tokens) /\ Len(p) = d /\ \A i \in 1..d : p[i] = A[i]
    <3>1. d \in 0..Len(A)
      BY <1>2, <2>1
    <3> HIDE DEF d
    <3> QED BY <1>2, <3>1, PrefixIs
  <2> HIDE DEF e
  <2>4. raw # <<>> /\ Head(raw) = "fence"
    <3>1. 1 \in 1..e + 1 /\ Len(raw) # 0 /\ Head(raw) = raw[1]
      BY <2>1, <2>2
    <3> QED BY <1>3, <2>2, <3>1
  <2>5. rest \in Seq(Tokens) /\ Len(rest) = e /\ \A i \in 1..e : rest[i] = F[i + 1]
    <3>1. rest \in Seq(Tokens) /\ Len(rest) = e
      BY <2>1, <2>2, <2>4
    <3>2. \A i \in 1..e : rest[i] = raw[i + 1] /\ i + 1 \in 1..e + 1
      BY <2>1, <2>2, <2>4
    <3> QED BY <2>2, <3>1, <3>2
  <2>6. StripFence(raw) = IF rest # <<>> /\ Last(rest) = "fence" THEN Front(rest) ELSE rest
    BY <1>6, <2>4
  <2> HIDE DEF rest, p
  <2>7. CASE e = L + 1
    <3>1. rest # <<>> /\ d = L
      BY <1>2, <2>1, <2>5, <2>7
    <3>2. /\ Len(rest) \in 1..Len(rest) /\ Last(rest) = rest[Len(rest)]
          /\ Front(rest) \in Seq(Tokens) /\ Len(Front(rest)) = Len(rest) - 1
          /\ Front(rest) = [k \in 1..Len(rest) - 1 |-> rest[k]]
      BY <2>5, <3>1, Ends
    <3>3. Last(rest) = "fence"
      <4>1. e \in 1..e /\ e + 1 = L + 2
        BY <1>2, <2>7
      <4> QED BY <1>3, <2>5, <3>2, <4>1
    <3>4. Len(rest) - 1 = L /\ \A k \in 1..L : k \in 1..e
      BY <1>2, <2>5, <2>7
    <3>5. Front(rest) = p
      <4> HIDE DEF d
      <4>5. \A k \in 1..L : p[k] = A[k]
        BY <2>3, <3>1
      <4>6. \A k \in 1..L : rest[k] = A[k]
        BY <1>3, <2>5, <3>4
      <4>7. \A k \in 1..L : Front(rest)[k] = rest[k]
        BY <3>2, <3>4
      <4>1. \A k \in 1..L : Front(rest)[k] = p[k]
        BY <4>5, <4>6, <4>7
      <4> DEFINE fr == Front(rest)
      <4>2. fr \in Seq(Tokens) /\ Len(fr) = L /\ Len(p) = L /\ \A k \in 1..L : fr[k] = p[k]
        BY <2>3, <3>1, <3>2, <3>4, <4>1
      <4> HIDE DEF fr
      <4>3. fr = p
        BY <1>2, <2>3, <4>2
      <4> QED BY <4>3 DEF fr
    <3> QED BY <2>1, <2>6, <3>1, <3>3, <3>5 DEF p, raw, list, A, L
  <2>8. CASE e # L + 1
    <3>1. d = e /\ e <= L
      BY <1>2, <2>1, <2>8
    <3>2. rest = p
      <4>1. \A k \in 1..e : k \in 1..L /\ rest[k] = p[k]
        BY <1>2, <1>3, <2>1, <2>3, <2>5, <3>1
      <4> QED BY <2>3, <2>5, <3>1, <4>1, SMTT(30)
    <3>3. ~(rest # <<>> /\ Last(rest) = "fence")
      <4> SUFFICES ASSUME rest # <<>> PROVE Last(rest) # "fence"
        OBVIOUS
      <4>1. Len(rest) \in 1..Len(rest) /\ Last(rest) = rest[Len(rest)]
        BY <2>5, Ends
      <4>2. e \in 1..L /\ rest[e] = A[e]
        BY <1>2, <1>3, <2>1, <2>5, <3>1, <4>1
      <4> QED BY <1>2, <2>5, <4>1, <4>2
    <3> QED BY <2>1, <2>6, <3>2, <3>3 DEF p, raw, list, A, L
  <2> QED BY <2>7, <2>8
<1> QED BY <1>1, <1>7, <1>8, <1>9

\* An answer that came whole is read as its list, one that was cut as the
\* entries that came whole, and as nothing when none did.
LEMMA ReadAnswerIs ==
  ASSUME NEW a, GoodReply(a), NEW m \in Nat, 12 * m <= Bare(a), Bare(a) < 12 * m + 12
  PROVE  ReadAnswer(Raw(a)) =
           IF Bare(a) = Length(Len(a.list)) THEN {a.list}
           ELSE IF m = 0 THEN {} ELSE {SubSeq(a.list, 1, m)}
<1> DEFINE list == a.list
           d == Bare(a)
           L == Length(Len(list))
           text == StripFence(Raw(a))
<1>1. list \in Seq(Entries) /\ L \in Nat
  BY DEF GoodReply, Length
<1>2. d \in 0..L /\ text = SubSeq(ArrayText(list), 1, d)
  BY Stripped
<1>3. ReadAnswer(Raw(a)) = IF Reads(text) # {} THEN Reads(text) ELSE Salvage(text)
  BY DEF ReadAnswer
<1>4. 12 * m <= d /\ d < 12 * m + 12
  OBVIOUS
<1> HIDE DEF list, d, text
<1>5. CASE d = L
  <2>1. text = ArrayText(list)
    <3> DEFINE A == ArrayText(list)
               p == SubSeq(A, 1, d)
    <3>1. A \in Seq(Tokens) /\ Len(A) = d /\ d \in 0..Len(A)
      BY <1>1, <1>2, <1>5, ArrayTextIs
    <3> HIDE DEF A
    <3>2. p \in Seq(Tokens) /\ Len(p) = d /\ \A i \in 1..d : p[i] = A[i]
      BY <3>1, PrefixIs
    <3> HIDE DEF p
    <3>3. p = A
      BY <3>1, <3>2
    <3> QED BY <1>2, <3>3 DEF p, A
  <2>2. Reads(text) = {list}
    BY <1>1, <2>1, ReadsWhole
  <2> QED BY <1>3, <1>5, <2>2 DEF list, d
<1>6. CASE d # L
  <2>1. d \in 0..L - 1
    BY <1>1, <1>2, <1>6
  <2>2. Reads(text) = {}
    BY <1>1, <1>2, <2>1, ReadsNothing
  <2>3. Salvage(text) = IF m = 0 THEN {} ELSE {SubSeq(list, 1, m)}
    BY <1>1, <1>2, <1>4, <2>1, SalvageIs
  <2> QED BY <1>3, <1>6, <2>2, <2>3 DEF list, d
<1> QED BY <1>5, <1>6


-----------------------------------------------------------------------------
(* Answers: what whole entries survive *)

\* How far the array's text has to come, which entries came whole, and the list
\* of them, as WholeEntriesSurvive says it.
Open(a) == IF a.fenced THEN 2 ELSE 1
Came(a) ==
  {n \in 1..Len(a.list) :
     Open(a) - 1 + n * (Len(Text(CHOOSE e \in Entries : TRUE)) + 1) <= a.cut}
Kept(a) == SubSeq(a.list, 1, Cardinality(Came(a)))

LEMMA CameIs ==
  ASSUME NEW a, GoodReply(a)
  PROVE  \E m \in 0..Len(a.list) :
           /\ 12 * m <= Bare(a) /\ Bare(a) < 12 * m + 12 /\ Came(a) = 1..m
           /\ Bare(a) = Length(Len(a.list)) => m = Len(a.list)
<1> DEFINE N == Len(a.list)
           d == Bare(a)
           c == a.cut
           o == Open(a)
<1>1. a.list \in Seq(Entries) /\ N \in Nat /\ c \in Nat /\ a.fenced \in BOOLEAN
  BY DEF GoodReply
<1>2. d \in 0..Length(N)
  BY Stripped
<1>3. c <= Length(N) + (IF a.fenced THEN 2 ELSE 0)
  BY <1>1, ArrayTextIs DEF GoodReply
<1>4. Came(a) = {n \in 1..N : o - 1 + n * 12 <= c}
  <2> DEFINE l == Len(Text(CHOOSE e \in Entries : TRUE))
  <2>1. l = 11
    BY TextIs
  <2>3. Came(a) = {n \in 1..N : o - 1 + n * (l + 1) <= c}
    BY DEF Came
  <2> HIDE DEF l
  <2>2. l + 1 = 12
    BY <2>1
  <2> QED BY <2>2, <2>3
<1>5. o = IF a.fenced THEN 2 ELSE 1
  BY DEF Open
<1>6. /\ Length(N) \in Nat /\ 12 * N <= Length(N) /\ Length(N) < 12 * N + 12
      /\ \A n \in 1..N : 12 * n <= Length(N)
  BY <1>1 DEF Length
<1>7. ASSUME NEW n \in 1..N PROVE o - 1 + n * 12 <= c <=> 12 * n <= d
  <2>1. CASE ~a.fenced
    <3>1. d = c
      BY <2>1 DEF Bare
    <3> HIDE DEF d, c, o, N
    <3> QED BY <1>1, <1>5, <2>1, <3>1
  <2>2. CASE a.fenced
    <3>1. d = IF c = 0 THEN 0 ELSE IF c = Length(N) + 2 THEN c - 2 ELSE c - 1
      BY <2>2 DEF Bare
    <3>2. 12 * n <= Length(N) /\ o = 2 /\ n \in Int /\ 1 <= n
      BY <1>5, <1>6, <2>2
    <3> HIDE DEF d, c, o, N
    <3>3. CASE c = 0
      BY <3>1, <3>2, <3>3
    <3>4. CASE c = Length(N) + 2
      BY <1>6, <3>1, <3>2, <3>4
    <3>5. CASE c # 0 /\ c # Length(N) + 2
      BY <1>1, <3>1, <3>2, <3>5
    <3> QED BY <3>3, <3>4, <3>5
  <2> QED BY <1>1, <2>1, <2>2
<1> HIDE DEF d, c, o
<1>8. PICK k \in Nat \ {0}, q \in 0..11 : d + 1 = Pos(k, q)
  <2>1. d + 1 \in Nat \ {0}
    BY <1>2, <1>6
  <2> QED BY <2>1, Twelves
<1> DEFINE m == k - 1
<1>9. m \in Nat /\ 12 * m <= d /\ d < 12 * m + 12
  BY <1>2, <1>6, <1>8 DEF Pos
<1>10. m <= N
  <2>1. 12 * m < 12 * N + 12
    BY <1>2, <1>6, <1>9
  <2> QED BY <1>1, <1>9, <2>1
<1>11. Came(a) = 1..m
  <2>1. ASSUME NEW n \in 1..N PROVE 12 * n <= d <=> n \in 1..m
    <3> HIDE DEF m
    <3>1. d \in Int
      BY <1>2, <1>6
    <3>2. CASE n <= m
      BY <1>9, <3>1, <3>2
    <3>3. CASE n > m
      <4>1. 12 * m + 12 <= 12 * n
        BY <1>9, <3>3
      <4> QED BY <1>9, <3>1, <3>3, <4>1
    <3> QED BY <1>9, <3>2, <3>3
  <2> HIDE DEF m
  <2>2. \A n \in 1..m : n \in 1..N
    BY <1>1, <1>9, <1>10
  <2>3. Came(a) = {n \in 1..N : 12 * n <= d}
    BY <1>4, <1>7
  <2>4. Came(a) = {n \in 1..N : n \in 1..m}
    <3> HIDE DEF N
    <3> QED BY <2>1, <2>3
  <2> HIDE DEF N
  <2> QED BY <2>2, <2>4
<1>12. d = Length(N) => m = N
  <2> SUFFICES ASSUME d = Length(N) PROVE m = N
    OBVIOUS
  <2> HIDE DEF m
  <2>1. 12 * N < 12 * m + 12
    BY <1>1, <1>6, <1>9
  <2> QED BY <1>1, <1>9, <1>10, <2>1
<1> QED BY <1>9, <1>10, <1>11, <1>12 DEF d

LEMMA Survive ==
  ASSUME NEW a, GoodReply(a)
  PROVE  /\ Kept(a) \in Seq(Entries)
         /\ ReadAnswer(Raw(a)) =
              IF Came(a) # {} \/ (a.list = <<>> /\ a.cut > Open(a)) THEN {Kept(a)} ELSE {}
<1> DEFINE list == a.list
           N == Len(list)
           d == Bare(a)
           c == a.cut
<1>1. list \in Seq(Entries) /\ N \in Nat /\ c \in Nat /\ a.fenced \in BOOLEAN
  BY DEF GoodReply
<1>2. PICK m \in 0..N : /\ 12 * m <= d /\ d < 12 * m + 12 /\ Came(a) = 1..m
                        /\ d = Length(N) => m = N
  BY CameIs
<1>3. m \in Nat /\ d \in 0..Length(N) /\ Length(N) \in Nat
  BY <1>1, Stripped DEF Length
<1>4. ReadAnswer(Raw(a)) =
        IF d = Length(N) THEN {list} ELSE IF m = 0 THEN {} ELSE {SubSeq(list, 1, m)}
  BY <1>2, <1>3, ReadAnswerIs
<1>5. Cardinality(Came(a)) = m
  BY <1>2, <1>3, FirstPlaces
<1>6. Kept(a) = SubSeq(list, 1, m)
  BY <1>5 DEF Kept
<1>7. N = 0 => (d = Length(N) <=> c > Open(a))
  <2> SUFFICES ASSUME N = 0 PROVE d = Length(N) <=> c > Open(a)
    OBVIOUS
  <2>1. Length(N) = 2
    BY DEF Length
  <2>2. c <= 2 + (IF a.fenced THEN 2 ELSE 0)
    BY <1>1, <2>1, ArrayTextIs DEF GoodReply
  <2>3. d = IF ~a.fenced THEN c ELSE IF c = 0 THEN 0 ELSE IF c = 4 THEN c - 2 ELSE c - 1
    BY <2>1 DEF Bare
  <2> HIDE DEF d, c, N
  <2>4. CASE ~a.fenced
    BY <1>1, <2>1, <2>2, <2>3, <2>4 DEF Open
  <2>5. CASE a.fenced
    <3>1. c \in {0, 1, 2, 3, 4} /\ Open(a) = 2
      BY <1>1, <2>2, <2>5 DEF Open
    <3> QED BY <2>1, <2>3, <2>5, <3>1
  <2> QED BY <2>4, <2>5
<1>8. Came(a) # {} <=> m # 0
  <2>1. m # 0 => 1 \in 1..m
    BY <1>3
  <2>2. m = 0 => 1..m = {}
    OBVIOUS
  <2> QED BY <1>2, <2>1, <2>2
<1>9. SubSeq(list, 1, m) \in Seq(Entries) /\ (m = N => SubSeq(list, 1, m) = list)
  <2> DEFINE p == SubSeq(list, 1, m)
  <2> HIDE DEF list
  <2>1. p \in Seq(Entries) /\ Len(p) = m /\ \A i \in 1..m : p[i] = list[i]
    BY <1>1, <1>2, PrefixIs
  <2> HIDE DEF p
  <2>2. m = N => p = list
    BY <1>1, <2>1
  <2> QED BY <2>1, <2>2 DEF p
<1>10. list = <<>> <=> N = 0
  BY <1>1
<1> HIDE DEF list, N, d, c
<1>11. CASE d = Length(N)
  <2>1. m = N /\ SubSeq(list, 1, m) = list
    BY <1>2, <1>9, <1>11
  <2>2. Came(a) # {} \/ (list = <<>> /\ c > Open(a))
    BY <1>7, <1>8, <1>10, <1>11, <2>1
  <2> QED BY <1>4, <1>6, <1>9, <1>11, <2>1, <2>2 DEF list, c
<1>12. CASE d # Length(N)
  <2>1. ~(list = <<>> /\ c > Open(a))
    BY <1>7, <1>10, <1>12
  <2> QED BY <1>4, <1>6, <1>8, <1>9, <1>12, <2>1 DEF list, c
<1> QED BY <1>11, <1>12


\* An entry with the citations of clusters there are.
Shown(e, n) == {k \in DOMAIN Proposal[e].cites : Proposal[e].cites[k] \in 0..n - 1}
Rested(e, n) == [Proposal[e] EXCEPT !.cites = Picked(@, Shown(e, n))]

LEMMA RestedIs ==
  ASSUME NEW e \in Entries, NEW n \in Nat
  PROVE  Rested(e, n) \in Rows /\ ToSet(Rested(e, n).cites) \subseteq 0..n - 1
<1> DEFINE p == Proposal[e]
           at == Shown(e, n)
           cites == Picked(p.cites, at)
           r == Rested(e, n)
<1>1. /\ p \in [valid : BOOLEAN, name : SUBSET STRING, further : SUBSET STRING,
                tier : STRING, frequency : Int, minutes : Int,
                complexity : STRING, confidence : Int, cites : Seq(Int)]
      /\ IsFiniteSet(p.name) /\ IsFiniteSet(p.further)
  BY ProposalAssumption
<1>2. r = [p EXCEPT !.cites = cites]
  BY DEF Rested
<1>3. at = {k \in DOMAIN p.cites : p.cites[k] \in 0..n - 1}
  BY DEF Shown
<1> HIDE DEF p, at, r
<1>4. p.cites \in Seq(Int) /\ at \in SUBSET DOMAIN p.cites
  BY <1>1, <1>3
<1>5. /\ cites \in Seq(Int) /\ Len(cites) = Cardinality(at) /\ Cardinality(at) \in Nat
      /\ Places(at) \in [1..Cardinality(at) -> at]
      /\ \A k \in 1..Cardinality(at) : cites[k] = p.cites[Places(at)[k]]
  <2> DEFINE s == p.cites
  <2>1. s \in Seq(Int) /\ at \in SUBSET DOMAIN s
    BY <1>4
  <2> HIDE DEF s
  <2>2. /\ Picked(s, at) \in Seq(Int) /\ Len(Picked(s, at)) = Cardinality(at)
        /\ Cardinality(at) \in Nat /\ Places(at) \in [1..Cardinality(at) -> at]
        /\ \A k \in 1..Cardinality(at) : Picked(s, at)[k] = s[Places(at)[k]]
    BY <2>1, PickedOrder
  <2> QED BY <2>2 DEF s
<1> HIDE DEF cites
<1>6. \A k \in 1..Cardinality(at) : cites[k] \in 0..n - 1
  BY <1>3, <1>5
<1>7. r \in [valid : BOOLEAN, name : SUBSET STRING, further : SUBSET STRING,
             tier : STRING, frequency : Int, minutes : Int,
             complexity : STRING, confidence : Int, cites : Seq(Int)]
  BY <1>1, <1>2, <1>5
<1>8. r.cites = cites /\ r.name = p.name /\ r.further = p.further
  BY <1>1, <1>2
<1>9. ToSet(cites) \subseteq 0..n - 1
  <2>1. DOMAIN cites = 1..Cardinality(at)
    BY <1>5
  <2> QED BY <1>6, <2>1 DEF ToSet
<1>10. r \in Rows
  BY <1>1, <1>7, <1>8 DEF Rows
<1> QED BY <1>8, <1>9, <1>10 DEF r

\* What rests of a list cites clusters the model was shown, at least one each.
LEMMA RestingIs ==
  ASSUME NEW list \in Seq(Entries), NEW n \in Nat
  PROVE  /\ Resting(list, n) \in Seq(Rows)
         /\ \A i \in DOMAIN Resting(list, n) :
              /\ Resting(list, n)[i].cites # <<>>
              /\ ToSet(Resting(list, n)[i].cites) \subseteq 0..n - 1
<1> DEFINE rests == [i \in DOMAIN list |-> Rested(list[i], n)]
           at == {i \in DOMAIN rests : rests[i].valid /\ rests[i].cites # <<>>}
           w == Picked(rests, at)
<1>1. Resting(list, n) = w
  BY DEF Resting, Rested, Shown
<1>2. /\ rests \in Seq(Rows) /\ DOMAIN rests = DOMAIN list
      /\ \A i \in DOMAIN rests : ToSet(rests[i].cites) \subseteq 0..n - 1
  <2>1. \A i \in 1..Len(list) : list[i] \in Entries
    OBVIOUS
  <2>2. \A i \in 1..Len(list) : /\ Rested(list[i], n) \in Rows
                               /\ ToSet(Rested(list[i], n).cites) \subseteq 0..n - 1
    BY <2>1, RestedIs
  <2>3. rests \in [1..Len(list) -> Rows] /\ DOMAIN list = 1..Len(list) /\ Len(list) \in Nat
    BY <2>2
  <2>4. rests \in Seq(Rows)
    <3> HIDE DEF rests
    <3> QED BY <2>3, Listed
  <2> QED BY <2>2, <2>3, <2>4
<1> HIDE DEF rests
<1>3. at \in SUBSET DOMAIN rests /\ \A i \in at : rests[i].cites # <<>>
  OBVIOUS
<1> HIDE DEF at
<1>4. /\ w \in Seq(Rows) /\ Len(w) = Cardinality(at) /\ Cardinality(at) \in Nat
      /\ Places(at) \in [1..Cardinality(at) -> at]
      /\ \A k \in 1..Cardinality(at) : w[k] = rests[Places(at)[k]]
  BY <1>2, <1>3, PickedOrder
<1> HIDE DEF w
<1>5. DOMAIN w = 1..Cardinality(at)
  BY <1>4
<1>6. ASSUME NEW i \in DOMAIN w
      PROVE  w[i].cites # <<>> /\ ToSet(w[i].cites) \subseteq 0..n - 1
  <2>1. Places(at)[i] \in at /\ w[i] = rests[Places(at)[i]]
    BY <1>4, <1>5
  <2> QED BY <1>2, <1>3, <2>1
<1> QED BY <1>1, <1>4, <1>6


\* An answer the model gave is the text of a list, as far as it came.
AnswerInv ==
  /\ run \in 0..MaxRuns /\ summaries \in Nat
  /\ stage # "idle" => run \in 1..MaxRuns
  /\ stage = "parse" => GoodReply(answer)

\* WholeEntriesSurvive of one step.
Survives ==
  stage = "parse" /\ stage' # "parse" =>
    LET open == IF answer.fenced THEN 2 ELSE 1
        width == Len(Text(CHOOSE e \in Entries : TRUE)) + 1
        whole == {n \in 1..Len(answer.list) : open - 1 + n * width <= answer.cut}
        kept == SubSeq(answer.list, 1, Cardinality(whole))
    IN  IF whole # {} \/ (answer.list = <<>> /\ answer.cut > open)
        THEN /\ stage' = "rank" /\ recs' = Resting(kept, summaries)
             /\ \A i \in DOMAIN recs' :
                  recs'[i].cites # <<>> /\ ToSet(recs'[i].cites) \subseteq 0..summaries - 1
        ELSE stage' = "idle"
LEMMA ParsedWhole ==
  ASSUME AnswerInv, [Next]_vars
  PROVE  Survives
<1> DEFINE come == Came(answer) # {} \/ (answer.list = <<>> /\ answer.cut > Open(answer))
<1> SUFFICES ASSUME stage = "parse", stage' # "parse"
             PROVE  IF come
                    THEN /\ stage' = "rank" /\ recs' = Resting(Kept(answer), summaries)
                         /\ \A i \in DOMAIN recs' :
                              /\ recs'[i].cites # <<>>
                              /\ ToSet(recs'[i].cites) \subseteq 0..summaries - 1
                    ELSE stage' = "idle"
  BY DEF Survives, Came, Kept, Open
<1>1. GoodReply(answer) /\ summaries \in Nat
  BY DEF AnswerInv
<1>2. Kept(answer) \in Seq(Entries) /\ ReadAnswer(Raw(answer)) = IF come THEN {Kept(answer)} ELSE {}
  BY <1>1, Survive
<1>3. Parse \/ ParseFails
  BY DEF Next, vars, Begin, Summarise, SummaryFails, Compose, Answered, SynthesisFails, Deliver,
         TiersUnreadable, Dispose
<1> HIDE DEF come
<1>4. CASE Parse
  <2>1. come /\ recs' = Resting(Kept(answer), summaries) /\ stage' = "rank"
    BY <1>2, <1>4 DEF Parse
  <2>2. \A i \in DOMAIN recs' :
          recs'[i].cites # <<>> /\ ToSet(recs'[i].cites) \subseteq 0..summaries - 1
    BY <1>1, <1>2, <2>1, RestingIs
  <2> QED BY <2>1, <2>2
<1>5. CASE ParseFails
  <2>1. ~come /\ stage' = "idle"
    BY <1>2, <1>5 DEF ParseFails, Return
  <2> QED BY <2>1
<1> QED BY <1>3, <1>4, <1>5

LEMMA AnswerInitially == Init => AnswerInv
BY DaysAssumption DEF Init, AnswerInv

LEMMA AnswerInductive == AnswerInv /\ SpendInv /\ SpendInv' /\ [Next]_vars => AnswerInv'
<1> SUFFICES ASSUME AnswerInv, SpendInv, SpendInv', [Next]_vars PROVE AnswerInv'
  OBVIOUS
<1>1. run' \in 0..MaxRuns /\ summaries' \in Nat
  BY DEF SpendInv
<1>2. CASE Begin
  <2>1. stage' = "summarise" /\ run' \in 1..MaxRuns
    BY <1>2, DaysAssumption DEF Begin, AnswerInv
  <2> QED BY <1>1, <2>1 DEF AnswerInv
<1>3. CASE Summarise
  BY <1>1, <1>3 DEF Summarise, AnswerInv
<1>4. CASE Return
  BY <1>1, <1>4 DEF Return, AnswerInv
<1>5. CASE Compose
  BY <1>1, <1>5 DEF Compose, AnswerInv
<1>6. CASE Answered
  <2>1. GoodReply(answer') /\ run' = run
    BY <1>6, RepliesAssumption DEF Answered, AnswerInv
  <2> QED BY <1>1, <1>6, <2>1 DEF Answered, AnswerInv
<1>7. CASE Parse
  BY <1>1, <1>7 DEF Parse, AnswerInv
<1>8. ASSUME NEW i, NEW v, Dispose(i, v) PROVE AnswerInv'
  BY <1>1, <1>8 DEF Dispose, local, AnswerInv, GoodReply
<1>9. CASE UNCHANGED vars
  BY <1>1, <1>9 DEF vars, AnswerInv, GoodReply
<1> QED BY <1>2, <1>3, <1>4, <1>5, <1>6, <1>7, <1>8, <1>9
    DEF Next, SummaryFails, SynthesisFails, ParseFails, Deliver, TiersUnreadable

\* However far any answer came, what came whole is read, and cites clusters the
\* model was shown (parse_recommendations, salvage_truncated_array).
THEOREM AnswersCorrect == Spec => WholeEntriesSurvive
<1>1. AnswerInv /\ [Next]_vars => [Survives]_vars
  BY ParsedWhole
<1> QED BY <1>1, SpendInitially, SpendInductive, AnswerInitially, AnswerInductive, PTL
    DEF Spec, WholeEntriesSurvive, Survives


-----------------------------------------------------------------------------
(* What is saved, and what the user said of it *)

LEMMA DedupIs ==
  ASSUME NEW list \in Seq(Rows), NEW old
  PROVE  /\ Dedup(list, old) \in Seq(Rows)
         /\ \A k \in 1..Len(Dedup(list, old)), p \in old :
              p.verdict \in Final =>
                ~Similar(Dedup(list, old)[k].name \union Dedup(list, old)[k].further, p.name)
<1> DEFINE New(r) == \A p \in old : ~(p.verdict \in Final /\ Similar(r.name \union r.further, p.name))
           at == {i \in DOMAIN list : New(list[i])}
           w == Picked(list, at)
<1>1. Dedup(list, old) = w
  BY DEF Dedup
<1>2. at \in SUBSET DOMAIN list
  OBVIOUS
<1> HIDE DEF at
<1>3. /\ w \in Seq(Rows) /\ Len(w) = Cardinality(at) /\ Cardinality(at) \in Nat
      /\ Places(at) \in [1..Cardinality(at) -> at]
      /\ \A k \in 1..Cardinality(at) : w[k] = list[Places(at)[k]]
  BY <1>2, PickedOrder
<1> HIDE DEF w
<1>4. ASSUME NEW k \in 1..Len(w) PROVE New(w[k])
  <2>1. Places(at)[k] \in at /\ w[k] = list[Places(at)[k]]
    BY <1>3
  <2>2. \A i \in at : New(list[i])
    BY DEF at
  <2> HIDE DEF New
  <2> QED BY <2>1, <2>2
<1> QED BY <1>1, <1>3, <1>4

\* A text is unlike a name it holds only if it has half as many words again.
LEMMA Unlike ==
  ASSUME NEW a, NEW b, IsFiniteSet(a), IsFiniteSet(b), a # {}, ~Similar(a \union b, a)
  PROVE  2 * Cardinality(b \ a) > 3 * Cardinality(a)
<1> DEFINE x == Cardinality(a)
           y == Cardinality(b \ a)
           u == Cardinality(a \union b)
<1>1. IsFiniteSet(b \ a) /\ a \intersect (b \ a) = {} /\ a \union (b \ a) = a \union b
  BY FS_Difference
<1>2. x \in Nat /\ y \in Nat /\ u = x + y
  <2>1. Cardinality({}) = 0
    BY FS_EmptySet
  <2>2. x \in Nat /\ y \in Nat
    BY <1>1, FS_CardinalityType
  <2>3. u = x + y - 0
    BY <1>1, <2>1, FS_Union
  <2> QED BY <2>2, <2>3
<1>3. (a \union b) \intersect a = a /\ (a \union b) \union a = a \union b /\ a \union b # {}
  OBVIOUS
<1>4. ~(10 * x >= 4 * u)
  BY <1>3 DEF Similar
<1> HIDE DEF x, y, u
<1>5. 2 * y > 3 * x
  BY <1>2, <1>4
<1> QED BY <1>5 DEF x, y

\* Leaving out one place moves the others down by one at most.
LEMMA PlacesClose ==
  ASSUME NEW n \in Nat, NEW x, NEW at \in SUBSET (1..n), \A y \in 1..n : y # x => y \in at,
         NEW k \in 1..Cardinality(at)
  PROVE  Places(at)[k] <= k + 1
<1>1. IsFiniteSet(at) /\ Cardinality(at) \in Nat
  <2>1. IsFiniteSet(1..n)
    BY FS_Interval
  <2> QED BY <2>1, FS_Subset, FS_CardinalityType
<1>2. at \in SUBSET Int
  OBVIOUS
<1>3. Orders(Rising(at), at) /\ \A i, j \in at : <<i, j>> \in Rising(at) <=> i < j
  BY <1>2, RisingOrders
<1> DEFINE j == Places(at)[k]
           before == {y \in at : <<y, j>> \in Rising(at)}
           others == (1..j - 1) \ {x}
<1>4. j \in at /\ j \in 1..n /\ Cardinality(before) = k - 1
  <2>1. /\ Arranged(at, Rising(at)) \in [1..Cardinality(at) -> at]
        /\ Cardinality({y \in at : <<y, Arranged(at, Rising(at))[k]>> \in Rising(at)}) = k - 1
    BY <1>1, <1>3, ArrangedOrder
  <2> QED BY <2>1 DEF Places
<1> HIDE DEF j
<1>5. others \subseteq before
  <2>1. ASSUME NEW y \in others PROVE y \in before
    <3>1. y \in 1..n /\ y # x /\ y < j
      BY <1>4
    <3>2. y \in at
      BY <3>1
    <3> QED BY <1>3, <1>4, <3>1, <3>2
  <2> QED BY <2>1
<1>6. IsFiniteSet(before)
  <2>1. before \subseteq at
    OBVIOUS
  <2> QED BY <1>1, <2>1, FS_Subset
<1>7. Cardinality(others) \in Nat /\ Cardinality(others) >= j - 2
  <2>1. IsFiniteSet(1..j - 1) /\ Cardinality(1..j - 1) = j - 1
    <3>1. 1 \in Int /\ j - 1 \in Int /\ j >= 1
      BY <1>4
    <3>2. Cardinality(1..j - 1) = IF 1 > j - 1 THEN 0 ELSE j - 1 - 1 + 1
      BY <3>1, FS_Interval
    <3> QED BY <1>4, <3>1, <3>2, FS_Interval
  <2>2. Cardinality(others) = IF x \in 1..j - 1 THEN j - 1 - 1 ELSE j - 1
    BY <2>1, FS_RemoveElement
  <2>3. IsFiniteSet(others)
    BY <2>1, FS_Difference
  <2>4. Cardinality(others) \in Nat
    BY <2>3, FS_CardinalityType
  <2> HIDE DEF others
  <2> QED BY <1>4, <2>2, <2>4
<1>8. Cardinality(others) <= k - 1
  <2> HIDE DEF others, before
  <2>1. Cardinality(others) <= Cardinality(before)
    BY <1>5, <1>6, FS_Subset
  <2> QED BY <1>4, <2>1
<1> HIDE DEF others, before
<1>9. j <= k + 1
  BY <1>1, <1>4, <1>7, <1>8
<1> QED BY <1>9 DEF j


\* A verdict as the user's rows keep it, and rows no two of which are of one
\* recommendation.
Verdicts == [id : Nat \X Nat, name : SUBSET STRING, verdict : Actions, asof : Nat]
Apart(s) == \A i, j \in 1..Len(s) : s[i].id = s[j].id => i = j

\* w is s with a row in front, and without the others of its id.
Others(s, row, others) ==
  others \in SUBSET DOMAIN s /\ \A k \in DOMAIN s : k \in others <=> s[k].id # row.id
Fronted(s, row, w) ==
  \E others, o : /\ Others(s, row, others) /\ o \in Seq(Verdicts) /\ Len(o) = 1 /\ o[1] = row
                 /\ w = o \o Picked(s, others)

\* A row with a new verdict comes to the front, and the others keep their order.
Follow(w, s) == \A i \in 2..Len(w) : \E j \in 1..Len(s) : j <= i /\ w[i] = s[j]
LEMMA Moved ==
  ASSUME NEW s \in Seq(Verdicts), Apart(s), NEW row \in Verdicts, NEW w, Fronted(s, row, w)
  PROVE  /\ w \in Seq(Verdicts) /\ Len(w) >= 1 /\ w[1] = row /\ Apart(w)
         /\ Follow(w, s)
<1>0. PICK others, o : /\ Others(s, row, others) /\ o \in Seq(Verdicts) /\ Len(o) = 1 /\ o[1] = row
                       /\ w = o \o Picked(s, others)
  BY DEF Fronted
<1> DEFINE at == others
           v == Picked(s, at)
           n == Cardinality(at)
<1>1. Len(s) \in Nat /\ DOMAIN s = 1..Len(s)
  OBVIOUS
<1>2. at \in SUBSET DOMAIN s /\ \A k \in DOMAIN s : k \in at <=> s[k].id # row.id
  BY <1>0 DEF Others
<1>3. \E x : \A y \in 1..Len(s) : y # x => y \in at
  <2>1. CASE \E x \in 1..Len(s) : s[x].id = row.id
    <3>1. PICK x \in 1..Len(s) : s[x].id = row.id
      BY <2>1
    <3>2. \A y \in 1..Len(s) : y # x => y \in at
      BY <1>1, <1>2, <3>1 DEF Apart
    <3> QED BY <3>2
  <2>2. CASE ~\E x \in 1..Len(s) : s[x].id = row.id
    BY <1>1, <1>2, <2>2
  <2> QED BY <2>1, <2>2
<1>4. o \in Seq(Verdicts) /\ Len(o) = 1 /\ o[1] = row /\ w = o \o v
  BY <1>0
<1> HIDE DEF at, v, n
<1>5. /\ n \in Nat /\ v \in Seq(Verdicts) /\ Len(v) = n
      /\ Places(at) \in [1..n -> at]
      /\ \A j, k \in 1..n : j < k <=> Places(at)[j] < Places(at)[k]
      /\ \A k \in 1..n : v[k] = s[Places(at)[k]]
  BY <1>2, PickedOrder DEF v, n
<1>6. \A k \in 1..n : Places(at)[k] <= k + 1
  <2>1. at \in SUBSET (1..Len(s))
    BY <1>1, <1>2
  <2> QED BY <1>1, <1>3, <2>1, PlacesClose DEF n
<1>7. /\ w \in Seq(Verdicts) /\ Len(w) = 1 + n /\ w[1] = row
      /\ \A i \in 1..n : w[1 + i] = v[i]
  <2>1. /\ w \in Seq(Verdicts) /\ Len(w) = Len(o) + Len(v)
        /\ \A i \in 1..Len(o) : w[i] = o[i]
        /\ \A i \in 1..Len(v) : w[Len(o) + i] = v[i]
    <3> DEFINE x == o
               y == v
               z == w
    <3>1. x \in Seq(Verdicts) /\ y \in Seq(Verdicts) /\ z = x \o y
      BY <1>4, <1>5
    <3> HIDE DEF x, y, z
    <3>2. /\ z \in Seq(Verdicts) /\ Len(z) = Len(x) + Len(y)
          /\ \A i \in 1..Len(x) : z[i] = x[i]
          /\ \A i \in 1..Len(y) : z[Len(x) + i] = y[i]
      BY <3>1, Concatenated
    <3> QED BY <3>2 DEF x, y, z
  <2>2. Len(o) = 1 /\ o[1] = row /\ 1 \in 1..1 /\ Len(v) = n
    BY <1>4, <1>5
  <2> QED BY <2>1, <2>2
<1>8. ASSUME NEW i \in 2..Len(w)
      PROVE  /\ i - 1 \in 1..n /\ Places(at)[i - 1] \in at /\ w[i] = s[Places(at)[i - 1]]
             /\ Places(at)[i - 1] \in 1..Len(s) /\ Places(at)[i - 1] <= i
  <2>1. i - 1 \in 1..n /\ i = 1 + (i - 1) /\ (i - 1) + 1 = i
    BY <1>5, <1>7
  <2>2. w[i] = v[i - 1]
    BY <1>7, <2>1
  <2>3. Places(at)[i - 1] <= i
    BY <1>6, <2>1
  <2> QED BY <1>1, <1>2, <1>5, <2>1, <2>2, <2>3
<1>9. ASSUME NEW i \in 1..Len(w), NEW j \in 1..Len(w), i < j PROVE w[i].id # w[j].id
  <2>1. j \in 2..Len(w)
    BY <1>5, <1>7, <1>9
  <2>2. CASE i = 1
    BY <1>2, <1>7, <1>8, <2>1, <2>2
  <2>3. CASE i # 1
    <3>1. i \in 2..Len(w) /\ i - 1 < j - 1
      BY <1>5, <1>7, <1>9, <2>3
    <3> DEFINE p == Places(at)[i - 1]
               q == Places(at)[j - 1]
    <3>2. p < q
      BY <1>5, <1>8, <2>1, <3>1
    <3>3. w[i] = s[p] /\ w[j] = s[q] /\ p \in 1..Len(s) /\ q \in 1..Len(s)
      BY <1>8, <2>1, <3>1
    <3> HIDE DEF p, q
    <3>4. p # q
      BY <3>2, <3>3
    <3> QED BY <3>3, <3>4 DEF Apart
  <2> QED BY <2>2, <2>3
<1>10. Apart(w)
  <2>1. ASSUME NEW i \in 1..Len(w), NEW j \in 1..Len(w), i # j PROVE w[i].id # w[j].id
    <3>1. i < j \/ j < i
      BY <2>1
    <3> QED BY <1>9, <3>1
  <2> QED BY <2>1, Zenon DEF Apart
<1>11. Len(w) >= 1
  BY <1>5, <1>7
<1>12. Follow(w, s)
  BY <1>8 DEF Follow
<1> QED BY <1>7, <1>10, <1>11, <1>12

\* The rows are recommendations in the order of rank, the email was made of
\* them, and a run knows the newest verdicts of the runs before it.
Unsaid(p, r) == p.verdict \in Final => ~Similar(r.name \union r.further, p.name)
SavedInv ==
  /\ AnswerInv
  /\ recs \in Seq(Rows)
  /\ saved.run \in 0..run /\ saved.list \in Seq(Rows)
  /\ \A j, k \in 1..Len(saved.list) : j < k => ~Precedes(saved.list[k], saved.list[j])
  /\ email = Render(saved.list)
VerdictInv ==
  /\ verdicts \in Seq(Verdicts) /\ Apart(verdicts)
  /\ \A i \in 1..Len(verdicts) : i <= PriorLimit =>
       /\ (stage # "idle" /\ verdicts[i].asof < run) => verdicts[i] \in prior
       /\ verdicts[i].asof < saved.run =>
            \A k \in 1..Len(saved.list) : Unsaid(verdicts[i], saved.list[k])


\* Nothing saved yet is an email of nothing.
LEMMA RenderNothing == Render(<<>>) = [top |-> <<>>, rest |-> <<>>]
<1> DEFINE e == <<>>
<1>1. e \in Seq(Rows) /\ Len(e) = 0
  OBVIOUS
<1>2. \E v \in 0..Len(e) :
        /\ \A i \in 1..Len(e) : Suppressed(e[i]) <=> i > v
        /\ Render(e).top = SubSeq(e, 1, Min({TopCount, v}))
        /\ Render(e).rest = SubSeq(e, Min({TopCount, v}) + 1, v)
  <2> HIDE DEF e
  <2>1. \A j, k \in 1..Len(e) : j < k => ~Precedes(e[k], e[j])
    BY <1>1
  <2> QED BY <1>1, <2>1, RenderIs
<1>3. /\ Render(e).top = SubSeq(e, 1, Min({TopCount, 0}))
      /\ Render(e).rest = SubSeq(e, Min({TopCount, 0}) + 1, 0)
  <2> HIDE DEF e
  <2>1. \A v \in 0..Len(e) : v = 0
    BY <1>1
  <2> QED BY <1>2, <2>1
<1>4. Min({TopCount, 0}) = 0
  <2> DEFINE T == {TopCount, 0}
  <2>1. T \in SUBSET Nat /\ T # {} /\ 0 \in T /\ \A x \in T : x \in Nat
    BY TiersAssumption
  <2> HIDE DEF T
  <2>2. Min(T) \in T /\ \A x \in T : Min(T) <= x
    BY <2>1, MinIs
  <2>4. Min(T) \in Nat /\ Min(T) <= 0
    BY <2>1, <2>2
  <2>3. Min(T) = 0
    BY <2>4
  <2> QED BY <2>3 DEF T
<1>5. Render(e).top = e /\ Render(e).rest = e
  <2>1. SubSeq(<<>>, 1, 0) = <<>>
    OBVIOUS
  <2> QED BY <1>3, <1>4, <2>1
<1>6. Render(e) = [top |-> Render(e).top, rest |-> Render(e).rest]
  <2> HIDE DEF e
  <2> QED BY DEF Render
<1> QED BY <1>5, <1>6

LEMMA SavedInitially == Init => SavedInv /\ VerdictInv
<1> SUFFICES ASSUME Init PROVE SavedInv /\ VerdictInv
  OBVIOUS
<1>1. AnswerInv
  BY AnswerInitially
<1>2. recs = <<>> /\ saved = [run |-> 0, list |-> <<>>] /\ run = 0 /\ verdicts = <<>>
  BY DEF Init
<1>3. saved.run \in 0..run /\ saved.list = <<>>
  BY <1>2
<1>4. email = Render(saved.list)
  BY <1>3, RenderNothing DEF Init
<1>5. recs \in Seq(Rows) /\ saved.list \in Seq(Rows) /\ Len(saved.list) = 0
  BY <1>2, <1>3
<1>6. \A j, k \in 1..Len(saved.list) : j < k => ~Precedes(saved.list[k], saved.list[j])
  BY <1>5
<1>7. verdicts \in Seq(Verdicts) /\ Len(verdicts) = 0
  BY <1>2
<1>8. VerdictInv
  BY <1>7 DEF VerdictInv, Apart
<1> QED BY <1>1, <1>3, <1>4, <1>5, <1>6, <1>8 DEF SavedInv

\* What is saved is what dedup leaves of the recommendations.
LEMMA Delivers ==
  ASSUME SavedInv, Deliver
  PROVE  /\ saved'.run = run /\ saved'.list \in Seq(Rows)
         /\ \A j, k \in 1..Len(saved'.list) : j < k => ~Precedes(saved'.list[k], saved'.list[j])
         /\ email' = Render(saved'.list)
         /\ \A k \in 1..Len(saved'.list), p \in prior : Unsaid(p, saved'.list[k])
<1> DEFINE left == Dedup(recs, prior)
           list == Rank(left)
<1>1. recs \in Seq(Rows)
  BY DEF SavedInv
<1>2. /\ left \in Seq(Rows)
      /\ \A k \in 1..Len(left), p \in prior :
           p.verdict \in Final => ~Similar(left[k].name \union left[k].further, p.name)
  BY <1>1, DedupIs
<1>3. saved' = [run |-> run, list |-> list] /\ email' = Render(saved'.list)
  BY DEF Deliver
<1> HIDE DEF left
<1>4. /\ list \in Seq(Rows) /\ Len(list) = Len(left)
      /\ \A k \in 1..Len(left) : \E i \in 1..Len(left) : list[k] = left[i]
      /\ \A j, k \in 1..Len(left) : j < k => ~Precedes(list[k], list[j])
  BY <1>2, RankIs
<1> HIDE DEF list
<1>5. saved'.run = run /\ saved'.list = list
  BY <1>3
<1>6. ASSUME NEW k \in 1..Len(list), NEW p \in prior PROVE Unsaid(p, list[k])
  <2>1. PICK i \in 1..Len(left) : list[k] = left[i]
    BY <1>4
  <2> QED BY <1>2, <2>1 DEF Unsaid
<1> QED BY <1>3, <1>4, <1>5, <1>6

LEMMA SavedInductive == SavedInv /\ AnswerInv' /\ [Next]_vars => SavedInv'
<1> SUFFICES ASSUME SavedInv, AnswerInv', [Next]_vars PROVE SavedInv'
  OBVIOUS
<1>1. ASSUME UNCHANGED <<saved, email>>, run <= run', run' \in Nat, recs' \in Seq(Rows)
      PROVE  SavedInv'
  <2>1. saved'.run \in 0..run'
    BY <1>1 DEF SavedInv, AnswerInv
  <2> QED BY <1>1, <2>1 DEF SavedInv
<1>2. run \in Nat /\ run <= run /\ recs \in Seq(Rows) /\ <<>> \in Seq(Rows)
  BY DaysAssumption DEF SavedInv, AnswerInv
<1>3. CASE Begin
  <2>1. run' = run + 1 /\ UNCHANGED <<saved, email, recs>>
    BY <1>3 DEF Begin, world
  <2>2. run <= run' /\ run' \in Nat /\ recs' \in Seq(Rows)
    BY <1>2, <2>1
  <2> QED BY <1>1, <2>1, <2>2
<1>4. CASE Summarise \/ Compose \/ Answered
  <2>1. UNCHANGED <<saved, email, recs, run>>
    BY <1>4 DEF Summarise, Compose, Answered, world
  <2> QED BY <1>1, <1>2, <2>1
<1>5. CASE SummaryFails \/ SynthesisFails \/ ParseFails \/ TiersUnreadable
  <2>1. UNCHANGED <<saved, email, run>> /\ recs' = <<>>
    BY <1>5 DEF SummaryFails, SynthesisFails, ParseFails, TiersUnreadable, Return, world
  <2> QED BY <1>1, <1>2, <2>1
<1>6. CASE Parse
  <2>1. GoodReply(answer) /\ summaries \in Nat
    BY <1>6 DEF Parse, SavedInv, AnswerInv
  <2>2. PICK list \in ReadAnswer(Raw(answer)) : recs' = Resting(list, summaries)
    BY <1>6 DEF Parse
  <2>3. list \in Seq(Entries)
    BY <2>1, <2>2, Survive
  <2>4. recs' \in Seq(Rows)
    BY <2>1, <2>2, <2>3, RestingIs
  <2>5. UNCHANGED <<saved, email, run>>
    BY <1>6 DEF Parse, world
  <2> QED BY <1>1, <1>2, <2>4, <2>5
<1>7. CASE Deliver
  <2>1. saved'.run \in 0..run' /\ recs' \in Seq(Rows)
    <3>1. saved'.run = run /\ run' = run /\ recs' = <<>>
      BY <1>7, Delivers DEF Deliver, Return
    <3> QED BY <1>2, <3>1
  <2> QED BY <1>7, <2>1, Delivers DEF SavedInv
<1>8. ASSUME NEW i, NEW v, Dispose(i, v) PROVE SavedInv'
  <2>1. UNCHANGED <<saved, email, recs, run>>
    BY <1>8 DEF Dispose, local
  <2> QED BY <1>1, <1>2, <2>1
<1>9. CASE UNCHANGED vars
  <2>1. UNCHANGED <<saved, email, recs, run>>
    BY <1>9 DEF vars
  <2> QED BY <1>1, <1>2, <2>1
<1> QED BY <1>3, <1>4, <1>5, <1>6, <1>7, <1>8, <1>9 DEF Next


LEMMA VerdictInductive ==
  SavedInv /\ SavedInv' /\ VerdictInv /\ [Next]_vars => VerdictInv'
<1> SUFFICES ASSUME SavedInv, SavedInv', VerdictInv, [Next]_vars PROVE VerdictInv'
  OBVIOUS
<1> DEFINE M == Len(verdicts)
           Known(st, n, told) == \A i \in 1..M : i <= PriorLimit =>
                                   ((st # "idle" /\ verdicts[i].asof < n) => verdicts[i] \in told)
           Kind(last, list) == \A i \in 1..M : i <= PriorLimit =>
                                 (verdicts[i].asof < last =>
                                    \A k \in 1..Len(list) : Unsaid(verdicts[i], list[k]))
<1>1. M \in Nat /\ verdicts \in Seq(Verdicts) /\ Apart(verdicts)
  BY DEF VerdictInv
<1>2. Known(stage, run, prior) /\ Kind(saved.run, saved.list)
  BY DEF VerdictInv
<1>3. ASSUME verdicts' = verdicts, Known(stage', run', prior'), Kind(saved'.run, saved'.list)
      PROVE  VerdictInv'
  BY <1>1, <1>3 DEF VerdictInv
<1> HIDE DEF Known, Kind
<1>4. CASE Begin
  <2> DEFINE b == Min({PriorLimit, M})
  <2>1. verdicts' = verdicts /\ saved' = saved /\ prior' = ToSet(SubSeq(verdicts, 1, b))
    BY <1>4 DEF Begin, Prior, world
  <2>2. b \in 0..M /\ b <= PriorLimit /\ (PriorLimit <= M => b = PriorLimit) /\ (M <= PriorLimit => b = M)
    <3> DEFINE T == {PriorLimit, M}
    <3>1. T \in SUBSET Nat /\ T # {} /\ PriorLimit \in T /\ M \in T
      BY <1>1, LimitAssumption
    <3>2. \A x \in T : x = PriorLimit \/ x = M
      OBVIOUS
    <3> HIDE DEF T, M
    <3>3. Min(T) \in T /\ \A x \in T : Min(T) <= x
      BY <3>1, MinIs
    <3>4. Min(T) \in Nat /\ Min(T) <= PriorLimit /\ Min(T) <= M
      BY <3>1, <3>3
    <3>5. Min(T) = PriorLimit \/ Min(T) = M
      BY <3>2, <3>3
    <3>6. b = Min(T)
      BY DEF T, M
    <3> HIDE DEF b
    <3> QED BY <1>1, <3>4, <3>5, <3>6, LimitAssumption
  <2> HIDE DEF b
  <2>3. ASSUME NEW i \in 1..M, i <= PriorLimit PROVE verdicts[i] \in prior'
    <3> DEFINE p == SubSeq(verdicts, 1, b)
    <3>1. p \in Seq(Verdicts) /\ Len(p) = b /\ \A j \in 1..b : p[j] = verdicts[j]
      BY <1>1, <2>2, PrefixIs
    <3>2. i \in 1..b
      <4> HIDE DEF M
      <4> QED BY <1>1, <2>2, <2>3, LimitAssumption
    <3>3. DOMAIN p = 1..b
      BY <2>2, <3>1
    <3> QED BY <2>1, <3>1, <3>2, <3>3 DEF ToSet
  <2>4. Known(stage', run', prior')
    BY <2>3 DEF Known
  <2> QED BY <1>2, <1>3, <2>1, <2>4
<1>5. CASE Summarise \/ Compose \/ Answered \/ Parse
  <2>1. UNCHANGED <<verdicts, saved, run, prior>> /\ stage # "idle"
    BY <1>5 DEF Summarise, Compose, Answered, Parse, world
  <2>2. Known(stage', run', prior')
    BY <1>2, <2>1 DEF Known
  <2> QED BY <1>2, <1>3, <2>1, <2>2
<1>6. CASE SummaryFails \/ SynthesisFails \/ ParseFails \/ TiersUnreadable
  <2>1. UNCHANGED <<verdicts, saved>> /\ stage' = "idle"
    BY <1>6 DEF SummaryFails, SynthesisFails, ParseFails, TiersUnreadable, Return, world
  <2>2. Known(stage', run', prior')
    BY <2>1 DEF Known
  <2> QED BY <1>2, <1>3, <2>1, <2>2
<1>7. CASE Deliver
  <2>1. verdicts' = verdicts /\ stage = "rank" /\ stage' = "idle"
    BY <1>7 DEF Deliver, Return
  <2>2. saved'.run = run /\ \A k \in 1..Len(saved'.list), p \in prior : Unsaid(p, saved'.list[k])
    BY <1>7, Delivers
  <2>3. \A i \in 1..M : i <= PriorLimit => (verdicts[i].asof < run => verdicts[i] \in prior)
    BY <1>2, <2>1 DEF Known
  <2>4. Kind(saved'.run, saved'.list)
    BY <2>2, <2>3 DEF Kind
  <2>5. Known(stage', run', prior')
    BY <2>1 DEF Known
  <2> QED BY <1>3, <2>1, <2>4, <2>5
<1>8. ASSUME NEW i \in DOMAIN saved.list, NEW v \in Actions, Dispose(i, v) PROVE VerdictInv'
  <2> DEFINE id == <<saved.run, i>>
             row == [id |-> id, name |-> saved.list[i].name, verdict |-> v, asof |-> run]
             w == verdicts'
  <2>1. w = <<row>> \o Picked(verdicts, {k \in DOMAIN verdicts : verdicts[k].id # row.id})
    BY <1>8 DEF Dispose
  <2>2. UNCHANGED <<stage, run, prior, saved>>
    BY <1>8 DEF Dispose, local
  <2>3. saved.run \in Nat /\ saved.run <= run /\ run \in Nat /\ saved.list \in Seq(Rows)
    BY DaysAssumption DEF SavedInv, AnswerInv
  <2>4. row \in Verdicts /\ row.asof = run
    <3>1. i \in Nat /\ saved.list[i] \in Rows
      BY <2>3
    <3>2. saved.list[i].name \in SUBSET STRING
      BY <3>1 DEF Rows
    <3> QED BY <2>3, <3>1, <3>2 DEF Verdicts
  <2> HIDE DEF row, w
  <2>5. /\ w \in Seq(Verdicts) /\ Len(w) >= 1 /\ w[1] = row /\ Apart(w)
        /\ \A n \in 2..Len(w) : \E j \in 1..M : j <= n /\ w[n] = verdicts[j]
    <3> DEFINE s == verdicts
               others == {k \in DOMAIN s : s[k].id # row.id}
               o == <<row>>
    <3>1. Fronted(s, row, w)
      <4>1. Others(s, row, others)
        BY DEF Others
      <4>2. o \in Seq(Verdicts) /\ Len(o) = 1 /\ o[1] = row /\ w = o \o Picked(s, others)
        BY <2>1, <2>4
      <4> HIDE DEF s, others, o
      <4> QED BY <4>1, <4>2 DEF Fronted
    <3>2. s \in Seq(Verdicts) /\ Apart(s)
      BY <1>1
    <3> HIDE DEF s
    <3>3. /\ w \in Seq(Verdicts) /\ Len(w) >= 1 /\ w[1] = row /\ Apart(w)
          /\ Follow(w, s)
      BY <2>4, <3>1, <3>2, Moved
    <3> QED BY <3>3 DEF s, Follow
  <2>6. ASSUME NEW n \in 1..Len(w), n <= PriorLimit
        PROVE  /\ (stage # "idle" /\ w[n].asof < run) => w[n] \in prior
               /\ w[n].asof < saved.run =>
                    \A k \in 1..Len(saved.list) : Unsaid(w[n], saved.list[k])
    <3>1. CASE n = 1
      BY <2>3, <2>4, <2>5, <3>1
    <3>2. CASE n # 1
      <4>1. n \in 2..Len(w)
        BY <2>5, <3>2
      <4>2. PICK j \in 1..M : j <= n /\ w[n] = verdicts[j]
        BY <2>5, <4>1
      <4>3. j <= PriorLimit
        BY <2>6, <4>2, <1>1, LimitAssumption
      <4> QED BY <1>2, <4>2, <4>3 DEF Known, Kind
    <3> QED BY <3>1, <3>2
  <2> QED BY <2>2, <2>5, <2>6 DEF VerdictInv, w
<1>9. CASE UNCHANGED vars
  <2>1. UNCHANGED <<stage, run, prior, saved, verdicts>>
    BY <1>9 DEF vars
  <2> QED BY <1>2, <1>3, <2>1
<1> QED BY <1>4, <1>5, <1>6, <1>7, <1>8, <1>9 DEF Next

\* What is not suppressed is in the email, no more than TopCount of it on top
\* and the best, and what is suppressed ends the rows (rank_recommendations,
\* render).
THEOREM RankingCorrect == Spec => []BestOnTop
<1>1. SavedInv => BestOnTop
  BY OnTop DEF SavedInv
<1> QED BY <1>1, SpendInitially, SpendInductive, AnswerInitially, AnswerInductive, SavedInitially,
           SavedInductive, PTL DEF Spec

\* No run recommends again what the user had refused or built before it, unless
\* its description is largely about something else (dedup_against_dispositions,
\* list_prior_dispositions).
THEOREM RefusalCorrect == Spec => []RefusedStaysAway
<1>1. SavedInv /\ VerdictInv => RefusedStaysAway
  <2> SUFFICES ASSUME SavedInv, VerdictInv, NEW i \in 1..Min({PriorLimit, Len(verdicts)}),
                      NEW r \in ToSet(saved.list), verdicts[i].verdict \in Final,
                      verdicts[i].asof < saved.run, verdicts[i].name = r.name, r.name # {}
               PROVE  2 * Cardinality(r.further \ r.name) > 3 * Cardinality(r.name)
    BY DEF RefusedStaysAway
  <2> DEFINE T == {PriorLimit, Len(verdicts)}
  <2>1. verdicts \in Seq(Verdicts) /\ Len(verdicts) \in Nat /\ saved.list \in Seq(Rows)
    BY DEF VerdictInv, SavedInv
  <2>2. T \in SUBSET Nat /\ T # {} /\ PriorLimit \in T /\ Len(verdicts) \in T /\ i \in 1..Min(T)
    BY <2>1, LimitAssumption
  <2> HIDE DEF T
  <2>3. Min(T) \in Nat /\ Min(T) <= PriorLimit /\ Min(T) <= Len(verdicts)
    BY <2>2, MinIs
  <2>4. i \in 1..Len(verdicts) /\ i <= PriorLimit
    BY <2>1, <2>2, <2>3, LimitAssumption
  <2>5. PICK k \in 1..Len(saved.list) : r = saved.list[k]
    BY <2>1 DEF ToSet
  <2>6. r \in Rows
    BY <2>1, <2>5
  <2>7. IsFiniteSet(r.name) /\ IsFiniteSet(r.further)
    BY <2>6 DEF Rows
  <2>8. Unsaid(verdicts[i], r)
    BY <2>4, <2>5 DEF VerdictInv
  <2>9. ~Similar(r.name \union r.further, r.name)
    BY <2>8 DEF Unsaid
  <2> QED BY <2>7, <2>9, Unlike
<1> QED BY <1>1, SpendInitially, SpendInductive, AnswerInitially, AnswerInductive, SavedInitially,
           SavedInductive, VerdictInductive, PTL DEF Spec

=============================================================================
