---------------------------- MODULE LaunchProofs ----------------------------
(***************************************************************************)
(* Proofs about Launch, for any configurations, cadences, addresses, days  *)
(* and titles and for any number of faults, hand edits and commands: type  *)
(* correctness, that a recorded migration is complete, that launches come  *)
(* up, that memory is what the next launch reads, when hours end, and that *)
(* a pattern of the blocklist matches as a glob, whatever its length.      *)
(***************************************************************************)
EXTENDS Launch, SequenceTheorems, FiniteSetTheorems, TLAPS

\* All objects, and the statements of migrations.
Objects == UNION {Schema!Names(v) : v \in Schema!Version}

Statements == [version : Schema!Version, creates : Objects \union {"nothing"}]

IsRecord(s) == s.creates = "nothing"

\* A batch that may run over the objects O and the versions V: a version is
\* recorded after its own statements and after the version before it.
Sound(s, O, V) ==
    \A i \in 1..Len(s) : IsRecord(s[i]) =>
        /\ \A n \in Schema!Names(s[i].version) :
            n \in O \/ \E j \in 1..i - 1 : s[j].creates = n
        /\ \A w \in 1..s[i].version - 1 :
            w \in V \/ \E j \in 1..i - 1 : s[j] = Schema!Record(w)

\* What is created is of a version that is recorded later.
Finished(s) ==
    \A i \in 1..Len(s) : ~IsRecord(s[i]) =>
        /\ s[i].creates \in Schema!Names(s[i].version)
        /\ \E j \in i + 1..Len(s) : s[j] = Schema!Record(s[i].version)

\* No statement meets an object that is there, or one made before it.
Fresh(s, O) ==
    \A i \in 1..Len(s) : ~IsRecord(s[i]) =>
        /\ s[i].creates \notin O
        /\ \A j \in 1..i - 1 : s[j].creates # s[i].creates

Records(s, v) == \E i \in 1..Len(s) : s[i] = Schema!Record(v)

-----------------------------------------------------------------------------
(* Migrations *)

\* The three migrations name different objects, each once.
LEMMA NamesDiffer ==
  /\ Schema!Version = 1..3
  /\ \A v \in 1..3 : Schema!Creates[v] \in Seq(Objects)
  /\ \A v \in 1..3 : Schema!Names(v) \subseteq Objects
  /\ \A v \in 1..3 : "nothing" \notin Schema!Names(v)
  /\ \A v \in 1..3 : \A i, j \in 1..Len(Schema!Creates[v]) :
        Schema!Creates[v][i] = Schema!Creates[v][j] => i = j
  /\ \A v, w \in 1..3 : v # w => Schema!Names(v) \intersect Schema!Names(w) = {}
  /\ "schema_version" \in Schema!Names(1)
<1>1. Schema!Version = 1..3
  BY DEF Schema!Version, Schema!Creates
<1>2. /\ Schema!Creates[1] =
           <<"captures", "idx_captures_cycle", "idx_captures_timestamp", "clusters",
             "idx_clusters_cycle", "capture_cluster_map", "recommendations", "idx_recs_cycle",
             "idx_recs_disposition", "skip_log", "active_hours_counter", "schema_version">>
      /\ Schema!Creates[2] =
           <<"captures.ocr_engine", "conversations", "idx_conversations_kind">>
      /\ Schema!Creates[3] =
           <<"recommendations.strategic_value", "recommendations.confidence",
             "recommendations.starter_scaffold">>
  BY DEF Schema!Creates
<1>3. /\ Len(Schema!Creates[1]) = 12 /\ Len(Schema!Creates[2]) = 3
      /\ Len(Schema!Creates[3]) = 3
      /\ DOMAIN Schema!Creates[1] = 1..12 /\ DOMAIN Schema!Creates[2] = 1..3
      /\ DOMAIN Schema!Creates[3] = 1..3
  <2>1. Len(Schema!Creates[1]) = 12 /\ DOMAIN Schema!Creates[1] = 1..12
    BY <1>2
  <2>2. Len(Schema!Creates[2]) = 3 /\ DOMAIN Schema!Creates[2] = 1..3
    BY <1>2
  <2>3. Len(Schema!Creates[3]) = 3 /\ DOMAIN Schema!Creates[3] = 1..3
    BY <1>2
  <2> QED BY <2>1, <2>2, <2>3
<1>4. /\ Schema!Names(1) =
           {"captures", "idx_captures_cycle", "idx_captures_timestamp", "clusters",
             "idx_clusters_cycle", "capture_cluster_map", "recommendations", "idx_recs_cycle",
             "idx_recs_disposition", "skip_log", "active_hours_counter", "schema_version"}
      /\ Schema!Names(2) =
           {"captures.ocr_engine", "conversations", "idx_conversations_kind"}
      /\ Schema!Names(3) =
           {"recommendations.strategic_value", "recommendations.confidence",
             "recommendations.starter_scaffold"}
  BY <1>2, <1>3 DEF Schema!Names
<1>5. \A v \in 1..3 : v = 1 \/ v = 2 \/ v = 3
  OBVIOUS
<1>6. \A v \in 1..3 : "nothing" \notin Schema!Names(v)
  BY <1>4, <1>5
<1>7. ASSUME NEW v \in 1..3, NEW i \in 1..Len(Schema!Creates[v]),
             NEW j \in 1..Len(Schema!Creates[v]), Schema!Creates[v][i] = Schema!Creates[v][j]
      PROVE  i = j
  <2>1. CASE v = 1
    <3> DEFINE c == Schema!Creates[1]
    <3>1. /\ c[1] = "captures" /\ c[2] = "idx_captures_cycle"
          /\ c[3] = "idx_captures_timestamp" /\ c[4] = "clusters"
          /\ c[5] = "idx_clusters_cycle" /\ c[6] = "capture_cluster_map"
          /\ c[7] = "recommendations" /\ c[8] = "idx_recs_cycle"
          /\ c[9] = "idx_recs_disposition" /\ c[10] = "skip_log"
          /\ c[11] = "active_hours_counter" /\ c[12] = "schema_version"
      BY <1>2
    <3>2. i \in 1..12 /\ j \in 1..12 /\ c[i] = c[j]
      BY <1>3, <1>7, <2>1
    <3>3. \A k \in 1..12 : \/ k = 1 \/ k = 2 \/ k = 3 \/ k = 4 \/ k = 5 \/ k = 6
                            \/ k = 7 \/ k = 8 \/ k = 9 \/ k = 10 \/ k = 11 \/ k = 12
      OBVIOUS
    <3> HIDE DEF c
    <3> QED BY <3>1, <3>2, <3>3, SMTT(30)
  <2>2. CASE v = 2
    BY <1>2, <1>3, <1>7, <2>2, SMTT(30)
  <2>3. CASE v = 3
    BY <1>2, <1>3, <1>7, <2>3, SMTT(30)
  <2> QED BY <2>1, <2>2, <2>3
<1>8. /\ Schema!Names(1) \intersect Schema!Names(2) = {}
      /\ Schema!Names(1) \intersect Schema!Names(3) = {}
      /\ Schema!Names(2) \intersect Schema!Names(3) = {}
  BY <1>4
<1>9. \A v, w \in 1..3 : v # w => Schema!Names(v) \intersect Schema!Names(w) = {}
  BY <1>5, <1>8
<1>10. \A v \in 1..3 : Schema!Names(v) \subseteq Objects
  BY <1>1 DEF Objects
<1>11. \A v \in 1..3 : Schema!Creates[v] \in Seq(Objects)
  <2>1. /\ Schema!Creates[1] \in Seq(Schema!Names(1))
        /\ Schema!Creates[2] \in Seq(Schema!Names(2))
        /\ Schema!Creates[3] \in Seq(Schema!Names(3))
    BY <1>4 DEF Schema!Creates
  <2> QED BY <1>5, <1>10, <2>1, SeqMonotonic
<1>12. "schema_version" \in Schema!Names(1)
  BY <1>4
<1> QED BY <1>1, <1>6, <1>7, <1>9, <1>10, <1>11, <1>12

\* The statements of one migration: its objects in order, then its version.
LEMMA ScriptShape ==
  ASSUME NEW v \in 1..3
  PROVE  LET n == Len(Schema!Creates[v]) IN
         /\ n \in Nat
         /\ Schema!Script(v) \in Seq(Statements)
         /\ Len(Schema!Script(v)) = n + 1
         /\ \A i \in 1..n : Schema!Script(v)[i] = Schema!Create(v, Schema!Creates[v][i])
         /\ Schema!Script(v)[n + 1] = Schema!Record(v)
         /\ Schema!Names(v) = {Schema!Creates[v][i] : i \in 1..n}
<1> DEFINE n == Len(Schema!Creates[v])
           c == [i \in DOMAIN Schema!Creates[v] |-> Schema!Create(v, Schema!Creates[v][i])]
           r == <<Schema!Record(v)>>
<1>1. /\ Schema!Creates[v] \in Seq(Objects) /\ v \in Schema!Version
      /\ n \in Nat /\ DOMAIN Schema!Creates[v] = 1..n
      /\ \A i \in 1..n : Schema!Creates[v][i] \in Objects
  BY NamesDiffer
<1>2. c \in Seq(Statements) /\ Len(c) = n
  <2>1. c = [i \in 1..n |-> Schema!Create(v, Schema!Creates[v][i])]
    BY <1>1
  <2>2. \A i \in 1..n : Schema!Create(v, Schema!Creates[v][i]) \in Statements
    BY <1>1 DEF Schema!Create, Statements
  <2> QED BY <1>1, <2>1, <2>2
<1>3. r \in Seq(Statements) /\ Len(r) = 1 /\ r[1] = Schema!Record(v)
  BY <1>1 DEF Schema!Record, Statements
<1>4. Schema!Script(v) = c \o r
  BY DEF Schema!Script
<1>5. \A i \in 1..n : c[i] = Schema!Create(v, Schema!Creates[v][i])
  BY <1>1
<1>6. Schema!Names(v) = {Schema!Creates[v][i] : i \in 1..n}
  BY <1>1 DEF Schema!Names
<1> HIDE DEF c, r, n
<1>7. /\ Schema!Script(v) \in Seq(Statements)
      /\ Len(Schema!Script(v)) = n + 1
      /\ \A i \in 1..n + 1 : Schema!Script(v)[i] = IF i <= n THEN c[i] ELSE r[i - n]
  <2>1. /\ c \o r \in Seq(Statements) /\ Len(c \o r) = Len(c) + Len(r)
        /\ \A i \in 1..Len(c) + Len(r) : (c \o r)[i] = IF i <= Len(c) THEN c[i] ELSE r[i - Len(c)]
    BY <1>2, <1>3, ConcatProperties
  <2> QED BY <1>2, <1>3, <1>4, <2>1
<1> QED BY <1>1, <1>3, <1>5, <1>6, <1>7, SMTT(30) DEF n

\* A migration is recorded after all it creates.
LEMMA ScriptPlanned ==
  ASSUME NEW v \in 1..3, NEW O, NEW V, 1..v - 1 \subseteq V
  PROVE  /\ Sound(Schema!Script(v), O, V)
         /\ Finished(Schema!Script(v))
         /\ Schema!Names(v) \intersect O = {} => Fresh(Schema!Script(v), O)
         /\ Records(Schema!Script(v), v)
         /\ \A i \in 1..Len(Schema!Script(v)) :
                IF IsRecord(Schema!Script(v)[i]) THEN Schema!Script(v)[i] = Schema!Record(v)
                ELSE Schema!Script(v)[i].creates \in Schema!Names(v)
<1> DEFINE s == Schema!Script(v)
           n == Len(Schema!Creates[v])
<1>1. /\ n \in Nat /\ Len(s) = n + 1
      /\ \A i \in 1..n : s[i] = Schema!Create(v, Schema!Creates[v][i])
      /\ s[n + 1] = Schema!Record(v)
      /\ Schema!Names(v) = {Schema!Creates[v][i] : i \in 1..n}
  BY ScriptShape
<1>0. \A i, j \in 1..n : Schema!Creates[v][i] = Schema!Creates[v][j] => i = j
  BY NamesDiffer
<1> HIDE DEF s, n
<1>2. ASSUME NEW i \in 1..n
      PROVE  /\ s[i].version = v /\ s[i].creates = Schema!Creates[v][i]
             /\ s[i].creates \in Schema!Names(v)
  <2>1. s[i].version = v /\ s[i].creates = Schema!Creates[v][i]
    <3>1. s[i] = [version |-> v, creates |-> Schema!Creates[v][i]]
      BY <1>1 DEF Schema!Create
    <3> QED BY <3>1
  <2> QED BY <1>1, <2>1
<1>3. s[n + 1].version = v /\ IsRecord(s[n + 1])
  BY <1>1 DEF Schema!Record, IsRecord
<1>4. \A i \in 1..n : ~IsRecord(s[i])
  BY <1>2, NamesDiffer DEF IsRecord
<1>5. \A i, j \in 1..n : s[i].creates = s[j].creates => i = j
  BY <1>0, <1>2
<1>6. \A i \in 1..Len(s) : i \in 1..n \/ i = n + 1
  BY <1>1
<1>7. Sound(s, O, V)
  <2>1. \A m \in Schema!Names(v) : \E j \in 1..(n + 1) - 1 : s[j].creates = m
    BY <1>1, <1>2
  <2> QED BY <1>1, <1>3, <1>4, <1>6, <2>1 DEF Sound
<1>8. Finished(s)
  BY <1>1, <1>2, <1>3, <1>4, <1>6 DEF Finished
<1>9. Schema!Names(v) \intersect O = {} => Fresh(s, O)
  <2> SUFFICES ASSUME Schema!Names(v) \intersect O = {}, NEW i \in 1..Len(s), ~IsRecord(s[i])
               PROVE  s[i].creates \notin O /\ \A j \in 1..i - 1 : s[j].creates # s[i].creates
    BY DEF Fresh
  <2>1. i \in 1..n
    BY <1>3, <1>6
  <2>2. s[i].creates \notin O
    BY <1>2, <2>1
  <2>3. \A j \in 1..i - 1 : j \in 1..n /\ j # i
    BY <1>1, <2>1
  <2> QED BY <1>5, <2>1, <2>2, <2>3
<1>10. Records(s, v)
  BY <1>1 DEF Records
<1> QED BY <1>1, <1>2, <1>3, <1>4, <1>6, <1>7, <1>8, <1>9, <1>10 DEF s

\* One batch after another: the second may rely on the first.
LEMMA PlansConcat ==
  ASSUME NEW s \in Seq(Statements), NEW t \in Seq(Statements), NEW O, NEW V,
         NEW O2, O2 \subseteq O \union {s[i].creates : i \in 1..Len(s)},
         NEW V2, \A w \in V2 : w \in V \/ Records(s, w),
         Sound(s, O, V), Sound(t, O2, V2), Finished(s), Finished(t)
  PROVE  /\ s \o t \in Seq(Statements)
         /\ Sound(s \o t, O, V)
         /\ Finished(s \o t)
         /\ \A w : Records(s \o t, w) <=> Records(s, w) \/ Records(t, w)
<1> DEFINE u == s \o t
<1>1. /\ Len(s) \in Nat /\ Len(t) \in Nat
      /\ u \in Seq(Statements) /\ Len(u) = Len(s) + Len(t)
      /\ \A i \in 1..Len(s) + Len(t) : u[i] = IF i <= Len(s) THEN s[i] ELSE t[i - Len(s)]
  BY ConcatProperties, LenProperties
<1> HIDE DEF u
<1>2. /\ \A i \in 1..Len(s) : i \in 1..Len(u) /\ u[i] = s[i]
      /\ \A i \in 1..Len(t) : Len(s) + i \in 1..Len(u) /\ u[Len(s) + i] = t[i]
      /\ \A i \in 1..Len(u) : i \in 1..Len(s) \/ \E k \in 1..Len(t) : i = Len(s) + k
  <2>1. ASSUME NEW i \in 1..Len(u) PROVE i \in 1..Len(s) \/ \E k \in 1..Len(t) : i = Len(s) + k
    <3>1. i \in 1..Len(s) \/ (i - Len(s) \in 1..Len(t) /\ i = Len(s) + (i - Len(s)))
      BY <1>1
    <3> QED BY <3>1
  <2>2. \A i \in 1..Len(s) : i \in 1..Len(u) /\ u[i] = s[i]
    BY <1>1
  <2>3. ASSUME NEW i \in 1..Len(t)
        PROVE  Len(s) + i \in 1..Len(u) /\ u[Len(s) + i] = t[i]
    <3>1. /\ Len(s) + i \in 1..Len(s) + Len(t)
          /\ ~(Len(s) + i <= Len(s)) /\ (Len(s) + i) - Len(s) = i
      BY <1>1
    <3> QED BY <1>1, <3>1
  <2> QED BY <2>1, <2>2, <2>3
<1>3. Sound(u, O, V)
  <2> SUFFICES ASSUME NEW i \in 1..Len(u), IsRecord(u[i])
               PROVE  /\ \A n \in Schema!Names(u[i].version) :
                          n \in O \/ \E j \in 1..i - 1 : u[j].creates = n
                      /\ \A w \in 1..u[i].version - 1 :
                          w \in V \/ \E j \in 1..i - 1 : u[j] = Schema!Record(w)
    BY DEF Sound
  <2>1. CASE i \in 1..Len(s)
    <3>1. u[i] = s[i] /\ \A j \in 1..i - 1 : u[j] = s[j]
      BY <1>1, <1>2, <2>1
    <3>2. /\ \A n \in Schema!Names(s[i].version) :
                n \in O \/ \E j \in 1..i - 1 : s[j].creates = n
          /\ \A w \in 1..s[i].version - 1 :
                w \in V \/ \E j \in 1..i - 1 : s[j] = Schema!Record(w)
      BY <2>1, <3>1 DEF Sound
    <3> QED BY <3>1, <3>2
  <2>2. ASSUME NEW k \in 1..Len(t), i = Len(s) + k
        PROVE  /\ \A n \in Schema!Names(u[i].version) :
                      n \in O \/ \E j \in 1..i - 1 : u[j].creates = n
               /\ \A w \in 1..u[i].version - 1 :
                      w \in V \/ \E j \in 1..i - 1 : u[j] = Schema!Record(w)
    <3>1. u[i] = t[k]
      BY <1>2, <2>2
    <3>2. \A j \in 1..Len(s) : j \in 1..i - 1 /\ u[j] = s[j]
      BY <1>1, <1>2, <2>2
    <3>3. \A j \in 1..k - 1 : Len(s) + j \in 1..i - 1 /\ u[Len(s) + j] = t[j]
      BY <1>1, <1>2, <2>2
    <3>4. ASSUME NEW n \in Schema!Names(u[i].version)
          PROVE  n \in O \/ \E j \in 1..i - 1 : u[j].creates = n
      <4>1. n \in O2 \/ \E j \in 1..k - 1 : t[j].creates = n
        BY <3>1 DEF Sound
      <4>2. n \in O2 => n \in O \/ \E j \in 1..Len(s) : s[j].creates = n
        OBVIOUS
      <4> QED BY <4>1, <4>2, <3>2, <3>3
    <3>5. ASSUME NEW w \in 1..u[i].version - 1
          PROVE  w \in V \/ \E j \in 1..i - 1 : u[j] = Schema!Record(w)
      <4>1. w \in V2 \/ \E j \in 1..k - 1 : t[j] = Schema!Record(w)
        BY <3>1 DEF Sound
      <4>2. w \in V2 => w \in V \/ \E j \in 1..Len(s) : s[j] = Schema!Record(w)
        BY DEF Records
      <4> QED BY <4>1, <4>2, <3>2, <3>3
    <3> QED BY <3>4, <3>5
  <2> QED BY <1>2, <2>1, <2>2
<1>4. Finished(u)
  <2> SUFFICES ASSUME NEW i \in 1..Len(u), ~IsRecord(u[i])
               PROVE  /\ u[i].creates \in Schema!Names(u[i].version)
                      /\ \E j \in i + 1..Len(u) : u[j] = Schema!Record(u[i].version)
    BY DEF Finished
  <2>1. CASE i \in 1..Len(s)
    <3>1. u[i] = s[i]
      BY <1>2, <2>1
    <3>2. \A j \in i + 1..Len(s) : j \in i + 1..Len(u) /\ u[j] = s[j]
      BY <1>1, <1>2, <2>1
    <3> QED BY <2>1, <3>1, <3>2 DEF Finished
  <2>2. ASSUME NEW k \in 1..Len(t), i = Len(s) + k
        PROVE  /\ u[i].creates \in Schema!Names(u[i].version)
               /\ \E j \in i + 1..Len(u) : u[j] = Schema!Record(u[i].version)
    <3>1. u[i] = t[k]
      BY <1>2, <2>2
    <3>2. \A j \in k + 1..Len(t) : Len(s) + j \in i + 1..Len(u) /\ u[Len(s) + j] = t[j]
      BY <1>1, <1>2, <2>2
    <3> QED BY <3>1, <3>2 DEF Finished
  <2> QED BY <1>2, <2>1, <2>2
<1>5. ASSUME NEW w PROVE Records(u, w) <=> Records(s, w) \/ Records(t, w)
  <2> DEFINE r == Schema!Record(w)
  <2> HIDE DEF r
  <2>1. ASSUME NEW i \in 1..Len(u), u[i] = r
        PROVE  (\E j \in 1..Len(s) : s[j] = r) \/ (\E j \in 1..Len(t) : t[j] = r)
    BY <1>2, <2>1
  <2>2. ASSUME NEW j \in 1..Len(s), s[j] = r PROVE \E i \in 1..Len(u) : u[i] = r
    BY <1>2, <2>2
  <2>3. ASSUME NEW j \in 1..Len(t), t[j] = r PROVE \E i \in 1..Len(u) : u[i] = r
    BY <1>2, <2>3
  <2> QED BY <2>1, <2>2, <2>3 DEF Records, r
<1> QED BY <1>1, <1>3, <1>4, <1>5 DEF u

\* The second batch is fresh when it makes other objects than the first.
LEMMA FreshConcat ==
  ASSUME NEW s \in Seq(Statements), NEW t \in Seq(Statements), NEW O,
         Fresh(s, O), Fresh(t, O),
         \A i \in 1..Len(s), k \in 1..Len(t) :
            s[i].creates = t[k].creates => IsRecord(t[k])
  PROVE  Fresh(s \o t, O)
<1> DEFINE u == s \o t
<1>1. /\ Len(s) \in Nat /\ Len(t) \in Nat /\ Len(u) = Len(s) + Len(t)
      /\ \A i \in 1..Len(s) + Len(t) : u[i] = IF i <= Len(s) THEN s[i] ELSE t[i - Len(s)]
  BY ConcatProperties, LenProperties
<1> HIDE DEF u
<1> SUFFICES ASSUME NEW i \in 1..Len(u), ~IsRecord(u[i])
             PROVE  /\ u[i].creates \notin O
                    /\ \A j \in 1..i - 1 : u[j].creates # u[i].creates
  BY DEF Fresh, u
<1>2. CASE i <= Len(s)
  <2>1. i \in 1..Len(s) /\ u[i] = s[i] /\ \A j \in 1..i - 1 : u[j] = s[j]
    BY <1>1, <1>2
  <2> QED BY <2>1 DEF Fresh
<1>3. CASE i > Len(s)
  <2> DEFINE k == i - Len(s)
  <2>1. k \in 1..Len(t) /\ u[i] = t[k]
    BY <1>1, <1>3
  <2>2. ASSUME NEW j \in 1..i - 1
        PROVE  \/ j \in 1..Len(s) /\ u[j] = s[j]
               \/ j - Len(s) \in 1..k - 1 /\ u[j] = t[j - Len(s)]
    BY <1>1, <1>3
  <2> HIDE DEF k
  <2> QED BY <2>1, <2>2 DEF Fresh
<1> QED BY <1>1, <1>2, <1>3

\* The version read back is the number of versions that are recorded.
LEMMA CurrentVersion ==
  ASSUME Schema!TypeOK, Schema!RecordedIsApplied
  PROVE  /\ Schema!Current \in Nat
         /\ \A v \in 1..3 : v \in versions <=> v <= Schema!Current
<1>1. versions \subseteq 1..3 /\ \A v \in versions : 1..v \subseteq versions
  BY NamesDiffer DEF Schema!TypeOK, Schema!RecordedIsApplied
<1>2. CASE "schema_version" \in objects
  <2>1. PICK m \in versions \union {0} : \A y \in versions \union {0} : m >= y
    <3>1. CASE 3 \in versions
      BY <1>1, <3>1
    <3>2. CASE 3 \notin versions /\ 2 \in versions
      <4>1. \A y \in versions \union {0} : 2 >= y
        BY <1>1, <3>2
      <4> QED BY <3>2, <4>1
    <3>3. CASE 3 \notin versions /\ 2 \notin versions /\ 1 \in versions
      <4>1. \A y \in versions \union {0} : 1 >= y
        BY <1>1, <3>3
      <4> QED BY <3>3, <4>1
    <3>4. CASE 3 \notin versions /\ 2 \notin versions /\ 1 \notin versions
      <4>1. \A y \in versions \union {0} : 0 >= y
        BY <1>1, <3>4
      <4> QED BY <4>1
    <3> QED BY <3>1, <3>2, <3>3, <3>4
  <2> DEFINE c == CHOOSE x \in versions \union {0} : \A y \in versions \union {0} : x >= y
  <2>2. c \in versions \union {0} /\ \A y \in versions \union {0} : c >= y
    BY <2>1
  <2>3. Schema!Current = c
    BY <1>2 DEF Schema!Current, Schema!Max
  <2> HIDE DEF c
  <2>4. \A v \in 1..3 : v <= c /\ c \in versions => v \in versions
    BY <1>1
  <2> QED BY <1>1, <2>2, <2>3, <2>4
<1>3. CASE "schema_version" \notin objects
  <2>1. versions = {}
    <3>1. \A v \in versions : 1 \in versions
      BY <1>1
    <3> QED BY <1>3, <3>1, NamesDiffer DEF Schema!RecordedIsApplied
  <2>2. Schema!Current = 0
    BY <1>3 DEF Schema!Current
  <2> QED BY <2>1, <2>2
<1> QED BY <1>2, <1>3

\* What program `r` runs of migration v.
Part(r, v) == IF v <= Schema!Current \/ v > r THEN <<>> ELSE Schema!Script(v)

\* Each object belongs to a version that is recorded, or is about to be.
Owned(s) ==
    \A n \in objects : \E v \in 1..3 :
        n \in Schema!Names(v) /\ (v \in versions \/ Records(s, v))

LEMMA PartPlanned ==
  ASSUME Schema!TypeOK, Schema!RecordedIsApplied, NEW r \in 1..3, NEW v \in 1..3,
         NEW V, v > r \/ 1..v - 1 \subseteq V
  PROVE  /\ Part(r, v) \in Seq(Statements)
         /\ Sound(Part(r, v), objects, V)
         /\ Finished(Part(r, v))
         /\ v <= r => v \in versions \/ Records(Part(r, v), v)
         /\ Owned(<<>>) => Fresh(Part(r, v), objects)
         /\ \A i \in 1..Len(Part(r, v)) :
                ~IsRecord(Part(r, v)[i]) => Part(r, v)[i].creates \in Schema!Names(v)
<1> DEFINE s == Part(r, v)
<1>1. Schema!Current \in Int
  BY CurrentVersion
<1>2. CASE v <= Schema!Current \/ v > r
  <2>1. s = <<>>
    BY <1>2 DEF Part
  <2>2. s \in Seq(Statements) /\ Len(s) = 0
    BY <2>1
  <2>3. 1..Len(s) = {}
    BY <2>2
  <2>4. v <= r => v \in versions
    BY <1>1, <1>2, CurrentVersion
  <2> HIDE DEF s
  <2> QED BY <2>2, <2>3, <2>4 DEF s, Sound, Finished, Fresh
<1>3. CASE ~(v <= Schema!Current \/ v > r)
  <2>1. s = Schema!Script(v)
    BY <1>3 DEF Part
  <2>2. 1..v - 1 \subseteq V /\ v \notin versions
    BY <1>3, CurrentVersion
  <2>3. Owned(<<>>) => Schema!Names(v) \intersect objects = {}
    <3>1. \A w : ~Records(<<>>, w)
      BY DEF Records
    <3> QED BY <2>2, <3>1, NamesDiffer DEF Owned
  <2> HIDE DEF s
  <2> QED BY <2>1, <2>2, <2>3, ScriptPlanned, ScriptShape DEF s
<1> QED BY <1>2, <1>3

\* What run_migrations is about to execute completes what it records, over
\* any database an interrupted run has left.
LEMMA PendingPlanned ==
  ASSUME Schema!TypeOK, Schema!RecordedIsApplied, NEW r \in 1..3
  PROVE  /\ Schema!Pending(r) \in Seq(Statements)
         /\ Sound(Schema!Pending(r), objects, versions)
         /\ Finished(Schema!Pending(r))
         /\ \A v \in 1..r : v \in versions \/ Records(Schema!Pending(r), v)
         /\ Owned(<<>>) => Fresh(Schema!Pending(r), objects)
<1> DEFINE s1 == Part(r, 1)
           s2 == Part(r, 2)
           s3 == Part(r, 3)
           V2 == {w \in 1..3 : w \in versions \/ Records(s1, w)}
           V3 == {w \in 1..3 : w \in versions \/ Records(s1 \o s2, w)}
<1>1. Schema!Pending(r) = (s1 \o s2) \o s3
  BY DEF Schema!Pending, Part
<1>2. /\ s1 \in Seq(Statements) /\ Sound(s1, objects, versions) /\ Finished(s1)
      /\ 1 \in versions \/ Records(s1, 1)
      /\ Owned(<<>>) => Fresh(s1, objects)
      /\ \A i \in 1..Len(s1) : ~IsRecord(s1[i]) => s1[i].creates \in Schema!Names(1)
  <2>1. 1..1 - 1 \subseteq versions
    OBVIOUS
  <2> QED BY <2>1, PartPlanned
<1>3. /\ s2 \in Seq(Statements) /\ Sound(s2, objects, V2) /\ Finished(s2)
      /\ 2 <= r => 2 \in versions \/ Records(s2, 2)
      /\ Owned(<<>>) => Fresh(s2, objects)
      /\ \A i \in 1..Len(s2) : ~IsRecord(s2[i]) => s2[i].creates \in Schema!Names(2)
  <2>1. 1..2 - 1 \subseteq V2
    BY <1>2
  <2> HIDE DEF V2
  <2> QED BY <2>1, PartPlanned
<1> HIDE DEF s1, s2, s3
<1>4. /\ s1 \o s2 \in Seq(Statements)
      /\ Sound(s1 \o s2, objects, versions)
      /\ Finished(s1 \o s2)
      /\ \A w : Records(s1 \o s2, w) <=> Records(s1, w) \/ Records(s2, w)
  BY <1>2, <1>3, PlansConcat
<1>5. /\ s3 \in Seq(Statements) /\ Sound(s3, objects, V3) /\ Finished(s3)
      /\ 3 <= r => 3 \in versions \/ Records(s3, 3)
      /\ Owned(<<>>) => Fresh(s3, objects)
      /\ \A i \in 1..Len(s3) : ~IsRecord(s3[i]) => s3[i].creates \in Schema!Names(3)
  <2>1. 3 > r \/ 1..3 - 1 \subseteq V3
    BY <1>2, <1>3, <1>4
  <2> HIDE DEF V3
  <2> QED BY <2>1, PartPlanned DEF s3
<1>6. /\ (s1 \o s2) \o s3 \in Seq(Statements)
      /\ Sound((s1 \o s2) \o s3, objects, versions)
      /\ Finished((s1 \o s2) \o s3)
      /\ \A w : Records((s1 \o s2) \o s3, w) <=> Records(s1 \o s2, w) \/ Records(s3, w)
  <2> DEFINE t == s1 \o s2
  <2>1. \A w \in V3 : w \in versions \/ Records(t, w)
    OBVIOUS
  <2>2. t \in Seq(Statements) /\ Sound(t, objects, versions) /\ Finished(t)
    BY <1>4
  <2> HIDE DEF t, V3
  <2>3. objects \subseteq objects \union {t[i].creates : i \in 1..Len(t)}
    OBVIOUS
  <2>4. /\ t \o s3 \in Seq(Statements)
        /\ Sound(t \o s3, objects, versions)
        /\ Finished(t \o s3)
        /\ \A w : Records(t \o s3, w) <=> Records(t, w) \/ Records(s3, w)
    BY <2>1, <2>2, <2>3, <1>5, PlansConcat
  <2> QED BY <2>4 DEF t
<1>7. \A v \in 1..r : v \in versions \/ Records((s1 \o s2) \o s3, v)
  BY <1>2, <1>3, <1>4, <1>5, <1>6
<1>8. ASSUME Owned(<<>>)
      PROVE  Fresh((s1 \o s2) \o s3, objects)
  <2>1. \A i \in 1..Len(s1), k \in 1..Len(s2) :
            s1[i].creates = s2[k].creates => IsRecord(s2[k])
    BY <1>2, <1>3, NamesDiffer DEF IsRecord
  <2>2. Fresh(s1 \o s2, objects)
    BY <1>2, <1>3, <1>8, <2>1, FreshConcat
  <2>3. \A i \in 1..Len(s1 \o s2) : ~IsRecord((s1 \o s2)[i]) =>
            (s1 \o s2)[i].creates \in Schema!Names(1) \union Schema!Names(2)
    <3> DEFINE t == s1 \o s2
    <3>1. s1 \in Seq(Statements) /\ s2 \in Seq(Statements)
      BY <1>2, <1>3
    <3>2. /\ Len(s1) \in Nat /\ Len(s2) \in Nat /\ Len(t) = Len(s1) + Len(s2)
          /\ \A i \in 1..Len(s1) + Len(s2) : t[i] = IF i <= Len(s1) THEN s1[i] ELSE s2[i - Len(s1)]
      BY <3>1, ConcatProperties, LenProperties
    <3> HIDE DEF t
    <3>3. /\ \A i \in 1..Len(s1) : ~IsRecord(s1[i]) => s1[i].creates \in Schema!Names(1)
          /\ \A i \in 1..Len(s2) : ~IsRecord(s2[i]) => s2[i].creates \in Schema!Names(2)
      BY <1>2, <1>3
    <3>4. ASSUME NEW i \in 1..Len(t), ~IsRecord(t[i])
          PROVE  t[i].creates \in Schema!Names(1) \union Schema!Names(2)
      <4>1. CASE i <= Len(s1)
        <5>1. i \in 1..Len(s1) /\ t[i] = s1[i]
          BY <3>2, <4>1
        <5> QED BY <3>3, <3>4, <5>1
      <4>2. CASE ~(i <= Len(s1))
        <5>1. i - Len(s1) \in 1..Len(s2) /\ t[i] = s2[i - Len(s1)]
          BY <3>2, <4>2
        <5> QED BY <3>3, <3>4, <5>1
      <4> QED BY <4>1, <4>2
    <3> QED BY <3>4 DEF t
  <2> DEFINE t == s1 \o s2
  <2>4. \A i \in 1..Len(t), k \in 1..Len(s3) :
            t[i].creates = s3[k].creates => IsRecord(s3[k])
    <3>1. \A n \in Schema!Names(3) : n \notin Schema!Names(1) \union Schema!Names(2) /\ n # "nothing"
      BY NamesDiffer
    <3>2. \A i \in 1..Len(t) : IsRecord(t[i]) \/ t[i].creates \in Schema!Names(1) \union Schema!Names(2)
      BY <2>3
    <3>3. \A k \in 1..Len(s3) : ~IsRecord(s3[k]) => s3[k].creates \in Schema!Names(3)
      BY <1>5
    <3> HIDE DEF t
    <3> QED BY <3>1, <3>2, <3>3 DEF IsRecord
  <2> QED BY <1>4, <1>5, <1>8, <2>2, <2>4, FreshConcat
<1> QED BY <1>1, <1>6, <1>7, <1>8

\* Once the first statement has taken effect, the rest is still such a batch.
LEMMA PlanAdvances ==
  ASSUME NEW s \in Seq(Statements), s # <<>>, NEW O, NEW V, Sound(s, O, V), Finished(s),
         NEW O2, O \subseteq O2, ~IsRecord(Head(s)) => Head(s).creates \in O2,
         NEW V2, V \subseteq V2, IsRecord(Head(s)) => Head(s).version \in V2
  PROVE  /\ Tail(s) \in Seq(Statements)
         /\ Sound(Tail(s), O2, V2)
         /\ Finished(Tail(s))
         /\ \A w : Records(s, w) => Records(Tail(s), w) \/ Head(s) = Schema!Record(w)
         /\ \A w : Records(Tail(s), w) => Records(s, w)
         /\ Fresh(s, O) /\ O2 \subseteq O \union {Head(s).creates} => Fresh(Tail(s), O2)
<1> DEFINE t == Tail(s)
           h == Head(s)
<1>1. /\ h \in Statements /\ t \in Seq(Statements) /\ Len(s) \in Nat /\ Len(s) > 0
      /\ Len(t) = Len(s) - 1 /\ h = s[1]
      /\ \A i \in 1..Len(t) : t[i] = s[i + 1]
  BY HeadTailProperties, EmptySeq
<1> HIDE DEF t
<1>2. /\ \A i \in 1..Len(t) : i + 1 \in 1..Len(s) /\ t[i] = s[i + 1]
      /\ \A i \in 1..Len(s) : i # 1 => i - 1 \in 1..Len(t) /\ s[i] = t[i - 1]
  BY <1>1
<1> HIDE DEF h
<1>3. Sound(t, O2, V2)
  <2> SUFFICES ASSUME NEW i \in 1..Len(t), IsRecord(t[i])
               PROVE  /\ \A n \in Schema!Names(t[i].version) :
                          n \in O2 \/ \E j \in 1..i - 1 : t[j].creates = n
                      /\ \A w \in 1..t[i].version - 1 :
                          w \in V2 \/ \E j \in 1..i - 1 : t[j] = Schema!Record(w)
    BY DEF Sound
  <2>1. /\ i + 1 \in 1..Len(s) /\ s[i + 1] = t[i] /\ (i + 1) - 1 = i
        /\ \A j \in 1..i : j = 1 \/ (j - 1 \in 1..i - 1 /\ s[j] = t[j - 1])
    BY <1>1, <1>2
  <2>2. /\ \A n \in Schema!Names(t[i].version) : n \in O \/ \E j \in 1..i : s[j].creates = n
        /\ \A w \in 1..t[i].version - 1 : w \in V \/ \E j \in 1..i : s[j] = Schema!Record(w)
    <3>1. IsRecord(s[i + 1])
      BY <2>1
    <3> QED BY <2>1, <3>1 DEF Sound
  <2>3. ASSUME NEW n \in Schema!Names(t[i].version)
        PROVE  n \in O2 \/ \E j \in 1..i - 1 : t[j].creates = n
    <3>1. n # "nothing"
      <4>1. t[i].version \in 1..3
        <5>1. t[i] \in Statements
          BY <1>1, ElementOfSeq
        <5> QED BY <5>1, NamesDiffer DEF Statements
      <4> QED BY <4>1, NamesDiffer
    <3>2. h.creates = n => n \in O2
      BY <3>1 DEF h, IsRecord
    <3>3. CASE n \in O
      BY <3>3
    <3>4. ASSUME NEW j \in 1..i, s[j].creates = n
          PROVE  n \in O2 \/ \E k \in 1..i - 1 : t[k].creates = n
      <4>1. CASE j = 1
        BY <1>1, <3>2, <3>4, <4>1
      <4>2. CASE j - 1 \in 1..i - 1 /\ s[j] = t[j - 1]
        BY <3>4, <4>2
      <4> QED BY <2>1, <4>1, <4>2
    <3> QED BY <2>2, <3>3, <3>4
  <2>4. ASSUME NEW w \in 1..t[i].version - 1
        PROVE  w \in V2 \/ \E j \in 1..i - 1 : t[j] = Schema!Record(w)
    <3>1. h = Schema!Record(w) => w \in V2
      <4>1. h = Schema!Record(w) => IsRecord(h) /\ h.version = w
        BY DEF Schema!Record, IsRecord
      <4> QED BY <4>1 DEF h
    <3>2. CASE w \in V
      BY <3>2
    <3>3. ASSUME NEW j \in 1..i, s[j] = Schema!Record(w)
          PROVE  w \in V2 \/ \E k \in 1..i - 1 : t[k] = Schema!Record(w)
      <4>1. CASE j = 1
        BY <1>1, <3>1, <3>3, <4>1
      <4>2. CASE j - 1 \in 1..i - 1 /\ s[j] = t[j - 1]
        BY <3>3, <4>2
      <4> QED BY <2>1, <4>1, <4>2
    <3> QED BY <2>2, <3>2, <3>3
  <2> QED BY <2>3, <2>4
<1>4. Finished(t)
  <2> SUFFICES ASSUME NEW i \in 1..Len(t), ~IsRecord(t[i])
               PROVE  /\ t[i].creates \in Schema!Names(t[i].version)
                      /\ \E j \in i + 1..Len(t) : t[j] = Schema!Record(t[i].version)
    BY DEF Finished
  <2>1. i + 1 \in 1..Len(s) /\ s[i + 1] = t[i]
    BY <1>2
  <2>2. /\ t[i].creates \in Schema!Names(t[i].version)
        /\ \E j \in (i + 1) + 1..Len(s) : s[j] = Schema!Record(t[i].version)
    <3>1. ~IsRecord(s[i + 1])
      BY <2>1
    <3> QED BY <2>1, <3>1 DEF Finished
  <2>3. \A j \in (i + 1) + 1..Len(s) : j - 1 \in i + 1..Len(t) /\ s[j] = t[j - 1]
    BY <1>1, <1>2
  <2> QED BY <2>2, <2>3
<1>5. ASSUME NEW w
      PROVE  /\ Records(s, w) => Records(t, w) \/ h = Schema!Record(w)
             /\ Records(t, w) => Records(s, w)
  <2> DEFINE r == Schema!Record(w)
  <2> HIDE DEF r
  <2>1. /\ (\E i \in 1..Len(s) : s[i] = r) => (\E i \in 1..Len(t) : t[i] = r) \/ h = r
        /\ (\E i \in 1..Len(t) : t[i] = r) => (\E i \in 1..Len(s) : s[i] = r)
    BY <1>1, <1>2
  <2> QED BY <2>1 DEF Records, r
<1>6. ASSUME Fresh(s, O), O2 \subseteq O \union {h.creates}
      PROVE  Fresh(t, O2)
  <2> SUFFICES ASSUME NEW i \in 1..Len(t), ~IsRecord(t[i])
               PROVE  /\ t[i].creates \notin O2
                      /\ \A j \in 1..i - 1 : t[j].creates # t[i].creates
    BY DEF Fresh
  <2>1. i + 1 \in 1..Len(s) /\ s[i + 1] = t[i] /\ (i + 1) - 1 = i
    BY <1>1, <1>2
  <2>2. /\ t[i].creates \notin O
        /\ \A j \in 1..i : s[j].creates # t[i].creates
    <3>1. ~IsRecord(s[i + 1])
      BY <2>1
    <3> QED BY <1>6, <2>1, <3>1 DEF Fresh
  <2>3. 1 \in 1..i /\ \A j \in 1..i - 1 : j + 1 \in 1..i /\ t[j] = s[j + 1]
    BY <1>1, <1>2
  <2> QED BY <1>1, <1>6, <2>2, <2>3
<1> QED BY <1>1, <1>3, <1>4, <1>5, <1>6 DEF t, h

\* What the first statement needs is there when it is run.
LEMMA HeadPlanned ==
  ASSUME NEW s \in Seq(Statements), s # <<>>, NEW O, NEW V, Sound(s, O, V), Finished(s)
  PROVE  /\ Head(s).version \in 1..3
         /\ IsRecord(Head(s)) =>
                /\ Head(s) = Schema!Record(Head(s).version)
                /\ Schema!Names(Head(s).version) \subseteq O
                /\ 1..Head(s).version - 1 \subseteq V
         /\ ~IsRecord(Head(s)) =>
                /\ Head(s).creates \in Schema!Names(Head(s).version)
                /\ Records(Tail(s), Head(s).version)
         /\ Fresh(s, O) => IsRecord(Head(s)) \/ Head(s).creates \notin O
<1>1. /\ Head(s) \in Statements /\ Head(s) = s[1] /\ 1 \in 1..Len(s) /\ 1..1 - 1 = {}
      /\ Len(s) \in Nat /\ Len(Tail(s)) = Len(s) - 1
      /\ \A i \in 1..Len(Tail(s)) : Tail(s)[i] = s[i + 1]
  BY HeadTailProperties, EmptySeq
<1>2. Head(s).version \in 1..3
  BY <1>1, NamesDiffer DEF Statements
<1>3. IsRecord(Head(s)) =>
          /\ Head(s) = Schema!Record(Head(s).version)
          /\ Schema!Names(Head(s).version) \subseteq O
          /\ 1..Head(s).version - 1 \subseteq V
  <2>1. IsRecord(Head(s)) => Head(s) = Schema!Record(Head(s).version)
    BY <1>1 DEF Statements, IsRecord, Schema!Record
  <2> QED BY <1>1, <2>1 DEF Sound
<1>4. ~IsRecord(Head(s)) =>
          /\ Head(s).creates \in Schema!Names(Head(s).version)
          /\ Records(Tail(s), Head(s).version)
  <2> SUFFICES ASSUME ~IsRecord(s[1])
               PROVE  /\ s[1].creates \in Schema!Names(s[1].version)
                      /\ Records(Tail(s), s[1].version)
    BY <1>1
  <2>1. PICK j \in 1 + 1..Len(s) : s[j] = Schema!Record(s[1].version)
    BY <1>1 DEF Finished
  <2>2. j - 1 \in 1..Len(Tail(s)) /\ Tail(s)[j - 1] = s[j]
    BY <1>1
  <2>3. Records(Tail(s), s[1].version)
    BY <2>1, <2>2 DEF Records
  <2> QED BY <1>1, <2>3 DEF Finished
<1>5. Fresh(s, O) => IsRecord(Head(s)) \/ Head(s).creates \notin O
  BY <1>1 DEF Fresh
<1> QED BY <1>2, <1>3, <1>4, <1>5

-----------------------------------------------------------------------------
(* The inductive invariant *)

\* The migrations, whatever died: what is left to run completes what it
\* records, and then the release has all its versions.
MigrationInv ==
    /\ Schema!TypeOK /\ Schema!RecordedIsApplied
    /\ todo \in Seq(Statements) /\ Sound(todo, objects, versions) /\ Finished(todo)
    /\ release \in 1..3
    /\ stage # "schema" => todo = <<>>
    /\ stage = "schema" => \A v \in 1..release : v \in versions \/ Records(todo, v)
    /\ stage = "up" => \A v \in 1..release : v \in versions

\* The configuration: what is in memory is of this version, and a cadence the
\* page does not offer comes from a hand edit.
SettingsInv ==
    /\ SettingsTypeOK /\ faults \in Nat /\ edits \in Nat
    /\ live # None => live.version = Supported
    /\ page # None => page.version = Supported
    /\ edits = 0 =>
        /\ Readable => file.cadence \in Cadences
        /\ live # None => live.cadence \in Cadences
        /\ page # None => page.cadence \in Cadences
        /\ cadence # 0

StageInv ==
    /\ stage \in {"down", "config", "schema", "up", "failed"}
    /\ IF stage = "up" THEN now \in [day : Days, minute : Minutes] /\ front \in Titles
       ELSE now = None /\ front = None
    /\ stage \in {"down", "config"} => live = None
    /\ stage \in {"schema", "up"} => live # None
    /\ stage # "up" => cadence = None /\ page = None

\* As long as nothing failed, died in a write or was edited.
CleanInv ==
    /\ stage # "failed"
    /\ Owned(todo) /\ Fresh(todo, objects)
    /\ file # Torn /\ (Readable => file.version <= Supported)
    /\ live # None => Readable /\ SameSettings(live, file)

LaunchInv ==
    /\ MigrationInv /\ SettingsInv /\ StageInv
    /\ faults + edits = 0 => CleanInv

LEMMA InitInv ==
  ASSUME Init
  PROVE  LaunchInv
<1>1. MigrationInv
  <2>1. todo = <<>> /\ objects = {} /\ versions = {} /\ stage = "down" /\ release \in 1..3
    BY NamesDiffer DEF Init, Schema!Init, Releases
  <2>2. todo \in Seq(Statements) /\ Len(todo) = 0 /\ 1..Len(todo) = {} /\ DOMAIN todo = {}
    BY <2>1
  <2> QED BY <2>1, <2>2 DEF MigrationInv, Schema!TypeOK, Schema!RecordedIsApplied, Sound, Finished
<1>2. SettingsInv
  BY SettingsAssumption, NoConfigAssumption
     DEF Init, SettingsInit, SettingsInv, SettingsTypeOK, Readable
<1>3. StageInv
  BY DEF Init, SettingsInit, StageInv
<1>4. CleanInv
  <2>1. todo = <<>> /\ objects = {}
    BY DEF Init, Schema!Init
  <2>2. 1..Len(todo) = {}
    BY <2>1
  <2>3. Owned(todo) /\ Fresh(todo, objects)
    BY <2>1, <2>2 DEF Owned, Fresh
  <2> QED BY <2>3, NoConfigAssumption DEF CleanInv, Init, SettingsInit, Readable
<1> QED BY <1>1, <1>2, <1>3, <1>4 DEF LaunchInv

\* A migration batch that starts.
LEMMA BeginStep ==
  ASSUME MigrationInv, Schema!Begin(release), release' = release, todo = <<>>,
         stage' = "schema"
  PROVE  MigrationInv' /\ (Owned(todo) => (Owned(todo) /\ Fresh(todo, objects))')
<1>1. todo' = Schema!Pending(release) /\ objects' = objects /\ versions' = versions
  BY DEF Schema!Begin
<1>2. /\ todo' \in Seq(Statements)
      /\ Sound(todo', objects, versions)
      /\ Finished(todo')
      /\ \A v \in 1..release : v \in versions \/ Records(todo', v)
      /\ Owned(<<>>) => Fresh(todo', objects)
  BY <1>1, PendingPlanned DEF MigrationInv
<1>3. Schema!TypeOK' /\ Schema!RecordedIsApplied'
  <2>1. \A i \in DOMAIN todo' : todo'[i] \in Statements
    BY <1>2, ElementOfSeq, LenProperties
  <2>2. \A i \in DOMAIN todo' : todo'[i].version \in Schema!Version
    BY <2>1 DEF Statements
  <2> QED BY <1>1, <2>2 DEF MigrationInv, Schema!TypeOK, Schema!RecordedIsApplied
<1>4. Owned(todo) => Owned(todo)'
  <2>1. \A v : ~Records(<<>>, v)
    BY DEF Records
  <2> QED BY <1>1, <2>1 DEF Owned
<1>5. (Sound(todo, objects, versions) /\ Finished(todo))'
  BY <1>1, <1>2 DEF Sound, Finished
<1>6. (\A v \in 1..release : v \in versions \/ Records(todo, v))'
  BY <1>1, <1>2 DEF Records
<1>7. Owned(todo) => Fresh(todo, objects)'
  BY <1>1, <1>2 DEF Fresh
<1> QED BY <1>1, <1>2, <1>3, <1>4, <1>5, <1>6, <1>7 DEF MigrationInv

\* A statement that runs.
LEMMA StatementStep ==
  ASSUME MigrationInv, Schema!Statement, stage = "schema", UNCHANGED <<stage, release>>
  PROVE  /\ MigrationInv'
         /\ Owned(todo) /\ Fresh(todo, objects) => (Owned(todo) /\ Fresh(todo, objects))'
<1> DEFINE h == Head(todo)
<1>1. /\ todo \in Seq(Statements) /\ todo # <<>>
      /\ Sound(todo, objects, versions) /\ Finished(todo)
      /\ todo' = Tail(todo)
  BY DEF MigrationInv, Schema!Statement
<1>2. IF IsRecord(h) THEN versions' = versions \union {h.version} /\ objects' = objects
      ELSE objects' = objects \union {h.creates} /\ versions' = versions
  BY DEF Schema!Statement, IsRecord
<1>3. /\ h.version \in 1..3
      /\ IsRecord(h) => /\ h = Schema!Record(h.version)
                        /\ Schema!Names(h.version) \subseteq objects
                        /\ 1..h.version - 1 \subseteq versions
      /\ ~IsRecord(h) => /\ h.creates \in Schema!Names(h.version)
                         /\ Records(Tail(todo), h.version)
  BY <1>1, HeadPlanned
<1> HIDE DEF h
<1>4. /\ todo' \in Seq(Statements)
      /\ Sound(todo', objects', versions')
      /\ Finished(todo')
      /\ \A w : Records(todo, w) => Records(todo', w) \/ h = Schema!Record(w)
      /\ \A w : Records(todo', w) => Records(todo, w)
      /\ Fresh(todo, objects) => Fresh(todo', objects')
  <2>1. /\ objects \subseteq objects' /\ (~IsRecord(h) => h.creates \in objects')
        /\ versions \subseteq versions' /\ (IsRecord(h) => h.version \in versions')
        /\ objects' \subseteq objects \union {h.creates}
    BY <1>2
  <2> QED BY <1>1, <2>1, PlanAdvances DEF h
<1>5. Schema!TypeOK'
  <2>1. objects' \subseteq Objects /\ versions' \subseteq Schema!Version
    BY <1>2, <1>3, NamesDiffer DEF MigrationInv, Schema!TypeOK, Objects
  <2>2. \A i \in DOMAIN todo' : todo'[i] \in Statements
    BY <1>4, ElementOfSeq, LenProperties
  <2>3. \A i \in DOMAIN todo' : todo'[i].version \in Schema!Version
    BY <2>2 DEF Statements
  <2> QED BY <2>1, <2>3 DEF Schema!TypeOK, Objects
<1>6. Schema!RecordedIsApplied'
  <2>1. CASE IsRecord(h)
    <3>1. versions' = versions \union {h.version} /\ objects' = objects
      BY <1>2, <2>1
    <3>2. 1..h.version \subseteq versions' /\ Schema!Names(h.version) \subseteq objects'
      BY <1>3, <2>1, <3>1
    <3> QED BY <3>1, <3>2 DEF MigrationInv, Schema!RecordedIsApplied
  <2>2. CASE ~IsRecord(h)
    <3>1. versions' = versions /\ objects \subseteq objects'
      BY <1>2, <2>2
    <3> QED BY <3>1 DEF MigrationInv, Schema!RecordedIsApplied
  <2> QED BY <2>1, <2>2
<1>7. \A w : h = Schema!Record(w) => w \in versions'
  <2>1. \A w : h = Schema!Record(w) => IsRecord(h) /\ h.version = w
    BY DEF Schema!Record, IsRecord
  <2> QED BY <1>2, <2>1
<1>8. versions \subseteq versions'
  BY <1>2
<1>9. \A v \in 1..release : v \in versions' \/ Records(todo', v)
  BY <1>4, <1>7, <1>8 DEF MigrationInv
<1>10. ASSUME Owned(todo)
       PROVE  Owned(todo)'
  <2> SUFFICES ASSUME NEW n \in objects'
               PROVE  \E v \in 1..3 :
                        n \in Schema!Names(v) /\ (v \in versions' \/ Records(todo', v))
    BY DEF Owned, Records
  <2>1. CASE n \in objects
    BY <1>4, <1>7, <1>8, <1>10, <2>1 DEF Owned
  <2>2. CASE n \notin objects
    <3>1. ~IsRecord(h) /\ n = h.creates
      BY <1>2, <2>2
    <3> QED BY <1>1, <1>3, <3>1
  <2> QED BY <2>1, <2>2
<1>11. (Sound(todo, objects, versions) /\ Finished(todo))'
  BY <1>4 DEF Sound, Finished
<1>12. (\A v \in 1..release : v \in versions \/ Records(todo, v))'
  BY <1>9 DEF Records
<1>13. Fresh(todo, objects) => Fresh(todo, objects)'
  BY <1>4 DEF Fresh
<1> HIDE DEF Schema!TypeOK
<1> QED BY <1>4, <1>5, <1>6, <1>10, <1>11, <1>12, <1>13 DEF MigrationInv

\* A batch that is given up, or a step that touches no migration.
LEMMA NoStatementStep ==
  ASSUME MigrationInv, todo' \in {todo, <<>>}, UNCHANGED <<objects, versions>>,
         release' \in 1..3, stage' # "schema" => todo' = <<>>,
         stage' = "schema" => UNCHANGED <<todo, stage, release>>,
         stage' = "up" => /\ release' = release
                          /\ stage = "up" \/ (stage = "schema" /\ todo = <<>>)
  PROVE  MigrationInv'
<1>1. CASE todo' = todo
  <2>1. stage' = "up" => \A v \in 1..release' : v \in versions'
    <3>1. \A v : todo = <<>> => ~Records(todo, v)
      BY DEF Records
    <3> QED BY <3>1 DEF MigrationInv
  <2>2. (Schema!TypeOK /\ Schema!RecordedIsApplied)'
    BY <1>1 DEF MigrationInv, Schema!TypeOK, Schema!RecordedIsApplied
  <2>3. (Sound(todo, objects, versions) /\ Finished(todo))'
    BY <1>1 DEF MigrationInv, Sound, Finished
  <2>4. (stage = "schema" => \A v \in 1..release : v \in versions \/ Records(todo, v))'
    BY <1>1 DEF MigrationInv, Records
  <2> QED BY <1>1, <2>1, <2>2, <2>3, <2>4 DEF MigrationInv
<1>2. CASE todo' # todo
  <2>1. todo' = <<>> /\ Len(todo') = 0 /\ DOMAIN todo' = {} /\ todo' \in Seq(Statements)
    <3>1. todo' = <<>>
      BY <1>2
    <3> QED BY <3>1
  <2>2. (Sound(todo, objects, versions) /\ Finished(todo))'
    BY <2>1 DEF Sound, Finished
  <2>3. (Schema!TypeOK /\ Schema!RecordedIsApplied)'
    BY <2>1 DEF MigrationInv, Schema!TypeOK, Schema!RecordedIsApplied
  <2>4. stage' # "schema" /\ (stage' = "up" => \A v \in 1..release' : v \in versions')
    BY <1>2 DEF MigrationInv
  <2> QED BY <2>1, <2>2, <2>3, <2>4 DEF MigrationInv
<1> QED BY <1>1, <1>2

\* A configuration with a field changed is one.
LEMMA ConfigShapes ==
  /\ \A c \in Configs, v \in 0..Supported + 1, d \in Cadences \union HandCadences, h \in Hands :
        [c EXCEPT !.cadence = d, !.hand = h, !.version = v] \in Configs
  /\ \A c \in Configs, v \in 0..Supported + 1 :
        /\ [c EXCEPT !.version = v] \in Configs
        /\ [c EXCEPT !.version = v].version = v
        /\ [c EXCEPT !.version = v].cadence = c.cadence
  /\ \A c \in Configs, d \in Cadences :
        /\ [c EXCEPT !.cadence = d] \in Configs
        /\ [c EXCEPT !.cadence = d].cadence = d
        /\ [c EXCEPT !.cadence = d].version = c.version
  /\ \A c \in Configs, e \in Addresses \union {None} :
        /\ [c EXCEPT !.recipient = e] \in Configs
        /\ [c EXCEPT !.recipient = e].cadence = c.cadence
        /\ [c EXCEPT !.recipient = e].version = c.version
  /\ users \in Nat /\ users + 1 \in 1..MaxUsers =>
        /\ Default \in Configs /\ Default.version = Supported /\ Default.cadence \in Cadences
  /\ \A c \in Configs : c.cadence \in Nat /\ c # None /\ c \notin {Missing, Torn}
<1>1. ASSUME NEW c \in Configs, NEW v \in 0..Supported + 1,
             NEW d \in Cadences \union HandCadences, NEW h \in Hands
      PROVE  [c EXCEPT !.cadence = d, !.hand = h, !.version = v] \in Configs
  BY DEF Configs
<1>2. ASSUME NEW c \in Configs, NEW v \in 0..Supported + 1
      PROVE  /\ [c EXCEPT !.version = v] \in Configs
             /\ [c EXCEPT !.version = v].version = v
             /\ [c EXCEPT !.version = v].cadence = c.cadence
  BY DEF Configs
<1>3. ASSUME NEW c \in Configs, NEW d \in Cadences
      PROVE  /\ [c EXCEPT !.cadence = d] \in Configs
             /\ [c EXCEPT !.cadence = d].cadence = d
             /\ [c EXCEPT !.cadence = d].version = c.version
  BY DEF Configs
<1>4. ASSUME NEW c \in Configs, NEW e \in Addresses \union {None}
      PROVE  /\ [c EXCEPT !.recipient = e] \in Configs
             /\ [c EXCEPT !.recipient = e].cadence = c.cadence
             /\ [c EXCEPT !.recipient = e].version = c.version
  BY DEF Configs
<1>5. users \in Nat /\ users + 1 \in 1..MaxUsers =>
          /\ Default \in Configs /\ Default.version = Supported /\ Default.cadence \in Cadences
  BY SettingsAssumption DEF Default, Configs, Supported
<1>6. \A c \in Configs : c.cadence \in Nat /\ c # None /\ c \notin {Missing, Torn}
  BY SettingsAssumption, NoConfigAssumption DEF Configs
<1> QED BY <1>1, <1>2, <1>3, <1>4, <1>5, <1>6

\* What a command leaves behind it.
LEMMA CommandShape ==
  ASSUME SettingsInv, Command
  PROVE  /\ live # None /\ live' \in Configs
         /\ live'.version = Supported
         /\ edits = 0 => live'.cadence \in Cadences
         /\ file' \in {file, live', Torn}
         /\ page' \in {page, live'}
         /\ asked' \in Addresses \union {None}
         /\ UNCHANGED <<cadence, users>>
         /\ faults' \in Nat
         /\ faults' = faults => file' = live'
<1>1. PICK ok \in BOOLEAN :
          /\ UpdateSettings(ok) \/ ClearRecipient(ok) \/ \E e \in Addresses : SetRecipient(e, ok)
          /\ IF ok THEN UNCHANGED faults ELSE faults < MaxFaults /\ faults' = faults + 1
  BY DEF Command
<1>2. faults' \in Nat /\ (faults' = faults => ok)
  BY <1>1 DEF SettingsInv
<1>3. /\ live \in Configs \union {None} /\ page \in Configs \union {None}
      /\ asked \in Addresses \union {None}
  BY DEF SettingsInv, SettingsTypeOK
<1>4. Write(ok) => file' \in {file, live', Torn} /\ (ok => file' = live')
  BY DEF Write
<1>5. CASE UpdateSettings(ok)
  <2>1. PICK c \in Cadences : live' = [page EXCEPT !.cadence = c]
    BY <1>5 DEF UpdateSettings
  <2>2. page \in Configs /\ page.version = Supported /\ live # None
    BY <1>3, <1>5 DEF UpdateSettings, SettingsInv
  <2>3. live' \in Configs /\ live'.version = Supported /\ live'.cadence \in Cadences
    BY <2>1, <2>2, ConfigShapes
  <2> QED BY <1>2, <1>3, <1>4, <1>5, <2>2, <2>3 DEF UpdateSettings
<1>6. CASE ClearRecipient(ok)
  <2>1. /\ live \in Configs /\ live' = [live EXCEPT !.recipient = None]
    BY <1>3, <1>6 DEF ClearRecipient
  <2>2. live' \in Configs /\ live'.version = live.version /\ live'.cadence = live.cadence
    BY <2>1, ConfigShapes
  <2> QED BY <1>2, <1>3, <1>4, <1>6, <2>2 DEF ClearRecipient, SettingsInv
<1>7. ASSUME NEW e \in Addresses, SetRecipient(e, ok)
      PROVE  /\ live # None /\ live' \in Configs
             /\ live'.version = Supported
             /\ edits = 0 => live'.cadence \in Cadences
             /\ file' \in {file, live', Torn}
             /\ page' \in {page, live'}
             /\ asked' \in Addresses \union {None}
             /\ UNCHANGED <<cadence, users>>
             /\ faults' \in Nat
             /\ faults' = faults => file' = live'
  <2> DEFINE a == IF live.account = None THEN e ELSE live.account
  <2>1. live \in Configs /\ live' = [live EXCEPT !.recipient = e, !.account = a]
    BY <1>3, <1>7 DEF SetRecipient
  <2>2. e \in Addresses \union {None} /\ a \in Addresses \union {None}
    BY <2>1 DEF Configs
  <2> HIDE DEF a
  <2>3. live' \in Configs /\ live'.version = live.version /\ live'.cadence = live.cadence
    BY <2>1, <2>2 DEF Configs
  <2> QED BY <1>2, <1>3, <1>4, <1>7, <2>3 DEF SetRecipient, SettingsInv
<1> QED BY <1>1, <1>5, <1>6, <1>7

\* Every step counts its faults and edits.
LEMMA BoundsStep ==
  ASSUME SettingsInv, Next
  PROVE  /\ faults' \in Nat /\ edits' \in Nat /\ faults <= faults' /\ edits <= edits'
         /\ edits' # edits => Edit
<1>1. faults \in Nat /\ edits \in Nat
  BY DEF SettingsInv
<1>2. CASE Command
  <2>1. edits' = edits /\ (faults' = faults \/ faults' = faults + 1)
    BY <1>2 DEF Command
  <2> QED BY <1>1, <2>1
<1>3. CASE Edit
  BY <1>1, <1>3 DEF Edit
<1>4. CASE ~Command /\ ~Edit
  <2>1. UNCHANGED bounds \/ Fault
    BY <1>4 DEF Next, Start, LoadConfig, ConfigFails, Migrate, MigrationFails, ComeUp, Visit,
                Tick, SwitchWindow, Die, Fault, bounds
  <2> QED BY <1>1, <2>1 DEF Fault, bounds
<1> QED BY <1>2, <1>3, <1>4

\* A step into a run without fault or edit comes from one.
LEMMA CleanBefore ==
  ASSUME SettingsInv, Next, faults' + edits' = 0
  PROVE  faults = 0 /\ edits = 0 /\ faults' = 0 /\ edits' = 0 /\ faults + edits = 0
<1>1. /\ faults' \in Nat /\ edits' \in Nat /\ faults <= faults' /\ edits <= edits'
      /\ faults \in Nat /\ edits \in Nat
  BY BoundsStep DEF SettingsInv
<1>2. \A m, n \in Nat : m + n = 0 => m = 0 /\ n = 0
  OBVIOUS
<1>3. faults' = 0 /\ edits' = 0
  BY <1>1, <1>2
<1> QED BY <1>1, <1>3

LEMMA SettingsStep ==
  ASSUME SettingsInv, StageInv, Next
  PROVE  SettingsInv'
<1>0. /\ file \in Configs \union {Missing, Torn} /\ live \in Configs \union {None}
      /\ page \in Configs \union {None} /\ cadence \in Nat \union {None}
      /\ users \in 0..MaxUsers /\ asked \in Addresses \union {None}
      /\ MaxUsers \in Nat
      /\ \A c \in Configs : c.cadence \in Nat /\ c # None /\ c \notin {Missing, Torn}
      /\ Missing # Torn /\ None \notin Nat
  BY ConfigShapes, NoConfigAssumption, SettingsAssumption DEF SettingsInv, SettingsTypeOK
<1>1. faults' \in Nat /\ edits' \in Nat /\ (edits' = 0 => edits = 0)
  BY BoundsStep DEF SettingsInv
<1>2. CASE UNCHANGED settings
  <2>1. SettingsTypeOK'
    BY <1>2 DEF settings, SettingsInv, SettingsTypeOK
  <2> QED BY <1>1, <1>2, <2>1 DEF settings, SettingsInv, Readable
<1>3. CASE LoadConfig
  <2>1. CASE Create
    <3>1. /\ users < MaxUsers /\ users + 1 \in 1..MaxUsers /\ users \in Nat
          /\ users' = users + 1
      BY <1>0, <2>1 DEF Create
    <3>2. Default \in Configs /\ Default.version = Supported /\ Default.cadence \in Cadences
      BY <3>1, ConfigShapes
    <3>3. file' = Default /\ live' = Default /\ UNCHANGED <<page, cadence, asked>>
      BY <2>1 DEF Create
    <3>4. SettingsTypeOK'
      BY <1>0, <3>1, <3>2, <3>3 DEF SettingsTypeOK
    <3> QED BY <1>1, <3>2, <3>3, <3>4 DEF SettingsInv
  <2>2. CASE Load
    <3>1. file \in Configs /\ live' = [file EXCEPT !.version = Supported] /\ Readable
      BY <1>0, <2>2 DEF Load, Readable
    <3>2. live' \in Configs /\ live'.version = Supported /\ live'.cadence = file.cadence
      <4>1. Supported \in 0..Supported + 1
        BY DEF Supported
      <4> QED BY <3>1, <4>1, ConfigShapes
    <3>3. UNCHANGED <<file, page, cadence, users, asked>>
      BY <2>2 DEF Load
    <3>4. SettingsTypeOK'
      BY <1>0, <3>2, <3>3 DEF SettingsTypeOK
    <3> QED BY <1>1, <3>1, <3>2, <3>3, <3>4 DEF SettingsInv, Readable
  <2> QED BY <1>3, <2>1, <2>2 DEF LoadConfig
<1>4. CASE ConfigFails
  <2>1. CASE CreateFails
    <3>1. file' \in {Missing, Torn} /\ UNCHANGED <<live, page, cadence, users, asked>>
      BY <2>1 DEF CreateFails
    <3>2. SettingsTypeOK'
      BY <1>0, <3>1 DEF SettingsTypeOK
    <3> QED BY <1>1, <3>1, <3>2 DEF SettingsInv, Readable
  <2> QED BY <1>2, <1>4, <2>1 DEF ConfigFails, LoadFails
<1>5. CASE ComeUp
  <2>1. live \in Configs
    BY <1>0, <1>5 DEF ComeUp, StageInv
  <2>2. cadence' = live.cadence /\ UNCHANGED <<file, live, page, users, asked>>
    BY <1>5 DEF ComeUp, StartScheduler
  <2>3. SettingsTypeOK'
    BY <1>0, <2>1, <2>2 DEF SettingsTypeOK
  <2>4. edits = 0 => cadence' # 0
    BY <1>0, <2>1, <2>2, SettingsAssumption DEF SettingsInv
  <2> QED BY <1>1, <2>2, <2>3, <2>4 DEF SettingsInv, Readable
<1>6. CASE Command
  <2>1. /\ live' \in Configs /\ live'.version = Supported
        /\ edits = 0 => live'.cadence \in Cadences
        /\ file' \in {file, live', Torn} /\ page' \in {page, live'}
        /\ asked' \in Addresses \union {None} /\ UNCHANGED <<cadence, users>>
    BY <1>6, CommandShape
  <2>2. SettingsTypeOK'
    BY <1>0, <2>1 DEF SettingsTypeOK
  <2> QED BY <1>1, <2>1, <2>2 DEF SettingsInv, Readable
<1>7. CASE Visit
  <2>1. page' = live /\ live # None /\ UNCHANGED <<file, live, cadence, users, asked>>
    BY <1>7 DEF Visit, OpenPage
  <2>2. SettingsTypeOK'
    BY <1>0, <2>1 DEF SettingsTypeOK
  <2> QED BY <1>1, <2>1, <2>2 DEF SettingsInv, Readable
<1>8. CASE Edit
  <2>1. PICK c \in Cadences \union HandCadences, h \in Hands, v \in 0..Supported + 1 :
            file' = [file EXCEPT !.cadence = c, !.hand = h, !.version = v]
    BY <1>8 DEF Edit, HandEdit
  <2>2. file \in Configs /\ UNCHANGED <<live, page, cadence, users, asked>> /\ edits' # 0
    BY <1>0, <1>8 DEF Edit, HandEdit, Readable, SettingsInv
  <2>3. file' \in Configs
    BY <2>1, <2>2, ConfigShapes
  <2>4. SettingsTypeOK'
    BY <1>0, <2>2, <2>3 DEF SettingsTypeOK
  <2> QED BY <1>1, <2>2, <2>4 DEF SettingsInv
<1>9. CASE Die
  <2>1. /\ file' \in {file, Torn} /\ live' = None /\ page' = None /\ cadence' = None
        /\ UNCHANGED <<users, asked>>
    BY <1>9 DEF Die, SettingsDie
  <2>2. SettingsTypeOK'
    BY <1>0, <2>1 DEF SettingsTypeOK
  <2> QED BY <1>0, <1>1, <2>1, <2>2 DEF SettingsInv, Readable
<1>10. CASE Start \/ Migrate \/ MigrationFails \/ Tick \/ SwitchWindow
  BY <1>2, <1>10 DEF Start, Migrate, MigrationFails, Tick, SwitchWindow
<1> QED BY <1>3, <1>4, <1>5, <1>6, <1>7, <1>8, <1>9, <1>10 DEF Next

\* The next minute is one of the clock's.
LEMMA NextMinuteType ==
  ASSUME NEW t \in [day : Days, minute : Minutes]
  PROVE  NextMinute(t) \in [day : Days, minute : Minutes]
<1> DEFINE n == Cardinality(Days)
<1>1. n \in Nat /\ n # 0 /\ Days = 0..n - 1
  BY GateAssumption, FS_CardinalityType, FS_EmptySet
<1> HIDE DEF n
<1>2. t.day \in 0..n - 1 /\ t.minute \in 0..LastMinute
  BY <1>1 DEF Minutes
<1>3. (t.day + 1) % n \in 0..n - 1
  BY <1>1, <1>2
<1>4. 0 \in Minutes /\ (t.minute < LastMinute => t.minute + 1 \in Minutes)
  BY <1>2, GateAssumption DEF Minutes
<1> QED BY <1>1, <1>3, <1>4 DEF NextMinute, n

LEMMA StageStep ==
  ASSUME SettingsInv, StageInv, Next
  PROVE  StageInv'
<1>0. \A c \in Configs : c # None
  BY NoConfigAssumption
<1>1. CASE Start
  BY <1>1 DEF StageInv, Start, settings, env
<1>2. CASE LoadConfig
  <2>1. live' # None /\ UNCHANGED <<page, cadence>>
    <3>1. CASE Create
      <4>1. users \in Nat /\ users + 1 \in 1..MaxUsers
        BY <3>1, SettingsAssumption DEF Create, SettingsInv, SettingsTypeOK
      <4> QED BY <1>0, <3>1, <4>1, ConfigShapes DEF Create
    <3>2. CASE Load
      <4>1. file \in Configs
        BY <3>2 DEF Load, Readable, SettingsInv, SettingsTypeOK
      <4>2. live' \in Configs
        <5>1. Supported \in 0..Supported + 1
          BY DEF Supported
        <5> QED BY <3>2, <4>1, <5>1, ConfigShapes DEF Load
      <4> QED BY <1>0, <3>2, <4>2 DEF Load
    <3> QED BY <1>2, <3>1, <3>2 DEF LoadConfig
  <2> QED BY <1>2, <2>1 DEF StageInv, LoadConfig, env
<1>3. CASE ConfigFails
  BY <1>3 DEF StageInv, ConfigFails, LoadFails, CreateFails, settings, env
<1>4. CASE Migrate
  BY <1>4 DEF StageInv, Migrate, settings, env
<1>5. CASE MigrationFails
  BY <1>5 DEF StageInv, MigrationFails, settings, env
<1>6. CASE ComeUp
  <2>1. \A d \in Days : [day |-> d, minute |-> 0] \in [day : Days, minute : Minutes]
    BY GateAssumption DEF Minutes
  <2> QED BY <1>6, <2>1 DEF StageInv, ComeUp, StartScheduler
<1>7. CASE Command
  <2>1. live' # None
    BY <1>0, <1>7, CommandShape
  <2> QED BY <1>7, <2>1 DEF StageInv, Command, env
<1>8. CASE Visit
  BY <1>8 DEF StageInv, Visit, OpenPage, env
<1>9. CASE Edit
  BY <1>9 DEF StageInv, Edit, HandEdit, env
<1>10. CASE Tick
  <2>1. now' \in [day : Days, minute : Minutes]
    BY <1>10, NextMinuteType DEF Tick, StageInv
  <2> QED BY <1>10, <2>1 DEF StageInv, Tick, settings
<1>11. CASE SwitchWindow
  BY <1>11 DEF StageInv, SwitchWindow, settings
<1>12. CASE Die
  BY <1>12 DEF StageInv, Die, SettingsDie
<1> QED BY <1>1, <1>2, <1>3, <1>4, <1>5, <1>6, <1>7, <1>8, <1>9, <1>10, <1>11, <1>12 DEF Next

LEMMA MigrationStep ==
  ASSUME LaunchInv, Next
  PROVE  MigrationInv'
<1>0. MigrationInv /\ Releases = 1..3
  BY NamesDiffer DEF LaunchInv, Releases
<1> USE DEF schema
<1>1. CASE LoadConfig
  BY <1>0, <1>1, BeginStep DEF LoadConfig, MigrationInv
<1>2. CASE Migrate
  BY <1>0, <1>2, StatementStep DEF Migrate
<1>3. CASE MigrationFails
  BY <1>0, <1>3, NoStatementStep DEF MigrationFails, Schema!StatementFails, MigrationInv
<1>4. CASE Die
  BY <1>0, <1>4, NoStatementStep DEF Die, Schema!Dies, MigrationInv
<1>5. CASE Start
  BY <1>0, <1>5, NoStatementStep DEF Start, MigrationInv
<1>6. CASE ConfigFails
  BY <1>0, <1>6, NoStatementStep DEF ConfigFails, MigrationInv
<1>7. CASE ComeUp
  BY <1>0, <1>7, NoStatementStep DEF ComeUp, MigrationInv
<1>8. CASE Command \/ Visit \/ Edit \/ Tick \/ SwitchWindow
  <2>1. UNCHANGED <<stage, release, todo, objects, versions>>
    BY <1>8 DEF Command, Visit, Edit, Tick, SwitchWindow
  <2> QED BY <1>0, <2>1, NoStatementStep DEF MigrationInv
<1> QED BY <1>1, <1>2, <1>3, <1>4, <1>5, <1>6, <1>7, <1>8 DEF LaunchInv, Next

\* The parts of CleanInv: what the file holds, and what the database does.
FileClean ==
    /\ file # Torn /\ (Readable => file.version <= Supported)
    /\ live # None => Readable /\ SameSettings(live, file)

LEMMA FileCleanStep ==
  ASSUME SettingsInv, StageInv, FileClean, Next, faults' + edits' = 0
  PROVE  FileClean'
<1>0. /\ file \in Configs \union {Missing, Torn} /\ live \in Configs \union {None}
      /\ \A c \in Configs : c # None /\ c \notin {Missing, Torn}
      /\ Missing # Torn
      /\ faults = 0 /\ edits = 0 /\ faults' = 0 /\ edits' = 0
  BY CleanBefore, ConfigShapes, NoConfigAssumption DEF SettingsInv, SettingsTypeOK
<1>1. CASE UNCHANGED <<file, live>>
  BY <1>1 DEF FileClean, Readable
<1>2. CASE LoadConfig
  <2>1. CASE Create
    <3>1. users \in Nat /\ users + 1 \in 1..MaxUsers
      BY <2>1, SettingsAssumption DEF Create, SettingsInv, SettingsTypeOK
    <3>2. /\ Default \in Configs /\ Default.version = Supported
          /\ file' = Default /\ live' = Default
      BY <2>1, <3>1, ConfigShapes DEF Create
    <3>3. Supported <= Supported
      BY DEF Supported
    <3> QED BY <1>0, <3>2, <3>3 DEF FileClean, Readable, SameSettings
  <2>2. CASE Load
    <3>1. /\ file \in Configs /\ file' = file /\ live' = [file EXCEPT !.version = Supported]
          /\ Readable /\ Readable'
      BY <1>0, <2>2 DEF Load, Readable
    <3>2. SameSettings(live', file)
      BY <3>1 DEF SameSettings, Configs
    <3> QED BY <3>1, <3>2 DEF FileClean
  <2> QED BY <1>2, <2>1, <2>2 DEF LoadConfig
<1>3. CASE ConfigFails
  BY <1>0, <1>1, <1>3 DEF ConfigFails, LoadFails, Fault, settings
<1>4. CASE ComeUp
  BY <1>1, <1>4 DEF ComeUp, StartScheduler
<1>5. CASE Command
  <2>1. live' \in Configs /\ live'.version = Supported /\ file' = live'
    BY <1>0, <1>5, CommandShape
  <2>2. Supported <= Supported
    BY DEF Supported
  <2> QED BY <1>0, <2>1, <2>2 DEF FileClean, Readable, SameSettings
<1>6. CASE Visit
  BY <1>1, <1>6 DEF Visit, OpenPage
<1>7. CASE Edit
  BY <1>0, <1>7 DEF Edit
<1>8. CASE Die
  <2>1. live' = None /\ file' = file
    BY <1>0, <1>8 DEF Die, SettingsDie, Fault
  <2> QED BY <2>1 DEF FileClean, Readable
<1>9. CASE Start \/ Migrate \/ MigrationFails \/ Tick \/ SwitchWindow
  BY <1>1, <1>9 DEF Start, Migrate, MigrationFails, Tick, SwitchWindow, settings
<1> QED BY <1>2, <1>3, <1>4, <1>5, <1>6, <1>7, <1>8, <1>9 DEF Next

SchemaClean ==
    /\ stage # "failed"
    /\ Owned(todo) /\ Fresh(todo, objects)

LEMMA SchemaCleanStep ==
  ASSUME LaunchInv, SchemaClean, FileClean, Next, faults' + edits' = 0
  PROVE  SchemaClean'
<1>0. /\ faults = 0 /\ edits = 0 /\ faults' = 0 /\ edits' = 0
      /\ MigrationInv
  BY CleanBefore DEF LaunchInv
<1>1. UNCHANGED schema => (Owned(todo) /\ Fresh(todo, objects))'
  BY DEF SchemaClean, schema, Owned, Fresh, Records
<1>2. CASE LoadConfig
  <2>1. (Owned(todo) /\ Fresh(todo, objects))'
    BY <1>0, <1>2, BeginStep DEF LoadConfig, MigrationInv, SchemaClean
  <2> QED BY <1>2, <2>1 DEF SchemaClean, LoadConfig
<1>3. CASE Migrate
  <2>1. (Owned(todo) /\ Fresh(todo, objects))'
    BY <1>0, <1>3, StatementStep DEF Migrate, SchemaClean
  <2> QED BY <1>3, <2>1 DEF SchemaClean, Migrate
<1>4. CASE MigrationFails
  <2>1. todo # <<>> /\ ~Schema!Possible(Head(todo))
    BY <1>0, <1>4 DEF MigrationFails, Schema!StatementFails, Fault
  <2>2. IsRecord(Head(todo)) \/ Head(todo).creates \notin objects
    BY <1>0, <2>1, HeadPlanned DEF MigrationInv, SchemaClean
  <2> QED BY <2>1, <2>2 DEF Schema!Possible, IsRecord
<1>5. CASE ConfigFails
  <2>1. LoadFails
    BY <1>0, <1>5 DEF ConfigFails, Fault
  <2>2. Readable /\ file.version > Supported /\ file.version <= Supported
    BY <2>1 DEF LoadFails, FileClean
  <2>3. file \in Configs
    BY <2>2 DEF LaunchInv, SettingsInv, SettingsTypeOK, Readable
  <2>4. file.version \in Int /\ Supported \in Int
    BY <2>3 DEF Configs, Supported
  <2> QED BY <2>2, <2>4
<1>6. CASE Die
  <2>1. stage \in {"up", "failed"} /\ stage' = "down"
    BY <1>0, <1>6 DEF Die, Fault
  <2>2. UNCHANGED schema
    BY <1>0, <1>6, <2>1 DEF Die, Schema!Dies, MigrationInv, schema
  <2> QED BY <1>1, <2>1, <2>2 DEF SchemaClean
<1>7. CASE Start \/ ComeUp
  BY <1>1, <1>7 DEF SchemaClean, Start, ComeUp
<1>8. CASE Command \/ Visit \/ Edit \/ Tick \/ SwitchWindow
  BY <1>1, <1>8 DEF SchemaClean, Command, Visit, Edit, Tick, SwitchWindow
<1> QED BY <1>2, <1>3, <1>4, <1>5, <1>6, <1>7, <1>8 DEF Next

LEMMA InvStep ==
  ASSUME LaunchInv, [Next]_vars
  PROVE  LaunchInv'
<1>1. CASE Next
  <2>1. MigrationInv' /\ SettingsInv' /\ StageInv'
    BY <1>1, MigrationStep, SettingsStep, StageStep DEF LaunchInv
  <2>2. ASSUME faults' + edits' = 0
        PROVE  CleanInv'
    <3>1. faults + edits = 0
      BY <1>1, <2>2, CleanBefore DEF LaunchInv
    <3>2. FileClean /\ SchemaClean
      BY <3>1 DEF LaunchInv, CleanInv, FileClean, SchemaClean
    <3>3. FileClean' /\ SchemaClean'
      BY <1>1, <2>2, <3>2, FileCleanStep, SchemaCleanStep DEF LaunchInv
    <3> QED BY <3>3 DEF CleanInv, FileClean, SchemaClean
  <2> QED BY <2>1, <2>2 DEF LaunchInv
<1>2. CASE UNCHANGED vars
  <2>1. /\ UNCHANGED <<file, live, page, cadence, users, asked, stage, release, now, front>>
        /\ UNCHANGED <<objects, versions, todo, faults, edits>>
    BY <1>2 DEF vars, settings, schema, env, bounds
  <2>2. MigrationInv'
    BY <2>1, NoStatementStep DEF LaunchInv, MigrationInv
  <2>3. SettingsInv'
    BY <2>1 DEF LaunchInv, SettingsInv, SettingsTypeOK, Readable
  <2>4. StageInv'
    BY <2>1 DEF LaunchInv, StageInv
  <2>5. (faults + edits = 0 => CleanInv)'
    BY <2>1 DEF LaunchInv, CleanInv, Owned, Fresh, Records, Readable, SameSettings
  <2> QED BY <2>2, <2>3, <2>4, <2>5 DEF LaunchInv
<1> QED BY <1>1, <1>2

-----------------------------------------------------------------------------
(* Theorems *)

LEMMA Invariant == Spec => []LaunchInv
<1>1. Init => LaunchInv
  BY InitInv
<1>2. LaunchInv /\ [Next]_vars => LaunchInv'
  BY InvStep
<1> QED BY <1>1, <1>2, PTL DEF Spec

\* Every variable has its type at every stage; a program that is up finds every
\* object of its release, and its loop is dead only after a 0 typed by hand
\* (lib.rs bootstrap, storage/schema.rs, config/mod.rs).
THEOREM TypeCorrect == Spec => []TypeOK
<1>1. LaunchInv => TypeOK
  <2> SUFFICES ASSUME LaunchInv PROVE TypeOK
    OBVIOUS
  <2>1. SettingsTypeOK /\ (cadence = 0 => edits > 0)
    BY DEF LaunchInv, SettingsInv
  <2>2. Schema!TypeOK /\ release \in Releases
    BY NamesDiffer DEF LaunchInv, MigrationInv, Releases
  <2>3. stage = "up" => \A v \in 1..release : Schema!Names(v) \subseteq objects
    BY DEF LaunchInv, MigrationInv, Schema!RecordedIsApplied
  <2>4. StageInv
    BY DEF LaunchInv
  <2> HIDE DEF LaunchInv, SettingsTypeOK, Schema!TypeOK
  <2> QED BY <2>1, <2>2, <2>3, <2>4 DEF TypeOK, StageInv
<1> QED BY <1>1, Invariant, PTL

\* Whatever died or failed between two statements, and whichever release ran, a
\* version that is recorded is complete (storage/schema.rs run_migrations).
THEOREM RecordedCorrect == Spec => []RecordedIsApplied
<1>1. LaunchInv => RecordedIsApplied
  BY DEF LaunchInv, MigrationInv, RecordedIsApplied
<1> QED BY <1>1, Invariant, PTL

\* Without a failure, a death or a hand edit no launch fails, upgrades and
\* downgrades included (lib.rs bootstrap).
THEOREM LaunchCorrect == Spec => []LaunchesClean
<1>1. LaunchInv => LaunchesClean
  BY DEF LaunchInv, CleanInv, LaunchesClean, SettingsInv
<1> QED BY <1>1, Invariant, PTL

\* What the commands changed in memory is what the next launch reads, as long
\* as no write failed and nobody edited (config/mod.rs save, lib.rs commands).
THEOREM MemoryCorrect == Spec => []MemoryIsFile
<1>1. LaunchInv => MemoryIsFile
  BY DEF LaunchInv, CleanInv, MemoryIsFile
<1> QED BY <1>1, Invariant, PTL

\* One tick of the clock leaves the work hours at their end or at midnight only,
\* for any hours and any clock (capture/scheduler.rs within_work_hours).
THEOREM HoursCorrect == Spec => HoursEndAtEnd
<1> DEFINE Out(h) == WithinWorkHours(h, now) /\ ~WithinWorkHours(h, now')
                        => now.minute = h.end \/ now'.minute = 0
           A == stage = "up" /\ now' \notin {now, None} => Out(live.hand.hours)
<1>1. ASSUME NEW t \in [day : Days, minute : Minutes], NEW h,
             WithinWorkHours(h, t), ~WithinWorkHours(h, NextMinute(t))
      PROVE  t.minute = h.end \/ NextMinute(t).minute = 0
  <2>1. CASE t.minute < LastMinute
    <3>1. NextMinute(t).day = t.day /\ NextMinute(t).minute = t.minute + 1
      BY <2>1 DEF NextMinute
    <3>2. {h.start, h.end} \subseteq Minutes
      BY <1>1, <3>1 DEF WithinWorkHours
    <3>3. t.minute \in Int /\ h.start \in Int /\ h.end \in Int
      BY <3>2, GateAssumption DEF Minutes
    <3> QED BY <1>1, <3>1, <3>2, <3>3 DEF WithinWorkHours
  <2>2. CASE ~(t.minute < LastMinute)
    BY <2>2 DEF NextMinute
  <2> QED BY <2>1, <2>2
<1>2. LaunchInv /\ [Next]_vars => [A]_vars
  <2> SUFFICES ASSUME LaunchInv, Next, stage = "up", now' \notin {now, None}
               PROVE  Out(live.hand.hours)
    OBVIOUS
  <2>1. Tick
    BY DEF Next, Start, LoadConfig, ConfigFails, Migrate, MigrationFails, ComeUp, Command,
           Visit, Edit, SwitchWindow, Die, env
  <2>2. now' = NextMinute(now) /\ now \in [day : Days, minute : Minutes]
    BY <2>1 DEF Tick, LaunchInv, StageInv
  <2> QED BY <1>1, <2>2
<1>3. [][A]_vars <=> HoursEndAtEnd
  BY PTL DEF HoursEndAtEnd
<1> QED BY <1>2, <1>3, Invariant, PTL DEF Spec


-----------------------------------------------------------------------------
(* Induction and recursion over numbers *)

Below == {ss \in Nat \X Nat : ss[1] < ss[2]}

\* A set of numbers that is not empty has a smallest one.
LEMMA Least ==
  ASSUME NEW T \in SUBSET Nat, T # {}
  PROVE  \E n \in T : \A m \in T : n <= m
<1>1. IsWellFoundedOn(Below, Nat)
  BY NatLessThanWellFounded DEF OpToRel, Below
<1>2. PICK x \in T : \A y \in T : ~ (<<y, x>> \in Below)
  BY <1>1, WFMin
<1>3. \A y \in T : ~(y < x)
  BY <1>2 DEF Below
<1>4. ASSUME NEW y \in T PROVE x <= y
  <2>1. ~(y < x) /\ x \in Nat /\ y \in Nat
    BY <1>3
  <2> QED BY <2>1
<1> QED BY <1>4

LEMMA Induct ==
  ASSUME NEW S \in SUBSET Nat, 0 \in S, \A n \in S : n + 1 \in S
  PROVE  S = Nat
<1> SUFFICES ASSUME Nat \ S # {} PROVE FALSE
  OBVIOUS
<1>1. PICK n \in Nat \ S : \A m \in Nat \ S : n <= m
  BY Least
<1>2. n # 0 /\ n - 1 \in Nat /\ ~(n <= n - 1)
  OBVIOUS
<1>3. n - 1 \in S
  BY <1>1, <1>2
<1>4. (n - 1) + 1 \in S
  BY <1>3
<1> QED BY <1>1, <1>4

\* The same up to a number N.
LEMMA InductTo ==
  ASSUME NEW N \in Nat, NEW S, 0 \in S, \A n \in 0..N - 1 : n \in S => n + 1 \in S
  PROVE  0..N \subseteq S
<1> DEFINE T == {n \in Nat : n <= N => n \in S}
<1>1. 0 \in T /\ \A n \in T : n + 1 \in T
  OBVIOUS
<1>2. T = Nat
  <2> HIDE DEF T
  <2>1. T \subseteq Nat
    BY DEF T
  <2> QED BY <1>1, <2>1, Induct
<1> QED BY <1>2

\* There is a function of 0..N with a given value at 0 and a given step.
Follows(f, N, S, base, step) ==
  f \in [0..N -> S] /\ f[0] = base /\ \A n \in 1..N : f[n] = step[<<f[n - 1], n>>]
LEMMA Recursion ==
  ASSUME NEW N \in Nat, NEW S, NEW base \in S, NEW step \in [S \X (1..N) -> S]
  PROVE  \E f : Follows(f, N, S, base, step)
<1> DEFINE Good(f, k) == f[0] = base /\ \A n \in 1..k : f[n] = step[<<f[n - 1], n>>]
           G == {k \in 0..N : \E f \in [0..N -> S] : Good(f, k)}
<1>1. 0 \in G
  <2>1. [n \in 0..N |-> base] \in [0..N -> S] /\ Good([n \in 0..N |-> base], 0)
    OBVIOUS
  <2>2. 0 \in 0..N
    OBVIOUS
  <2> QED BY <2>1, <2>2
<1>2. ASSUME NEW k \in 0..N - 1, k \in G PROVE k + 1 \in G
  <2>1. PICK f \in [0..N -> S] : Good(f, k)
    BY <1>2
  <2> DEFINE g == [f EXCEPT ![k + 1] = step[<<f[k], k + 1>>]]
  <2>2. k \in 0..N /\ k + 1 \in 1..N /\ k + 1 \in 0..N
    OBVIOUS
  <2>3. step[<<f[k], k + 1>>] \in S
    BY <2>2
  <2>4. g \in [0..N -> S]
    BY <2>3
  <2>5. g[0] = base
    BY <2>1
  <2>6. \A n \in 1..k : g[n] = f[n] /\ g[n - 1] = f[n - 1]
    BY <2>2
  <2>7. g[k + 1] = step[<<f[k], k + 1>>] /\ g[k] = f[k]
    BY <2>2
  <2>8. ASSUME NEW n \in 1..k + 1 PROVE g[n] = step[<<g[n - 1], n>>]
    <3>1. CASE n = k + 1
      <4>1. n - 1 = k
        BY <3>1
      <4> QED BY <2>7, <3>1, <4>1
    <3>2. CASE n # k + 1
      <4>1. n \in 1..k
        BY <3>2
      <4> QED BY <2>1, <2>6, <4>1
    <3> QED BY <3>1, <3>2
  <2> QED BY <2>2, <2>4, <2>5, <2>8
<1> HIDE DEF G
<1>3. 0..N \subseteq G
  BY <1>1, <1>2, InductTo
<1>4. N \in G
  BY <1>3
<1> QED BY <1>4 DEF G, Follows

LEMMA Listed ==
  ASSUME NEW N \in Nat, NEW T, NEW s \in [1..N -> T]
  PROVE  s \in Seq(T) /\ Len(s) = N
OBVIOUS

LEMMA Ends ==
  ASSUME NEW T, NEW s \in Seq(T), s # <<>>
  PROVE  /\ Len(s) \in 1..Len(s) /\ Len(s) - 1 \in Nat
         /\ Last(s) = s[Len(s)]
         /\ Front(s) \in Seq(T) /\ Len(Front(s)) = Len(s) - 1
         /\ Front(s) = [k \in 1..Len(s) - 1 |-> s[k]]
<1>1. Len(s) \in 1..Len(s) /\ Len(s) - 1 \in Nat
  OBVIOUS
<1>2. Front(s) = [k \in 1..Len(s) - 1 |-> s[k]]
  BY <1>1 DEF Front
<1>3. \A k \in 1..Len(s) - 1 : s[k] \in T
  BY <1>1
<1>4. Front(s) \in [1..Len(s) - 1 -> T]
  BY <1>2, <1>3
<1> QED BY <1>1, <1>2, <1>4, Listed DEF Last

-----------------------------------------------------------------------------
(* Globs: a pattern's letters or parts take the letters of a name in turn; an *)
(* alignment says how many are taken after each.                              *)

Aligned(R, n, m, k) ==
  \E c \in [0..n -> 0..m] :
    c[0] = 0 /\ c[n] = k /\ \A i \in 1..n : <<c[i - 1], c[i]>> \in R[i]

LEMMA AlignedStarts ==
  ASSUME NEW R, NEW m \in Nat, NEW k \in 0..m
  PROVE  Aligned(R, 0, m, k) <=> k = 0
<1>1. ASSUME k = 0 PROVE Aligned(R, 0, m, k)
  <2> DEFINE c == [i \in 0..0 |-> 0]
  <2>1. c \in [0..0 -> 0..m] /\ c[0] = 0 /\ \A i \in 1..0 : FALSE
    OBVIOUS
  <2> HIDE DEF c
  <2> QED BY <1>1, <2>1 DEF Aligned
<1> QED BY <1>1 DEF Aligned

LEMMA AlignedGrows ==
  ASSUME NEW R, NEW n \in Nat, NEW m \in Nat, NEW k \in 0..m
  PROVE  Aligned(R, n + 1, m, k) <=> \E j \in 0..m : Aligned(R, n, m, j) /\ <<j, k>> \in R[n + 1]
<1>1. ASSUME Aligned(R, n + 1, m, k)
      PROVE  \E j \in 0..m : Aligned(R, n, m, j) /\ <<j, k>> \in R[n + 1]
  <2>1. PICK c \in [0..n + 1 -> 0..m] :
          /\ c[0] = 0 /\ c[n + 1] = k
          /\ \A i \in 1..n + 1 : <<c[i - 1], c[i]>> \in R[i]
    BY <1>1 DEF Aligned
  <2> DEFINE d == [i \in 0..n |-> c[i]]
  <2>2. n \in 0..n + 1 /\ n + 1 \in 1..n + 1 /\ n + 1 - 1 = n /\ 0 \in 0..n /\ n \in 0..n
    OBVIOUS
  <2>3. \A i \in 1..n : i \in 0..n /\ i - 1 \in 0..n /\ i \in 1..n + 1
    OBVIOUS
  <2>4. d \in [0..n -> 0..m] /\ d[0] = 0 /\ d[n] = c[n]
    BY <2>1, <2>2
  <2>5. \A i \in 1..n : d[i - 1] = c[i - 1] /\ d[i] = c[i]
    BY <2>3
  <2>6. \A i \in 1..n : <<d[i - 1], d[i]>> \in R[i]
    BY <2>1, <2>3, <2>5
  <2> HIDE DEF d
  <2>7. Aligned(R, n, m, c[n])
    BY <2>4, <2>6 DEF Aligned
  <2>8. c[n] \in 0..m /\ <<c[n], k>> \in R[n + 1]
    BY <2>1, <2>2
  <2> QED BY <2>7, <2>8
<1>2. ASSUME NEW j \in 0..m, Aligned(R, n, m, j), <<j, k>> \in R[n + 1]
      PROVE  Aligned(R, n + 1, m, k)
  <2>1. PICK d \in [0..n -> 0..m] :
          d[0] = 0 /\ d[n] = j /\ \A i \in 1..n : <<d[i - 1], d[i]>> \in R[i]
    BY <1>2 DEF Aligned
  <2> DEFINE c == [i \in 0..n + 1 |-> IF i = n + 1 THEN k ELSE d[i]]
  <2>2. c \in [0..n + 1 -> 0..m]
    <3>1. \A i \in 0..n + 1 : i # n + 1 => i \in 0..n
      OBVIOUS
    <3> QED BY <2>1, <3>1
  <2>3. c[0] = 0 /\ c[n + 1] = k
    <3>1. 0 \in 0..n + 1 /\ 0 # n + 1 /\ n + 1 \in 0..n + 1
      OBVIOUS
    <3> QED BY <2>1, <3>1
  <2>4. ASSUME NEW i \in 1..n + 1 PROVE <<c[i - 1], c[i]>> \in R[i]
    <3>1. CASE i = n + 1
      <4>1. i - 1 = n /\ i - 1 \in 0..n + 1 /\ i - 1 # n + 1 /\ i \in 0..n + 1
        BY <3>1
      <4>2. c[i - 1] = j /\ c[i] = k
        BY <2>1, <3>1, <4>1
      <4> HIDE DEF c
      <4> QED BY <1>2, <3>1, <4>2
    <3>2. CASE i # n + 1
      <4>1. i \in 1..n /\ i - 1 \in 0..n + 1 /\ i - 1 # n + 1 /\ i \in 0..n + 1
        BY <3>2
      <4>2. c[i - 1] = d[i - 1] /\ c[i] = d[i]
        BY <3>2, <4>1
      <4> HIDE DEF c
      <4> QED BY <2>1, <4>1, <4>2
    <3> QED BY <3>1, <3>2
  <2> HIDE DEF c
  <2> QED BY <2>2, <2>3, <2>4 DEF Aligned
<1> QED BY <1>1, <1>2

LEMMA AlignedSame ==
  ASSUME NEW R, NEW Q, NEW n \in Nat, NEW m, NEW k, \A i \in 1..n : R[i] = Q[i]
  PROVE  Aligned(R, n, m, k) <=> Aligned(Q, n, m, k)
BY DEF Aligned


\* A part is a literal that is not empty, or the wildcard; which of a name's
\* letters, those behind the j-th up to the k-th, it may take.
Lits == Seq(STRING) \ {<<>>}
Spelt(part, name, j) == \A i \in 1..Len(part) : name[j + i] = part[i]
Takes(part, name, j, k) ==
  IF IsWildcard(part) THEN j <= k ELSE k = j + Len(part) /\ Spelt(part, name, j)
TakesLetter(ch, name, j, k) == IF ch = "*" THEN j <= k ELSE k = j + 1 /\ name[k] = ch
Moves(parts, name) ==
  [i \in 1..Len(parts) |->
     {w \in (0..Len(name)) \X (0..Len(name)) : Takes(parts[i], name, w[1], w[2])}]
Letters(raw, name) ==
  [i \in 1..Len(raw) |->
     {w \in (0..Len(name)) \X (0..Len(name)) : TakesLetter(raw[i], name, w[1], w[2])}]

LEMMA MovesAt ==
  ASSUME NEW parts, NEW name, NEW i \in 1..Len(parts),
         NEW j \in 0..Len(name), NEW k \in 0..Len(name)
  PROVE  <<j, k>> \in Moves(parts, name)[i] <=> Takes(parts[i], name, j, k)
<1>1. Moves(parts, name)[i] =
        {w \in (0..Len(name)) \X (0..Len(name)) : Takes(parts[i], name, w[1], w[2])}
  BY DEF Moves
<1> QED BY <1>1

LEMMA LettersAt ==
  ASSUME NEW raw, NEW name, NEW i \in 1..Len(raw),
         NEW j \in 0..Len(name), NEW k \in 0..Len(name)
  PROVE  <<j, k>> \in Letters(raw, name)[i] <=> TakesLetter(raw[i], name, j, k)
<1>1. Letters(raw, name)[i] =
        {w \in (0..Len(name)) \X (0..Len(name)) : TakesLetter(raw[i], name, w[1], w[2])}
  BY DEF Letters
<1> QED BY <1>1

LEMMA GlobIs ==
  ASSUME NEW raw \in Seq(STRING), NEW name \in Seq(STRING)
  PROVE  GlobMatches(raw, name) <=> Aligned(Letters(raw, name), Len(raw), Len(name), Len(name))
<1> DEFINE n == Len(raw)
           m == Len(name)
<1>1. n \in Nat /\ m \in Nat
  OBVIOUS
<1>2. ASSUME NEW c \in [0..n -> 0..m], NEW i \in 1..n
      PROVE  <<c[i - 1], c[i]>> \in Letters(raw, name)[i]
             <=> IF raw[i] = "*" THEN c[i] >= c[i - 1]
                 ELSE c[i] = c[i - 1] + 1 /\ name[c[i]] = raw[i]
  <2>1. i \in 0..n /\ i - 1 \in 0..n
    BY <1>1
  <2>2. c[i] \in 0..m /\ c[i - 1] \in 0..m
    BY <2>1
  <2>3. <<c[i - 1], c[i]>> \in Letters(raw, name)[i] <=> TakesLetter(raw[i], name, c[i - 1], c[i])
    BY <2>2, LettersAt
  <2> QED BY <1>1, <2>2, <2>3 DEF TakesLetter
<1>3. GlobMatches(raw, name) <=>
        \E c \in [0..n -> 0..m] :
          /\ c[0] = 0 /\ c[n] = m
          /\ \A i \in 1..n : IF raw[i] = "*" THEN c[i] >= c[i - 1]
                            ELSE c[i] = c[i - 1] + 1 /\ name[c[i]] = raw[i]
  BY DEF GlobMatches
<1>4. Aligned(Letters(raw, name), n, m, m) <=>
        \E c \in [0..n -> 0..m] :
          c[0] = 0 /\ c[n] = m /\ \A i \in 1..n : <<c[i - 1], c[i]>> \in Letters(raw, name)[i]
  BY DEF Aligned
<1> HIDE DEF n, m
<1>5. ASSUME NEW c \in [0..n -> 0..m]
      PROVE  (\A i \in 1..n : <<c[i - 1], c[i]>> \in Letters(raw, name)[i])
             <=> \A i \in 1..n : IF raw[i] = "*" THEN c[i] >= c[i - 1]
                                ELSE c[i] = c[i - 1] + 1 /\ name[c[i]] = raw[i]
  BY <1>2
<1>6. Aligned(Letters(raw, name), n, m, m) => GlobMatches(raw, name)
  BY <1>3, <1>4, <1>5
<1>7. GlobMatches(raw, name) => Aligned(Letters(raw, name), n, m, m)
  BY <1>3, <1>4, <1>5
<1> QED BY <1>6, <1>7 DEF n, m

LEMMA PrefixAt ==
  ASSUME NEW part \in Seq(STRING), NEW name \in Seq(STRING), NEW j \in 0..Len(name)
  PROVE  /\ IsPrefix(part, SubSeq(name, j + 1, Len(name)))
            <=> (j + Len(part) <= Len(name) /\ Spelt(part, name, j))
         /\ part = SubSeq(name, j + 1, Len(name))
            <=> (j + Len(part) = Len(name) /\ Spelt(part, name, j))
<1> DEFINE m == Len(name)
           l == Len(part)
           left == SubSeq(name, j + 1, m)
<1>1. m \in Nat /\ l \in Nat
  OBVIOUS
<1>2. left \in Seq(STRING) /\ Len(left) = m - j /\ \A i \in 1..m - j : left[i] = name[j + i]
  <2>1. j + 1 \in Int /\ m - (j + 1) + 1 = m - j /\ \A i \in 1..m - j : j + 1 + i - 1 = j + i
    BY <1>1
  <2>2. left \in Seq(STRING)
    BY <1>1
  <2>3. Len(left) = m - j
    BY <1>1
  <2>4. \A i \in 1..m - j : left[i] = name[j + i]
    BY <1>1, <2>1
  <2> QED BY <2>2, <2>3, <2>4
<1>3. IsPrefix(part, left) <=> (l <= Len(left) /\ SubSeq(part, 1, l) = SubSeq(left, 1, l))
  BY DEF IsPrefix
<1>4. \A i \in 1..l : part[i] \in STRING
  OBVIOUS
<1>5. part = SubSeq(part, 1, l)
  <2> DEFINE p == SubSeq(part, 1, l)
  <2>1. p \in Seq(STRING) /\ Len(p) = l /\ \A i \in 1..l : p[i] = part[i]
    BY <1>1
  <2> HIDE DEF p
  <2>2. p = part
    BY <2>1
  <2> QED BY <2>2 DEF p
<1> HIDE DEF left, m, l
<1>6. ASSUME l <= m - j
      PROVE  SubSeq(left, 1, l) = part <=> \A i \in 1..l : name[j + i] = part[i]
  <2> DEFINE p == SubSeq(left, 1, l)
  <2>1. p \in Seq(STRING) /\ Len(p) = l /\ \A i \in 1..l : p[i] = left[i]
    BY <1>1, <1>2, <1>6
  <2>2. \A i \in 1..l : i \in 1..m - j
    BY <1>1, <1>6
  <2> HIDE DEF p
  <2>3. \A i \in 1..l : p[i] = name[j + i]
    BY <1>2, <2>1, <2>2
  <2>4. part \in Seq(STRING) /\ Len(part) = l
    BY DEF l
  <2>5. (\A i \in 1..l : p[i] = part[i]) => p = part
    BY <2>1, <2>4
  <2>6. p = part <=> \A i \in 1..l : name[j + i] = part[i]
    BY <2>3, <2>5
  <2> QED BY <2>6 DEF p
<1>7. IsPrefix(part, left) <=> (j + l <= m /\ \A i \in 1..l : name[j + i] = part[i])
  <2>1. j \in Int /\ (l <= m - j <=> j + l <= m)
    BY <1>1
  <2> QED BY <1>2, <1>3, <1>5, <1>6, <2>1
<1>8. part = left <=> (j + l = m /\ \A i \in 1..l : name[j + i] = part[i])
  <2>1. j \in Int /\ part \in Seq(STRING) /\ Len(part) = l
    BY DEF l
  <2>2. ASSUME part = left PROVE j + l = m /\ \A i \in 1..l : name[j + i] = part[i]
    <3>1. l = m - j
      BY <1>2, <2>1, <2>2
    <3>2. j + l = m
      BY <1>1, <2>1, <3>1
    <3> QED BY <1>2, <2>2, <3>1, <3>2
  <2>3. ASSUME j + l = m, \A i \in 1..l : name[j + i] = part[i] PROVE part = left
    <3>1. l = m - j
      BY <1>1, <2>1, <2>3
    <3>2. Len(left) = l /\ \A i \in 1..l : left[i] = part[i]
      BY <1>2, <2>3, <3>1
    <3> QED BY <1>2, <2>1, <3>2
  <2> QED BY <2>2, <2>3
<1> QED BY <1>7, <1>8 DEF Spelt, left, m, l


\* What Fits of MatchesParts is of the last n parts, F what it is of one less.
Before(parts, name, F, n) ==
  {j \in 0..Len(name) :
     IF IsWildcard(parts[Len(parts) - n + 1]) THEN n = 1 \/ \E k \in F : j <= k
     ELSE IF n = 1 THEN parts[Len(parts) - n + 1] = SubSeq(name, j + 1, Len(name))
     ELSE /\ IsPrefix(parts[Len(parts) - n + 1], SubSeq(name, j + 1, Len(name)))
          /\ j + Len(parts[Len(parts) - n + 1]) \in F}

LEMMA BeforeIs ==
  ASSUME NEW parts \in Seq(Lits), NEW name \in Seq(STRING), NEW n \in 1..Len(parts),
         NEW F \in SUBSET (0..Len(name)), n = 1 => F = {Len(name)}, NEW j \in 0..Len(name)
  PROVE  j \in Before(parts, name, F, n)
         <=> \E k \in F : Takes(parts[Len(parts) - n + 1], name, j, k)
<1> DEFINE m == Len(name)
           part == parts[Len(parts) - n + 1]
           left == SubSeq(name, j + 1, m)
           l == Len(part)
<1>1. part \in Seq(STRING) /\ l \in Nat /\ m \in Nat
  <2>1. Len(parts) - n + 1 \in 1..Len(parts)
    OBVIOUS
  <2>2. part \in Lits
    BY <2>1
  <2>3. part \in Seq(STRING)
    BY <2>2 DEF Lits
  <2> QED BY <2>3
<1>2. j \in Before(parts, name, F, n)
      <=> IF IsWildcard(part) THEN n = 1 \/ \E k \in F : j <= k
          ELSE IF n = 1 THEN part = left ELSE IsPrefix(part, left) /\ j + l \in F
  BY DEF Before
<1>3. /\ IsPrefix(part, left) <=> (j + l <= m /\ Spelt(part, name, j))
      /\ part = left <=> (j + l = m /\ Spelt(part, name, j))
  <2> DEFINE p == part
  <2>1. p \in Seq(STRING)
    BY <1>1
  <2> HIDE DEF p
  <2>2. /\ IsPrefix(p, SubSeq(name, j + 1, Len(name)))
           <=> (j + Len(p) <= Len(name) /\ Spelt(p, name, j))
        /\ p = SubSeq(name, j + 1, Len(name))
           <=> (j + Len(p) = Len(name) /\ Spelt(p, name, j))
    BY <2>1, PrefixAt
  <2> QED BY <2>2 DEF p
<1> HIDE DEF part, left, l
<1>4. CASE IsWildcard(part)
  <2>1. \A k \in F : Takes(part, name, j, k) <=> j <= k
    BY <1>4 DEF Takes
  <2>2. n = 1 => \E k \in F : j <= k
    BY <1>1
  <2> QED BY <1>2, <1>4, <2>1, <2>2 DEF part
<1>5. CASE ~IsWildcard(part)
  <2>1. \A k \in F : Takes(part, name, j, k) <=> (k = j + l /\ Spelt(part, name, j))
    BY <1>5 DEF Takes, l
  <2>2. (\E k \in F : Takes(part, name, j, k)) <=> (j + l \in F /\ Spelt(part, name, j))
    BY <2>1
  <2>3. CASE n = 1
    <3>1. j + l \in F <=> j + l = m
      BY <2>3
    <3> QED BY <1>2, <1>3, <1>5, <2>2, <2>3, <3>1 DEF part
  <2>4. CASE n # 1
    <3>1. j + l \in F => j + l <= m
      BY <1>1
    <3>2. j \in Before(parts, name, F, n) <=> (IsPrefix(part, left) /\ j + l \in F)
      BY <1>2, <1>5, <2>4
    <3> QED BY <1>3, <2>2, <3>1, <3>2 DEF part
  <2> QED BY <2>3, <2>4
<1> QED BY <1>4, <1>5

\* The parts match a name when an alignment takes all of it.
LEMMA MatchesIs ==
  ASSUME NEW parts \in Seq(Lits), NEW name \in Seq(STRING)
  PROVE  Matches(parts, name) <=> Aligned(Moves(parts, name), Len(parts), Len(name), Len(name))
<1> DEFINE L == Len(parts)
           m == Len(name)
           S == SUBSET (0..m)
           base == {m}
           step == [p \in S \X (1..L) |-> Before(parts, name, p[1], p[2])]
           Unfolds(f) == f = [n \in 0..L |-> IF n = 0 THEN {m} ELSE Before(parts, name, f[n - 1], n)]
<1>1. L \in Nat /\ m \in Nat /\ base \in S
  OBVIOUS
<1>2. step \in [S \X (1..L) -> S] /\ \A F \in S, n \in 1..L : step[<<F, n>>] = Before(parts, name, F, n)
  <2>1. \A F \in S, n \in 1..L : Before(parts, name, F, n) \in S
    BY DEF Before
  <2> QED BY <2>1
<1> HIDE DEF S, base, step, L
<1>3. PICK f : Follows(f, L, S, base, step)
  BY <1>1, <1>2, Recursion
<1>4. f \in [0..L -> S] /\ f[0] = base /\ \A n \in 1..L : f[n] = step[<<f[n - 1], n>>]
  BY <1>3 DEF Follows
<1>5. \A n \in 1..L : n - 1 \in 0..L /\ n \in 0..L /\ n # 0
  BY <1>1
<1>6. \A n \in 1..L : f[n] = Before(parts, name, f[n - 1], n)
  BY <1>2, <1>4, <1>5
<1>7. Unfolds(f)
  <2>1. \A n \in 0..L : f[n] = IF n = 0 THEN {m} ELSE Before(parts, name, f[n - 1], n)
    <3>1. \A n \in 0..L : n = 0 \/ n \in 1..L
      BY <1>1
    <3> QED BY <1>4, <1>6, <3>1 DEF base
  <2>2. f = [n \in 0..L |-> f[n]]
    BY <1>4
  <2> QED BY <2>1, <2>2
<1> DEFINE g == CHOOSE h : Unfolds(h)
<1>8. Unfolds(g)
  <2> HIDE DEF Unfolds
  <2> QED BY <1>7
<1>9. Matches(parts, name) <=> 0 \in g[L]
  BY DEF Matches, MatchesParts, Before, L
<1> HIDE DEF g
<1>10. g[0] = {m} /\ \A n \in 1..L : g[n] = Before(parts, name, g[n - 1], n)
  <2>1. 0 \in 0..L
    BY <1>1
  <2> QED BY <1>5, <1>8, <2>1
<1>11. \A n \in 0..L : g[n] \in S
  <2>1. \A n \in 0..L : n = 0 \/ n \in 1..L
    BY <1>1
  <2>2. \A n \in 1..L : g[n] \in S
    BY <1>10 DEF Before, S
  <2> QED BY <1>1, <1>10, <2>1, <2>2 DEF base
<1> DEFINE R == Moves(parts, name)
           Meets(i) == \E k \in 0..m : Aligned(R, i, m, k) /\ k \in g[L - i]
           T == {i \in 0..L : Meets(i) <=> 0 \in g[L]}
<1>12. 0 \in T
  <2>1. Aligned(R, 0, m, 0) /\ 0 \in 0..m /\ \A k \in 0..m : Aligned(R, 0, m, k) => k = 0
    <3> HIDE DEF R
    <3> QED BY <1>1, AlignedStarts
  <2>2. L - 0 = L /\ 0 \in 0..L
    BY <1>1
  <2> HIDE DEF R
  <2> QED BY <2>1, <2>2
<1>13. ASSUME NEW i \in 0..L - 1, i \in T PROVE i + 1 \in T
  <2> DEFINE n == L - i
  <2>1. /\ n \in 1..L /\ n - 1 = L - (i + 1) /\ L - n + 1 = i + 1 /\ i + 1 \in 1..L /\ i \in Nat
        /\ n - 1 \in 0..L /\ i + 1 \in 0..L
    BY <1>1
  <2>2. ASSUME NEW k \in 0..m
        PROVE  k \in g[n] <=> \E j \in g[n - 1] : <<k, j>> \in R[i + 1]
    <3>1. g[n - 1] \in SUBSET (0..m) /\ (n = 1 => g[n - 1] = {m}) /\ g[n] = Before(parts, name, g[n - 1], n)
      <4> HIDE DEF n
      <4>1. n = 1 => n - 1 = 0
        OBVIOUS
      <4> QED BY <1>10, <1>11, <2>1, <4>1 DEF S
    <3> DEFINE F == g[n - 1]
    <3>2. k \in Before(parts, name, F, n) <=> \E j \in F : Takes(parts[Len(parts) - n + 1], name, k, j)
      <4>1. F \in SUBSET (0..Len(name)) /\ (n = 1 => F = {Len(name)}) /\ n \in 1..Len(parts)
        BY <2>1, <3>1 DEF L
      <4> HIDE DEF F, n
      <4> QED BY <4>1, BeforeIs
    <3>3. Len(parts) - n + 1 = i + 1 /\ i + 1 \in 1..Len(parts)
      BY <2>1 DEF L
    <3>4. \A j \in F : <<k, j>> \in R[i + 1] <=> Takes(parts[i + 1], name, k, j)
      <4>1. \A j \in F : j \in 0..Len(name)
        BY <3>1
      <4> HIDE DEF F
      <4> QED BY <3>3, <4>1, MovesAt
    <3> HIDE DEF R, n
    <3> QED BY <3>1, <3>2, <3>3, <3>4
  <2>3. \A k \in 0..m : Aligned(R, i + 1, m, k) <=> \E j \in 0..m : Aligned(R, i, m, j) /\ <<j, k>> \in R[i + 1]
    <3> HIDE DEF R, m
    <3> QED BY <1>1, <2>1, AlignedGrows
  <2>4. g[n - 1] \subseteq 0..m
    BY <1>11, <2>1 DEF S
  <2> HIDE DEF R, n, m
  <2>5. Meets(i) <=> Meets(i + 1)
    <3>1. Meets(i) <=> \E k \in 0..m : Aligned(R, i, m, k) /\ k \in g[n]
      BY DEF n
    <3>2. Meets(i + 1) <=> \E k \in 0..m : Aligned(R, i + 1, m, k) /\ k \in g[n - 1]
      BY <2>1
    <3>3. ASSUME Meets(i) PROVE Meets(i + 1)
      <4> HIDE DEF Meets
      <4>1. PICK k \in 0..m : Aligned(R, i, m, k) /\ k \in g[n]
        BY <3>1, <3>3
      <4>2. PICK j \in g[n - 1] : <<k, j>> \in R[i + 1]
        BY <2>2, <4>1
      <4>3. j \in 0..m /\ Aligned(R, i + 1, m, j)
        BY <2>3, <2>4, <4>1, <4>2
      <4> QED BY <3>2, <4>2, <4>3
    <3>4. ASSUME Meets(i + 1) PROVE Meets(i)
      <4> HIDE DEF Meets
      <4>1. PICK k \in 0..m : Aligned(R, i + 1, m, k) /\ k \in g[n - 1]
        BY <3>2, <3>4
      <4>2. PICK j \in 0..m : Aligned(R, i, m, j) /\ <<j, k>> \in R[i + 1]
        BY <2>3, <4>1
      <4>3. j \in g[n]
        BY <2>2, <4>1, <4>2
      <4> QED BY <3>1, <4>2, <4>3
    <3> QED BY <3>3, <3>4
  <2> HIDE DEF Meets
  <2> QED BY <1>13, <2>1, <2>5
<1> HIDE DEF T
<1>14. L \in T
  <2>1. 0..L \subseteq T
    BY <1>1, <1>12, <1>13, InductTo
  <2> QED BY <1>1, <2>1
<1>15. Meets(L) <=> Aligned(R, L, m, m)
  <2>1. L - L = 0 /\ m \in 0..m
    BY <1>1
  <2> HIDE DEF R, m
  <2> QED BY <1>10, <2>1
<1> HIDE DEF Meets
<1>16. Meets(L) <=> 0 \in g[L]
  BY <1>14 DEF T
<1> QED BY <1>9, <1>15, <1>16 DEF L

-----------------------------------------------------------------------------
(* Parts and the letters they are made of take the same. *)

\* Where an alignment of the parts, and of the first n letters of the pattern,
\* may have got to.
Reached(parts, name, k) == Aligned(Moves(parts, name), Len(parts), Len(name), k)
ReachedBy(raw, n, name, k) == Aligned(Letters(raw, name), n, Len(name), k)
Same(parts, raw, n, name) ==
  \A k \in 0..Len(name) : Reached(parts, name, k) <=> ReachedBy(raw, n, name, k)

LEMMA LettersGrow ==
  ASSUME NEW raw \in Seq(STRING), NEW name \in Seq(STRING), NEW n \in 0..Len(raw) - 1,
         NEW k \in 0..Len(name)
  PROVE  ReachedBy(raw, n + 1, name, k)
         <=> \E j \in 0..Len(name) : ReachedBy(raw, n, name, j) /\ TakesLetter(raw[n + 1], name, j, k)
<1> DEFINE m == Len(name)
           R == Letters(raw, name)
<1>1. m \in Nat /\ n \in Nat /\ n + 1 \in 1..Len(raw)
  OBVIOUS
<1>2. \A j \in 0..m : <<j, k>> \in R[n + 1] <=> TakesLetter(raw[n + 1], name, j, k)
  BY <1>1, LettersAt
<1>3. Aligned(R, n + 1, m, k) <=> \E j \in 0..m : Aligned(R, n, m, j) /\ <<j, k>> \in R[n + 1]
  <2> HIDE DEF R, m
  <2>1. k \in 0..m
    BY DEF m
  <2> QED BY <1>1, <2>1, AlignedGrows
<1> HIDE DEF R
<1> QED BY <1>2, <1>3 DEF ReachedBy, R

LEMMA PartsGrow ==
  ASSUME NEW parts \in Seq(Lits), NEW part \in Lits, NEW name \in Seq(STRING),
         NEW k \in 0..Len(name)
  PROVE  Reached(Append(parts, part), name, k)
         <=> \E j \in 0..Len(name) : Reached(parts, name, j) /\ Takes(part, name, j, k)
<1> DEFINE m == Len(name)
           L == Len(parts)
           q == Append(parts, part)
           R == Moves(parts, name)
           Q == Moves(q, name)
<1>1. m \in Nat /\ L \in Nat /\ L + 1 \in 1..L + 1
  OBVIOUS
<1>2. Len(q) = L + 1 /\ q[L + 1] = part /\ \A i \in 1..L : q[i] = parts[i]
  OBVIOUS
<1> HIDE DEF q
<1>3. \A j \in 0..m : <<j, k>> \in Q[L + 1] <=> Takes(part, name, j, k)
  <2>1. L + 1 \in 1..Len(q)
    BY <1>1, <1>2
  <2> HIDE DEF L, Q
  <2>2. \A j \in 0..m : <<j, k>> \in Moves(q, name)[L + 1] <=> Takes(q[L + 1], name, j, k)
    BY <2>1, MovesAt
  <2> QED BY <1>2, <2>2 DEF Q
<1>4. \A i \in 1..L : Q[i] = R[i]
  BY <1>1, <1>2 DEF Moves
<1>5. Aligned(Q, L + 1, m, k) <=> \E j \in 0..m : Aligned(Q, L, m, j) /\ <<j, k>> \in Q[L + 1]
  <2> HIDE DEF Q, m, L
  <2>1. k \in 0..m
    BY DEF m
  <2> QED BY <1>1, <2>1, AlignedGrows
<1>6. \A j \in 0..m : Aligned(Q, L, m, j) <=> Aligned(R, L, m, j)
  <2> HIDE DEF Q, R, m, L
  <2> QED BY <1>1, <1>4, AlignedSame
<1> HIDE DEF Q, R
<1>7. Reached(q, name, k) <=> Aligned(Q, L + 1, m, k)
  BY <1>2 DEF Reached, Q
<1>8. \A j \in 0..m : Reached(parts, name, j) <=> Aligned(R, L, m, j)
  BY DEF Reached, R
<1> QED BY <1>3, <1>5, <1>6, <1>7, <1>8 DEF q

LEMMA SplitLast ==
  ASSUME NEW parts \in Seq(Lits), parts # <<>>
  PROVE  Front(parts) \in Seq(Lits) /\ Last(parts) \in Lits /\ parts = Append(Front(parts), Last(parts))
<1> DEFINE L == Len(parts)
<1>1. /\ L \in 1..L /\ L - 1 \in Nat /\ Last(parts) = parts[L]
      /\ Front(parts) \in Seq(Lits) /\ Len(Front(parts)) = L - 1
      /\ Front(parts) = [i \in 1..L - 1 |-> parts[i]]
  BY Ends
<1>2. Last(parts) \in Lits
  BY <1>1
<1> DEFINE q == Append(Front(parts), Last(parts))
<1>3. q \in Seq(Lits) /\ Len(q) = L /\ q[L] = parts[L] /\ \A i \in 1..L - 1 : q[i] = Front(parts)[i]
  BY <1>1, <1>2
<1>4. \A i \in 1..L - 1 : Front(parts)[i] = parts[i]
  BY <1>1
<1> HIDE DEF q, L
<1>5. \A i \in 1..L : i = L \/ i \in 1..L - 1
  BY <1>1
<1>6. \A i \in 1..L : q[i] = parts[i]
  BY <1>3, <1>4, <1>5
<1>7. q = parts
  BY <1>3, <1>6 DEF L
<1> QED BY <1>1, <1>2, <1>7 DEF q

LEMMA Single ==
  ASSUME NEW T, NEW x \in T
  PROVE  <<x>> \in Seq(T) /\ Len(<<x>>) = 1 /\ <<x>>[1] = x /\ <<x>> # <<>>
<1>1. <<x>> \in Seq(T)
  OBVIOUS
<1>2. Len(<<x>>) = 1
  OBVIOUS
<1>3. <<x>>[1] = x
  OBVIOUS
<1> QED BY <1>1, <1>2, <1>3

\* A part of one letter takes what the letter takes.
LEMMA OneLetter ==
  ASSUME NEW ch \in STRING, NEW name \in Seq(STRING), NEW j \in 0..Len(name), NEW k \in 0..Len(name)
  PROVE  <<ch>> \in Lits /\ (Takes(<<ch>>, name, j, k) <=> TakesLetter(ch, name, j, k))
<1>1. <<ch>> \in Seq(STRING) /\ Len(<<ch>>) = 1 /\ <<ch>>[1] = ch /\ <<ch>> # <<>>
  BY Single
<1>2. IsWildcard(<<ch>>) <=> ch = "*"
  BY DEF IsWildcard
<1>3. Spelt(<<ch>>, name, j) <=> name[j + 1] = ch
  <2>1. 1..1 = {1}
    OBVIOUS
  <2> QED BY <1>1, <2>1 DEF Spelt
<1> QED BY <1>1, <1>2, <1>3 DEF Takes, TakesLetter, Lits

\* A literal with one letter more takes what the literal takes and then the letter.
LEMMA OneMore ==
  ASSUME NEW lit \in Lits, ~IsWildcard(lit), NEW ch \in STRING, ch # "*",
         NEW name \in Seq(STRING), NEW j \in 0..Len(name), NEW k \in 0..Len(name)
  PROVE  /\ Append(lit, ch) \in Lits
         /\ Takes(Append(lit, ch), name, j, k)
            <=> \E i \in 0..Len(name) : Takes(lit, name, j, i) /\ TakesLetter(ch, name, i, k)
<1> DEFINE l == Len(lit)
           q == Append(lit, ch)
<1>1. lit \in Seq(STRING) /\ lit # <<>> /\ l \in Nat /\ l # 0
  BY DEF Lits
<1>2. q \in Seq(STRING) /\ Len(q) = l + 1 /\ q[l + 1] = ch /\ \A i \in 1..l : q[i] = lit[i]
  BY <1>1
<1> HIDE DEF q
<1>3. q \in Lits /\ ~IsWildcard(q)
  <2>1. Len(<<"*">>) = 1 /\ Len(<<>>) = 0
    OBVIOUS
  <2> QED BY <1>1, <1>2, <2>1 DEF IsWildcard, Lits
<1> HIDE DEF l
<1>4. Spelt(q, name, j) <=> (Spelt(lit, name, j) /\ name[j + l + 1] = ch)
  <2>1. \A i : i \in 1..l + 1 <=> i \in 1..l \/ i = l + 1
    BY <1>1
  <2>2. j + (l + 1) = j + l + 1
    BY <1>1
  <2>3. Spelt(lit, name, j) <=> \A i \in 1..l : name[j + i] = lit[i]
    BY DEF Spelt, l
  <2>4. Spelt(q, name, j) <=> \A i \in 1..l + 1 : name[j + i] = q[i]
    BY <1>2 DEF Spelt
  <2> QED BY <1>2, <2>1, <2>2, <2>3, <2>4
<1>5. Takes(q, name, j, k) <=> (k = j + l + 1 /\ Spelt(lit, name, j) /\ name[k] = ch)
  <2>1. j + (l + 1) = j + l + 1
    BY <1>1
  <2> QED BY <1>2, <1>3, <1>4, <2>1 DEF Takes
<1>6. \A i : Takes(lit, name, j, i) <=> (i = j + l /\ Spelt(lit, name, j))
  BY DEF Takes, l
<1>7. \A i : TakesLetter(ch, name, i, k) <=> (k = i + 1 /\ name[k] = ch)
  BY DEF TakesLetter
<1>8. k = j + l + 1 => j + l \in 0..Len(name)
  BY <1>1
<1> QED BY <1>3, <1>5, <1>6, <1>7, <1>8 DEF q

\* One turn of Pattern::new.
LEMMA PartedIs ==
  ASSUME NEW raw \in Seq(STRING), NEW n \in 0..Len(raw) - 1, NEW parts \in Seq(Lits)
  PROVE  /\ Parted(parts, raw[n + 1]) \in Seq(Lits)
         /\ \A name \in Seq(STRING) :
              Same(parts, raw, n, name) => Same(Parted(parts, raw[n + 1]), raw, n + 1, name)
<1> DEFINE ch == raw[n + 1]
           wild == parts # <<>> /\ IsWildcard(Last(parts))
           Fine(q) == /\ q \in Seq(Lits)
                      /\ \A name \in Seq(STRING) :
                           Same(parts, raw, n, name) => Same(q, raw, n + 1, name)
<1>1. ch \in STRING
  OBVIOUS
<1>2. \A name \in Seq(STRING) : \A k \in 0..Len(name) :
        ReachedBy(raw, n + 1, name, k)
        <=> \E j \in 0..Len(name) : ReachedBy(raw, n, name, j) /\ TakesLetter(ch, name, j, k)
  BY LettersGrow
<1> HIDE DEF ch
<1>3. Fine(Append(parts, <<ch>>))
  <2>1. <<ch>> \in Lits
    BY <1>1, Single DEF Lits
  <2>2. Append(parts, <<ch>>) \in Seq(Lits)
    BY <2>1
  <2>3. ASSUME NEW name \in Seq(STRING), Same(parts, raw, n, name), NEW k \in 0..Len(name)
        PROVE  Reached(Append(parts, <<ch>>), name, k) <=> ReachedBy(raw, n + 1, name, k)
    <3>1. Reached(Append(parts, <<ch>>), name, k)
          <=> \E j \in 0..Len(name) : Reached(parts, name, j) /\ Takes(<<ch>>, name, j, k)
      BY <2>1, PartsGrow
    <3>2. \A j \in 0..Len(name) : Takes(<<ch>>, name, j, k) <=> TakesLetter(ch, name, j, k)
      BY <1>1, OneLetter
    <3>3. \A j \in 0..Len(name) : Reached(parts, name, j) <=> ReachedBy(raw, n, name, j)
      BY <2>3 DEF Same
    <3>4. ReachedBy(raw, n + 1, name, k)
          <=> \E j \in 0..Len(name) : ReachedBy(raw, n, name, j) /\ TakesLetter(ch, name, j, k)
      BY <1>2
    <3> QED BY <3>1, <3>2, <3>3, <3>4
  <2> QED BY <2>2, <2>3 DEF Same
<1>4. ASSUME ch = "*", wild
      PROVE  Fine(parts)
  <2> DEFINE F == Front(parts)
  <2>1. F \in Seq(Lits) /\ Last(parts) \in Lits /\ parts = Append(F, Last(parts))
    BY <1>4, SplitLast
  <2> HIDE DEF F
  <2>2. ASSUME NEW name \in Seq(STRING), Same(parts, raw, n, name), NEW k \in 0..Len(name)
        PROVE  Reached(parts, name, k) <=> ReachedBy(raw, n + 1, name, k)
    <3>1. \A i \in 0..Len(name) :
            Reached(parts, name, i) <=> \E j \in 0..Len(name) : Reached(F, name, j) /\ j <= i
      <4>1. ASSUME NEW i \in 0..Len(name)
            PROVE  Reached(Append(F, Last(parts)), name, i)
                   <=> \E j \in 0..Len(name) : Reached(F, name, j) /\ Takes(Last(parts), name, j, i)
        BY <2>1, PartsGrow
      <4>2. \A i, j : Takes(Last(parts), name, j, i) <=> j <= i
        BY <1>4 DEF Takes
      <4> QED BY <2>1, <4>1, <4>2
    <3>2. \A j \in 0..Len(name) : Reached(parts, name, j) <=> ReachedBy(raw, n, name, j)
      BY <2>2 DEF Same
    <3>3. ReachedBy(raw, n + 1, name, k)
          <=> \E j \in 0..Len(name) : ReachedBy(raw, n, name, j) /\ j <= k
      BY <1>2, <1>4 DEF TakesLetter
    <3>4. \A h, j, i \in 0..Len(name) : h <= j /\ j <= i => h <= i
      OBVIOUS
    <3>5. k <= k
      OBVIOUS
    <3>6. ASSUME Reached(parts, name, k) PROVE ReachedBy(raw, n + 1, name, k)
      BY <3>2, <3>3, <3>5, <3>6
    <3>7. ASSUME ReachedBy(raw, n + 1, name, k) PROVE Reached(parts, name, k)
      <4>1. PICK j \in 0..Len(name) : Reached(parts, name, j) /\ j <= k
        BY <3>2, <3>3, <3>7
      <4>2. PICK h \in 0..Len(name) : Reached(F, name, h) /\ h <= j
        BY <3>1, <4>1
      <4>3. h <= k
        BY <3>4, <4>1, <4>2
      <4> QED BY <3>1, <4>2, <4>3
    <3> QED BY <3>6, <3>7
  <2> QED BY <2>2 DEF Same
<1>5. ASSUME ch # "*", parts # <<>>, ~wild
      PROVE  Fine(Append(Front(parts), Append(Last(parts), ch)))
  <2> DEFINE F == Front(parts)
             lit == Last(parts)
             more == Append(lit, ch)
  <2>1. F \in Seq(Lits) /\ lit \in Lits /\ parts = Append(F, lit) /\ ~IsWildcard(lit)
    BY <1>5, SplitLast
  <2> HIDE DEF F, lit
  <2>2. /\ \A name \in Seq(STRING) : more \in Lits
        /\ \A name \in Seq(STRING) : \A j, k \in 0..Len(name) :
             Takes(more, name, j, k)
             <=> \E i \in 0..Len(name) : Takes(lit, name, j, i) /\ TakesLetter(ch, name, i, k)
    <3>1. ASSUME NEW name \in Seq(STRING), NEW j \in 0..Len(name), NEW k \in 0..Len(name)
          PROVE  /\ Append(lit, ch) \in Lits
                 /\ Takes(Append(lit, ch), name, j, k)
                    <=> \E i \in 0..Len(name) : Takes(lit, name, j, i) /\ TakesLetter(ch, name, i, k)
      BY <1>1, <1>5, <2>1, OneMore
    <3>2. \A name \in Seq(STRING) : 0 \in 0..Len(name)
      OBVIOUS
    <3> QED BY <3>1, <3>2
  <2>3. more \in Lits
    <3>1. <<>> \in Seq(STRING)
      OBVIOUS
    <3> QED BY <2>2, <3>1
  <2> HIDE DEF more
  <2>4. Append(F, more) \in Seq(Lits)
    BY <2>1, <2>3
  <2>5. ASSUME NEW name \in Seq(STRING), Same(parts, raw, n, name), NEW k \in 0..Len(name)
        PROVE  Reached(Append(F, more), name, k) <=> ReachedBy(raw, n + 1, name, k)
    <3> DEFINE N == 0..Len(name)
    <3>1. Reached(Append(F, more), name, k) <=> \E j \in N : Reached(F, name, j) /\ Takes(more, name, j, k)
      BY <2>1, <2>3, PartsGrow
    <3>2. \A i \in N : Reached(parts, name, i) <=> \E j \in N : Reached(F, name, j) /\ Takes(lit, name, j, i)
      <4>1. ASSUME NEW i \in N
            PROVE  Reached(Append(F, lit), name, i)
                   <=> \E j \in N : Reached(F, name, j) /\ Takes(lit, name, j, i)
        BY <2>1, PartsGrow
      <4> QED BY <2>1, <4>1
    <3>3. \A j \in N : Reached(parts, name, j) <=> ReachedBy(raw, n, name, j)
      BY <2>5 DEF Same
    <3>4. ReachedBy(raw, n + 1, name, k)
          <=> \E i \in N : ReachedBy(raw, n, name, i) /\ TakesLetter(ch, name, i, k)
      BY <1>2
    <3>5. \A j \in N : Takes(more, name, j, k)
                       <=> \E i \in N : Takes(lit, name, j, i) /\ TakesLetter(ch, name, i, k)
      BY <2>2
    <3> HIDE DEF N
    <3> QED BY <3>1, <3>2, <3>3, <3>4, <3>5
  <2> QED BY <2>4, <2>5 DEF Same, F, lit, more
<1> HIDE DEF Fine
<1>6. Fine(Parted(parts, ch))
  BY <1>3, <1>4, <1>5 DEF Parted
<1> QED BY <1>6 DEF Fine, ch


\* The parts match what the pattern they are made of matches as a glob.
LEMMA PartsAre ==
  ASSUME NEW raw \in Seq(STRING), NEW name \in Seq(STRING)
  PROVE  Matches(Parts(raw), name) <=> GlobMatches(raw, name)
<1> DEFINE N == Len(raw)
           S == Seq(Lits)
           base == <<>>
           step == [p \in S \X (1..N) |-> Parted(p[1], raw[p[2]])]
           Unfolds(f) == f = [n \in 0..N |-> IF n = 0 THEN <<>> ELSE Parted(f[n - 1], raw[n])]
<1>1. N \in Nat /\ base \in S
  OBVIOUS
<1>2. \A parts \in S, n \in 1..N : Parted(parts, raw[n]) \in S
  <2>1. ASSUME NEW parts \in S, NEW n \in 1..N PROVE Parted(parts, raw[n]) \in S
    <3> DEFINE i == n - 1
    <3>1. i \in 0..Len(raw) - 1 /\ i + 1 = n
      OBVIOUS
    <3> HIDE DEF i
    <3>2. Parted(parts, raw[i + 1]) \in Seq(Lits)
      BY <3>1, PartedIs
    <3> QED BY <3>1, <3>2
  <2> QED BY <2>1
<1>3. step \in [S \X (1..N) -> S] /\ \A p \in S, n \in 1..N : step[<<p, n>>] = Parted(p, raw[n])
  BY <1>2
<1> HIDE DEF S, base, step, N
<1>4. PICK f : Follows(f, N, S, base, step)
  BY <1>1, <1>3, Recursion
<1>5. f \in [0..N -> S] /\ f[0] = base /\ \A n \in 1..N : f[n] = step[<<f[n - 1], n>>]
  BY <1>4 DEF Follows
<1>6. \A n \in 1..N : n - 1 \in 0..N /\ n \in 0..N /\ n # 0
  BY <1>1
<1>7. Unfolds(f)
  <2>1. \A n \in 1..N : f[n] = Parted(f[n - 1], raw[n])
    BY <1>3, <1>5, <1>6
  <2>2. \A n \in 0..N : n = 0 \/ n \in 1..N
    BY <1>1
  <2>3. \A n \in 0..N : f[n] = IF n = 0 THEN <<>> ELSE Parted(f[n - 1], raw[n])
    BY <1>5, <2>1, <2>2 DEF base
  <2>4. f = [n \in 0..N |-> f[n]]
    BY <1>5
  <2> QED BY <2>3, <2>4
<1> DEFINE g == CHOOSE h : Unfolds(h)
<1>8. Unfolds(g)
  <2> HIDE DEF Unfolds
  <2> QED BY <1>7
<1>9. Parts(raw) = g[N]
  BY DEF Parts, N
<1> HIDE DEF g
<1>10. g[0] = <<>> /\ \A n \in 1..N : g[n] = Parted(g[n - 1], raw[n])
  <2>1. 0 \in 0..N
    BY <1>1
  <2> QED BY <1>6, <1>8, <2>1
<1> DEFINE T == {n \in 0..N : g[n] \in S /\ Same(g[n], raw, n, name)}
<1>11. 0 \in T
  <2>1. \A k \in 0..Len(name) : Reached(<<>>, name, k) <=> k = 0
    <3>1. Len(<<>>) = 0 /\ Len(name) \in Nat
      OBVIOUS
    <3> QED BY <3>1, AlignedStarts DEF Reached
  <2>2. \A k \in 0..Len(name) : ReachedBy(raw, 0, name, k) <=> k = 0
    <3>1. Len(name) \in Nat
      OBVIOUS
    <3> QED BY <3>1, AlignedStarts DEF ReachedBy
  <2>3. Same(<<>>, raw, 0, name)
    BY <2>1, <2>2 DEF Same
  <2>4. 0 \in 0..N /\ <<>> \in S
    BY <1>1 DEF base
  <2> QED BY <1>10, <2>3, <2>4
<1>12. ASSUME NEW n \in 0..N - 1, n \in T PROVE n + 1 \in T
  <2>1. n \in 0..Len(raw) - 1 /\ n + 1 \in 1..N /\ n + 1 - 1 = n /\ n + 1 \in 0..N
    BY <1>1 DEF N
  <2> DEFINE p == g[n]
  <2>2. p \in Seq(Lits) /\ Same(p, raw, n, name)
    BY <1>12 DEF S
  <2> HIDE DEF p
  <2>3. Parted(p, raw[n + 1]) \in Seq(Lits) /\ Same(Parted(p, raw[n + 1]), raw, n + 1, name)
    BY <2>1, <2>2, PartedIs
  <2>4. g[n + 1] = Parted(p, raw[n + 1])
    BY <1>10, <2>1 DEF p
  <2> QED BY <2>1, <2>3, <2>4 DEF S
<1> HIDE DEF T
<1>13. N \in T
  <2>1. 0..N \subseteq T
    BY <1>1, <1>11, <1>12, InductTo
  <2> QED BY <1>1, <2>1
<1> DEFINE q == Parts(raw)
<1>14. q \in Seq(Lits) /\ Same(q, raw, Len(raw), name)
  BY <1>9, <1>13 DEF S, T, N
<1> HIDE DEF q
<1>15. Matches(q, name) <=> Reached(q, name, Len(name))
  BY <1>14, MatchesIs DEF Reached
<1>16. GlobMatches(raw, name) <=> ReachedBy(raw, Len(raw), name, Len(name))
  BY GlobIs DEF ReachedBy
<1>17. Len(name) \in 0..Len(name)
  OBVIOUS
<1>18. Matches(q, name) <=> GlobMatches(raw, name)
  BY <1>14, <1>15, <1>16, <1>17 DEF Same
<1> QED BY <1>18 DEF q

\* Whatever titles and patterns there are, of any length: the parts Pattern::new
\* makes of a pattern and the search of matches_parts block exactly the titles
\* the pattern matches when it is read as a glob (blocklist.rs).
THEOREM BlockedCorrect == Spec => []BlockedAsWritten
<1>1. LaunchInv => BlockedAsWritten
  <2> SUFFICES ASSUME LaunchInv, stage = "up"
               PROVE  Blocked(live.hand.titles, front)
                      <=> \E raw \in live.hand.titles : GlobMatches(raw, front)
    BY DEF BlockedAsWritten
  <2>1. front \in Seq(STRING)
    BY TitlesAssumption DEF LaunchInv, StageInv
  <2>2. live \in Configs
    BY DEF LaunchInv, StageInv, SettingsInv, SettingsTypeOK
  <2>3. live.hand.titles \subseteq Seq(STRING)
    BY <2>2, TitlesAssumption DEF Configs
  <2>4. \A raw \in live.hand.titles : Matches(Parts(raw), front) <=> GlobMatches(raw, front)
    BY <2>1, <2>3, PartsAre
  <2> QED BY <2>4 DEF Blocked
<1> QED BY <1>1, Invariant, PTL

=============================================================================
