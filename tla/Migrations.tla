----------------------------- MODULE Migrations -----------------------------
(***************************************************************************)
(* run_migrations (storage/schema.rs) over the SQLite file: the statements *)
(* of every migration newer than the recorded version, one after the       *)
(* other.  execute_batch opens no transaction, so each statement commits   *)
(* alone, the one that records the version too.                            *)
(***************************************************************************)
EXTENDS Integers, Sequences, FiniteSetsExt

VARIABLES
    objects,    \* tables, indexes and added columns in the file
    versions,   \* rows of schema_version
    todo        \* what a running run_migrations has still to execute

\* MIGRATIONS, each without its last statement.
Creates ==
    << <<"captures", "idx_captures_cycle", "idx_captures_timestamp", "clusters",
         "idx_clusters_cycle", "capture_cluster_map", "recommendations", "idx_recs_cycle",
         "idx_recs_disposition", "skip_log", "active_hours_counter", "schema_version">>,
       <<"captures.ocr_engine", "conversations", "idx_conversations_kind">>,
       <<"recommendations.strategic_value", "recommendations.confidence",
         "recommendations.starter_scaffold">> >>

Version == DOMAIN Creates

Create(v, n) == [version |-> v, creates |-> n]
Record(v) == [version |-> v, creates |-> "nothing"]

\* Fault: the version is recorded before its statements have run.
ScriptRecordFirst(v) == <<Record(v)>> \o [i \in DOMAIN Creates[v] |-> Create(v, Creates[v][i])]

Script(v) == [i \in DOMAIN Creates[v] |-> Create(v, Creates[v][i])] \o <<Record(v)>>

\* SELECT COALESCE(MAX(version), 0), where a read that fails counts as 0.
Current == IF "schema_version" \in objects THEN Max(versions \union {0}) ELSE 0

\* Fault: the recorded version itself is run again.
PendingFromCurrent(release) ==
    LET Of(v) == IF v < Current \/ v > release THEN <<>> ELSE Script(v) IN Of(1) \o Of(2) \o Of(3)

\* What a program that knows the first `release` migrations has to execute.
Pending(release) ==
    LET Of(v) == IF v <= Current \/ v > release THEN <<>> ELSE Script(v) IN Of(1) \o Of(2) \o Of(3)

Init == objects = {} /\ versions = {} /\ todo = <<>>

Begin(release) == todo' = Pending(release) /\ UNCHANGED <<objects, versions>>

\* CREATE and ADD COLUMN fail when the name is there.
Possible(s) == s.creates = "nothing" \/ s.creates \notin objects

Statement ==
    /\ todo # <<>> /\ Possible(Head(todo))
    /\ IF Head(todo).creates = "nothing"
       THEN versions' = versions \union {Head(todo).version} /\ UNCHANGED objects
       ELSE objects' = objects \union {Head(todo).creates} /\ UNCHANGED versions
    /\ todo' = Tail(todo)

\* The statement is impossible, or SQLite fails: run_migrations returns.
StatementFails ==
    /\ todo # <<>>
    /\ todo' = <<>>
    /\ UNCHANGED <<objects, versions>>

Dies == todo' = <<>> /\ UNCHANGED <<objects, versions>>

-----------------------------------------------------------------------------
Names(v) == {Creates[v][i] : i \in DOMAIN Creates[v]}

TypeOK ==
    /\ objects \subseteq UNION {Names(v) : v \in Version}
    /\ versions \subseteq Version
    /\ \A i \in DOMAIN todo : todo[i].version \in Version

\* A version is recorded only over all objects of it and of every version
\* before it: the next run starts from a database that has them
\* (storage/schema.rs, "migrations_are_idempotent").
RecordedIsApplied ==
    \A v \in versions : 1..v \subseteq versions /\ Names(v) \subseteq objects
=============================================================================
