------------------------------- MODULE Database -------------------------------
(***************************************************************************)
(* DatabaseManager: how a database is opened, and what the releases of the  *)
(* program make of its schema.                                              *)
(*                                                                         *)
(* Script k is db/migration_k.sql, and release r ships the scripts 1..r and *)
(* a reset.sql with all they do.  migrate() is one transaction: when a      *)
(* script fails, or the process ends inside it, the schema is as before.    *)
(***************************************************************************)
EXTENDS Integers

CONSTANTS
    MaxRelease,   \* bound: the last release
    Repeatable,   \* the scripts that succeed on a schema that has them already
    InMemory      \* the database name is ":memory:"

ASSUME ReleaseAssumption ==
    /\ MaxRelease \in Nat \ {0}
    /\ Repeatable \subseteq 1..MaxRelease
    /\ InMemory \in BOOLEAN

VARIABLES
    schema,    \* of the database, see Schema
    release,   \* the installed one
    up         \* the process runs, with the database open

dbVars == <<schema, release, up>>

Schema ==
    [space    : BOOLEAN,                     \* there is a table Space
     info     : BOOLEAN,                     \* there is a table info
     recorded : SUBSET (1..MaxRelease),      \* dbversion of its row, if it has one
     scripts  : SUBSET (1..MaxRelease)]      \* the scripts whose changes the tables have

NoTables   == [space |-> FALSE, info |-> FALSE, recorded |-> {}, scripts |-> {}]
BeforeInfo == [NoTables EXCEPT !.space = TRUE]

(* reset.sql drops all tables; it creates info, and no row in it. *)
ResetSql(r) == [space |-> TRUE, info |-> TRUE, recorded |-> {}, scripts |-> 1..r]

(* updateDatabaseVersion is an UPDATE: without a row it changes nothing. *)
Inserted(s, v) == [s EXCEPT !.recorded = {v}]   \* faulty variant: a row whatever was found
Recorded(s, v) ==
    [space |-> s.space, info |-> s.info,
     recorded |-> IF s.recorded = {} THEN {} ELSE {v}, scripts |-> s.scripts]

(* The scripts migrate() runs: those above the version it has found. *)
TodoAtVersion(s, r) == {k \in 1..r : \A v \in s.recorded : k >= v}   \* faulty variant: >= for >
Todo(s, r) == {k \in 1..r : \A v \in s.recorded : k > v}

NeedsReset(s) == ~s.info /\ ~s.space
IsUnversioned(s) == s.info /\ s.recorded = {}

RunsCleanly(s, K) == K \cap s.scripts \subseteq Repeatable
WithScripts(s, K) ==
    [space |-> s.space, info |-> s.info \/ 1 \in K,
     recorded |-> s.recorded, scripts |-> s.scripts \cup K]

(* migrate() neither throws ... *)
Migratable(s, r) == NeedsReset(s) \/ IsUnversioned(s) \/ RunsCleanly(s, Todo(s, r))

(* ... nor leaves anything but this. *)
MigratedUnrecorded(s, r) ==   \* faulty variant: updateDatabaseVersion is left out
    IF NeedsReset(s) THEN ResetSql(r) ELSE IF IsUnversioned(s) THEN s ELSE WithScripts(s, Todo(s, r))
Migrated(s, r) ==
    IF NeedsReset(s) THEN ResetSql(r)
    ELSE IF IsUnversioned(s) THEN Recorded(s, r)
    ELSE IF Todo(s, r) = {} THEN s
    ELSE Recorded(WithScripts(s, Todo(s, r)), r)

(* getInstance(): when migrate() throws, there is no instance. *)
Open ==
    /\ ~up
    /\ up' = Migratable(schema, release)
    /\ schema' = IF up' THEN Migrated(schema, release) ELSE schema
    /\ UNCHANGED release

(* reset(): reset.sql and the only INSERT INTO info. *)
reset ==
    /\ up
    /\ schema' = [ResetSql(release) EXCEPT !.recorded = {release}]
    /\ UNCHANGED <<release, up>>

(* The process ends. *)
Exit ==
    /\ up
    /\ up' = FALSE
    /\ schema' = IF InMemory THEN NoTables ELSE schema
    /\ UNCHANGED release

(* Another release is installed while the program does not run. *)
Upgrade ==
    /\ ~up
    /\ release < MaxRelease
    /\ release' = release + 1
    /\ UNCHANGED <<schema, up>>

DbInit ==
    /\ schema \in {NoTables} \cup (IF InMemory THEN {} ELSE {BeforeInfo})
    /\ release \in 1..MaxRelease
    /\ up = FALSE

DbNext == Open \/ reset \/ Exit \/ Upgrade
DbSpec == DbInit /\ [][DbNext]_dbVars

----------------------------------------------------------------------------
(* Properties. *)

DbTypeOK ==
    /\ schema \in Schema
    /\ release \in 1..MaxRelease
    /\ up \in BOOLEAN

(* The recorded version tells exactly which scripts the tables have, and a  *)
(* database without info has none: so migrate(), which starts from that     *)
(* record, never repeats a script that cannot be repeated.                  *)
VersionRecordsScripts ==
    /\ \A v \in schema.recorded : schema.scripts = 1..v
    /\ schema.recorded # {} => schema.info
    /\ ~schema.info => schema.scripts = {}

(* No history of installations, exits, crashes and restores leads to a      *)
(* database that this release or a later one cannot open.                   *)
Openable == \A r \in release..MaxRelease : Migratable(schema, r)

(* A database that has a row in info has the schema of the release that     *)
(* opens it (DatabaseManagerTest.cpp:29 "Verify info table has the correct  *)
(* version and dbversion").  One without a row stays as it is.              *)
OpenedIsCurrent ==
    [][~up /\ up' /\ schema.recorded # {} => schema'.scripts = 1..release /\ schema'.recorded = {release}]_dbVars
=============================================================================
