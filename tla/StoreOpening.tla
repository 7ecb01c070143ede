---------------------------- MODULE StoreOpening ----------------------------
(***************************************************************************)
(* ReleaseCacheStore._initialize, run by several processes on one database *)
(* file: a preflight in a read snapshot, the switch to WAL with bounded    *)
(* retries, then BEGIN IMMEDIATE, the same checks again, the creation or   *)
(* migration of the schema, its verification and COMMIT.  A process of an  *)
(* older release of the program may still be writing rows meanwhile.       *)
(*                                                                         *)
(* A database is its user_version, the tables found in it and whether they *)
(* hold rows; "other" tables are any that no version of the program made.  *)
(***************************************************************************)
EXTENDS Absent, Naturals

CONSTANTS Openers,   \* processes constructing a ReleaseCacheStore
          Attempts   \* bound on WAL attempts (200 in the code)

ASSUME AttemptsAssumption == Attempts \in Nat \ {0}

VARIABLES mode,      \* persistent journal mode of the file
          schema,    \* committed contents of the database
          writer,    \* who holds the write lock
          pc,        \* where each opener is
          seen,      \* what its preflight found
          draft,     \* uncommitted schema of its transaction
          attempts   \* WAL attempts made

openVars == <<mode, schema, writer, pc, seen, draft, attempts>>

Schema(version, tables, rows) == [version |-> version, tables |-> tables, rows |-> rows]
Schemas == [version: 0..4, tables: {"none", "v1", "v2", "v3", "other"}, rows: BOOLEAN]
Ended == {"ready", "rejected", "busy", "crashed"}

ASSUME NoneAssumption == None \notin Schemas /\ None \notin Openers

OpeningTypeOK ==
    /\ mode \in {"delete", "wal"}
    /\ schema \in Schemas
    /\ writer \in Openers \cup {None}
    /\ pc \in [Openers -> {"connected", "preflight", "wal", "begin", "migrate", "commit"} \cup Ended]
    /\ seen \in [Openers -> Schemas \cup {None}]
    /\ draft \in [Openers -> Schemas \cup {None}]
    /\ attempts \in [Openers -> 0..Attempts]

Created == Schema(3, "v3", FALSE)

(* New, empty v1, v2 and current databases; anything else is refused. *)
Openable(s) ==
    \/ s = Schema(0, "none", FALSE) \/ s = Schema(1, "v1", FALSE)
    \/ s.version = 2 /\ s.tables = "v2"
    \/ s.version = 3 /\ s.tables = "v3"

(* A v1 database is emptied and made anew; a v2 database keeps its rows. *)
Migrated(s) == IF s.version \in {0, 1} THEN Created ELSE Schema(3, "v3", s.rows)

OpeningInit ==
    /\ mode \in {"delete", "wal"}
    /\ schema \in {s \in Schemas : s.tables = "none" => ~s.rows}
    /\ writer = None
    /\ pc = [o \in Openers |-> "connected"]
    /\ seen = [o \in Openers |-> None]
    /\ draft = [o \in Openers |-> None]
    /\ attempts = [o \in Openers |-> 0]

Goto(o, where) == pc' = [pc EXCEPT ![o] = where]

(* The first read of the preflight transaction fixes its snapshot. *)
BeginPreflight(o) ==
    /\ pc[o] = "connected"
    /\ seen' = [seen EXCEPT ![o] = schema]
    /\ Goto(o, "preflight")
    /\ UNCHANGED <<mode, schema, writer, draft, attempts>>

(* Mutants: reads in autocommit see whatever is committed; nothing is refused. *)
ViewOfAutocommit(o) == schema
Anything(s) == s \in Schemas

PreflightView(o) == seen[o]
Acceptable(s) == Openable(s)

(* Version and table inventory belong together, or the database is refused. *)
EndPreflight(o) ==
    /\ pc[o] = "preflight"
    /\ LET view == [PreflightView(o) EXCEPT !.version = seen[o].version] IN
         Goto(o, IF Acceptable(view) THEN "wal" ELSE "rejected")
    /\ UNCHANGED <<mode, schema, writer, seen, draft, attempts>>

(* A reader in delete mode holds a SHARED lock until its transaction ends. *)
Reading(o) == pc[o] = "preflight"

GivesUp(n) == n = Attempts
AfterLastAttempt == "busy"

EnableWal(o) ==
    /\ pc[o] = "wal"
    /\ IF mode = "wal" \/ \A p \in Openers : ~Reading(p)
       THEN /\ mode' = "wal" /\ Goto(o, "begin") /\ UNCHANGED attempts
       ELSE /\ attempts' = [attempts EXCEPT ![o] = @ + 1]
            /\ IF GivesUp(attempts[o] + 1) THEN Goto(o, AfterLastAttempt) ELSE UNCHANGED pc
            /\ UNCHANGED mode
    /\ UNCHANGED <<schema, writer, seen, draft>>

BeginImmediate(o) ==
    /\ pc[o] = "begin" /\ writer = None
    /\ writer' = o
    /\ Goto(o, "migrate")
    /\ UNCHANGED <<mode, schema, seen, draft, attempts>>

(* The write lock was not free within the busy timeout. *)
BusyTimeout(o) ==
    /\ pc[o] = "begin" /\ writer # None
    /\ Goto(o, "busy")
    /\ UNCHANGED <<mode, schema, writer, seen, draft, attempts>>

TransactionView(o) == schema

Migrate(o) ==
    /\ pc[o] = "migrate"
    /\ IF Openable(TransactionView(o))
       THEN /\ draft' = [draft EXCEPT ![o] = Migrated(TransactionView(o))]
            /\ Goto(o, "commit")
            /\ UNCHANGED writer
       ELSE /\ Goto(o, "rejected")
            /\ writer' = None
            /\ UNCHANGED draft
    /\ UNCHANGED <<mode, schema, seen, attempts>>

Commit(o) ==
    /\ pc[o] = "commit"
    /\ schema' = draft[o]
    /\ draft' = [draft EXCEPT ![o] = None]
    /\ writer' = None
    /\ Goto(o, "ready")
    /\ UNCHANGED <<mode, seen, attempts>>

(* A process may die anywhere; SQLite drops its locks and its transaction. *)
Crash(o) ==
    /\ pc[o] \notin Ended
    /\ Goto(o, "crashed")
    /\ writer' = IF writer = o THEN None ELSE writer
    /\ draft' = [draft EXCEPT ![o] = None]
    /\ UNCHANGED <<mode, schema, seen, attempts>>

(* A process that has the database open stores its first row. *)
OpenProgramWrites ==
    /\ schema.tables \in {"v1", "v2", "v3"} /\ ~schema.rows
    /\ writer = None
    /\ mode = "wal" \/ \A o \in Openers : ~Reading(o)
    /\ schema' = [schema EXCEPT !.rows = TRUE]
    /\ UNCHANGED <<mode, writer, pc, seen, draft, attempts>>

Open(o) ==
    \/ BeginPreflight(o) \/ EndPreflight(o) \/ EnableWal(o)
    \/ BeginImmediate(o) \/ BusyTimeout(o) \/ Migrate(o) \/ Commit(o)

AllEnded == (\A o \in Openers : pc[o] \in Ended) /\ UNCHANGED openVars

OpeningNext == (\E o \in Openers : Open(o) \/ Crash(o)) \/ OpenProgramWrites \/ AllEnded

OpeningSpec == OpeningInit /\ [][OpeningNext]_openVars

(* Whoever has a store has it over the complete current schema in WAL mode, *)
(* no matter who created or migrated it.                                    *)
ReadyMeansCurrent ==
    \A o \in Openers : pc[o] = "ready" =>
        mode = "wal" /\ schema.version = 3 /\ schema.tables = "v3"

(***************************************************************************)
(* Openers never see each other's half-made work: a process is told that   *)
(* the schema is unacceptable only if it is (the comment in _preflight_    *)
(* initialization: one snapshot, so a version from before and tables from  *)
(* after another's commit cannot meet).                                    *)
(***************************************************************************)
NoSpuriousRejection == \A o \in Openers : pc[o] = "rejected" => ~Openable(schema)

(* A database is not even switched to WAL before some preflight found it   *)
(* acceptable: a refused file stays what it was.                           *)
RefusedFileUntouched ==
    [][(\A o \in Openers : seen[o] = None \/ ~Openable(seen[o]))
          => mode' = mode /\ (schema' # schema => schema'.rows)]_openVars

(* No migration drops rows, those written after the preflight included.    *)
RowsSurvive == [][schema.rows => schema'.rows]_openVars
=============================================================================
