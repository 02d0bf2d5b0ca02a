------------------------------ MODULE StoreOpen ------------------------------
(***************************************************************************)
(* Opening the session database: the three looks of the Phase-0 probe and  *)
(* the file swap, the version check, the column-by-column upgrade and the  *)
(* batch that creates the schema and stamps it (crates/storage/src/lib.rs),*)
(* by processes that may open one path at the same time and may be killed  *)
(* between any two of their statements.                                    *)
(*                                                                         *)
(* A database is a record of what the openers look at: the tables it has,  *)
(* the later-added columns it has, user_version, how many commits it has   *)
(* seen, and whether its messages are a Phase-0 file's, without session_id *)
(* (v0).  Files are numbered; path and backup name one each (0: none).     *)
(***************************************************************************)
EXTENDS Naturals, Sequences

CONSTANTS
  Writers,   \* processes that open with open_with_log (wrap, gateway)
  Readers,   \* processes that open with open (dashboard, prune, export)
  Tables,    \* the tables of the schema
  Messages,  \* the one that a Phase-0 file has as well
  Columns,   \* the columns added since: a sequence of [table, name]
  Start,     \* what may be at the path at first: {"none", "phase0", "old"}
  Renames,   \* whether a rename may work, and whether it may fail
  MaxKills   \* bound: processes killed

ASSUME StoreOpenAssumption ==
  /\ Writers \cap Readers = {}
  /\ Messages \in Tables
  /\ Columns \in Seq([table : Tables, name : STRING])
  /\ Start \subseteq {"none", "phase0", "old"} /\ Start # {}
  /\ Renames \subseteq BOOLEAN /\ Renames # {}
  /\ MaxKills \in Nat

VARIABLES
  db,      \* the databases there have been, by number
  path,    \* the file at the database's path
  backup,  \* the file at <path>.v0-backup
  gone,    \* files moved to the backup path, or whose -wal was removed
  pc,      \* where each opener is
  at,      \* the column each opener is about to look at
  file,    \* the file each opener's connection is on
  snap,    \* the commit count each opener's transaction reads at
  raced,   \* openers whose file changed between what they read and what they did
  laid,    \* what was at the path at first
  kills

places == <<path, backup, gone>>
vars == <<db, places, pc, at, file, snap, raced, laid, kills>>

Openers == Writers \cup Readers
Current == 7  \* SCHEMA_VERSION
All     == {Columns[k] : k \in DOMAIN Columns}
Of(T)   == {c \in All : c.table \in T}

Empty  == [tables |-> {}, cols |-> {}, version |-> 0, commits |-> 0, v0 |-> FALSE]
Phase0 == [Empty EXCEPT !.tables = {Messages}, !.v0 = TRUE]
\* Columns were added in order, one schema version after the other.
Old(k) == [Empty EXCEPT !.tables = Tables, !.version = 1,
                        !.cols = {Columns[j] : j \in 1..k}]

Init ==
  /\ laid \in Start
  /\ \/ laid = "none" /\ db = <<>> /\ path = 0
     \/ laid = "phase0" /\ db = <<Phase0>> /\ path = 1
     \/ laid = "old" /\ path = 1 /\ \E k \in 0..Len(Columns) : db = <<Old(k)>>
  /\ backup = 0 /\ gone = {}
  /\ pc = [o \in Openers |-> "closed"]
  /\ at = [o \in Openers |-> 1]
  /\ file = [o \in Openers |-> 0]
  /\ snap = [o \in Openers |-> 0]
  /\ raced = {} /\ kills = 0

\* o commits d to its file: whoever else is upgrading or probing it has raced.
Commit(o, d) ==
  /\ db' = [db EXCEPT ![file[o]] = [d EXCEPT !.commits = @ + 1]]
  /\ raced' = raced \cup
       {p \in Openers \ {o} : file[p] = file[o]
                              /\ pc[p] \in {"tables", "column", "alter", "create", "stamp"}}

\* SQLite creates the file when there is none.
Connect(o) ==
  /\ IF path = 0
     THEN db' = Append(db, Empty) /\ path' = Len(db) + 1
     ELSE UNCHANGED <<db, path>>
  /\ file' = [file EXCEPT ![o] = path']

-----------------------------------------------------------------------------
\* is_legacy_v0 asks whether there is a file, then reads its version and its tables
\* in two statements with no transaction around them, on a connection of its own.
Exists(o) ==
  /\ pc[o] = "closed"
  /\ pc' = [pc EXCEPT ![o] = IF path = 0 THEN "open" ELSE "probe"]
  /\ UNCHANGED <<db, places, at, file, snap, raced, laid, kills>>

ReadVersion_Unread(o) ==  \* mutated form: the tables alone decide
  /\ pc[o] = "probe"
  /\ Connect(o) /\ pc' = [pc EXCEPT ![o] = "tables"]
  /\ UNCHANGED <<backup, gone, at, snap, raced, laid, kills>>

\* A file with a stamp is none of Phase 0, whatever its tables.
ReadVersion(o) ==
  /\ pc[o] = "probe"
  /\ \/ /\ path # 0 /\ db[path].version # 0
        /\ pc' = [pc EXCEPT ![o] = "open"] /\ UNCHANGED <<db, path, file>>
     \/ /\ path # 0 => db[path].version = 0
        /\ Connect(o) /\ pc' = [pc EXCEPT ![o] = "tables"]
  /\ UNCHANGED <<backup, gone, at, snap, raced, laid, kills>>

\* A reader given a Phase-0 file serves an empty store in memory.
ReadTables(o) ==
  /\ pc[o] = "tables"
  /\ IF Messages \in db[file[o]].tables
     THEN /\ pc' = [pc EXCEPT ![o] = IF o \in Writers THEN "rename" ELSE "memory"]
          /\ UNCHANGED <<file, raced>>
     ELSE /\ pc' = [pc EXCEPT ![o] = "open"]
          /\ file' = [file EXCEPT ![o] = 0] /\ raced' = raced \ {o}
  /\ UNCHANGED <<db, places, at, snap, laid, kills>>

\* migrate_legacy_v0 acts on that verdict: the path is not looked at again.
\* Where the rename fails the opener goes on with the file that is there.
Rename(o) ==
  /\ pc[o] = "rename"
  /\ \/ /\ path # 0 /\ TRUE \in Renames
        /\ backup' = path /\ path' = 0 /\ gone' = gone \cup {path}
        /\ pc' = [pc EXCEPT ![o] = "sidecars"]
     \/ /\ path = 0 \/ FALSE \in Renames
        /\ pc' = [pc EXCEPT ![o] = "open"] /\ UNCHANGED places
  /\ file' = [file EXCEPT ![o] = 0] /\ raced' = raced \ {o}
  /\ UNCHANGED <<db, at, snap, laid, kills>>

\* <path>-wal and <path>-shm: those of whatever is at the path by now.
RemoveSidecars(o) ==
  /\ pc[o] = "sidecars"
  /\ gone' = gone \cup ({path} \ {0})
  /\ pc' = [pc EXCEPT ![o] = "open"]
  /\ UNCHANGED <<db, path, backup, at, file, snap, raced, laid, kills>>

OpenPhysical(o) ==
  /\ pc[o] = "open" /\ Connect(o)
  /\ pc' = [pc EXCEPT ![o] = "version"]
  /\ UNCHANGED <<backup, gone, at, snap, raced, laid, kills>>

CheckVersion_Zero(o) ==  \* mutated form: any stamp is taken for the current one
  /\ pc[o] = "version"
  /\ pc' = [pc EXCEPT ![o] = IF db[file[o]].version > 0 THEN "up" ELSE "column"]
  /\ at' = [at EXCEPT ![o] = 1]
  /\ UNCHANGED <<db, places, file, snap, raced, laid, kills>>

CheckVersion(o) ==
  /\ pc[o] = "version"
  /\ pc' = [pc EXCEPT ![o] =
       IF db[file[o]].version >= Current THEN "up" ELSE "column"]
  /\ at' = [at EXCEPT ![o] = 1]
  /\ UNCHANGED <<db, places, file, snap, raced, laid, kills>>

Wants(d, c) == c.table \in d.tables /\ c \notin d.cols

NeedsColumn_Always(d, c) ==  \* mutated form: no column probe
  c.table \in d.tables

NeedsColumn(d, c) == Wants(d, c)

ProbeColumn(o) ==
  /\ pc[o] = "column"
  /\ IF at[o] > Len(Columns)
     THEN pc' = [pc EXCEPT ![o] = "create"] /\ UNCHANGED at
     ELSE IF NeedsColumn(db[file[o]], Columns[at[o]])
     THEN pc' = [pc EXCEPT ![o] = "alter"] /\ UNCHANGED at
     ELSE at' = [at EXCEPT ![o] = @ + 1] /\ UNCHANGED pc
  /\ UNCHANGED <<db, places, file, snap, raced, laid, kills>>

\* ALTER TABLE ADD COLUMN is an error for a column that is there.
AddColumn(o) ==
  LET d == db[file[o]]
      c == Columns[at[o]]
  IN  /\ pc[o] = "alter"
      /\ IF c \in d.cols
         THEN /\ pc' = [pc EXCEPT ![o] = "failed"]
              /\ UNCHANGED <<db, at, raced>>
         ELSE /\ Commit(o, [d EXCEPT !.cols = @ \cup {c}])
              /\ at' = [at EXCEPT ![o] = @ + 1]
              /\ pc' = [pc EXCEPT ![o] = "column"]
      /\ UNCHANGED <<places, file, snap, laid, kills>>

Created(d) ==
  [d EXCEPT !.tables = Tables, !.version = Current,
            !.cols = @ \cup Of(Tables \ d.tables)]

\* The batch begins with a read of sqlite_master.
BeginCreate_Unstamped(o) ==  \* mutated form: tables in a commit of their own
  LET d == db[file[o]]
  IN  /\ pc[o] = "create"
      /\ Commit(o, [Created(d) EXCEPT !.version = d.version])
      /\ snap' = [snap EXCEPT ![o] = db'[file[o]].commits]
      /\ pc' = [pc EXCEPT ![o] = "stamp"]
      /\ UNCHANGED <<places, at, file, laid, kills>>

BeginCreate(o) ==
  /\ pc[o] = "create"
  /\ snap' = [snap EXCEPT ![o] = db[file[o]].commits]
  /\ pc' = [pc EXCEPT ![o] = "stamp"]
  /\ UNCHANGED <<db, places, at, file, raced, laid, kills>>

\* Its writes promote the read transaction, which SQLite refuses when the file
\* has changed since: waiting cannot help (init_schema's and serve's comments).
\* The index on messages(session_id, id) is one of them: over the table of a
\* Phase-0 file it is an error.
Stamp(o) ==
  LET d == db[file[o]]
  IN  /\ pc[o] = "stamp"
      /\ IF d.commits = snap[o] /\ ~d.v0
         THEN /\ Commit(o, Created(d))
              /\ pc' = [pc EXCEPT ![o] = "up"]
         ELSE /\ pc' = [pc EXCEPT ![o] = "failed"]
              /\ UNCHANGED <<db, raced>>
      /\ UNCHANGED <<places, at, file, snap, laid, kills>>

\* The process is killed, or ends, and another takes its place.
Kill(o) ==
  /\ pc[o] # "closed" /\ kills < MaxKills
  /\ kills' = kills + 1
  /\ pc' = [pc EXCEPT ![o] = "closed"]
  /\ file' = [file EXCEPT ![o] = 0]
  /\ raced' = raced \ {o}
  /\ UNCHANGED <<db, places, at, snap, laid>>

Open(o) ==
  \/ Exists(o) \/ ReadVersion(o) \/ ReadTables(o)
  \/ Rename(o) \/ RemoveSidecars(o) \/ OpenPhysical(o)
  \/ CheckVersion(o) \/ ProbeColumn(o) \/ AddColumn(o)
  \/ BeginCreate(o) \/ Stamp(o)

Next == \E o \in Openers : Open(o) \/ Kill(o)

Spec == Init /\ [][Next]_vars

-----------------------------------------------------------------------------
(* Properties.                                                             *)

\* An opener that got through has every table and every column its statements
\* name, whoever else upgraded the file at the same time, gave up half way or
\* was killed between two columns.
OpenMeansCurrent ==
  \A o \in Openers : pc[o] = "up" =>
    /\ db[file[o]].version = Current
    /\ db[file[o]].tables = Tables /\ db[file[o]].cols = All

Ours(f) == f # 1 \/ laid # "phase0"

\* What one process leaves behind when it is killed at any statement never
\* stops another: an opener fails only when the file was changed under it, or
\* is a Phase-0 file that could not be moved.
FailsOnlyInARace ==
  \A o \in Openers : pc[o] = "failed" => o \in raced \/ ~Ours(file[o])

\* Where a Phase-0 file cannot be moved, the writer records in it what it can:
\* "degraded recording is acceptable, a hard failure is not" (migrate_legacy_v0).
FallsOpen == \A o \in Writers : pc[o] = "failed" => Ours(file[o])

\* What the two reads of the probe look for, at one moment.
LooksLegacy(f) == db[f].version = 0 /\ Messages \in db[f].tables

\* A file of ours is never in the state the Phase-0 probe looks for, not even
\* between two statements of its creation (init_schema's comment on its BEGIN).
OursNeverLooksLegacy ==
  \A f \in DOMAIN db : Ours(f) => ~LooksLegacy(f)

\* The probe is two reads all the same: a file of ours is taken for a Phase-0 file
\* where it was created between them, and then only.
MistakenOnlyInARace ==
  \A o \in Openers :
    pc[o] \in {"rename", "memory"} /\ Ours(file[o]) => o \in raced

\* A crash at any statement is harmless: what it leaves behind neither stops another
\* opener nor is mistaken for a Phase-0 database and moved away with its sessions;
\* both take a process that is writing to the file at the same time.
CrashesAreHarmless == FailsOnlyInARace /\ OursNeverLooksLegacy /\ MistakenOnlyInARace

\* "a concurrent reader's legacy-v0 probe (see is_legacy_v0) can never observe the
\* messages table mid-creation with user_version still at 0 and misclassify a fresh
\* db as v0" (init_schema's comment on its BEGIN).
ProbeIsRight ==
  \A o \in Openers : pc[o] \in {"rename", "memory"} => ~Ours(file[o])

\* Only a Phase-0 file is set aside, and only such a file loses its journal.
OnlyPhase0Discarded ==
  \A f \in gone : ~Ours(f)

\* Every process that opens the database gets to record ("the first opener
\* still creates everything atomically; the rest just skip").
EveryOpenerSucceeds == \A o \in Openers : pc[o] # "failed"
=============================================================================
