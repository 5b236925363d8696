----------------------------- MODULE Migrations -----------------------------
(***************************************************************************)
(* Opening the database (src/izy/db.py, connect): the version it was left   *)
(* at is read, the idempotent base schema is created, the migrations above  *)
(* that version run, and the new version is written.  Every statement       *)
(* commits by itself, so the process may die between any two, and another   *)
(* process - the daemon or a command - may open the file in between.        *)
(*                                                                         *)
(* Of the tables the module keeps what the migrations touch: sessions with  *)
(* its shape and rows, the copy that version 5 builds, task and             *)
(* interrupt_log.  A row is its id.  Not modelled: the copy of the file     *)
(* made before a migration, which nothing reads back; indexes; a database   *)
(* written by a newer version.                                              *)
(***************************************************************************)
EXTENDS Integers, Sequences, FiniteSets

CONSTANTS
  Procs,        \* the processes that open the database
  Kept,         \* the sessions recorded before
  MaxRows,      \* bound: sessions
  MaxCrashes    \* bound: how often a process dies

ASSUME MigrationsAssumption ==
  /\ {MaxRows, MaxCrashes} \subseteq Nat
  /\ Kept \subseteq 1..MaxRows

VARIABLES
  sessions,     \* the table sessions: its shape, "none" when there is none, and rows
  rebuild,      \* the table sessions_rebuild, likewise
  tables,       \* which of the tables interrupt_log and task exist
  version,      \* the stored schema_version; 0 is none
  procs,        \* each process: how far it is, and what it has still to run
  inserted,     \* history: every session there should be
  overlapped,   \* history: a process touched the file while another migrated it
  crashes       \* how often a process has died

vars == <<sessions, rebuild, tables, version, procs, inserted, overlapped, crashes>>

NoTable == [shape |-> "none", rows |-> {}]

(* The shape of sessions at each version: task_id comes as a foreign key at   *)
(* 4, and stays without it from 5 on.                                         *)
ShapeAt(v) == CASE v = 0 -> "none" [] v \in {2, 3} -> "v2" [] v = 4 -> "v4" [] v = 5 -> "v5"

-----------------------------------------------------------------------------
(* The statements that bring a file to each version. *)
MIGRATIONS ==
  [v \in 3..5 |-> CASE v = 3 -> <<"interrupt_log">>
                    [] v = 4 -> <<"task", "add_column">>
                    [] v = 5 -> <<"create_rebuild", "copy", "drop", "rename">>]

Above(baseline, v) == IF v > baseline THEN MIGRATIONS[v] ELSE <<>>

(* Seeded fault: the version is written first. *)
PendingAfterVersion(baseline) ==
  <<"version">> \o Above(baseline, 3) \o Above(baseline, 4) \o Above(baseline, 5)

(* _migrate: the migrations above the baseline, in order, then the version. *)
Pending(baseline) ==
  Above(baseline, 3) \o Above(baseline, 4) \o Above(baseline, 5) \o <<"version">>

(* Seeded fault: CREATE TABLE without IF NOT EXISTS. *)
RaisesIfThere(s) == s \in tables \/ (s = "add_column" /\ sessions.shape # "v2")

(* The statements SQLite refuses: a column or a table that exists already, a  *)
(* table or a column that does not, a row copied twice.                       *)
Raises(s) ==
  CASE s = "add_column"     -> sessions.shape # "v2"
    [] s = "create_rebuild" -> rebuild # NoTable
    [] s = "copy"           -> \/ rebuild = NoTable \/ sessions.shape \notin {"v4", "v5"}
                               \/ rebuild.rows \cap sessions.rows # {}
    [] s = "drop"           -> sessions = NoTable
    [] s = "rename"         -> rebuild = NoTable \/ sessions # NoTable
    [] OTHER                -> FALSE

(* Seeded fault: the rows are not copied. *)
CopiedNone == rebuild

Copied == [rebuild EXCEPT !.rows = @ \cup sessions.rows]

Effect(s) ==
  /\ sessions' = CASE s = "add_column" -> [sessions EXCEPT !.shape = "v4"]
                   [] s = "drop"       -> NoTable
                   [] s = "rename"     -> rebuild
                   [] OTHER            -> sessions
  /\ rebuild' = CASE s = "create_rebuild" -> [shape |-> "v5", rows |-> {}]
                  [] s = "copy"           -> Copied
                  [] s = "rename"         -> NoTable
                  [] OTHER                -> rebuild
  /\ tables' = IF s \in {"interrupt_log", "task"} THEN tables \cup {s} ELSE tables
  /\ version' = IF s = "version" THEN 5 ELSE version

-----------------------------------------------------------------------------
Closed == [pc |-> "closed", todo |-> <<>>, torn |-> FALSE]
Migrating == {p \in Procs : procs[p].pc = "migrating"}

(* What a migration that was cut short leaves behind. *)
Torn == rebuild # NoTable \/ (version # 0 /\ sessions.shape # ShapeAt(version))
             \/ (version = 0 /\ sessions.shape \notin {"none", "v2"})

Overlaps(p) == overlapped' = (overlapped \/ Migrating \ {p} # {})

(* connect: the stored version, the base schema, and what is then pending. *)
Open(p) ==
  /\ procs[p] = Closed
  /\ sessions' = IF sessions = NoTable THEN [shape |-> "v2", rows |-> {}] ELSE sessions
  /\ procs' = [procs EXCEPT ![p] =
       [pc |-> "migrating", todo |-> Pending(IF version = 0 THEN 2 ELSE version),
        torn |-> Torn]]
  /\ Overlaps(p)
  /\ UNCHANGED <<rebuild, tables, version, inserted, crashes>>

(* The next statement, or the exception that keeps the process from starting. *)
Statement(p) ==
  /\ p \in Migrating
  /\ LET s == Head(procs[p].todo)
         rest == Tail(procs[p].todo)
     IN  IF Raises(s)
         THEN /\ procs' = [procs EXCEPT ![p].pc = "raised"]
              /\ UNCHANGED <<sessions, rebuild, tables, version>>
         ELSE /\ procs' = [procs EXCEPT ![p].todo = rest,
                                        ![p].pc = IF rest = <<>> THEN "open" ELSE "migrating"]
              /\ Effect(s)
  /\ Overlaps(p)
  /\ UNCHANGED <<inserted, crashes>>

(* start_session by an open process: with its task_id, so a table without     *)
(* that column refuses it.                                                    *)
StartSession(p) ==
  /\ procs[p].pc = "open" /\ Cardinality(inserted) < MaxRows
  /\ sessions.shape \in {"v4", "v5"}
  /\ LET id == Cardinality(inserted) + 1
     IN  /\ sessions' = [sessions EXCEPT !.rows = @ \cup {id}]
         /\ inserted' = inserted \cup {id}
  /\ Overlaps(p)
  /\ UNCHANGED <<rebuild, tables, version, procs, crashes>>

(* The process ends, because it is through or could not start ... *)
Close(p) ==
  /\ procs[p].pc \in {"open", "raised"}
  /\ procs' = [procs EXCEPT ![p] = Closed]
  /\ UNCHANGED <<sessions, rebuild, tables, version, inserted, overlapped, crashes>>

(* ... or it dies between two statements. *)
Crash(p) ==
  /\ p \in Migrating /\ crashes < MaxCrashes
  /\ crashes' = crashes + 1
  /\ procs' = [procs EXCEPT ![p] = Closed]
  /\ UNCHANGED <<sessions, rebuild, tables, version, inserted, overlapped>>

(* A new file, or one that an earlier version of the program left. *)
Init ==
  /\ version \in {0, 2, 3, 4, 5}
  /\ sessions = [shape |-> ShapeAt(version), rows |-> IF version = 0 THEN {} ELSE Kept]
  /\ rebuild = NoTable
  /\ tables = (IF version >= 3 THEN {"interrupt_log"} ELSE {})
              \cup (IF version >= 4 THEN {"task"} ELSE {})
  /\ procs = [p \in Procs |-> Closed]
  /\ inserted = sessions.rows
  /\ overlapped = FALSE /\ crashes = 0

Next == \E p \in Procs : Open(p) \/ Statement(p) \/ StartSession(p) \/ Close(p) \/ Crash(p)

Spec == Init /\ [][Next]_vars

-----------------------------------------------------------------------------
(* A crash between any two statements, and however many opens after it, lose  *)
(* no session: it is in the table or in the copy, unless two processes        *)
(* migrated the same file at once.                                            *)
RowsKept == overlapped \/ inserted \subseteq sessions.rows \cup rebuild.rows

(* "Both paths - new install and upgrade - converge on the same shape"        *)
(* (src/izy/db.py:24-25): a file that says it is at version 5 has the tables  *)
(* of version 5, whichever version it started at and whatever was cut short.  *)
Converged ==
  version = 5 /\ ~overlapped =>
    /\ sessions.shape = "v5" /\ rebuild = NoTable
    /\ tables = {"interrupt_log", "task"}

(* A process fails to open the database only if a migration was cut short     *)
(* between its first statement that cannot be repeated and the version, or    *)
(* another process migrates as well.                                          *)
RefusesOnlyTorn ==
  overlapped \/ \A p \in Procs : procs[p].pc = "raised" => procs[p].torn

(* "Refusing to start is worse than a missing copy" (src/izy/db.py:248-249):  *)
(* a process that opens the database starts.                                  *)
NeverRefuses == \A p \in Procs : procs[p].pc # "raised"
=============================================================================
