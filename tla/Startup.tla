------------------------------ MODULE Startup ------------------------------
(***************************************************************************)
(* How the controller and the publisher come up on one database            *)
(* (dns/cmd, dns/internal/clock, and OpenSQLite and the migration in       *)
(* dns/internal/store/sqlite.go).                                          *)
(*                                                                         *)
(* systemd starts both processes at about the same time and starts each    *)
(* again when it fails.  Each opens its clock and the database, looks at   *)
(* the layout of the idempotency table, and creates or rebuilds the table. *)
(* The controller then serves requests, each of which adds a row.          *)
(*                                                                         *)
(* SQLite is external: one process writes at a time; a transaction works   *)
(* on the snapshot it read first, is invisible until it commits, and fails *)
(* if it wants to write after another process has written.                 *)
(*                                                                         *)
(* Data abstraction: a request's payload hash and response are one answer; *)
(* a layout is a name for a set of columns.  The clock is the file of the  *)
(* controlled tests; with no file the processes read the wall clock.       *)
(***************************************************************************)
EXTENDS Integers

CONSTANTS
    Keys,            \* idempotency keys, the device included
    Answers,         \* what is stored for a request besides its precondition
    Preconditions,   \* texts of write preconditions
    Blank,           \* the precondition of a row that was stored without one
    MaxExits,        \* bound: failures of a process that nothing forces
    MaxTime,         \* bound: the instants a test writes go up to here
    MaxWrites        \* bound: how often the test writes its clock file again

ASSUME StartupAssumption ==
    /\ Blank \notin Preconditions
    /\ MaxExits \in Nat
    /\ MaxTime \in Nat
    /\ MaxWrites \in Nat

VARIABLES
    db,         \* the committed database
    lock,       \* the process that holds the write lock, or Free
    view,       \* process -> the database as its transaction sees it
    inspected,  \* process -> the layout it found
    phase,      \* process -> where it is
    exits,      \* process -> unforced failures so far
    file,       \* the clock file
    last        \* process -> the last valid instant it read

dbVars == <<db, lock, view, inspected>>
clockVars == <<file, last>>
vars == <<db, lock, view, inspected, phase, exits, file, last>>

Processes == {"controller", "publisher"}
Free == "free"

Phases == {"down", "clock", "open", "inspect", "create", "begin", "rename",
           "recreate", "copy", "drop", "commit", "configure", "up"}

(* "pre-etag" has no precondition_key; "retained" has it, and retention     *)
(* columns with an index besides.                                           *)
Layouts == {"none", "pre-etag", "retained", "current"}

Row == [key : Keys, answer : Answers, precondition : Preconditions \cup {Blank}]
Table == [layout : Layouts, rows : SUBSET Row]
Database == [intents : BOOLEAN, requests : Table, legacy : Table]

NoTable == [layout |-> "none", rows |-> {}]
NoDatabase == [intents |-> FALSE, requests |-> NoTable, legacy |-> NoTable]

Goto(p, next) == phase' = [phase EXCEPT ![p] = next]

(* The controller has its credentials still to load. *)
Ready(p) == IF p = "controller" THEN "configure" ELSE "up"

----------------------------------------------------------------------------
(* The clock *)

ZeroTime == -1    \* time.Time{} is long before any instant

(* Mutant of Now: a file that cannot be read is taken for the zero time. *)
NowOrZero(p) ==
    last' = [last EXCEPT ![p] = IF file.readable THEN file.instant ELSE ZeroTime]

(* A file that is half written leaves the last valid instant in force. *)
Now(p) ==
    last' = [last EXCEPT ![p] = IF file.readable THEN file.instant ELSE @]

(* The test writes its clock file again.  While it does the file is empty   *)
(* or torn; then it holds any instant, an earlier one too.                  *)
TruncateClock ==
    /\ file.readable
    /\ file.writes < MaxWrites
    /\ file' = [file EXCEPT !.readable = FALSE, !.writes = @ + 1]
    /\ UNCHANGED <<dbVars, phase, exits, last>>

WriteClock ==
    /\ ~file.readable
    /\ \E t \in 0 .. MaxTime :
         file' = [file EXCEPT !.instant = t, !.readable = TRUE]
    /\ UNCHANGED <<dbVars, phase, exits, last>>

----------------------------------------------------------------------------
(* main, up to the migration.  A failure that nothing forces is an Exit. *)

(* The process ends; its transaction is rolled back. *)
Fall(p) ==
    /\ Goto(p, "down")
    /\ view' = [view EXCEPT ![p] = NoDatabase]
    /\ lock' = IF lock = p THEN Free ELSE lock
    /\ UNCHANGED <<db, inspected, clockVars>>

Start(p) ==
    /\ phase[p] = "down"
    /\ Goto(p, "clock")
    /\ UNCHANGED <<dbVars, exits, clockVars>>

OpenClock(p) ==
    /\ phase[p] = "clock"
    /\ file.readable
    /\ last' = [last EXCEPT ![p] = file.instant]
    /\ Goto(p, "open")
    /\ UNCHANGED <<dbVars, exits, file>>

(* The first instant must be a valid one. *)
RefuseClock(p) ==
    /\ phase[p] = "clock"
    /\ ~file.readable
    /\ Fall(p)
    /\ UNCHANGED exits

(* The pragmas and the intents table; a busy database is waited for. *)
OpenSQLite(p) ==
    /\ phase[p] = "open"
    /\ lock = Free
    /\ db' = [db EXCEPT !.intents = TRUE]
    /\ Goto(p, "inspect")
    /\ UNCHANGED <<lock, view, inspected, exits, clockVars>>

----------------------------------------------------------------------------
(* migrateIdempotencyTable *)

AfterInspection(p, layout) ==
    CASE layout = "none" -> "create"
      [] layout = "current" -> Ready(p)
      [] OTHER -> "begin"

(* Mutant of Inspect: a table that has the column it needs is let be. *)
InspectPrecondition(p) ==
    /\ phase[p] = "inspect"
    /\ inspected' = [inspected EXCEPT ![p] = db.requests.layout]
    /\ Goto(p, IF db.requests.layout = "retained" THEN Ready(p)
               ELSE AfterInspection(p, db.requests.layout))
    /\ UNCHANGED <<db, lock, view, exits, clockVars>>

Inspect(p) ==
    /\ phase[p] = "inspect"
    /\ inspected' = [inspected EXCEPT ![p] = db.requests.layout]
    /\ Goto(p, AfterInspection(p, db.requests.layout))
    /\ UNCHANGED <<db, lock, view, exits, clockVars>>

(* CREATE TABLE IF NOT EXISTS *)
Created(table) ==
    IF table.layout = "none" THEN [table EXCEPT !.layout = "current"] ELSE table

CreateTable(p) ==
    /\ phase[p] = "create"
    /\ lock = Free
    /\ db' = [db EXCEPT !.requests = Created(@)]
    /\ Goto(p, Ready(p))
    /\ UNCHANGED <<lock, view, inspected, exits, clockVars>>

(* BEGIN and DROP INDEX IF EXISTS, which writes if there is an index. *)
BeginMigration(p) ==
    /\ phase[p] = "begin"
    /\ view' = [view EXCEPT ![p] = db]
    /\ IF db.requests.layout = "retained"
       THEN lock = Free /\ lock' = p
       ELSE UNCHANGED lock
    /\ Goto(p, "rename")
    /\ UNCHANGED <<db, inspected, exits, clockVars>>

Renamed(d) == [d EXCEPT !.requests = NoTable, !.legacy = d.requests]

(* Mutant of Rename: the statements are not run in a transaction. *)
RenameAtOnce(p) ==
    /\ phase[p] = "rename"
    /\ lock = Free
    /\ lock' = p
    /\ db' = Renamed(db)
    /\ view' = [view EXCEPT ![p] = Renamed(db)]
    /\ Goto(p, "recreate")
    /\ UNCHANGED <<inspected, exits, clockVars>>

Rename(p) ==
    /\ phase[p] = "rename"
    /\ lock = p \/ (lock = Free /\ view[p] = db)
    /\ lock' = p
    /\ view' = [view EXCEPT ![p] = Renamed(@)]
    /\ Goto(p, "recreate")
    /\ UNCHANGED <<db, inspected, exits, clockVars>>

Recreate(p) ==
    /\ phase[p] = "recreate"
    /\ view' = [view EXCEPT ![p].requests = Created(@)]
    /\ Goto(p, "copy")
    /\ UNCHANGED <<db, lock, inspected, exits, clockVars>>

(* preconditionExpression is chosen by what was found, not by what is there *)
Copied(p, row) ==
    IF inspected[p] = "pre-etag" THEN [row EXCEPT !.precondition = Blank] ELSE row

Copy(p) ==
    /\ phase[p] = "copy"
    /\ view' = [view EXCEPT ![p].requests.rows =
         @ \cup {Copied(p, r) : r \in view[p].legacy.rows}]
    /\ Goto(p, "drop")
    /\ UNCHANGED <<db, lock, inspected, exits, clockVars>>

DropLegacy(p) ==
    /\ phase[p] = "drop"
    /\ view' = [view EXCEPT ![p].legacy = NoTable]
    /\ Goto(p, "commit")
    /\ UNCHANGED <<db, lock, inspected, exits, clockVars>>

Commit(p) ==
    /\ phase[p] = "commit"
    /\ db' = view[p]
    /\ view' = [view EXCEPT ![p] = NoDatabase]
    /\ lock' = Free
    /\ Goto(p, Ready(p))
    /\ UNCHANGED <<inspected, exits, clockVars>>

----------------------------------------------------------------------------
(* Mutant of Outdated: the statement is tried again, as those outside of a  *)
(* transaction are, on the snapshot that stays outdated.                    *)
OutdatedRetrying(p) ==
    /\ phase[p] = "rename"
    /\ lock # p
    /\ lock # Free \/ view[p] # db
    /\ UNCHANGED vars

(* Another process has written, or is writing, since the snapshot was read. *)
Outdated(p) ==
    /\ phase[p] = "rename"
    /\ lock # p
    /\ lock # Free \/ view[p] # db
    /\ Fall(p)
    /\ UNCHANGED exits

Exit(p) ==
    /\ phase[p] # "down"
    /\ exits[p] < MaxExits
    /\ exits' = [exits EXCEPT ![p] = @ + 1]
    /\ Fall(p)

----------------------------------------------------------------------------
(* Service *)

Configure(p) ==
    /\ phase[p] = "configure"
    /\ Goto(p, "up")
    /\ UNCHANGED <<dbVars, exits, clockVars>>

(* A request is accepted for the first time (module DesiredState). *)
Accept(k, a, c) ==
    /\ phase["controller"] = "up"
    /\ lock = Free
    /\ db.requests.layout = "current"
    /\ \A r \in db.requests.rows : r.key # k
    /\ db' = [db EXCEPT !.requests.rows =
                @ \cup {[key |-> k, answer |-> a, precondition |-> c]}]
    /\ Now("controller")
    /\ UNCHANGED <<lock, view, inspected, phase, exits, file>>

(* The publisher begins a pass (module Publication). *)
Pass ==
    /\ phase["publisher"] = "up"
    /\ Now("publisher")
    /\ UNCHANGED <<dbVars, phase, exits, file>>

----------------------------------------------------------------------------
(* A database that is new, or that a release left: one row per key, and no  *)
(* precondition where there was no column for one.                          *)
Init ==
    /\ db \in [intents : BOOLEAN, legacy : {NoTable},
               requests : [layout : Layouts, rows : SUBSET Row]]
    /\ db.requests.layout = "none" => db.requests.rows = {}
    /\ db.requests.layout # "none" => db.intents
    /\ \A r, s \in db.requests.rows : r.key = s.key => r = s
    /\ db.requests.layout = "pre-etag" =>
          \A r \in db.requests.rows : r.precondition = Blank
    /\ db.requests.layout = "retained" =>
          \A r \in db.requests.rows : r.precondition # Blank
    /\ lock = Free
    /\ view = [p \in Processes |-> NoDatabase]
    /\ inspected = [p \in Processes |-> "none"]
    /\ phase = [p \in Processes |-> "down"]
    /\ exits = [p \in Processes |-> 0]
    /\ file \in [instant : 0 .. MaxTime, readable : {TRUE}, writes : {0}]
    /\ last = [p \in Processes |-> 0]

Step(p) ==
    \/ Start(p) \/ OpenClock(p) \/ RefuseClock(p) \/ OpenSQLite(p) \/ Inspect(p)
    \/ CreateTable(p) \/ BeginMigration(p) \/ Rename(p) \/ Recreate(p) \/ Copy(p)
    \/ DropLegacy(p) \/ Commit(p) \/ Outdated(p) \/ Configure(p)

Next ==
    \/ \E p \in Processes : Step(p) \/ Exit(p)
    \/ \E k \in Keys, a \in Answers, c \in Preconditions : Accept(k, a, c)
    \/ Pass
    \/ TruncateClock
    \/ WriteClock

Spec == Init /\ [][Next]_vars

(* systemd restarts what has failed, a process that can go on does, and the *)
(* test finishes writing its clock file.                                    *)
FairSpec ==
    /\ Spec
    /\ \A p \in Processes : WF_vars(Step(p))
    /\ WF_vars(WriteClock)

----------------------------------------------------------------------------
(* Type correctness of the database, the transactions and the clocks: a     *)
(* half-written file never gives a service the zero time ("a partial        *)
(* test-clock write cannot unexpectedly expire leases", clock.go).          *)
TypeOK ==
    /\ db \in Database
    /\ lock \in Processes \cup {Free}
    /\ view \in [Processes -> Database]
    /\ inspected \in [Processes -> Layouts]
    /\ phase \in [Processes -> Phases]
    /\ exits \in [Processes -> 0 .. MaxExits]
    /\ file \in [instant : 0 .. MaxTime, readable : BOOLEAN, writes : 0 .. MaxWrites]
    /\ last \in [Processes -> 0 .. MaxTime]

(* A controller that serves finds the table it was written for, whichever   *)
(* process built it and whatever another process that still has the old     *)
(* layout in mind does to it afterwards (migrateIdempotencyTable).          *)
ServedSchema ==
    phase["controller"] = "up" =>
        /\ db.intents
        /\ db.requests.layout = "current"
        /\ db.legacy = NoTable

(* The answers in the table, for whoever reads the database. *)
Answered == {[id |-> r.key, answer |-> r.answer] : r \in db.requests.rows}

Log == INSTANCE AnswerLog WITH log <- Answered

(* No answer is lost, changed or doubled by the rebuilding of the table,    *)
(* by two processes at once and with a failure between any two statements:  *)
(* for a reader the table is an append-only log all the way                 *)
(* (TestSQLiteMigratesLegacyRetentionTableWithoutLosingResponses).          *)
MigrationKeepsAnswers == Log!Spec

(* Both processes come up for good: neither waits for ever for a database   *)
(* that a failed process left locked, or meets a layout it cannot start     *)
(* from (execStartupStatement, migrate).                                    *)
BothServe == \A p \in Processes : <>[](phase[p] = "up")

(* "A key reused with a different address set or precondition returns HTTP  *)
(* 409" (architecture.md), for which an accepted request must keep the      *)
(* precondition it was stored with.                                         *)
PreconditionsKept ==
    [][\A r \in db.requests.rows :
         r.precondition # Blank => r \in db'.requests.rows]_vars
============================================================================
