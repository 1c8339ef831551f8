--------------------------- MODULE StartupProofs ---------------------------
(***************************************************************************)
(* Proofs about the start-up (module Startup), for every set of keys,      *)
(* answers and preconditions and any number of failures: the controller    *)
(* serves from a table of the current layout, and a migration is invisible *)
(* to a reader of the answers.                                             *)
(*                                                                         *)
(* The inductive invariant says what the process that holds the write lock *)
(* has made of the committed database so far (Rebuilding), which of the    *)
(* processes that can be (LockHeld), and what the database is by the time  *)
(* a process has passed a statement (Prepared).                            *)
(***************************************************************************)
EXTENDS Startup, TLAPS

Migrating == {"recreate", "copy", "drop", "commit"}

(* Only the holder of the lock is past its first write. *)
LockHeld ==
    \A p \in Processes :
        /\ phase[p] \in Migrating => lock = p
        /\ lock = p => phase[p] \in Migrating \cup {"rename"}

(* A reader finds one row for a key and never the legacy table. *)
Committed ==
    /\ db.legacy = NoTable
    /\ db.requests.layout = "none" => db.requests.rows = {}
    /\ \A r, s \in db.requests.rows : r.key = s.key => r = s

Copies(p) == [layout |-> "current", rows |-> {Copied(p, r) : r \in db.requests.rows}]

(* What the transaction of the process that holds the lock has made of the  *)
(* committed database.                                                      *)
Rebuilding ==
    \A p \in Processes : lock = p =>
        /\ view[p].intents = db.intents
        /\ phase[p] = "rename" => view[p] = db
        /\ phase[p] \in {"recreate", "copy", "drop"} => view[p].legacy = db.requests
        /\ phase[p] = "commit" => view[p].legacy = NoTable
        /\ phase[p] = "recreate" => view[p].requests = NoTable
        /\ phase[p] = "copy" => view[p].requests = [layout |-> "current", rows |-> {}]
        /\ phase[p] \in {"drop", "commit"} => view[p].requests = Copies(p)

(* What a process that has passed a statement can count on. *)
Prepared ==
    \A p \in Processes :
        /\ phase[p] \notin {"down", "clock", "open"} => db.intents
        /\ phase[p] = "create" => db.requests.layout \in {"none", "current"}
        /\ phase[p] \in {"configure", "up"} => db.requests.layout = "current"

StartupInv == TypeOK /\ LockHeld /\ Committed /\ Rebuilding /\ Prepared

(* The invariant holds of any database a release may have left. *)
LEMMA InitInv == Init => StartupInv
  <1>. SUFFICES ASSUME Init PROVE StartupInv
    OBVIOUS
  <1>. USE StartupAssumption
  <1>1. NoDatabase \in Database /\ db \in Database
    BY DEF Init, NoDatabase, NoTable, Database, Table, Layouts
  <1>2. 0 \in 0 .. MaxTime /\ 0 \in 0 .. MaxExits /\ 0 \in 0 .. MaxWrites
    BY SMT
  <1>3. file \in [instant : 0 .. MaxTime, readable : BOOLEAN, writes : 0 .. MaxWrites]
    <2>1. file \in [instant : 0 .. MaxTime, readable : {TRUE}, writes : {0}]
      BY DEF Init
    <2>. QED
      BY <1>2, <2>1, Zenon
  <1>4. TypeOK
    BY <1>1, <1>2, <1>3 DEF Init, TypeOK, Processes, Free, Phases, Layouts
  <1>5. LockHeld /\ Rebuilding
    BY DEF Init, LockHeld, Rebuilding, Processes, Free, Migrating
  <1>6. Committed
    BY DEF Init, Committed
  <1>7. Prepared
    BY DEF Init, Prepared
  <1>. QED
    BY <1>4, <1>5, <1>6, <1>7 DEF StartupInv

(* systemd starts a process. *)
LEMMA StartInv ==
    ASSUME StartupInv, NEW p \in Processes, Start(p)
    PROVE  StartupInv'
  BY DEF StartupInv, TypeOK, LockHeld, Committed, Rebuilding, Prepared,
         Migrating, Processes, Free, Phases, Start, Goto,
         dbVars, clockVars, Copies, Copied

(* The first instant is the one in the file. *)
LEMMA OpenClockInv ==
    ASSUME StartupInv, NEW p \in Processes, OpenClock(p)
    PROVE  StartupInv'
  BY DEF StartupInv, TypeOK, LockHeld, Committed, Rebuilding, Prepared,
         Migrating, Processes, Free, Phases, OpenClock, Goto,
         dbVars, clockVars, Copies, Copied

(* The intents table is there from now on. *)
LEMMA OpenSQLiteInv ==
    ASSUME StartupInv, NEW p \in Processes, OpenSQLite(p)
    PROVE  StartupInv'
  BY DEF StartupInv, TypeOK, LockHeld, Committed, Rebuilding, Prepared,
         Migrating, Processes, Free, Phases, OpenSQLite, Goto,
         dbVars, clockVars, Copies, Copied, Database

(* A process that goes on without migrating has found the current layout. *)
LEMMA InspectInv ==
    ASSUME StartupInv, NEW p \in Processes, Inspect(p)
    PROVE  StartupInv'
  BY DEF StartupInv, TypeOK, LockHeld, Committed, Rebuilding, Prepared,
         Migrating, Processes, Free, Phases, Inspect,
         AfterInspection, Ready, Goto, dbVars, clockVars, Copies, Copied,
         Database, Table, Row, Layouts, NoTable

(* IF NOT EXISTS keeps a table that is there by now. *)
LEMMA CreateTableInv ==
    ASSUME StartupInv, NEW p \in Processes, CreateTable(p)
    PROVE  StartupInv'
  BY DEF StartupInv, TypeOK, LockHeld, Committed, Rebuilding, Prepared,
         Migrating, Processes, Free, Phases, CreateTable,
         Created, Ready, Goto, dbVars, clockVars, Copies, Copied, Database,
         Table, Row, Layouts, NoTable

(* A transaction starts from the committed database. *)
LEMMA BeginInv ==
    ASSUME StartupInv, NEW p \in Processes, BeginMigration(p)
    PROVE  StartupInv'
  BY DEF StartupInv, TypeOK, LockHeld, Committed, Rebuilding, Prepared,
         Migrating, Processes, Free, Phases, BeginMigration,
         Goto, dbVars, clockVars, Copies, Copied, Database, Table, Row,
         Layouts, NoTable

(* The first write: the database is still the one that was read. *)
LEMMA RenameInv ==
    ASSUME StartupInv, NEW p \in Processes, Rename(p)
    PROVE  StartupInv'
  BY DEF StartupInv, TypeOK, LockHeld, Committed, Rebuilding, Prepared,
         Migrating, Processes, Free, Phases, Rename, Renamed,
         Goto, dbVars, clockVars, Copies, Copied, Database, Table, Row,
         Layouts, NoTable

(* The new table is empty. *)
LEMMA RecreateInv ==
    ASSUME StartupInv, NEW p \in Processes, Recreate(p)
    PROVE  StartupInv'
  <1>1. phase[p] = "recreate" /\ lock = p /\ view[p].requests = NoTable
    BY DEF StartupInv, LockHeld, Rebuilding, Migrating, Recreate
  <1>2. Created(view[p].requests) = [layout |-> "current", rows |-> {}]
    BY <1>1 DEF Created, NoTable
  <1>3. view' = [view EXCEPT ![p].requests = [layout |-> "current", rows |-> {}]]
    BY <1>2 DEF Recreate
  <1>. QED
    BY <1>1, <1>3
       DEF StartupInv, TypeOK, LockHeld, Committed, Rebuilding, Prepared,
           Migrating, Processes, Free, Phases, Recreate, Goto, clockVars, Copies, Copied,
           Database, Table, Layouts

(* The new table has a copy of every row. *)
LEMMA CopyInv ==
    ASSUME StartupInv, NEW p \in Processes, Copy(p)
    PROVE  StartupInv'
  <1>1. phase[p] = "copy" /\ lock = p /\ view[p].legacy = db.requests
        /\ view[p].requests = [layout |-> "current", rows |-> {}]
    BY DEF StartupInv, LockHeld, Rebuilding, Migrating, Copy
  <1>2. Copies(p) \in Table
    <2>1. \A r \in Row : Copied(p, r) \in Row
      BY DEF Copied, Row
    <2>2. db.requests.rows \subseteq Row
      BY DEF StartupInv, TypeOK, Database, Table
    <2>3. {Copied(p, r) : r \in db.requests.rows} \subseteq Row
      BY <2>1, <2>2
    <2>. QED
      BY <2>3 DEF Copies, Table, Layouts
  <1>3. view[p] \in Database /\ view \in [Processes -> Database]
    BY DEF StartupInv, TypeOK
  <1>4. view[p].requests.rows \cup {Copied(p, r) : r \in view[p].legacy.rows}
          = {Copied(p, r) : r \in db.requests.rows}
    <2>1. view[p].requests.rows = {} /\ view[p].legacy.rows = db.requests.rows
      BY <1>1
    <2>. QED
      BY <2>1
  <1>5. view' = [view EXCEPT ![p].requests = Copies(p)]
    <2>1. view' = [view EXCEPT ![p].requests.rows = {Copied(p, r) : r \in db.requests.rows}]
      BY <1>4 DEF Copy
    <2>. DEFINE copied == {Copied(p, r) : r \in db.requests.rows}
    <2>2. Copies(p) = [layout |-> "current", rows |-> copied]
      BY DEF Copies
    <2>. HIDE DEF copied
    <2>3. view' = [view EXCEPT ![p].requests.rows = copied]
      BY <2>1 DEF copied
    <2>4. [view[p].requests EXCEPT !.rows = copied] = Copies(p)
      BY <1>1, <2>2
    <2>. QED
      BY <2>3, <2>4
  <1>6. TypeOK'
    <2>1. [view[p] EXCEPT !.requests = Copies(p)] \in Database
      BY <1>2, <1>3 DEF Database
    <2>2. view' \in [Processes -> Database]
      BY <1>3, <1>5, <2>1
    <2>. QED
      BY <2>2 DEF StartupInv, TypeOK, Copy, Goto, clockVars, Phases
  <1>7. Copies(p)' = Copies(p)
    BY DEF Copy, Copies, Copied
  <1>8. Rebuilding'
    BY <1>1, <1>3, <1>5, <1>7
       DEF StartupInv, TypeOK, Rebuilding, Copy, Goto, Processes, Database, Phases
  <1>. QED
    BY <1>1, <1>6, <1>8
       DEF StartupInv, TypeOK, LockHeld, Committed, Prepared, Migrating,
           Processes, Phases, Copy, Goto, clockVars

(* The renamed table goes, the copy stays. *)
LEMMA DropLegacyInv ==
    ASSUME StartupInv, NEW p \in Processes, DropLegacy(p)
    PROVE  StartupInv'
  BY DEF StartupInv, TypeOK, LockHeld, Committed, Rebuilding, Prepared,
         Migrating, Processes, Free, Phases, DropLegacy, Goto,
         dbVars, clockVars, Copies, Copied, Database, Table, Row, Layouts,
         NoTable

(* What is committed has one row for a key, as the rows it was copied from. *)
LEMMA CommitInv ==
    ASSUME StartupInv, NEW p \in Processes, Commit(p)
    PROVE  StartupInv'
  BY DEF StartupInv, TypeOK, LockHeld, Committed, Rebuilding, Prepared,
         Migrating, Processes, Free, Phases, Commit, Ready,
         Goto, dbVars, clockVars, Copies, Copied, Database, Table, Row,
         Layouts, NoTable, NoDatabase

(* Nothing of a transaction that is rolled back remains. *)
LEMMA FallInv ==
    ASSUME StartupInv, NEW p \in Processes, Fall(p),
           exits' \in [Processes -> 0 .. MaxExits]
    PROVE  StartupInv'
  <1>1. NoDatabase \in Database
    BY DEF NoDatabase, NoTable, Database, Table, Layouts
  <1>2. TypeOK'
    BY <1>1 DEF StartupInv, TypeOK, Fall, Goto, clockVars, Phases, Free
  <1>3. LockHeld' /\ Rebuilding'
    BY DEF StartupInv, TypeOK, LockHeld, Rebuilding, Fall, Goto, Migrating, Processes, Free,
           Copies, Copied
  <1>. QED
    BY <1>2, <1>3
       DEF StartupInv, TypeOK, Committed, Prepared, Fall, Goto, clockVars

(* The controller has loaded its credentials. *)
LEMMA ConfigureInv ==
    ASSUME StartupInv, NEW p \in Processes, Configure(p)
    PROVE  StartupInv'
  BY DEF StartupInv, TypeOK, LockHeld, Committed, Rebuilding, Prepared,
         Migrating, Processes, Free, Phases, Configure, Goto,
         dbVars, clockVars, Copies, Copied

(* A request is accepted under a key that has no row. *)
LEMMA AcceptInv ==
    ASSUME StartupInv, NEW k \in Keys, NEW a \in Answers,
           NEW c \in Preconditions, Accept(k, a, c)
    PROVE  StartupInv'
  BY DEF StartupInv, TypeOK, LockHeld, Committed, Rebuilding, Prepared,
         Migrating, Processes, Free, Phases, Accept, Now,
         Copies, Copied, Database, Table, Row, Layouts, NoTable

(* A pass of the publisher reads the clock. *)
LEMMA PassInv ==
    ASSUME StartupInv, Pass
    PROVE  StartupInv'
  BY DEF StartupInv, TypeOK, LockHeld, Committed, Rebuilding, Prepared,
         Migrating, Processes, Free, Phases, Pass, Now,
         dbVars, Copies, Copied

(* The test writes its clock file, with any instant. *)
LEMMA ClockInv ==
    ASSUME StartupInv, TruncateClock \/ WriteClock
    PROVE  StartupInv'
  <1>1. UNCHANGED <<dbVars, phase, exits, last>>
    BY DEF TruncateClock, WriteClock
  <1>2. LockHeld' /\ Committed' /\ Prepared'
    BY <1>1 DEF StartupInv, LockHeld, Committed, Prepared, dbVars
  <1>3. Rebuilding'
    <2>1. \A p : Copies(p)' = Copies(p)
      BY <1>1 DEF Copies, Copied, dbVars
    <2>. QED
      BY <1>1, <2>1 DEF StartupInv, Rebuilding, dbVars
  <1>4. file' \in [instant : 0 .. MaxTime, readable : BOOLEAN, writes : 0 .. MaxWrites]
    <2>1. file \in [instant : 0 .. MaxTime, readable : BOOLEAN, writes : 0 .. MaxWrites]
      BY DEF StartupInv, TypeOK
    <2>2. CASE TruncateClock
      <3>1. file.writes + 1 \in 0 .. MaxWrites
        BY <2>1, <2>2, StartupAssumption DEF TruncateClock
      <3>. QED
        BY <2>1, <2>2, <3>1 DEF TruncateClock
    <2>3. CASE WriteClock
      BY <2>1, <2>3 DEF WriteClock
    <2>. QED
      BY <2>2, <2>3
  <1>5. TypeOK'
    BY <1>1, <1>4 DEF StartupInv, TypeOK, dbVars
  <1>. QED
    BY <1>2, <1>3, <1>5 DEF StartupInv

(* Every step keeps the invariant, whichever process makes it. *)
LEMMA StepInv == StartupInv /\ [Next]_vars => StartupInv'
  <1>. SUFFICES ASSUME StartupInv, [Next]_vars PROVE StartupInv'
    OBVIOUS
  <1>1. ASSUME NEW p \in Processes, Step(p) PROVE StartupInv'
    <2>1. CASE Outdated(p) \/ RefuseClock(p)
      <3>1. Fall(p) /\ exits' \in [Processes -> 0 .. MaxExits]
        BY <2>1 DEF Outdated, RefuseClock, StartupInv, TypeOK
      <3>. QED
        BY <3>1, FallInv
    <2>. QED
      BY <1>1, <2>1, StartInv, OpenClockInv, OpenSQLiteInv, InspectInv, CreateTableInv,
         BeginInv, RenameInv, RecreateInv, CopyInv, DropLegacyInv, CommitInv, ConfigureInv
         DEF Step
  <1>2. ASSUME NEW p \in Processes, Exit(p) PROVE StartupInv'
    <2>1. Fall(p) /\ exits' \in [Processes -> 0 .. MaxExits]
      BY <1>2, StartupAssumption DEF Exit, StartupInv, TypeOK
    <2>. QED
      BY <2>1, FallInv
  <1>3. CASE UNCHANGED vars
    <2>1. TypeOK' /\ LockHeld' /\ Committed' /\ Prepared'
      BY <1>3 DEF vars, StartupInv, TypeOK, LockHeld, Committed, Prepared
    <2>2. \A p : Copies(p)' = Copies(p)
      BY <1>3 DEF vars, Copies, Copied
    <2>3. Rebuilding'
      BY <1>3, <2>2 DEF vars, StartupInv, Rebuilding
    <2>. QED
      BY <2>1, <2>3 DEF StartupInv
  <1>. QED
    BY <1>1, <1>2, <1>3, AcceptInv, PassInv, ClockInv DEF Next

(* For any fleet, any table a release may have left and any number of       *)
(* failures, the state is well typed and a controller that serves finds     *)
(* the table it was written for (migrateIdempotencyTable).                  *)
THEOREM StartupSafe == Spec => [](TypeOK /\ ServedSchema)
  <1>1. StartupInv => TypeOK /\ ServedSchema
    BY DEF StartupInv, TypeOK, Committed, Prepared, ServedSchema, Processes
  <1>. QED
    BY <1>1, InitInv, StepInv, PTL DEF Spec

(* Both processes, the database, its lock and the clock file always have    *)
(* their types: a transaction in progress is a database of known layouts,   *)
(* and no service works with a time that is not an instant of the clock     *)
(* file (migrate, and Open and Now of the controlled clock).                *)
THEOREM StartupTyped == Spec => []TypeOK
  BY StartupSafe, PTL

----------------------------------------------------------------------------
(* Two sets of rows hold the same answers if they have the same rows.       *)
LEMMA SameAnswers ==
    ASSUME UNCHANGED db.requests.rows
    PROVE  UNCHANGED Answered
  BY DEF Answered

(* A copy keeps the key and the answer of a row, whatever it does to its    *)
(* precondition.                                                            *)
LEMMA CommitKeepsAnswers ==
    ASSUME StartupInv, NEW p \in Processes, Commit(p)
    PROVE  UNCHANGED Answered
  <1>1. lock = p /\ phase[p] = "commit"
    BY DEF StartupInv, LockHeld, Migrating, Commit
  <1>2. db'.requests.rows = {Copied(p, r) : r \in db.requests.rows}
    <2>1. db'.requests = Copies(p)
      BY <1>1 DEF StartupInv, Rebuilding, Commit
    <2>. QED
      BY <2>1 DEF Copies
  <1>3. \A r \in db.requests.rows : Copied(p, r).key = r.key /\ Copied(p, r).answer = r.answer
    BY DEF StartupInv, TypeOK, Database, Table, Row, Copied
  <1>4. Answered' = {[id |-> Copied(p, r).key, answer |-> Copied(p, r).answer] :
                       r \in db.requests.rows}
    BY <1>2 DEF Answered
  <1>. QED
    BY <1>3, <1>4 DEF Answered

(* An acceptance adds one answer, under a key that had none. *)
LEMMA AcceptAnswers ==
    ASSUME StartupInv, NEW k \in Keys, NEW a \in Answers, NEW c \in Preconditions,
           Accept(k, a, c)
    PROVE  Log!Next
  <1>. DEFINE e == [id |-> k, answer |-> a]
              row == [key |-> k, answer |-> a, precondition |-> c]
  <1>1. db'.requests.rows = db.requests.rows \cup {row}
    BY DEF Accept, StartupInv, TypeOK, Database, Table
  <1>2. Answered' = Answered \cup {e}
    <2>1. e = [id |-> row.key, answer |-> row.answer]
      OBVIOUS
    <2>. HIDE DEF row, e
    <2>. QED
      BY <1>1, <2>1 DEF Answered
  <1>3. \A f \in Answered : f.id # e.id
    BY DEF Answered, Accept
  <1>. QED
    BY <1>2, <1>3 DEF Log!Next, Log!Record

(* For a reader the idempotency table is an append-only log with one answer *)
(* per key (module AnswerLog), while two processes rebuild it, fail and     *)
(* start again in any order: the transaction of migrateIdempotencyTable     *)
(* hides all of its statements.                                             *)
THEOREM MigrationInvisible == Spec => MigrationKeepsAnswers
  <1>1. Init => Log!Init
    BY DEF Init, Log!Init, Log!OneAnswerEach, Answered
  <1>2. StartupInv /\ [Next]_vars => [Log!Next]_Answered
    <2>. SUFFICES ASSUME StartupInv, [Next]_vars PROVE Log!Next \/ UNCHANGED Answered
      OBVIOUS
    <2>1. ASSUME NEW p \in Processes, Step(p) \/ Exit(p) PROVE UNCHANGED Answered
      <3>1. CASE CreateTable(p)
        <4>1. UNCHANGED db.requests.rows
          BY <3>1 DEF CreateTable, Created, StartupInv, TypeOK, Database, Table
        <4>. QED
          BY <4>1, SameAnswers
      <3>2. CASE OpenSQLite(p)
        <4>1. UNCHANGED db.requests.rows
          BY <3>2 DEF OpenSQLite, StartupInv, TypeOK, Database
        <4>. QED
          BY <4>1, SameAnswers
      <3>3. CASE Commit(p)
        BY <3>3, CommitKeepsAnswers
      <3>4. CASE UNCHANGED db
        BY <3>4, SameAnswers
      <3>. QED
        BY <2>1, <3>1, <3>2, <3>3, <3>4
           DEF Step, Start, OpenClock, RefuseClock, Inspect, BeginMigration, Rename,
               Recreate, Copy, DropLegacy, Outdated, Exit, Fall, Configure, dbVars
    <2>2. CASE UNCHANGED db
      BY <2>2, SameAnswers
    <2>. QED
      BY <2>1, <2>2, AcceptAnswers DEF Next, Pass, TruncateClock, WriteClock, vars, dbVars
  <1>. QED
    BY <1>1, <1>2, InitInv, StepInv, PTL DEF Spec, MigrationKeepsAnswers, Log!Spec

============================================================================
