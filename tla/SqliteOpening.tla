---------------------------- MODULE SqliteOpening ----------------------------
(***************************************************************************)
(* How the SQLite adapter opens its database: resolveDriver() and          *)
(* ensureReady() of sqlite-upload-storage.ts and applyMigrations() of      *)
(* migrations.ts, in several processes on one database file.               *)
(*                                                                         *)
(* driverPromise and schemaPromise are kept between calls.  An action is   *)
(* what runs between two awaits; a statement is atomic, and no transaction *)
(* spans two.  The driver is the caller's: openDriver is given.            *)
(***************************************************************************)
EXTENDS Integers, Sequences, Functions

CONSTANTS
    Instances,   \* processes
    Slots,       \* bound: applyMigrations() in progress at once in a process
    Migrations,  \* MIGRATIONS: entry v is a sequence of statements
    Rerunnable,  \* the statements that may run twice: CREATE ... IF NOT EXISTS
    NULL

ASSUME OpeningAssumption ==
    /\ Migrations \in Seq(Seq(STRING))
    /\ Rerunnable \subseteq STRING
    /\ Slots \subseteq Nat \ {0} /\ NULL \notin Nat

(* What a promise kept in a variable is when no slot is to settle it.      *)
None == 0
Done == -1
Rejected == -2

VARIABLES
    db,         \* the file: recorded version, statements applied
    driver,     \* [Instances -> driverPromise]
    schema,     \* [Instances -> schemaPromise: none, done, or who settles it]
    migrators   \* [Instances -> [Slots -> call of applyMigrations()]]

opening == <<db, driver, schema, migrators>>

(* entry and step: the statement it is about to execute. *)
NoMigrator == [pc |-> "none", entry |-> 1, step |-> 1, closed |-> FALSE]

OpeningInit ==
    /\ db = [version |-> 0, applied |-> {}]
    /\ driver = [p \in Instances |-> "none"]
    /\ schema = [p \in Instances |-> None]
    /\ migrators = [p \in Instances |-> [m \in Slots |-> NoMigrator]]

Statements(v) == Range(Migrations[v])
WholeSchema == UNION {Statements(v) : v \in DOMAIN Migrations}

(* Slots are taken in order. *)
FirstFree(s, slots) ==
    /\ slots[s].pc = "none"
    /\ \A t \in Slots : slots[t].pc = "none" => s <= t

-----------------------------------------------------------------------------
(* resolveDriver()                                                         *)

ResolveDriver(p) == driver' = [driver EXCEPT ![p] = IF @ = "none" THEN "pending" ELSE @]

DriverOpens(p) ==
    /\ driver[p] = "pending"
    /\ driver' = [driver EXCEPT ![p] = "open"]
    /\ UNCHANGED <<db, schema, migrators>>

(* The rejected promise is kept. *)
DriverRejects(p) ==
    /\ driver[p] = "pending"
    /\ driver' = [driver EXCEPT ![p] = "rejected"]
    /\ UNCHANGED <<db, schema, migrators>>

-----------------------------------------------------------------------------
(* applyMigrations()                                                       *)

Run(statement) == [version |-> NULL, statement |-> statement]
Record(v) == [version |-> v, statement |-> NULL]

(* Mutation: the version is recorded before its statements have run. *)
StepRecordsFirst(v, k) == IF k = 1 THEN Record(v) ELSE Run(Migrations[v][k - 1])

(* Mutation: the version recorded is the one to come. *)
StepRecordsNext(v, k) ==
    IF k <= Len(Migrations[v]) THEN Run(Migrations[v][k]) ELSE Record(v + 1)

(* An entry's statements in order, and then its version is recorded.       *)
StepAt(v, k) == IF k <= Len(Migrations[v]) THEN Run(Migrations[v][k]) ELSE Record(v)

(* The entries above the version that was read, in order; past the last    *)
(* of them nothing is left to do.                                          *)
StartsAfter(migrator, current) ==
    [migrator EXCEPT !.pc = "apply", !.entry = current + 1, !.step = 1]

GoesOn(migrator) ==
    IF migrator.step <= Len(Migrations[migrator.entry])
       THEN [migrator EXCEPT !.step = @ + 1]
       ELSE [migrator EXCEPT !.entry = @ + 1, !.step = 1]

HasStep(migrator) == migrator.pc = "apply" /\ migrator.entry <= Len(Migrations)

(* schemaPromise ??= applyMigrations(driver); who waits for it, waits for  *)
(* the value schema has then.                                              *)
EnsureSchema(p, closed) ==
    IF schema[p] # None
       THEN UNCHANGED <<schema, migrators>>
       ELSE \E m \in Slots :
                /\ FirstFree(m, migrators[p])
                /\ migrators' = [migrators EXCEPT ![p][m] =
                                    [NoMigrator EXCEPT !.pc = "read", !.closed = closed]]
                /\ schema' = [schema EXCEPT ![p] = m]

(* CREATE_META_TABLE and READ_SCHEMA_VERSION_SQL. *)
ReadVersion(p, m) ==
    /\ migrators[p][m].pc = "read" /\ ~migrators[p][m].closed
    /\ migrators' = [migrators EXCEPT ![p][m] = StartsAfter(@, db.version)]
    /\ UNCHANGED <<db, driver, schema>>

(* A statement that may not run twice fails if it has run. *)
CanRun(step) ==
    step.statement # NULL => step.statement \in Rerunnable \/ step.statement \notin db.applied

Apply(p, m) ==
    /\ HasStep(migrators[p][m]) /\ ~migrators[p][m].closed
    /\ LET step == StepAt(migrators[p][m].entry, migrators[p][m].step)
       IN  /\ CanRun(step)
           /\ db' = IF step.version # NULL THEN [db EXCEPT !.version = step.version]
                                           ELSE [db EXCEPT !.applied = @ \cup {step.statement}]
    /\ migrators' = [migrators EXCEPT ![p][m] = GoesOn(@)]
    /\ UNCHANGED <<driver, schema>>

(* Who waits for m is the caller's to tell. *)
MigratorEnds(p, m) ==
    /\ migrators[p][m].pc = "apply" /\ ~HasStep(migrators[p][m])
    /\ schema' = [schema EXCEPT ![p] = IF @ = m THEN Done ELSE @]
    /\ migrators' = [migrators EXCEPT ![p][m] = NoMigrator]
    /\ UNCHANGED <<db, driver>>

(* Without any fault: the handle is closed, or a statement cannot run. *)
MustFail(p, m) ==
    \/ migrators[p][m].pc # "none" /\ migrators[p][m].closed
    \/ HasStep(migrators[p][m]) /\ ~CanRun(StepAt(migrators[p][m].entry, migrators[p][m].step))

(* Mutation: the rejected promise is kept. *)
MigratorFailsForGood(p, m) ==
    /\ migrators[p][m].pc # "none"
    /\ schema' = [schema EXCEPT ![p] = Rejected]
    /\ migrators' = [migrators EXCEPT ![p][m] = NoMigrator]
    /\ UNCHANGED <<db, driver>>

(* The catch clause: whichever schemaPromise there is by now is forgotten. *)
MigratorFails(p, m) ==
    /\ migrators[p][m].pc # "none"
    /\ schema' = [schema EXCEPT ![p] = None]
    /\ migrators' = [migrators EXCEPT ![p][m] = NoMigrator]
    /\ UNCHANGED <<db, driver>>

-----------------------------------------------------------------------------
(* close(), and the end of a process.  The file stays as it is.            *)

Closing(migrator) == [migrator EXCEPT !.closed = (@ \/ migrator.pc # "none")]

Close(p) ==
    /\ driver' = [driver EXCEPT ![p] = "none"]
    /\ schema' = [schema EXCEPT ![p] = None]
    /\ migrators' = [migrators EXCEPT ![p] = [m \in Slots |-> Closing(@[m])]]
    /\ UNCHANGED db

OpeningDies(p) ==
    /\ driver' = [driver EXCEPT ![p] = "none"]
    /\ schema' = [schema EXCEPT ![p] = None]
    /\ migrators' = [migrators EXCEPT ![p] = [m \in Slots |-> NoMigrator]]
    /\ UNCHANGED db

-----------------------------------------------------------------------------
Migrator == [pc: {"none", "read", "apply"}, entry: Nat \ {0}, step: Nat \ {0}, closed: BOOLEAN]

OpeningType ==
    /\ db \in [version: 0 .. Len(Migrations), applied: SUBSET WholeSchema]
    /\ driver \in [Instances -> {"none", "pending", "open", "rejected"}]
    /\ schema \in [Instances -> {None, Done, Rejected} \cup Slots]
    /\ migrators \in [Instances -> [Slots -> Migrator]]

(* migrations.ts: the recorded version tells what the device is missing.   *)
(* Whatever two processes and crashes between statements did, the entries  *)
(* up to the recorded version have been applied, and a storage that calls  *)
(* itself ready has the whole schema.                                      *)
SchemaTruthful ==
    /\ \A v \in 1 .. db.version : Statements(v) \subseteq db.applied
    /\ \A p \in Instances : schema[p] = Done => WholeSchema \subseteq db.applied

(* What it rests on: a migrator at work has executed all that comes before *)
(* its place, whatever the others have recorded meanwhile.                 *)
Executed(entry, step, applied) ==
    /\ \A v \in 1 .. Len(Migrations) : v < entry => Statements(v) \subseteq applied
    /\ entry <= Len(Migrations) =>
          \A k \in 1 .. Len(Migrations[entry]) : k < step => Migrations[entry][k] \in applied

MigratorsTruthful ==
    \A p \in Instances, m \in Slots :
        migrators[p][m].pc = "apply" =>
            Executed(migrators[p][m].entry, migrators[p][m].step, db.applied)

OpeningInv == OpeningType /\ SchemaTruthful /\ MigratorsTruthful
==============================================================================
