---------------------------- MODULE QueueSetupProofs ----------------------------
(***************************************************************************)
(* Theorems of QueueSetup, for any number of processes, any migrations and *)
(* any bounds: the schema that several processes migrate, the connectivity *)
(* listener and what a failed initialize() leaves to the next.             *)
(***************************************************************************)
EXTENDS QueueSetup, TLAPS

-----------------------------------------------------------------------------
(* Migrations                                                              *)

(* The statements of an entry, and the whole schema.                       *)
LEMMA StatementsOf ==
    /\ Len(Migrations) \in Nat
    /\ \A v \in 1 .. Len(Migrations) :
          /\ Len(Migrations[v]) \in Nat
          /\ Statements(v) = {Migrations[v][k] : k \in 1 .. Len(Migrations[v])}
          /\ Statements(v) \subseteq WholeSchema
    /\ \A S : (\A v \in 1 .. Len(Migrations) : Statements(v) \subseteq S) => WholeSchema \subseteq S
<1>1. Migrations \in Seq(Seq(STRING))
  BY OpeningAssumption DEF OpeningAssumption
<1>2. Len(Migrations) \in Nat /\ DOMAIN Migrations = 1 .. Len(Migrations)
  BY <1>1
<1>3. ASSUME NEW v \in 1 .. Len(Migrations)
      PROVE  /\ Len(Migrations[v]) \in Nat
             /\ Statements(v) = {Migrations[v][k] : k \in 1 .. Len(Migrations[v])}
             /\ Statements(v) \subseteq WholeSchema
  <2>1. Migrations[v] \in Seq(STRING)
    BY <1>1, <1>3
  <2>2. Len(Migrations[v]) \in Nat /\ DOMAIN Migrations[v] = 1 .. Len(Migrations[v])
    BY <2>1
  <2> QED BY <1>2, <2>2 DEF Statements, WholeSchema, Range
<1> QED BY <1>2, <1>3 DEF WholeSchema

(* What has been executed stays executed.                                  *)
LEMMA ExecutedGrows ==
    ASSUME NEW entry, NEW step, NEW S, NEW T, S \subseteq T, Executed(entry, step, S)
    PROVE  Executed(entry, step, T)
BY DEF Executed

(* A step that drops nothing from the file keeps it truthful if the        *)
(* version, the promises and the migrators that it changes are.            *)
LEMMA TruthKept ==
    ASSUME OpeningInv, OpeningType', db.applied \subseteq db'.applied,
           \A v \in 1 .. db'.version : Statements(v) \subseteq db'.applied,
           \A p \in Instances : schema'[p] = Done => schema[p] = Done \/ WholeSchema \subseteq db.applied,
           \A p \in Instances, m \in Slots : migrators'[p][m].pc = "apply" =>
               \/ /\ migrators[p][m].pc = "apply"
                  /\ migrators'[p][m].entry = migrators[p][m].entry
                  /\ migrators'[p][m].step = migrators[p][m].step
               \/ Executed(migrators'[p][m].entry, migrators'[p][m].step, db'.applied)
    PROVE  OpeningInv'
<1>1. SchemaTruthful'
  BY DEF OpeningInv, SchemaTruthful
<1>2. MigratorsTruthful'
  BY ExecutedGrows DEF OpeningInv, MigratorsTruthful
<1> QED BY <1>1, <1>2 DEF OpeningInv

(* The promises of no process are the numbers of slots.                    *)
LEMMA SlotsApart == None \notin Slots /\ Done \notin Slots /\ Rejected \notin Slots
BY OpeningAssumption DEF OpeningAssumption, None, Done, Rejected

(* Parts of a migrator may be rewritten one after the other.               *)
LEMMA MigratorUpdates ==
    ASSUME NEW migrator \in Migrator
    PROVE  /\ \A pc \in {"none", "read", "apply"} : [migrator EXCEPT !.pc = pc] \in Migrator
           /\ \A n \in Nat \ {0} : [migrator EXCEPT !.entry = n] \in Migrator
           /\ \A n \in Nat \ {0} : [migrator EXCEPT !.step = n] \in Migrator
           /\ \A b \in BOOLEAN : [migrator EXCEPT !.closed = b] \in Migrator
BY DEF Migrator

(* A migrator finds its place in the list of migrations and goes on in it. *)
LEMMA MigratorPlaces ==
    ASSUME NEW migrator \in Migrator, NEW n \in Nat
    PROVE  /\ NoMigrator \in Migrator
           /\ StartsAfter(migrator, n) \in Migrator
           /\ StartsAfter(migrator, n).entry = n + 1 /\ StartsAfter(migrator, n).step = 1
           /\ GoesOn(migrator) \in Migrator
<1>0. 1 \in Nat \ {0} /\ \A k \in Nat : k + 1 \in Nat \ {0}
  OBVIOUS
<1>1. NoMigrator \in Migrator
  BY <1>0 DEF NoMigrator, Migrator
<1>2. \A r \in Migrator : [r EXCEPT !.entry = r.entry + 1] \in Migrator
                          /\ [r EXCEPT !.step = r.step + 1] \in Migrator
  BY <1>0, MigratorUpdates DEF Migrator
<1>3. StartsAfter(migrator, n) \in Migrator
  <2> DEFINE r == [migrator EXCEPT !.pc = "apply"]
             q == [r EXCEPT !.entry = n + 1]
  <2>1. r \in Migrator
    BY MigratorUpdates
  <2>2. q \in Migrator
    <3> HIDE DEF r
    <3> QED BY <1>0, <2>1, MigratorUpdates
  <2>3. [q EXCEPT !.step = 1] \in Migrator
    <3> HIDE DEF q
    <3> QED BY <1>0, <2>2, MigratorUpdates
  <2>4. StartsAfter(migrator, n) = [q EXCEPT !.step = 1]
    BY DEF StartsAfter, Migrator
  <2> QED BY <2>3, <2>4
<1>4. StartsAfter(migrator, n).entry = n + 1 /\ StartsAfter(migrator, n).step = 1
  BY DEF StartsAfter, Migrator
<1>5. GoesOn(migrator) \in Migrator
  <2> DEFINE q == [migrator EXCEPT !.entry = migrator.entry + 1]
  <2>1. q \in Migrator
    BY <1>2
  <2>2. [q EXCEPT !.step = 1] \in Migrator
    <3> HIDE DEF q
    <3> QED BY <1>0, <2>1, MigratorUpdates
  <2>3. [migrator EXCEPT !.entry = @ + 1, !.step = 1] = [q EXCEPT !.step = 1]
    BY DEF Migrator
  <2> QED BY <1>2, <2>2, <2>3 DEF GoesOn
<1> QED BY <1>1, <1>3, <1>4, <1>5

(* Where a migrator starts.                                                *)
LEMMA MigratorDefault == NoMigrator \in Migrator /\ NoMigrator.pc = "none"
<1>1. 1 \in Nat \ {0}
  OBVIOUS
<1> QED BY <1>1 DEF NoMigrator, Migrator

(* Closing the handle moves no migrator.                                   *)
LEMMA ClosingMigrator ==
    ASSUME NEW migrator \in Migrator
    PROVE  /\ Closing(migrator) \in Migrator
           /\ Closing(migrator).pc = migrator.pc
           /\ Closing(migrator).entry = migrator.entry
           /\ Closing(migrator).step = migrator.step
<1> DEFINE b == migrator.closed \/ migrator.pc # "none"
<1>1. b \in BOOLEAN
  OBVIOUS
<1>2. Closing(migrator) = [migrator EXCEPT !.closed = b]
  BY DEF Closing
<1> HIDE DEF b
<1> QED BY <1>1, <1>2 DEF Migrator

(* A process that asks for the schema, or reads the recorded version, has  *)
(* executed nothing yet of what is above it.                               *)
LEMMA AskInv ==
    ASSUME OpeningInv, NEW p \in Instances, NEW closed \in BOOLEAN, EnsureSchema(p, closed),
           UNCHANGED <<db, driver>>
    PROVE  OpeningInv'
<1>1. CASE UNCHANGED <<schema, migrators>>
  <2>1. OpeningType'
    BY <1>1 DEF OpeningInv, OpeningType
  <2> QED BY <1>1, <2>1, TruthKept DEF OpeningInv, SchemaTruthful
<1>2. ASSUME NEW m \in Slots,
             migrators' = [migrators EXCEPT ![p][m] =
                              [NoMigrator EXCEPT !.pc = "read", !.closed = closed]],
             schema' = [schema EXCEPT ![p] = m]
      PROVE  OpeningInv'
  <2>1. [NoMigrator EXCEPT !.pc = "read", !.closed = closed] \in Migrator
    <3>1. 1 \in Nat \ {0}
      OBVIOUS
    <3> QED BY <3>1 DEF NoMigrator, Migrator
  <2>2. OpeningType'
    BY <1>2, <2>1 DEF OpeningInv, OpeningType
  <2>3. \A q \in Instances, n \in Slots : migrators'[q][n] = migrators[q][n] \/ migrators'[q][n].pc = "read"
    BY <1>2 DEF OpeningInv, OpeningType, NoMigrator
  <2>4. \A q \in Instances : schema'[q] = Done => schema[q] = Done
    BY <1>2, SlotsApart DEF OpeningInv, OpeningType
  <2>5. UNCHANGED db
    OBVIOUS
  <2> QED BY <2>2, <2>3, <2>4, <2>5, TruthKept DEF OpeningInv, SchemaTruthful
<1> QED BY <1>1, <1>2 DEF EnsureSchema

(* The version that is read tells the entries that have been executed.     *)
LEMMA ReadInv ==
    ASSUME OpeningInv, NEW p \in Instances, NEW m \in Slots, ReadVersion(p, m)
    PROVE  OpeningInv'
<1> DEFINE new == StartsAfter(migrators[p][m], db.version)
<1>1. /\ migrators[p][m] \in Migrator /\ db.version \in 0 .. Len(Migrations) /\ Len(Migrations) \in Nat
      /\ migrators' = [migrators EXCEPT ![p][m] = new]
  BY StatementsOf DEF OpeningInv, OpeningType, ReadVersion
<1>2. new \in Migrator /\ new.entry = db.version + 1 /\ new.step = 1
  <2>1. db.version \in Nat
    BY <1>1
  <2> QED BY <1>1, <2>1, MigratorPlaces
<1>3. OpeningType'
  BY <1>1, <1>2 DEF ReadVersion, OpeningInv, OpeningType
<1>4. Executed(new.entry, new.step, db.applied)
  BY <1>1, <1>2, StatementsOf DEF Executed, OpeningInv, SchemaTruthful
<1>5. \A q \in Instances, n \in Slots :
         migrators'[q][n] = migrators[q][n] \/ migrators'[q][n] = new
  BY <1>1 DEF OpeningInv, OpeningType
<1>6. UNCHANGED <<db, schema>>
  BY DEF ReadVersion
<1> HIDE DEF new
<1> QED BY <1>3, <1>4, <1>5, <1>6, TruthKept DEF OpeningInv, SchemaTruthful

(* A statement of an entry, or the recording of its version once all its   *)
(* statements have run.                                                    *)
LEMMA ApplyInv ==
    ASSUME OpeningInv, NEW p \in Instances, NEW m \in Slots, Apply(p, m)
    PROVE  OpeningInv'
<1> DEFINE old == migrators[p][m]
           new == GoesOn(old)
           v == old.entry
<1>1. /\ old \in Migrator /\ v \in 1 .. Len(Migrations) /\ Len(Migrations) \in Nat
      /\ db \in [version: 0 .. Len(Migrations), applied: SUBSET WholeSchema]
      /\ migrators' = [migrators EXCEPT ![p][m] = new] /\ UNCHANGED <<driver, schema>>
      /\ Len(Migrations[v]) \in Nat
      /\ Executed(v, old.step, db.applied)
  BY StatementsOf DEF OpeningInv, OpeningType, MigratorsTruthful, Apply, HasStep, Migrator
<1>2. CASE old.step <= Len(Migrations[v])
  <2>1. new \in Migrator /\ new.entry = v /\ new.step = old.step + 1
    BY <1>1, <1>2 DEF GoesOn, Migrator
  <2>2. db' = [db EXCEPT !.applied = @ \cup {Migrations[v][old.step]}]
    BY <1>2 DEF Apply, StepAt, Run
  <2>3. Migrations[v][old.step] \in WholeSchema
    BY <1>1, <1>2, StatementsOf DEF Migrator
  <2>4. OpeningType'
    BY <1>1, <2>1, <2>2, <2>3 DEF OpeningInv, OpeningType
  <2>5. db'.applied = db.applied \cup {Migrations[v][old.step]} /\ db'.version = db.version
    BY <1>1, <2>2
  <2>6. Executed(new.entry, new.step, db'.applied)
    BY <1>1, <2>1, <2>5 DEF Executed, Migrator
  <2>7. \A q \in Instances, n \in Slots :
           migrators'[q][n] = migrators[q][n] \/ migrators'[q][n] = new
    BY <1>1 DEF OpeningInv, OpeningType
  <2> HIDE DEF new
  <2> QED BY <1>1, <2>4, <2>5, <2>6, <2>7, TruthKept DEF OpeningInv, SchemaTruthful
<1>3. CASE ~(old.step <= Len(Migrations[v]))
  <2>1. new \in Migrator /\ new.entry = v + 1 /\ new.step = 1
    <3>1. new \in Migrator
      BY <1>1, MigratorPlaces
    <3>2. new = [old EXCEPT !.entry = @ + 1, !.step = 1]
      BY <1>3 DEF GoesOn
    <3> QED BY <1>1, <3>1, <3>2 DEF Migrator
  <2>2. db' = [db EXCEPT !.version = v]
    BY <1>1, <1>3, OpeningAssumption DEF Apply, StepAt, Record, OpeningAssumption
  <2>3. db'.applied = db.applied /\ db'.version = v
    BY <1>1, <2>2
  <2>4. OpeningType'
    BY <1>1, <2>1, <2>2 DEF OpeningInv, OpeningType
  <2>5. \A w \in 1 .. v : Statements(w) \subseteq db.applied
    <3>1. Statements(v) \subseteq db.applied
      BY <1>1, <1>3, StatementsOf DEF Executed, Migrator
    <3> QED BY <1>1, <3>1 DEF Executed
  <2>6. Executed(new.entry, new.step, db'.applied)
    BY <1>1, <2>1, <2>3, <2>5, StatementsOf DEF Executed
  <2>7. \A q \in Instances, n \in Slots :
           migrators'[q][n] = migrators[q][n] \/ migrators'[q][n] = new
    BY <1>1 DEF OpeningInv, OpeningType
  <2> HIDE DEF new
  <2> QED BY <1>1, <2>3, <2>4, <2>5, <2>6, <2>7, TruthKept DEF OpeningInv, SchemaTruthful
<1> QED BY <1>2, <1>3

(* Who has come to the end has executed everything.                        *)
LEMMA EndInv ==
    ASSUME OpeningInv, NEW p \in Instances, NEW m \in Slots, MigratorEnds(p, m)
    PROVE  OpeningInv'
<1>1. NoMigrator \in Migrator /\ NoMigrator.pc = "none"
  BY DEF NoMigrator, Migrator
<1>2. OpeningType'
  BY <1>1 DEF MigratorEnds, OpeningInv, OpeningType
<1>3. WholeSchema \subseteq db.applied
  <2>1. /\ migrators[p][m].entry \in Nat /\ ~(migrators[p][m].entry <= Len(Migrations))
        /\ Executed(migrators[p][m].entry, migrators[p][m].step, db.applied)
    BY DEF MigratorEnds, HasStep, OpeningInv, OpeningType, MigratorsTruthful, Migrator
  <2>2. \A v \in 1 .. Len(Migrations) : Statements(v) \subseteq db.applied
    BY <2>1, StatementsOf DEF Executed
  <2> QED BY <2>2, StatementsOf
<1>4. \A q \in Instances, n \in Slots :
         migrators'[q][n] = migrators[q][n] \/ migrators'[q][n] = NoMigrator
  BY DEF MigratorEnds, OpeningInv, OpeningType
<1>5. UNCHANGED db
  BY DEF MigratorEnds
<1> QED BY <1>1, <1>2, <1>3, <1>4, <1>5, TruthKept DEF OpeningInv, SchemaTruthful

(* Failing, closing and dying forget promises and give up migrators.       *)
LEMMA ForgetInv ==
    ASSUME OpeningInv, NEW p \in Instances,
           \/ \E m \in Slots : MigratorFails(p, m)
           \/ Close(p)
           \/ OpeningDies(p)
    PROVE  OpeningInv'
<1>1. NoMigrator \in Migrator /\ NoMigrator.pc = "none"
  BY DEF NoMigrator, Migrator
<1>2. OpeningType'
  <2>1. CASE \E m \in Slots : MigratorFails(p, m)
    BY <1>1, <2>1 DEF MigratorFails, OpeningInv, OpeningType
  <2>2. CASE OpeningDies(p)
    BY <1>1, <2>2 DEF OpeningDies, OpeningInv, OpeningType
  <2>3. CASE Close(p)
    <3>1. \A m \in Slots : Closing(migrators[p][m]) \in Migrator
      BY ClosingMigrator DEF OpeningInv, OpeningType
    <3>2. /\ driver' \in [Instances -> {"none", "pending", "open", "rejected"}]
          /\ schema' \in [Instances -> {None, Done, Rejected} \cup Slots]
          /\ UNCHANGED db
      BY <2>3 DEF Close, OpeningInv, OpeningType
    <3>3. migrators' \in [Instances -> [Slots -> Migrator]]
      BY <2>3, <3>1 DEF Close, OpeningInv, OpeningType
    <3> QED BY <3>2, <3>3 DEF OpeningInv, OpeningType
  <2> QED BY <2>1, <2>2, <2>3
<1>3. UNCHANGED db /\ \A q \in Instances : schema'[q] \in {schema[q], None}
  BY DEF MigratorFails, Close, OpeningDies, OpeningInv, OpeningType
<1>4. ASSUME NEW q \in Instances, NEW n \in Slots
      PROVE  migrators'[q][n].pc = "apply" =>
                /\ migrators[q][n].pc = "apply"
                /\ migrators'[q][n].entry = migrators[q][n].entry
                /\ migrators'[q][n].step = migrators[q][n].step
  <2>1. migrators[q][n] \in Migrator
    BY DEF OpeningInv, OpeningType
  <2>2. \/ migrators'[q][n] = migrators[q][n] \/ migrators'[q][n] = NoMigrator
        \/ migrators'[q][n] = Closing(migrators[q][n])
    <3>1. CASE \E m \in Slots : MigratorFails(p, m)
      BY <3>1 DEF MigratorFails, OpeningInv, OpeningType
    <3>2. CASE OpeningDies(p)
      BY <3>2 DEF OpeningDies, OpeningInv, OpeningType
    <3>3. CASE Close(p)
      BY <3>3 DEF Close, OpeningInv, OpeningType
    <3> QED BY <3>1, <3>2, <3>3
  <2> QED BY <1>1, <2>1, <2>2, ClosingMigrator
<1> QED BY <1>2, <1>3, <1>4, TruthKept DEF None, Done, OpeningInv, SchemaTruthful

(* A driver that comes or does not come changes nothing else.              *)
LEMMA DriverInv ==
    ASSUME OpeningInv, UNCHANGED <<db, schema, migrators>>,
           driver' \in [Instances -> {"none", "pending", "open", "rejected"}]
    PROVE  OpeningInv'
<1>1. OpeningType'
  BY DEF OpeningInv, OpeningType
<1> QED BY <1>1, TruthKept DEF OpeningInv, SchemaTruthful

-----------------------------------------------------------------------------
(* Steps of QueueSetup                                                     *)

(* A step of one process.                                                  *)
ProcessStep(p) ==
    \/ OpenDriver(p) \/ OpenDriverRejects(p)
    \/ \E s \in Slots : RunStep(p, s) \/ OpeningStep(p, s)
    \/ Initialize(p) \/ StartBegin(p) \/ StartGoesOn(p)
    \/ DestroyBegin(p) \/ DestroyEnd(p) \/ Crash(p)

(* A run that begins asks for the driver.                                  *)
LEMMA BeginDriver ==
    ASSUME OpeningType, NEW p \in Instances, ResolveDriver(p) \/ UNCHANGED driver
    PROVE  driver' \in [Instances -> {"none", "pending", "open", "rejected"}]
BY DEF ResolveDriver, OpeningType

(* Every step keeps what the recorded version and the promises say true.   *)
LEMMA OpeningStepInv ==
    ASSUME SetupInv, [Next]_vars
    PROVE  OpeningInv'
<1>0. OpeningInv /\ OpeningType /\ runs \in [Instances -> [Slots -> InitializeRun]]
  BY DEF SetupInv, SetupType
<1>1. CASE UNCHANGED opening
  BY <1>0, <1>1, DriverInv DEF opening, OpeningType
<1>2. ASSUME NEW p \in Instances, OpenDriver(p) \/ OpenDriverRejects(p)
      PROVE  OpeningInv'
  <2>1. driver' \in [Instances -> {"none", "pending", "open", "rejected"}]
    BY <1>0, <1>2 DEF OpenDriver, OpenDriverRejects, DriverOpens, DriverRejects, OpeningType
  <2> QED BY <1>0, <1>2, <2>1, DriverInv DEF OpenDriver, OpenDriverRejects, DriverOpens, DriverRejects
<1>3. ASSUME NEW p \in Instances, Initialize(p) \/ StartBegin(p)
      PROVE  OpeningInv'
  <2>1. UNCHANGED <<db, schema, migrators>> /\ (ResolveDriver(p) \/ UNCHANGED driver)
    BY <1>3 DEF Initialize, StartBegin, Begin
  <2> QED BY <1>0, <2>1, BeginDriver, DriverInv
<1>4. ASSUME NEW p \in Instances, NEW r \in Slots, RunStep(p, r)
      PROVE  OpeningInv'
  <2>1. CASE AwaitDriver(p, r)
    <3>1. runs[p][r].closed \in BOOLEAN
      BY <1>0 DEF InitializeRun
    <3> QED BY <1>0, <2>1, <3>1, AskInv DEF AwaitDriver
  <2>2. CASE StorageReady(p, r)
    <3>1. UNCHANGED <<db, schema, migrators>> /\ (ResolveDriver(p) \/ UNCHANGED driver)
      BY <2>2 DEF StorageReady
    <3> QED BY <1>0, <3>1, BeginDriver, DriverInv
  <2>3. CASE Recover(p, r) \/ ReadNetwork(p, r) \/ Subscribe(p, r) \/ RunRejects(p, r) \/ RunFault(p, r)
    BY <1>1, <2>3 DEF Recover, ReadNetwork, Subscribe, RunRejects, RunFault
  <2> QED BY <1>4, <2>1, <2>2, <2>3 DEF RunStep
<1>5. ASSUME NEW p \in Instances, NEW m \in Slots, OpeningStep(p, m)
      PROVE  OpeningInv'
  BY <1>0, <1>5, ReadInv, ApplyInv, EndInv, ForgetInv
     DEF OpeningStep, Migrate, SchemaReady, SchemaFails
<1>6. ASSUME NEW p \in Instances, StartGoesOn(p) \/ DestroyBegin(p)
      PROVE  OpeningInv'
  BY <1>1, <1>6 DEF StartGoesOn, DestroyBegin
<1>7. ASSUME NEW p \in Instances, DestroyEnd(p) \/ Crash(p)
      PROVE  OpeningInv'
  BY <1>0, <1>1, <1>7, ForgetInv DEF DestroyEnd, CloseIfInitialized, Crash
<1>8. CASE ChangeNetwork \/ UNCHANGED vars
  BY <1>1, <1>8 DEF ChangeNetwork, vars
<1> QED BY <1>2, <1>3, <1>4, <1>5, <1>6, <1>7, <1>8 DEF Next

-----------------------------------------------------------------------------
(* Types                                                                   *)

(* Parts of a run may be rewritten one after the other.                    *)
LEMMA RunUpdates ==
    ASSUME NEW run \in InitializeRun
    PROVE  /\ NoRun \in InitializeRun
           /\ \A n \in Nat : [NoRun EXCEPT !.pc = "driver", !.since = n] \in InitializeRun
           /\ \A pc \in {"driver", "schema", "recover", "isOnline", "subscribe"} :
                 [run EXCEPT !.pc = pc] \in InitializeRun
           /\ \A x \in {None, Done, Rejected} \cup Slots : [run EXCEPT !.awaits = x] \in InitializeRun
           /\ \A b \in BOOLEAN : [run EXCEPT !.closed = b] \in InitializeRun
           /\ \A b \in BOOLEAN : [run EXCEPT !.online = b] \in InitializeRun
           /\ [run EXCEPT !.goal = "recover"] \in InitializeRun
<1>1. NoRun \in InitializeRun
  BY DEF NoRun, InitializeRun
<1>2. \A n \in Nat : [NoRun EXCEPT !.pc = "driver", !.since = n] \in InitializeRun
  BY DEF NoRun, InitializeRun
<1> QED BY <1>1, <1>2 DEF InitializeRun

(* Closing the handle moves no run.                                        *)
LEMMA LosingRun ==
    ASSUME NEW run \in InitializeRun
    PROVE  /\ LosesHandle(run) \in InitializeRun
           /\ LosesHandle(run).pc = run.pc
           /\ run.pc = "none" => LosesHandle(run) = run
<1> DEFINE b == run.closed \/ run.pc \in {"driver", "recover"}
<1>1. b \in BOOLEAN
  OBVIOUS
<1>2. LosesHandle(run) = [run EXCEPT !.closed = b]
  BY DEF LosesHandle
<1>3. run.pc = "none" => b = run.closed
  BY DEF InitializeRun
<1> HIDE DEF b
<1> QED BY <1>1, <1>2, <1>3 DEF InitializeRun

(* The part of the type that is not about the file and its opening.        *)
QueueType ==
    /\ net \in NetStates
    /\ initialization \in [Instances -> {None, Done} \cup Slots]
    /\ starting \in [Instances -> {None, Done} \cup Slots]
    /\ runs \in [Instances -> [Slots -> InitializeRun]]
    /\ listeners \in [Instances -> Nat]
    /\ wasOffline \in [Instances -> BOOLEAN] /\ unsubscribe \in [Instances -> BOOLEAN]
    /\ started \in [Instances -> BOOLEAN] /\ destroying \in [Instances -> BOOLEAN]
    /\ attended \in [Instances -> BOOLEAN]
    /\ faults \in [Instances -> Nat]
    /\ used \in [calls: Nat, changes: Nat, crashes: Nat]
    /\ \A p \in Instances : unsubscribe[p] => listeners[p] > 0

(* It is what SetupInv says besides OpeningInv.                            *)
LEMMA SetupParts == SetupInv <=> OpeningInv /\ QueueType
BY DEF SetupInv, SetupType, OpeningInv, QueueType

(* ResolveOnline is a Boolean, and so is what a listener is told.          *)
LEMMA ListenerType ==
    ASSUME NEW p \in Instances, NEW state, NEW isOnline \in BOOLEAN, NEW offline \in BOOLEAN
    PROVE  /\ ResolveOnline(state) \in BOOLEAN
           /\ Listener(p, isOnline, offline).triggers = (isOnline /\ offline /\ started[p])
           /\ Listener(p, isOnline, offline).wasOffline = ~isOnline
BY DEF ResolveOnline, Listener

(* Counting calls, changes and crashes.                                    *)
LEMMA UsedType ==
    ASSUME QueueType,
           \/ UNCHANGED used \/ Call
           \/ used' = [used EXCEPT !.changes = @ + 1] \/ used' = [used EXCEPT !.crashes = @ + 1]
    PROVE  used' \in [calls: Nat, changes: Nat, crashes: Nat]
BY DEF QueueType, Call

(* Runs that fail.                                                         *)
LEMMA RunsType ==
    ASSUME QueueType, NEW p \in Instances, NEW S \in SUBSET Slots, RunsFail(p, S)
    PROVE  /\ runs' \in [Instances -> [Slots -> InitializeRun]]
           /\ initialization' \in [Instances -> {None, Done} \cup Slots]
           /\ starting' \in [Instances -> {None, Done} \cup Slots]
<1>1. NoRun \in InitializeRun
  BY DEF NoRun, InitializeRun
<1> QED BY <1>1 DEF RunsFail, QueueType

(* A run that begins.                                                      *)
LEMMA BeginType ==
    ASSUME QueueType, NEW p \in Instances, Begin(p)
    PROVE  /\ runs' \in [Instances -> [Slots -> InitializeRun]]
           /\ initialization' \in [Instances -> {None, Done} \cup Slots]
<1>1. ASSUME NEW r \in Slots,
             runs' = [runs EXCEPT ![p][r] = [NoRun EXCEPT !.pc = "driver", !.since = faults[p]]],
             initialization' = [initialization EXCEPT ![p] = r]
      PROVE  /\ runs' \in [Instances -> [Slots -> InitializeRun]]
             /\ initialization' \in [Instances -> {None, Done} \cup Slots]
  <2>1. [NoRun EXCEPT !.pc = "driver", !.since = faults[p]] \in InitializeRun
    BY DEF NoRun, InitializeRun, QueueType
  <2> QED BY <1>1, <2>1 DEF QueueType
<1>2. CASE UNCHANGED <<runs, initialization>>
  BY <1>2 DEF QueueType
<1> QED BY <1>1, <1>2 DEF Begin

(* A step of a run.                                                        *)
LEMMA RunStepType ==
    ASSUME SetupInv, OpeningInv', NEW p \in Instances, NEW r \in Slots, RunStep(p, r)
    PROVE  QueueType'
<1>0. QueueType /\ OpeningType /\ OpeningType' /\ runs[p][r] \in InitializeRun
  BY SetupParts DEF OpeningInv, QueueType
<1>1. CASE AwaitDriver(p, r)
  <2>1. schema'[p] \in {None, Done, Rejected} \cup Slots
    BY <1>0 DEF OpeningType
  <2>2. [[runs[p][r] EXCEPT !.pc = "schema"] EXCEPT !.awaits = schema'[p]] \in InitializeRun
    <3>1. [runs[p][r] EXCEPT !.pc = "schema"] \in InitializeRun
      BY <1>0, RunUpdates
    <3> QED BY <2>1, <3>1, RunUpdates
  <2>3. runs' = [runs EXCEPT ![p][r] = [[@ EXCEPT !.pc = "schema"] EXCEPT !.awaits = schema'[p]]]
    BY <1>0, <1>1 DEF AwaitDriver, QueueType, InitializeRun
  <2>4. runs' \in [Instances -> [Slots -> InitializeRun]]
    BY <1>0, <2>2, <2>3, Zenon DEF QueueType
  <2> QED BY <1>0, <1>1, <2>4 DEF AwaitDriver, QueueType, network
<1>2. CASE StorageReady(p, r)
  <2>1. ASSUME runs' = [runs EXCEPT ![p][r] = [@ EXCEPT !.pc = "driver", !.goal = "recover",
                                                            !.closed = FALSE]]
        PROVE  runs' \in [Instances -> [Slots -> InitializeRun]]
    <3> DEFINE a == [runs[p][r] EXCEPT !.pc = "driver"]
               b == [a EXCEPT !.goal = "recover"]
    <3>1. a \in InitializeRun
      BY <1>0, RunUpdates
    <3>2. b \in InitializeRun
      <4> HIDE DEF a
      <4> QED BY <3>1, RunUpdates
    <3>3. [b EXCEPT !.closed = FALSE] \in InitializeRun
      <4> HIDE DEF b
      <4> QED BY <3>2, RunUpdates
    <3>4. [runs[p][r] EXCEPT !.pc = "driver", !.goal = "recover", !.closed = FALSE]
          = [b EXCEPT !.closed = FALSE]
      BY <1>0 DEF InitializeRun
    <3> HIDE DEF b
    <3> QED BY <1>0, <2>1, <3>3, <3>4 DEF QueueType
  <2>2. ASSUME runs' = [runs EXCEPT ![p][r].pc = "recover"]
        PROVE  runs' \in [Instances -> [Slots -> InitializeRun]]
    BY <1>0, <2>2, RunUpdates DEF QueueType
  <2>3. runs' \in [Instances -> [Slots -> InitializeRun]]
    BY <1>2, <2>1, <2>2 DEF StorageReady
  <2> QED BY <1>0, <1>2, <2>3 DEF StorageReady, QueueType, network
<1>3. CASE Recover(p, r)
  <2>1. runs' \in [Instances -> [Slots -> InitializeRun]]
    BY <1>0, <1>3, RunUpdates DEF Recover, QueueType
  <2> QED BY <1>0, <1>3, <2>1 DEF Recover, QueueType, network
<1>4. CASE ReadNetwork(p, r)
  <2>1. Online \in BOOLEAN
    BY ListenerType DEF Online
  <2>2. [[runs[p][r] EXCEPT !.pc = "subscribe"] EXCEPT !.online = Online] \in InitializeRun
    <3>1. [runs[p][r] EXCEPT !.pc = "subscribe"] \in InitializeRun
      BY <1>0, RunUpdates
    <3> QED BY <2>1, <3>1, RunUpdates
  <2>3. runs' = [runs EXCEPT ![p][r] = [[@ EXCEPT !.pc = "subscribe"] EXCEPT !.online = Online]]
    BY <1>0, <1>4 DEF ReadNetwork, QueueType, InitializeRun
  <2>4. runs' \in [Instances -> [Slots -> InitializeRun]]
    BY <1>0, <2>2, <2>3, Zenon DEF QueueType
  <2> QED BY <1>0, <1>4, <2>4 DEF ReadNetwork, QueueType, network
<1>5. CASE Subscribe(p, r)
  <2>1. NoRun \in InitializeRun /\ Online \in BOOLEAN /\ runs[p][r].online \in BOOLEAN
    BY <1>0, ListenerType DEF NoRun, InitializeRun, Online
  <2>2. runs' \in [Instances -> [Slots -> InitializeRun]]
    BY <1>0, <1>5, <2>1 DEF Subscribe, QueueType
  <2>3. /\ initialization' \in [Instances -> {None, Done} \cup Slots]
        /\ starting' \in [Instances -> {None, Done} \cup Slots]
        /\ UNCHANGED <<net, started, destroying, faults, used>>
    BY <1>0, <1>5 DEF Subscribe, QueueType
  <2>4. /\ listeners' \in [Instances -> Nat] /\ unsubscribe' \in [Instances -> BOOLEAN]
        /\ \A q \in Instances : unsubscribe'[q] => listeners'[q] > 0
    BY <1>0, <1>5 DEF Subscribe, QueueType
  <2>5. wasOffline' \in [Instances -> BOOLEAN]
    <3>1. PICK b \in BOOLEAN : wasOffline' = [wasOffline EXCEPT ![p] = b]
      <4> DEFINE b == IF Replays THEN Listener(p, Online, ~runs[p][r].online).wasOffline
                      ELSE ~runs[p][r].online
      <4>1. b \in BOOLEAN
        BY <2>1, ListenerType
      <4>2. wasOffline' = [wasOffline EXCEPT ![p] = b]
        BY <1>5 DEF Subscribe
      <4> QED BY <4>1, <4>2, Zenon
    <3> QED BY <1>0, <3>1 DEF QueueType
  <2>6. attended' \in [Instances -> BOOLEAN]
    <3>1. PICK b \in BOOLEAN : attended' = [attended EXCEPT ![p] = b]
      <4> DEFINE b == attended[p] \/ (Replays /\ Listener(p, Online, ~runs[p][r].online).triggers)
      <4>1. b \in BOOLEAN
        OBVIOUS
      <4>2. attended' = [attended EXCEPT ![p] = b]
        BY <1>5 DEF Subscribe
      <4> QED BY <4>1, <4>2, Zenon
    <3> QED BY <1>0, <3>1 DEF QueueType
  <2> QED BY <1>0, <2>2, <2>3, <2>4, <2>5, <2>6 DEF QueueType
<1>6. CASE RunRejects(p, r) \/ RunFault(p, r)
  <2>1. RunsFail(p, {r}) /\ {r} \in SUBSET Slots
    BY <1>6 DEF RunRejects, RunFault
  <2>2. faults' \in [Instances -> Nat]
    BY <1>0, <1>6 DEF RunRejects, RunFault, Meet, QueueType
  <2> QED BY <1>0, <1>6, <2>1, <2>2, RunsType DEF RunRejects, RunFault, QueueType, network
<1> QED BY <1>1, <1>2, <1>3, <1>4, <1>5, <1>6 DEF RunStep

(* A step of the driver or of a migrator.                                  *)
LEMMA OpeningStepType ==
    ASSUME SetupInv, NEW p \in Instances,
           OpenDriver(p) \/ OpenDriverRejects(p) \/ \E m \in Slots : OpeningStep(p, m)
    PROVE  QueueType'
<1>0. QueueType
  BY SetupParts
<1>1. CASE OpenDriver(p)
  BY <1>0, <1>1 DEF OpenDriver, QueueType, lives, network
<1>2. CASE OpenDriverRejects(p)
  BY <1>0, <1>2 DEF OpenDriverRejects, Meet, QueueType, lives, network
<1>3. ASSUME NEW m \in Slots, Migrate(p, m)
      PROVE  QueueType'
  BY <1>0, <1>3 DEF Migrate, QueueType, lives, network
<1>4. ASSUME NEW m \in Slots, SchemaReady(p, m)
      PROVE  QueueType'
  <2>1. ASSUME NEW r \in Slots
        PROVE  [runs[p][r] EXCEPT !.awaits = Done] \in InitializeRun
    <3>1. runs[p][r] \in InitializeRun
      BY <1>0 DEF QueueType
    <3> QED BY <3>1, RunUpdates
  <2>2. runs' \in [Instances -> [Slots -> InitializeRun]]
    BY <1>0, <1>4, <2>1 DEF SchemaReady, QueueType
  <2> QED BY <1>0, <1>4, <2>2 DEF SchemaReady, QueueType, network
<1>5. ASSUME NEW m \in Slots, SchemaFails(p, m)
      PROVE  QueueType'
  <2>1. RunsFail(p, Waiting(p, m)) /\ Waiting(p, m) \in SUBSET Slots
    BY <1>5 DEF SchemaFails, Waiting
  <2>2. faults' \in [Instances -> Nat]
    BY <1>0, <1>5 DEF SchemaFails, Meet, QueueType
  <2> QED BY <1>0, <1>5, <2>1, <2>2, RunsType DEF SchemaFails, QueueType, network
<1> QED BY <1>1, <1>2, <1>3, <1>4, <1>5 DEF OpeningStep

(* A call of the application, or the end of a process.                     *)
LEMMA CallType ==
    ASSUME SetupInv, NEW p \in Instances,
           \/ Initialize(p) \/ StartBegin(p) \/ StartGoesOn(p)
           \/ DestroyBegin(p) \/ DestroyEnd(p) \/ Crash(p)
    PROVE  QueueType'
<1>0. QueueType
  BY SetupParts
<1>1. CASE Initialize(p)
  BY <1>0, <1>1, BeginType, UsedType DEF Initialize, QueueType, network
<1>2. CASE StartBegin(p)
  <2>1. /\ runs' \in [Instances -> [Slots -> InitializeRun]]
        /\ initialization' \in [Instances -> {None, Done} \cup Slots]
    BY <1>0, <1>2, BeginType DEF StartBegin
  <2>2. starting' \in [Instances -> {None, Done} \cup Slots]
    BY <1>0, <1>2, <2>1 DEF StartBegin, QueueType
  <2> QED BY <1>0, <1>2, <2>1, <2>2, UsedType DEF StartBegin, QueueType, network
<1>3. CASE StartGoesOn(p)
  <2>1. Online \in BOOLEAN
    BY ListenerType DEF Online
  <2>2. attended' \in [Instances -> BOOLEAN] /\ started' \in [Instances -> BOOLEAN]
    BY <1>0, <1>3, <2>1 DEF StartGoesOn, QueueType
  <2> QED BY <1>0, <1>3, <2>2 DEF StartGoesOn, QueueType
<1>4. CASE DestroyBegin(p)
  BY <1>0, <1>4, UsedType DEF DestroyBegin, QueueType
<1>5. CASE DestroyEnd(p)
  <2>1. runs' \in [Instances -> [Slots -> InitializeRun]]
    <3>1. \A r \in Slots : LosesHandle(runs[p][r]) \in InitializeRun
      BY <1>0, LosingRun DEF QueueType
    <3> QED BY <1>0, <1>5, <3>1 DEF DestroyEnd, CloseIfInitialized, QueueType
  <2>2. /\ listeners' \in [Instances -> Nat] /\ unsubscribe' \in [Instances -> BOOLEAN]
        /\ \A q \in Instances : unsubscribe'[q] => listeners'[q] > 0
    BY <1>0, <1>5 DEF DestroyEnd, QueueType
  <2> QED BY <1>0, <1>5, <2>1, <2>2 DEF DestroyEnd, QueueType
<1>6. CASE Crash(p)
  <2>1. runs' \in [Instances -> [Slots -> InitializeRun]]
    BY <1>0, <1>6, RunUpdates DEF Crash, QueueType, NoRun, InitializeRun
  <2> QED BY <1>0, <1>6, <2>1, UsedType DEF Crash, QueueType
<1> QED BY <1>1, <1>2, <1>3, <1>4, <1>5, <1>6

(* A change of the network.                                                *)
LEMMA NetworkType == ASSUME SetupInv, ChangeNetwork PROVE QueueType'
<1>0. QueueType
  BY SetupParts
<1>1. PICK state \in NetStates :
         LET online == ResolveOnline(state)
             heard(p) == Listener(p, online, wasOffline[p])
         IN  /\ net' = state
             /\ wasOffline' = [p \in Instances |->
                                 IF listeners[p] > 0 THEN heard(p).wasOffline ELSE wasOffline[p]]
             /\ attended' = [p \in Instances |->
                                 online /\ (attended[p] \/ (listeners[p] > 0 /\ heard(p).triggers))]
  BY DEF ChangeNetwork
<1>2. wasOffline' \in [Instances -> BOOLEAN]
  <2>1. ResolveOnline(state) \in BOOLEAN
    BY DEF ResolveOnline
  <2>2. \A p \in Instances :
           (IF listeners[p] > 0 THEN Listener(p, ResolveOnline(state), wasOffline[p]).wasOffline
                                ELSE wasOffline[p]) \in BOOLEAN
    BY <1>0, <2>1, ListenerType DEF QueueType
  <2> QED BY <1>1, <2>2
<1>3. attended' \in [Instances -> BOOLEAN]
  BY <1>1
<1>4. used' \in [calls: Nat, changes: Nat, crashes: Nat]
  BY <1>0, UsedType DEF ChangeNetwork
<1> QED BY <1>0, <1>1, <1>2, <1>3, <1>4 DEF ChangeNetwork, lives, QueueType

(* A step is one of the network or of a process.                           *)
LEMMA Steps == ASSUME [Next]_vars PROVE ChangeNetwork \/ UNCHANGED vars \/ \E p \in Instances : ProcessStep(p)
BY DEF Next, ProcessStep

(* SetupInv is inductive.                                                  *)
LEMMA NextSetup == SetupInv /\ [Next]_vars => SetupInv'
<1> SUFFICES ASSUME SetupInv, [Next]_vars PROVE SetupInv'
  OBVIOUS
<1>1. OpeningInv'
  BY OpeningStepInv
<1>2. QueueType'
  <2>1. CASE UNCHANGED vars
    BY <2>1, SetupParts DEF vars, lives, network, opening, QueueType
  <2> QED BY <1>1, <2>1, Steps, NetworkType, RunStepType, OpeningStepType, CallType DEF ProcessStep
<1>3. SetupInv' <=> OpeningInv' /\ QueueType'
  BY DEF SetupInv, SetupType, OpeningInv, QueueType
<1> QED BY <1>1, <1>2, <1>3

(* So is the start.                                                        *)
LEMMA InitSetup == Init => SetupInv
<1> SUFFICES ASSUME Init PROVE SetupInv
  OBVIOUS
<1>1. OpeningInv
  <2>1. NoMigrator \in Migrator /\ NoMigrator.pc = "none"
    BY MigratorDefault
  <2>2. OpeningType
    <3>1. db \in [version: 0 .. Len(Migrations), applied: SUBSET WholeSchema]
      BY StatementsOf DEF Init, OpeningInit
    <3> QED BY <2>1, <3>1 DEF Init, OpeningInit, OpeningType
  <2>3. SchemaTruthful /\ MigratorsTruthful
    BY <2>1 DEF Init, OpeningInit, SchemaTruthful, MigratorsTruthful, None, Done
  <2> QED BY <2>2, <2>3 DEF OpeningInv
<1>2. QueueType
  <2>1. NoRun \in InitializeRun
    BY DEF NoRun, InitializeRun
  <2> QED BY <2>1 DEF Init, QueueType
<1> QED BY <1>1, <1>2, SetupParts

(* Whatever the application calls, whichever process dies and whatever     *)
(* fails: the variables have their types, the file is truthful, and        *)
(* unsubscribeConnectivity stands for a listener.                          *)
THEOREM Invariant == Spec => []SetupInv
BY InitSetup, NextSetup, PTL DEF Spec

(* The variables of every process keep their types.                        *)
THEOREM TypeCorrect == Spec => []SetupType
BY Invariant, PTL DEF SetupInv

(* However many processes migrate one file at once, die between two        *)
(* statements and are started again: the entries up to the recorded        *)
(* version have been applied, and who calls its storage ready has the      *)
(* whole schema.                                                           *)
THEOREM RecordedVersionTruthful == Spec => []SchemaTruthful
<1>1. SetupInv => SchemaTruthful
  BY DEF SetupInv, OpeningInv
<1> QED BY <1>1, Invariant, PTL

-----------------------------------------------------------------------------
(* Where initialize() and destroy() do not overlap                         *)

(* Another process is not touched.                                         *)
Untouched(q) ==
    /\ initialization'[q] = initialization[q] /\ runs'[q] = runs[q]
    /\ starting'[q] = starting[q] /\ started'[q] = started[q]
    /\ destroying'[q] = destroying[q] /\ faults'[q] = faults[q]
    /\ listeners'[q] = listeners[q] /\ unsubscribe'[q] = unsubscribe[q]
    /\ wasOffline'[q] = wasOffline[q] /\ attended'[q] = attended[q]
    /\ schema'[q] = schema[q] /\ migrators'[q] = migrators[q]

(* A process changes nothing in another.                                   *)
LEMMA Elsewhere ==
    ASSUME SetupInv, NEW p \in Instances, NEW q \in Instances, q # p, ProcessStep(p)
    PROVE  Untouched(q) /\ UNCHANGED net
<1>0. QueueType /\ OpeningType
  BY SetupParts DEF OpeningInv
<1>1. CASE OpenDriver(p)
  BY <1>0, <1>1 DEF OpenDriver, DriverOpens, lives, network, Untouched
<1>2. CASE OpenDriverRejects(p)
  BY <1>0, <1>2 DEF OpenDriverRejects, DriverRejects, Meet, lives, network, QueueType, Untouched
<1>3. ASSUME NEW r \in Slots, AwaitDriver(p, r)
      PROVE  Untouched(q) /\ UNCHANGED net
  BY <1>0, <1>3 DEF AwaitDriver, EnsureSchema, network, QueueType, OpeningType, Untouched
<1>4. ASSUME NEW r \in Slots, StorageReady(p, r) \/ Recover(p, r) \/ ReadNetwork(p, r)
      PROVE  Untouched(q) /\ UNCHANGED net
  BY <1>0, <1>4 DEF StorageReady, Recover, ReadNetwork, opening, network, QueueType, Untouched
<1>5. ASSUME NEW r \in Slots, Subscribe(p, r)
      PROVE  Untouched(q) /\ UNCHANGED net
  BY <1>0, <1>5 DEF Subscribe, opening, QueueType, Untouched
<1>6. ASSUME NEW r \in Slots, RunRejects(p, r) \/ RunFault(p, r)
      PROVE  Untouched(q) /\ UNCHANGED net
  BY <1>0, <1>6 DEF RunRejects, RunFault, RunsFail, Meet, opening, network, QueueType, Untouched
<1>7. ASSUME NEW m \in Slots, Migrate(p, m)
      PROVE  Untouched(q) /\ UNCHANGED net
  BY <1>0, <1>7 DEF Migrate, ReadVersion, Apply, lives, network, OpeningType, Untouched
<1>8. ASSUME NEW m \in Slots, SchemaReady(p, m)
      PROVE  Untouched(q) /\ UNCHANGED net
  BY <1>0, <1>8 DEF SchemaReady, MigratorEnds, network, QueueType, OpeningType, Untouched
<1>9. ASSUME NEW m \in Slots, SchemaFails(p, m)
      PROVE  Untouched(q) /\ UNCHANGED net
  BY <1>0, <1>9 DEF SchemaFails, MigratorFails, RunsFail, Meet, network, QueueType, OpeningType, Untouched
<1>10. CASE Initialize(p) \/ StartBegin(p)
  BY <1>0, <1>10 DEF Initialize, StartBegin, Begin, network, QueueType, Untouched
<1>11. CASE StartGoesOn(p) \/ DestroyBegin(p)
  BY <1>0, <1>11 DEF StartGoesOn, DestroyBegin, opening, QueueType, Untouched
<1>12. CASE DestroyEnd(p)
  BY <1>0, <1>12 DEF DestroyEnd, CloseIfInitialized, Close, opening, QueueType, OpeningType, Untouched
<1>13. CASE Crash(p)
  BY <1>0, <1>13 DEF Crash, OpeningDies, QueueType, OpeningType, Untouched
<1> QED BY <1>1, <1>2, <1>3, <1>4, <1>5, <1>6, <1>7, <1>8, <1>9, <1>10, <1>11, <1>12, <1>13
        DEF ProcessStep, RunStep, OpeningStep

(* What holds of a process that runs one thing at a time.                  *)
Sequential(p) == OneRun(p) /\ ListenerInv(p) /\ LivesInv(p) /\ FreshInv(p)

(* While no run awaits a migration, none is at work.                       *)
LEMMA NoMigration ==
    ASSUME NEW p \in Instances, Sequential(p), NEW m \in Slots,
           \A r \in Slots : runs[p][r].pc = "schema" => runs[p][r].awaits # m
    PROVE  migrators[p][m].pc = "none"
BY DEF Sequential, FreshInv

(* The run that is under way is the only one.                              *)
LEMMA OnlyRun ==
    ASSUME NEW p \in Instances, Sequential(p), NEW r \in Slots, runs[p][r].pc # "none"
    PROVE  /\ initialization[p] = r /\ r # Done /\ r # None
           /\ \A s \in Slots : s # r => runs[p][s].pc = "none"
           /\ ~unsubscribe[p] /\ listeners[p] = 0 /\ ~started[p] /\ ~destroying[p]
           /\ starting[p] \in {None, r}
BY SlotsApart DEF Sequential, OneRun, ListenerInv, LivesInv

(* A call of initialize() or start().                                      *)
LEMMA BeginSequential ==
    ASSUME ~Overlap, SetupInv, NEW p \in Instances, Sequential(p), Initialize(p) \/ StartBegin(p)
    PROVE  Sequential(p)'
<1>0. /\ QueueType /\ ~destroying[p] /\ Begin(p) /\ UNCHANGED <<schema, migrators, destroying, network, faults>>
      /\ starting' = starting \/ (starting[p] = None /\ starting' = [starting EXCEPT ![p] = initialization'[p]])
  BY SetupParts DEF Initialize, StartBegin
<1>1. CASE initialization[p] # None
  <2>1. UNCHANGED <<runs, initialization>>
    BY <1>0, <1>1 DEF Begin
  <2>2. starting'[p] # None => initialization'[p] = starting'[p]
    BY <1>0, <2>1 DEF Sequential, LivesInv, QueueType
  <2> QED BY <1>0, <2>1, <2>2 DEF network, Sequential, OneRun, ListenerInv, LivesInv, FreshInv
<1>2. CASE initialization[p] = None
  <2>1. PICK r \in Slots :
           /\ runs' = [runs EXCEPT ![p][r] = [NoRun EXCEPT !.pc = "driver", !.since = faults[p]]]
           /\ initialization' = [initialization EXCEPT ![p] = r]
    BY <1>0, <1>2 DEF Begin
  <2>2. /\ initialization'[p] = r /\ r # None /\ r # Done /\ Done # None
        /\ starting[p] = None /\ ~started[p] /\ ~unsubscribe[p] /\ listeners[p] = 0
        /\ \A s \in Slots : runs[p][s].pc = "none"
    BY <1>0, <1>2, <2>1, SlotsApart
       DEF QueueType, Sequential, OneRun, ListenerInv, LivesInv, None, Done
  <2>3. \A m \in Slots : migrators[p][m].pc = "none"
    BY <2>2, NoMigration
  <2>4. /\ runs'[p][r] = [NoRun EXCEPT !.pc = "driver", !.since = faults[p]]
        /\ \A s \in Slots : s # r => runs'[p][s] = runs[p][s]
    BY <1>0, <2>1 DEF QueueType
  <2>5. /\ runs'[p][r].pc = "driver" /\ ~runs'[p][r].closed /\ runs'[p][r].awaits = None
        /\ runs'[p][r].since = faults[p]
    BY <2>4 DEF NoRun
  <2>6. OneRun(p)'
    BY <2>2, <2>4, <2>5 DEF OneRun
  <2>7. ListenerInv(p)'
    BY <1>0, <2>2 DEF ListenerInv, network
  <2>8. LivesInv(p)'
    <3>1. starting'[p] \in {None, r}
      BY <1>0, <2>2 DEF QueueType
    <3> QED BY <1>0, <2>2, <3>1 DEF LivesInv, network
  <2>9. FreshInv(p)'
    <3>1. faults[p] \in Nat /\ None # Rejected
      BY <1>0 DEF QueueType, None, Rejected
    <3>2. schema'[p] # Rejected /\ migrators'[p] = migrators[p]
      BY <1>0 DEF Sequential, FreshInv
    <3>3. ASSUME NEW s \in Slots
          PROVE  /\ ~runs'[p][s].closed /\ runs'[p][s].awaits # Rejected
                 /\ runs'[p][s].since <= faults'[p]
      <4>1. CASE s = r
        BY <1>0, <2>5, <3>1, <4>1
      <4>2. CASE s # r
        BY <1>0, <2>4, <4>2 DEF Sequential, FreshInv
      <4> QED BY <4>1, <4>2
    <3>4. \A m \in Slots : ~migrators[p][m].closed
      BY DEF Sequential, FreshInv
    <3> QED BY <2>3, <3>2, <3>3, <3>4 DEF FreshInv
  <2> QED BY <2>6, <2>7, <2>8, <2>9 DEF Sequential
<1> QED BY <1>1, <1>2

(* When the run under way fails and nobody migrates any more, the process  *)
(* is as before it began.                                                  *)
LEMMA RunsFailSequential ==
    ASSUME QueueType, NEW p \in Instances, Sequential(p), NEW r \in Slots, runs[p][r].pc # "none",
           RunsFail(p, {r}), UNCHANGED <<destroying, network>>,
           faults' = faults \/ faults' = [faults EXCEPT ![p] = @ + 1],
           schema'[p] # Rejected,
           \A m \in Slots : migrators'[p][m].pc = "none" /\ ~migrators'[p][m].closed
    PROVE  Sequential(p)'
<1>0. None # Done /\ None # Rejected
  BY DEF None, Done, Rejected
<1>1. /\ initialization[p] = r /\ r # Done /\ r # None
      /\ \A s \in Slots : s # r => runs[p][s].pc = "none"
      /\ ~unsubscribe[p] /\ listeners[p] = 0 /\ ~started[p] /\ ~destroying[p]
      /\ starting[p] \in {None, r}
  BY OnlyRun
<1>2. /\ runs'[p][r] = NoRun /\ \A s \in Slots : s # r => runs'[p][s] = runs[p][s]
      /\ initialization'[p] = None /\ starting'[p] = None
  BY <1>1 DEF RunsFail, QueueType
<1>3. NoRun.pc = "none" /\ ~NoRun.closed /\ NoRun.awaits = None /\ NoRun.since = 0
  BY DEF NoRun
<1>4. OneRun(p)' /\ ListenerInv(p)' /\ LivesInv(p)'
  BY <1>0, <1>1, <1>2, <1>3, SlotsApart DEF OneRun, ListenerInv, LivesInv, network
<1>5. faults[p] \in Nat /\ faults'[p] \in Nat /\ faults[p] <= faults'[p]
  BY DEF QueueType
<1>6. ASSUME NEW s \in Slots
      PROVE  ~runs'[p][s].closed /\ runs'[p][s].awaits # Rejected /\ runs'[p][s].since <= faults'[p]
  <2>1. CASE s = r
    BY <1>0, <1>2, <1>3, <1>5, <2>1
  <2>2. CASE s # r
    <3>1. ~runs[p][s].closed /\ runs[p][s].awaits # Rejected /\ runs[p][s].since <= faults[p]
      BY DEF Sequential, FreshInv
    <3>2. runs[p][s].since \in Nat
      BY DEF QueueType, InitializeRun
    <3> QED BY <1>2, <1>5, <2>2, <3>1, <3>2
  <2> QED BY <2>1, <2>2
<1>7. FreshInv(p)'
  BY <1>6 DEF FreshInv
<1> QED BY <1>4, <1>7 DEF Sequential

(* A step of a run of initialize().                                        *)
LEMMA RunSequential ==
    ASSUME ~Overlap, SetupInv, SetupInv', NEW p \in Instances, Sequential(p),
           NEW r \in Slots, RunStep(p, r)
    PROVE  Sequential(p)'
<1>0. /\ QueueType /\ OpeningType /\ QueueType'
      /\ runs[p] \in [Slots -> InitializeRun] /\ runs[p][r] \in InitializeRun
      /\ None # Done /\ None # Rejected /\ Done # Rejected
  BY SetupParts DEF OpeningInv, QueueType, None, Done, Rejected, SetupInv, SetupType
<1>1. /\ runs[p][r].pc # "none"
      /\ initialization[p] = r /\ r # Done /\ r # None
      /\ \A s \in Slots : s # r => runs[p][s].pc = "none"
      /\ ~unsubscribe[p] /\ listeners[p] = 0 /\ ~started[p] /\ ~destroying[p]
      /\ starting[p] \in {None, r}
  <2>1. runs[p][r].pc # "none"
    BY DEF RunStep, AwaitDriver, StorageReady, Recover, ReadNetwork, Subscribe, RunRejects,
           RejectedBefore, RunFault
  <2> QED BY <2>1, OnlyRun
<1>2. /\ ~runs[p][r].closed /\ runs[p][r].awaits # Rejected /\ runs[p][r].since <= faults[p]
      /\ schema[p] # Rejected /\ \A m \in Slots : ~migrators[p][m].closed
      /\ \A s \in Slots : ~runs[p][s].closed /\ runs[p][s].awaits # Rejected /\ runs[p][s].since <= faults[p]
  BY DEF Sequential, FreshInv
<1>3. ~(runs[p][r].pc = "schema" /\ runs[p][r].awaits \in Slots) =>
         \A m \in Slots : migrators[p][m].pc = "none"
  BY <1>1, NoMigration
(* A run that goes on in initialize().                                     *)
<1>4. ASSUME UNCHANGED <<initialization, starting, destroying, network, faults>>,
             NEW new, runs'[p][r] = new, \A s \in Slots : s # r => runs'[p][s] = runs[p][s],
             new.pc # "none", ~new.closed, new.awaits # Rejected, new.since = runs[p][r].since,
             schema'[p] # Rejected, \A m \in Slots : ~migrators'[p][m].closed,
             \A m \in Slots : migrators'[p][m].pc # "none" => new.pc = "schema" /\ new.awaits = m
      PROVE  Sequential(p)'
  <2>1. runs'[p][r] = new /\ \A s \in Slots : s # r => runs'[p][s] = runs[p][s]
    BY <1>4
  <2>2. OneRun(p)' /\ ListenerInv(p)' /\ LivesInv(p)'
    BY <1>1, <1>4, <2>1 DEF OneRun, ListenerInv, LivesInv, network
  <2>3. ASSUME NEW s \in Slots
        PROVE  ~runs'[p][s].closed /\ runs'[p][s].awaits # Rejected /\ runs'[p][s].since <= faults'[p]
    <3>1. CASE s = r
      BY <1>2, <1>4, <2>1, <3>1
    <3>2. CASE s # r
      BY <1>2, <1>4, <2>1, <3>2
    <3> QED BY <3>1, <3>2
  <2>4. FreshInv(p)'
    BY <1>4, <2>1, <2>3 DEF FreshInv
  <2> QED BY <2>2, <2>4 DEF Sequential
<1>5. CASE AwaitDriver(p, r)
  <2> DEFINE new == [[runs[p][r] EXCEPT !.pc = "schema"] EXCEPT !.awaits = schema'[p]]
  <2>1. /\ new.pc = "schema" /\ new.awaits = schema'[p] /\ new.since = runs[p][r].since
        /\ ~new.closed
    BY <1>0, <1>2 DEF InitializeRun
  <2>4. runs'[p][r] = new /\ \A s \in Slots : s # r => runs'[p][s] = runs[p][s]
    BY <1>0, <1>5 DEF AwaitDriver, QueueType, InitializeRun
  <2>2. \A m \in Slots : migrators[p][m].pc = "none"
    BY <1>3, <1>5 DEF AwaitDriver
  <2>3. /\ schema'[p] # Rejected
        /\ \A m \in Slots : ~migrators'[p][m].closed
        /\ \A m \in Slots : migrators'[p][m].pc # "none" => schema'[p] = m
    <3>1. CASE UNCHANGED <<schema, migrators>>
      BY <1>2, <2>2, <3>1
    <3>2. ASSUME NEW m \in Slots, schema' = [schema EXCEPT ![p] = m],
                 migrators' = [migrators EXCEPT ![p][m] =
                                  [NoMigrator EXCEPT !.pc = "read", !.closed = runs[p][r].closed]]
          PROVE  /\ schema'[p] # Rejected
                 /\ \A n \in Slots : ~migrators'[p][n].closed
                 /\ \A n \in Slots : migrators'[p][n].pc # "none" => schema'[p] = n
      <4>1. schema'[p] = m /\ m # Rejected
        BY <1>0, <3>2, SlotsApart DEF OpeningType
      <4>2. /\ migrators'[p][m] = [NoMigrator EXCEPT !.pc = "read", !.closed = runs[p][r].closed]
            /\ \A n \in Slots : n # m => migrators'[p][n] = migrators[p][n]
        BY <1>0, <3>2 DEF OpeningType
      <4>3. ~migrators'[p][m].closed
        BY <1>2, <4>2 DEF NoMigrator
      <4> QED BY <1>2, <2>2, <4>1, <4>2, <4>3
    <3> QED BY <1>5, <3>1, <3>2 DEF AwaitDriver, EnsureSchema
  <2> HIDE DEF new
  <2> QED BY <1>4, <1>5, <2>1, <2>3, <2>4 DEF AwaitDriver
<1>6. CASE StorageReady(p, r)
  <2>1. \A m \in Slots : migrators[p][m].pc = "none"
    BY <1>3, <1>6, SlotsApart DEF StorageReady
  <2>2. CASE runs[p][r].goal = "initialize"
    <3> DEFINE new == [runs[p][r] EXCEPT !.pc = "driver", !.goal = "recover", !.closed = FALSE]
    <3>1. new.pc = "driver" /\ new.awaits = runs[p][r].awaits /\ new.since = runs[p][r].since
          /\ ~new.closed
      BY <1>0 DEF InitializeRun
    <3>2. runs'[p][r] = new /\ \A s \in Slots : s # r => runs'[p][s] = runs[p][s]
      BY <1>0, <1>6, <2>2 DEF StorageReady, QueueType
    <3> HIDE DEF new
    <3> QED BY <1>2, <1>4, <1>6, <2>1, <3>1, <3>2 DEF StorageReady
  <2>3. CASE runs[p][r].goal # "initialize"
    <3> DEFINE new == [runs[p][r] EXCEPT !.pc = "recover"]
    <3>1. new.pc = "recover" /\ new.awaits = runs[p][r].awaits /\ new.since = runs[p][r].since
          /\ ~new.closed
      BY <1>0, <1>2 DEF InitializeRun
    <3>2. runs'[p][r] = new /\ \A s \in Slots : s # r => runs'[p][s] = runs[p][s]
      BY <1>0, <1>6, <2>3 DEF StorageReady, QueueType
    <3> HIDE DEF new
    <3> QED BY <1>2, <1>4, <1>6, <2>1, <3>1, <3>2 DEF StorageReady
  <2> QED BY <2>2, <2>3
<1>7. CASE Recover(p, r)
  <2> DEFINE new == [runs[p][r] EXCEPT !.pc = "isOnline"]
  <2>1. new.pc = "isOnline" /\ new.awaits = runs[p][r].awaits /\ new.since = runs[p][r].since
        /\ ~new.closed
    BY <1>0, <1>2 DEF InitializeRun
  <2>2. runs'[p][r] = new /\ \A s \in Slots : s # r => runs'[p][s] = runs[p][s]
    BY <1>0, <1>7 DEF Recover, QueueType
  <2>3. \A m \in Slots : migrators[p][m].pc = "none"
    BY <1>3, <1>7 DEF Recover
  <2> HIDE DEF new
  <2> QED BY <1>2, <1>4, <1>7, <2>1, <2>2, <2>3 DEF Recover, opening
<1>8. CASE ReadNetwork(p, r)
  <2> DEFINE new == [[runs[p][r] EXCEPT !.pc = "subscribe"] EXCEPT !.online = Online]
  <2>1. new.pc = "subscribe" /\ new.awaits = runs[p][r].awaits /\ new.since = runs[p][r].since
        /\ ~new.closed
    BY <1>0, <1>2 DEF InitializeRun
  <2>2. runs'[p][r] = new /\ \A s \in Slots : s # r => runs'[p][s] = runs[p][s]
    BY <1>0, <1>8 DEF ReadNetwork, QueueType, InitializeRun
  <2>3. \A m \in Slots : migrators[p][m].pc = "none"
    BY <1>3, <1>8 DEF ReadNetwork
  <2> HIDE DEF new
  <2> QED BY <1>2, <1>4, <1>8, <2>1, <2>2, <2>3 DEF ReadNetwork, opening
<1>9. CASE Subscribe(p, r)
  <2>1. \A m \in Slots : migrators[p][m].pc = "none"
    BY <1>3, <1>9 DEF Subscribe
  <2>2. /\ runs'[p][r] = NoRun /\ \A s \in Slots : s # r => runs'[p][s] = runs[p][s]
        /\ initialization'[p] = Done /\ starting'[p] \in {None, Done}
        /\ unsubscribe'[p] /\ listeners'[p] = 1
        /\ UNCHANGED <<schema, migrators, destroying, started, faults>>
    BY <1>0, <1>1, <1>9 DEF Subscribe, QueueType, opening
  <2>3. NoRun.pc = "none" /\ ~NoRun.closed /\ NoRun.awaits = None /\ NoRun.since = 0
    BY DEF NoRun
  <2>4. OneRun(p)' /\ ListenerInv(p)' /\ LivesInv(p)'
    BY <1>1, <2>2, <2>3, SlotsApart DEF OneRun, ListenerInv, LivesInv
  <2>5. FreshInv(p)'
    <3>1. ASSUME NEW s \in Slots
          PROVE  ~runs'[p][s].closed /\ runs'[p][s].awaits # Rejected /\ runs'[p][s].since <= faults'[p]
      <4>1. faults[p] \in Nat
        BY <1>0 DEF QueueType
      <4>2. CASE s = r
        BY <1>0, <2>2, <2>3, <4>1, <4>2
      <4>3. CASE s # r
        BY <1>2, <2>2, <4>3
      <4> QED BY <4>2, <4>3
    <3> QED BY <1>2, <2>1, <2>2, <3>1 DEF FreshInv
  <2> QED BY <2>4, <2>5 DEF Sequential
<1>10. CASE RunRejects(p, r) \/ RunFault(p, r)
  <2>1. /\ RunsFail(p, {r}) /\ UNCHANGED <<opening, destroying, network>>
        /\ faults' = faults \/ faults' = [faults EXCEPT ![p] = @ + 1]
    BY <1>10 DEF RunRejects, RunFault, Meet
  <2>2. \A m \in Slots : migrators[p][m].pc = "none"
    BY <1>2, <1>3, <1>10, SlotsApart DEF RunRejects, RejectedBefore, RunFault
  <2>3. schema'[p] # Rejected /\ \A m \in Slots : migrators'[p][m] = migrators[p][m]
    BY <1>2, <2>1 DEF opening
  <2> QED BY <1>0, <1>1, <1>2, <2>1, <2>2, <2>3, RunsFailSequential
<1> QED BY <1>5, <1>6, <1>7, <1>8, <1>9, <1>10 DEF RunStep

(* A step of the driver or of a migrator.                                  *)
LEMMA OpeningSequential ==
    ASSUME ~Overlap, SetupInv, NEW p \in Instances, Sequential(p),
           OpenDriver(p) \/ OpenDriverRejects(p) \/ \E m \in Slots : OpeningStep(p, m)
    PROVE  Sequential(p)'
<1>0. /\ QueueType /\ OpeningType
      /\ runs[p] \in [Slots -> InitializeRun]
      /\ \A m \in Slots : migrators[p][m] \in Migrator
      /\ None # Done /\ None # Rejected /\ Done # Rejected
  BY SetupParts DEF OpeningInv, OpeningType, QueueType, None, Done, Rejected
<1>1. CASE OpenDriver(p)
  BY <1>1 DEF OpenDriver, DriverOpens, lives, network, Sequential, OneRun, ListenerInv, LivesInv, FreshInv
<1>2. CASE OpenDriverRejects(p)
  <2>1. UNCHANGED <<lives, network, schema, migrators>> /\ faults' = [faults EXCEPT ![p] = @ + 1]
    BY <1>2 DEF OpenDriverRejects, DriverRejects, Meet
  <2>2. OneRun(p)' /\ ListenerInv(p)' /\ LivesInv(p)'
    BY <2>1 DEF lives, network, Sequential, OneRun, ListenerInv, LivesInv
  <2>3. ASSUME NEW r \in Slots
        PROVE  runs[p][r].since <= faults'[p]
    <3>1. runs[p][r].since \in Nat /\ faults[p] \in Nat /\ runs[p][r].since <= faults[p]
      BY <1>0 DEF QueueType, InitializeRun, Sequential, FreshInv
    <3> QED BY <1>0, <2>1, <3>1 DEF QueueType
  <2>4. FreshInv(p)'
    BY <2>1, <2>3 DEF lives, Sequential, FreshInv
  <2> QED BY <2>2, <2>4 DEF Sequential
<1>3. ASSUME NEW m \in Slots, Migrate(p, m)
      PROVE  Sequential(p)'
  <2>1. UNCHANGED <<lives, network, schema, faults>>
    BY <1>3 DEF Migrate, ReadVersion, Apply
  <2>2. /\ migrators[p][m].pc # "none"
        /\ \A n \in Slots : n # m => migrators'[p][n] = migrators[p][n]
        /\ migrators'[p][m].closed = migrators[p][m].closed
    <3>1. CASE ReadVersion(p, m)
      <4>1. migrators'[p][m] = StartsAfter(migrators[p][m], db.version)
        BY <1>0, <3>1 DEF ReadVersion, OpeningType
      <4> QED BY <1>0, <3>1, <4>1 DEF ReadVersion, OpeningType, StartsAfter, Migrator
    <3>2. CASE Apply(p, m)
      <4>1. migrators'[p][m] = GoesOn(migrators[p][m])
        BY <1>0, <3>2 DEF Apply, OpeningType
      <4>2. GoesOn(migrators[p][m]).closed = migrators[p][m].closed
        BY <1>0 DEF GoesOn, Migrator
      <4> QED BY <1>0, <3>2, <4>1, <4>2 DEF Apply, HasStep, OpeningType
    <3> QED BY <1>3, <3>1, <3>2 DEF Migrate
  <2>3. OneRun(p)' /\ ListenerInv(p)' /\ LivesInv(p)'
    BY <2>1 DEF lives, network, Sequential, OneRun, ListenerInv, LivesInv
  <2>4. FreshInv(p)'
    BY <2>1, <2>2 DEF lives, Sequential, FreshInv
  <2> QED BY <2>3, <2>4 DEF Sequential
<1>4. ASSUME NEW m \in Slots, SchemaReady(p, m)
      PROVE  Sequential(p)'
  <2>1. /\ UNCHANGED <<initialization, starting, destroying, network, faults>>
        /\ schema'[p] # Rejected
    BY <1>0, <1>4 DEF SchemaReady, MigratorEnds, Sequential, FreshInv, OpeningType
  <2>2. \A r \in Slots : runs'[p][r] = IF r \in Waiting(p, m) THEN [runs[p][r] EXCEPT !.awaits = Done]
                                                              ELSE runs[p][r]
    BY <1>0, <1>4 DEF SchemaReady, QueueType
  <2>3. \A r \in Slots : runs'[p][r].pc = runs[p][r].pc /\ runs'[p][r].since = runs[p][r].since
                         /\ runs'[p][r].awaits \in {runs[p][r].awaits, Done}
    BY <1>0, <2>2 DEF InitializeRun
  <2>4. ASSUME NEW r \in Slots
        PROVE  ~runs'[p][r].closed
    <3>1. runs[p][r] \in InitializeRun /\ ~runs[p][r].closed
      BY <1>0 DEF Sequential, FreshInv
    <3>2. ~[runs[p][r] EXCEPT !.awaits = Done].closed
      BY <3>1 DEF InitializeRun
    <3> QED BY <2>2, <3>1, <3>2
  <2>5. \A r \in Slots : runs[p][r].awaits # m => runs'[p][r] = runs[p][r]
    BY <2>2 DEF Waiting
  <2>6. migrators'[p][m] = NoMigrator /\ \A n \in Slots : n # m => migrators'[p][n] = migrators[p][n]
    BY <1>0, <1>4 DEF SchemaReady, MigratorEnds, OpeningType
  <2>7. NoMigrator.pc = "none" /\ ~NoMigrator.closed
    BY DEF NoMigrator
  <2>8. OneRun(p)' /\ ListenerInv(p)' /\ LivesInv(p)'
    BY <2>1, <2>3 DEF network, Sequential, OneRun, ListenerInv, LivesInv
  <2>9. FreshInv(p)'
    <3>1. ASSUME NEW r \in Slots
          PROVE  ~runs'[p][r].closed /\ runs'[p][r].awaits # Rejected /\ runs'[p][r].since <= faults'[p]
      BY <1>0, <2>1, <2>3, <2>4 DEF Sequential, FreshInv
    <3>2. ASSUME NEW n \in Slots
          PROVE  /\ ~migrators'[p][n].closed
                 /\ migrators'[p][n].pc # "none" =>
                       \E r \in Slots : runs'[p][r].pc = "schema" /\ runs'[p][r].awaits = n
      <4>1. CASE n = m
        BY <2>6, <2>7, <4>1
      <4>2. CASE n # m
        BY <2>5, <2>6, <4>2 DEF Sequential, FreshInv
      <4> QED BY <4>1, <4>2
    <3> QED BY <2>1, <3>1, <3>2 DEF FreshInv
  <2> QED BY <2>8, <2>9 DEF Sequential
<1>5. ASSUME NEW m \in Slots, SchemaFails(p, m)
      PROVE  Sequential(p)'
  <2>1. migrators[p][m].pc # "none" /\ RunsFail(p, Waiting(p, m))
    BY <1>5 DEF SchemaFails, MigratorFails
  <2>2. PICK r \in Slots : runs[p][r].pc = "schema" /\ runs[p][r].awaits = m
    BY <2>1 DEF Sequential, FreshInv
  <2>3. \A s \in Slots : s # r => runs[p][s].pc = "none"
    BY <2>2, OnlyRun
  <2>4. Waiting(p, m) = {r}
    BY <2>2, <2>3 DEF Waiting
  <2>5. /\ UNCHANGED <<destroying, network>> /\ schema'[p] # Rejected
        /\ faults' = faults \/ faults' = [faults EXCEPT ![p] = @ + 1]
        /\ migrators'[p][m] = NoMigrator /\ \A n \in Slots : n # m => migrators'[p][n] = migrators[p][n]
    BY <1>0, <1>5 DEF SchemaFails, MigratorFails, Meet, OpeningType
  <2>6. \A n \in Slots : migrators'[p][n].pc = "none" /\ ~migrators'[p][n].closed
    <3>1. NoMigrator.pc = "none" /\ ~NoMigrator.closed
      BY DEF NoMigrator
    <3>2. \A n \in Slots : n # m => migrators[p][n].pc = "none"
      BY <2>2, <2>3, NoMigration
    <3> QED BY <2>5, <3>1, <3>2 DEF Sequential, FreshInv
  <2>7. runs[p][r].pc # "none"
    BY <2>2
  <2> QED BY <1>0, <2>1, <2>4, <2>5, <2>6, <2>7, RunsFailSequential
<1> QED BY <1>1, <1>2, <1>3, <1>4, <1>5 DEF OpeningStep

(* start() going on, destroy(), and the end of a process.                  *)
LEMMA CallSequential ==
    ASSUME ~Overlap, SetupInv, NEW p \in Instances, Sequential(p),
           StartGoesOn(p) \/ DestroyBegin(p) \/ DestroyEnd(p) \/ Crash(p)
    PROVE  Sequential(p)'
<1>0. /\ QueueType /\ OpeningType
      /\ runs[p] \in [Slots -> InitializeRun]
      /\ \A m \in Slots : migrators[p][m] \in Migrator
      /\ None # Done /\ None # Rejected /\ Done # Rejected
  BY SetupParts DEF OpeningInv, OpeningType, QueueType, None, Done, Rejected
<1>1. CASE StartGoesOn(p)
  <2>1. /\ UNCHANGED <<schema, migrators, initialization, runs, destroying, listeners, unsubscribe, faults>>
        /\ starting[p] = Done /\ starting'[p] = None
    BY <1>0, <1>1 DEF StartGoesOn, opening, QueueType
  <2> QED BY <1>0, <2>1 DEF Sequential, OneRun, ListenerInv, LivesInv, FreshInv
<1>2. CASE DestroyBegin(p)
  <2>1. /\ UNCHANGED <<schema, migrators, initialization, runs, starting, listeners, unsubscribe, faults>>
        /\ starting[p] = None /\ ~started'[p] /\ \A r \in Slots : runs[p][r].pc = "none"
    BY <1>0, <1>2 DEF DestroyBegin, Busy, opening, QueueType
  <2> QED BY <1>0, <2>1 DEF Sequential, OneRun, ListenerInv, LivesInv, FreshInv
<1>3. CASE DestroyEnd(p)
  <2>1. /\ destroying[p] /\ starting[p] = None /\ ~started[p]
        /\ \A r \in Slots : runs[p][r].pc = "none"
    BY <1>3 DEF DestroyEnd, Sequential, LivesInv
  <2>2. \A m \in Slots : migrators[p][m].pc = "none"
    BY <2>1, NoMigration
  <2>3. runs'[p] = runs[p]
    <3>1. \A r \in Slots : LosesHandle(runs[p][r]) = runs[p][r]
      BY <1>0, <2>1, LosingRun
    <3>2. runs'[p] = runs[p] \/ runs'[p] = [r \in Slots |-> LosesHandle(runs[p][r])]
      BY <1>0, <1>3 DEF DestroyEnd, CloseIfInitialized, QueueType
    <3> QED BY <1>0, <3>1, <3>2
  <2>4. \A m \in Slots : migrators'[p][m].pc = "none" /\ ~migrators'[p][m].closed
    <3>1. ASSUME NEW m \in Slots
          PROVE  Closing(migrators[p][m]).pc = "none" /\ ~Closing(migrators[p][m]).closed
      <4>1. Closing(migrators[p][m]).pc = "none"
        BY <1>0, <2>2, ClosingMigrator
      <4>2. ~(migrators[p][m].closed \/ migrators[p][m].pc # "none")
        BY <2>2 DEF Sequential, FreshInv
      <4>3. ~Closing(migrators[p][m]).closed
        BY <1>0, <4>2 DEF Closing, Migrator
      <4> QED BY <4>1, <4>3
    <3>2. \A m \in Slots : migrators'[p][m] \in {migrators[p][m], Closing(migrators[p][m])}
      BY <1>0, <1>3 DEF DestroyEnd, CloseIfInitialized, Close, opening, OpeningType
    <3> QED BY <2>2, <3>1, <3>2 DEF Sequential, FreshInv
  <2>5. /\ initialization'[p] = None /\ ~unsubscribe'[p] /\ ~destroying'[p]
        /\ listeners'[p] = IF unsubscribe[p] THEN listeners[p] - 1 ELSE listeners[p]
        /\ UNCHANGED <<starting, started, faults>>
    BY <1>0, <1>3 DEF DestroyEnd, QueueType
  <2>6. schema'[p] # Rejected
    BY <1>0, <1>3 DEF DestroyEnd, CloseIfInitialized, Close, opening, OpeningType, Sequential, FreshInv
  <2>7. OneRun(p)' /\ LivesInv(p)'
    BY <2>1, <2>3, <2>5, SlotsApart DEF OneRun, LivesInv
  <2>8. ListenerInv(p)'
    BY <1>0, <2>5 DEF ListenerInv, Sequential
  <2>9. FreshInv(p)'
    BY <2>3, <2>4, <2>5, <2>6 DEF FreshInv, Sequential
  <2> QED BY <2>7, <2>8, <2>9 DEF Sequential
<1>4. CASE Crash(p)
  <2>1. /\ initialization'[p] = None /\ ~unsubscribe'[p] /\ ~destroying'[p] /\ listeners'[p] = 0
        /\ ~started'[p] /\ starting'[p] = None /\ UNCHANGED faults
        /\ \A r \in Slots : runs'[p][r] = NoRun
    BY <1>0, <1>4 DEF Crash, QueueType
  <2>2. schema'[p] = None /\ \A m \in Slots : migrators'[p][m] = NoMigrator
    BY <1>0, <1>4 DEF Crash, OpeningDies, OpeningType
  <2>3. /\ NoRun.pc = "none" /\ ~NoRun.closed /\ NoRun.awaits = None /\ NoRun.since = 0
        /\ NoMigrator.pc = "none" /\ ~NoMigrator.closed /\ faults[p] \in Nat
    BY <1>0 DEF NoRun, NoMigrator, QueueType
  <2>4. OneRun(p)' /\ LivesInv(p)' /\ ListenerInv(p)'
    BY <1>0, <2>1, <2>3, SlotsApart DEF OneRun, LivesInv, ListenerInv
  <2>5. FreshInv(p)'
    BY <1>0, <2>1, <2>2, <2>3 DEF FreshInv
  <2> QED BY <2>4, <2>5 DEF Sequential
<1> QED BY <1>1, <1>2, <1>3, <1>4

(* SequentialInv is inductive.                                             *)
LEMMA NextSequential ==
    ASSUME ~Overlap, SetupInv, SequentialInv, [Next]_vars
    PROVE  SequentialInv'
<1>0. SetupInv' /\ \A p \in Instances : Sequential(p)
  BY NextSetup DEF SequentialInv, Sequential
<1>1. ASSUME NEW q \in Instances, Untouched(q)
      PROVE  Sequential(q)'
  BY <1>0, <1>1 DEF Untouched, Sequential, OneRun, ListenerInv, LivesInv, FreshInv
<1>2. ASSUME NEW p \in Instances, ProcessStep(p), NEW q \in Instances
      PROVE  Sequential(q)'
  <2>1. CASE q # p
    <3>1. Untouched(q)
      BY <1>2, <2>1, Elsewhere
    <3> QED BY <1>1, <3>1
  <2>2. CASE q = p
    <3>1. Sequential(p)'
      BY <1>0, <1>2, BeginSequential, RunSequential, OpeningSequential, CallSequential DEF ProcessStep
    <3> QED BY <2>2, <3>1
  <2> QED BY <2>1, <2>2
<1>3. CASE ChangeNetwork \/ UNCHANGED vars
  BY <1>0, <1>3 DEF ChangeNetwork, vars, opening, lives, network, SequentialInv, OneRun, ListenerInv,
                    LivesInv, FreshInv
<1>4. CASE \E p \in Instances : ProcessStep(p)
  BY <1>2, <1>4 DEF SequentialInv, Sequential
<1> QED BY <1>3, <1>4, Steps

(* At the start nothing is under way.                                      *)
LEMMA InitSequential == Init => SequentialInv
<1>1. /\ NoRun.pc = "none" /\ ~NoRun.closed /\ NoRun.awaits = None /\ NoRun.since = 0
      /\ NoMigrator.pc = "none" /\ ~NoMigrator.closed
      /\ None # Done /\ None # Rejected
  BY DEF NoRun, NoMigrator, None, Done, Rejected
<1> QED BY <1>1, SlotsApart
        DEF Init, OpeningInit, SequentialInv, OneRun, ListenerInv, LivesInv, FreshInv

(* Where the application lets one initialize() or destroy() end before it  *)
(* calls the other: however often initialize() failed and was called       *)
(* again, a queue has one listener at most, and a queue that is destroyed  *)
(* or not initialised has none.                                            *)
THEOREM OneListenerEach == ASSUME ~Overlap PROVE Spec => []OneListener
<1>1. SetupInv /\ SequentialInv /\ [Next]_vars => SequentialInv'
  BY NextSequential
<1>2. SequentialInv => OneListener
  BY DEF SequentialInv, ListenerInv, OneListener, None, Done
<1> QED BY <1>1, <1>2, InitSequential, Invariant, PTL DEF Spec

-----------------------------------------------------------------------------
(* The network                                                             *)

(* Who is subscribed knows the present state, if the provider replays it,  *)
(* and a started queue has called process() since it is online.            *)
LEMMA NextReconnect ==
    ASSUME ~Overlap, Replays, SetupInv, SequentialInv, NetworkInv, ReconnectNoticed, [Next]_vars
    PROVE  NetworkInv' /\ ReconnectNoticed'
<1>0. /\ QueueType /\ QueueType' /\ Online \in BOOLEAN
      /\ \A p \in Instances : Sequential(p)
  <2>1. SetupInv'
    BY NextSetup
  <2> QED BY <2>1, SetupParts
          DEF SequentialInv, Sequential, Online, ResolveOnline, SetupInv, SetupType, QueueType
<1>1. CASE ChangeNetwork
  <2>1. PICK state \in NetStates :
           LET online == ResolveOnline(state)
               heard(p) == Listener(p, online, wasOffline[p])
           IN  /\ net' = state
               /\ wasOffline' = [p \in Instances |->
                                   IF listeners[p] > 0 THEN heard(p).wasOffline ELSE wasOffline[p]]
               /\ attended' = [p \in Instances |->
                                   online /\ (attended[p] \/ (listeners[p] > 0 /\ heard(p).triggers))]
    BY <1>1 DEF ChangeNetwork
  <2>2. Online' = ResolveOnline(state) /\ ResolveOnline(state) \in BOOLEAN
    BY <2>1 DEF Online, ResolveOnline
  <2>3. ASSUME NEW p \in Instances
        PROVE  /\ Listener(p, ResolveOnline(state), wasOffline[p]).triggers
                    = (ResolveOnline(state) /\ wasOffline[p] /\ started[p])
               /\ Listener(p, ResolveOnline(state), wasOffline[p]).wasOffline = ~ResolveOnline(state)
    BY DEF Listener
  <2>4. UNCHANGED <<listeners, started>>
    BY <1>1 DEF ChangeNetwork
  <2>5. ASSUME NEW p \in Instances, listeners'[p] > 0
        PROVE  wasOffline'[p] <=> ~Online'
    <3>1. wasOffline'[p] = Listener(p, ResolveOnline(state), wasOffline[p]).wasOffline
      BY <2>1, <2>4, <2>5
    <3> QED BY <2>2, <2>3, <3>1
  <2>6. ASSUME NEW p \in Instances, started'[p], Online'
        PROVE  attended'[p]
    <3>1. started[p] /\ ResolveOnline(state)
      BY <2>2, <2>4, <2>6
    <3>2. listeners[p] > 0
      BY <1>0, <3>1 DEF Sequential, LivesInv, ListenerInv
    <3>3. attended[p] \/ wasOffline[p]
      BY <3>1, <3>2 DEF NetworkInv, ReconnectNoticed
    <3>4. attended'[p] = (/\ ResolveOnline(state)
                          /\ \/ attended[p]
                             \/ /\ listeners[p] > 0
                                /\ Listener(p, ResolveOnline(state), wasOffline[p]).triggers)
      BY <2>1
    <3> QED BY <2>3, <3>1, <3>2, <3>3, <3>4
  <2> QED BY <2>5, <2>6 DEF NetworkInv, ReconnectNoticed
<1>2. ASSUME NEW q \in Instances, UNCHANGED net,
             listeners'[q] > 0 => listeners[q] > 0, started'[q] => started[q],
             wasOffline'[q] = wasOffline[q], attended'[q] = attended[q]
      PROVE  /\ listeners'[q] > 0 => (wasOffline'[q] <=> ~Online')
             /\ started'[q] /\ Online' => attended'[q]
  <2>1. Online' = Online
    BY <1>2 DEF Online, ResolveOnline
  <2> QED BY <1>2, <2>1 DEF NetworkInv, ReconnectNoticed
<1>3. ASSUME NEW p \in Instances, NEW r \in Slots, Subscribe(p, r)
      PROVE  /\ listeners'[p] > 0 => (wasOffline'[p] <=> ~Online')
             /\ started'[p] /\ Online' => attended'[p]
  <2>1. ~started[p]
    <3>1. runs[p][r].pc # "none"
      BY <1>3 DEF Subscribe
    <3> QED BY <1>0, <3>1, OnlyRun
  <2>2. UNCHANGED <<net, started>>
    BY <1>3 DEF Subscribe
  <2>3. Online' = Online
    BY <2>2 DEF Online, ResolveOnline
  <2>4. Listener(p, Online, ~runs[p][r].online).wasOffline = ~Online
    BY DEF Listener
  <2>5. wasOffline'[p] = Listener(p, Online, ~runs[p][r].online).wasOffline
    BY <1>0, <1>3 DEF Subscribe, QueueType
  <2> QED BY <2>1, <2>2, <2>3, <2>4, <2>5
<1>4. ASSUME NEW p \in Instances, StartGoesOn(p)
      PROVE  /\ listeners'[p] > 0 => (wasOffline'[p] <=> ~Online')
             /\ started'[p] /\ Online' => attended'[p]
  <2>1. UNCHANGED <<net, listeners, wasOffline>> /\ attended'[p] = Online
    BY <1>0, <1>4 DEF StartGoesOn, QueueType
  <2>2. Online' = Online
    BY <2>1 DEF Online, ResolveOnline
  <2> QED BY <2>1, <2>2 DEF NetworkInv
<1>5. ASSUME NEW p \in Instances, Crash(p)
      PROVE  ~started'[p] /\ ~(listeners'[p] > 0)
  BY <1>0, <1>5 DEF Crash, QueueType
<1>6. ASSUME NEW p \in Instances, DestroyBegin(p) \/ DestroyEnd(p)
      PROVE  /\ UNCHANGED net /\ (listeners'[p] > 0 => listeners[p] > 0) /\ (started'[p] => started[p])
             /\ wasOffline'[p] = wasOffline[p] /\ attended'[p] = attended[p]
  BY <1>0, <1>6 DEF DestroyBegin, DestroyEnd, QueueType
<1>7. ASSUME NEW p \in Instances, ProcessStep(p),
             ~(\E r \in Slots : Subscribe(p, r)), ~StartGoesOn(p), ~DestroyBegin(p), ~DestroyEnd(p),
             ~Crash(p)
      PROVE  UNCHANGED network
  BY <1>7 DEF ProcessStep, RunStep, OpeningStep, OpenDriver, OpenDriverRejects, AwaitDriver, StorageReady,
              Recover, ReadNetwork, RunRejects, RunFault, Migrate, SchemaReady, SchemaFails,
              Initialize, StartBegin
<1>8. ASSUME NEW p \in Instances, ProcessStep(p), NEW q \in Instances
      PROVE  /\ listeners'[q] > 0 => (wasOffline'[q] <=> ~Online')
             /\ started'[q] /\ Online' => attended'[q]
  <2>1. CASE q # p
    <3>1. Untouched(q) /\ UNCHANGED net
      BY <1>8, <2>1, Elsewhere
    <3> QED BY <1>2, <3>1 DEF Untouched
  <2>2. CASE q = p
    <3>1. CASE UNCHANGED network
      BY <1>2, <3>1 DEF network
    <3> QED BY <1>2, <1>3, <1>4, <1>5, <1>6, <1>7, <1>8, <2>2, <3>1
  <2> QED BY <2>1, <2>2
<1>9. CASE UNCHANGED vars
  BY <1>2, <1>9 DEF vars, network, NetworkInv, ReconnectNoticed
<1>10. CASE \E p \in Instances : ProcessStep(p)
  BY <1>8, <1>10 DEF NetworkInv, ReconnectNoticed
<1> QED BY <1>1, <1>9, <1>10, Steps

(* With a provider that tells a new listener the present state (NetInfo's  *)
(* addEventListener does), and calls that do not overlap: a started queue  *)
(* that is online has called process() since the network came back,        *)
(* wherever in initialize() or start() it came back.                       *)
THEOREM ReconnectAttended == ASSUME ~Overlap, Replays PROVE Spec => []ReconnectNoticed
<1>1. SetupInv /\ SequentialInv /\ [Next]_vars => SequentialInv'
  BY NextSequential
<1>2. SetupInv /\ SequentialInv /\ (NetworkInv /\ ReconnectNoticed) /\ [Next]_vars
      => (NetworkInv /\ ReconnectNoticed)'
  BY NextReconnect
<1>3. Init => NetworkInv /\ ReconnectNoticed
  BY DEF Init, NetworkInv, ReconnectNoticed
<1> QED BY <1>1, <1>2, <1>3, InitSequential, Invariant, PTL DEF Spec

-----------------------------------------------------------------------------
(* What a failed initialize() leaves to the next                           *)

(* Statements that may run twice, and the recording of a version, can      *)
(* always be executed.                                                     *)
LEMMA RerunnableRuns ==
    ASSUME WholeSchema \subseteq Rerunnable, NEW migrator \in Migrator, HasStep(migrator)
    PROVE  CanRun(StepAt(migrator.entry, migrator.step))
<1>1. migrator.entry \in 1 .. Len(Migrations) /\ migrator.step \in Nat \ {0}
  BY StatementsOf DEF HasStep, Migrator
<1>2. CASE migrator.step <= Len(Migrations[migrator.entry])
  <2>1. migrator.step \in 1 .. Len(Migrations[migrator.entry])
    BY <1>1, <1>2, StatementsOf
  <2>2. Migrations[migrator.entry][migrator.step] \in Rerunnable
    BY <1>1, <2>1, StatementsOf
  <2> QED BY <1>2, <2>2 DEF CanRun, StepAt, Run
<1>3. CASE ~(migrator.step <= Len(Migrations[migrator.entry]))
  BY <1>3 DEF CanRun, StepAt, Record
<1> QED BY <1>2, <1>3

(* A fault met now is younger than every run under way.                    *)
LEMMA MeetCounts ==
    ASSUME QueueType, NEW p \in Instances, Sequential(p), Meet(p), NEW r \in Slots
    PROVE  faults'[p] > runs[p][r].since
<1>1. faults[p] \in Nat /\ runs[p][r].since \in Nat /\ runs[p][r].since <= faults[p]
  BY DEF QueueType, InitializeRun, Sequential, FreshInv
<1>2. faults'[p] = faults[p] + 1
  BY DEF Meet, QueueType
<1> QED BY <1>1, <1>2

(* A run of initialize() rejects for the driver or for a fault of now.     *)
LEMMA RunRejection ==
    ASSUME SetupInv, NEW p \in Instances, Sequential(p), NEW s \in Slots, RunStep(p, s),
           NEW r \in Slots, Rejects(p, r), driver[p] # "rejected"
    PROVE  faults'[p] > runs[p][r].since
<1>0. QueueType /\ runs[p] \in [Slots -> InitializeRun] /\ runs[p][s] \in InitializeRun
  BY SetupParts DEF QueueType
<1>1. \A t \in Slots : ~runs[p][t].closed /\ runs[p][t].awaits # Rejected
  BY DEF Sequential, FreshInv
<1>2. runs[p][r].pc # "none" /\ runs'[p][r].pc = "none" /\ UNCHANGED <<listeners, used>>
  BY DEF Rejects
<1>3. CASE RunRejects(p, s)
  BY <1>1, <1>3 DEF RunRejects, RejectedBefore
<1>4. CASE RunFault(p, s)
  BY <1>0, <1>4, MeetCounts DEF RunFault
<1>5. CASE Subscribe(p, s)
  BY <1>0, <1>2, <1>5 DEF Subscribe, QueueType
<1>6. CASE AwaitDriver(p, s)
  <2>1. runs' = [runs EXCEPT ![p][s].pc = "schema", ![p][s].awaits = schema'[p]]
    BY <1>6 DEF AwaitDriver
  <2>2. runs'[p][s].pc = "schema"
    BY <1>0, <2>1 DEF QueueType, InitializeRun
  <2>3. \A t \in Slots : t # s => runs'[p][t] = runs[p][t]
    BY <1>0, <2>1 DEF QueueType
  <2> QED BY <1>2, <2>2, <2>3
<1>7. CASE StorageReady(p, s)
  <2>1. /\ runs'[p][s].pc # "none"
        /\ \A t \in Slots : t # s => runs'[p][t] = runs[p][t]
    <3>1. CASE runs' = [runs EXCEPT ![p][s] = [@ EXCEPT !.pc = "driver", !.goal = "recover",
                                                        !.closed = FALSE]]
      BY <1>0, <3>1 DEF QueueType, InitializeRun
    <3>2. CASE runs' = [runs EXCEPT ![p][s].pc = "recover"]
      BY <1>0, <3>2 DEF QueueType, InitializeRun
    <3> QED BY <1>7, <3>1, <3>2 DEF StorageReady
  <2> QED BY <1>2, <2>1
<1>8. CASE Recover(p, s)
  <2>1. runs'[p][s].pc # "none" /\ \A t \in Slots : t # s => runs'[p][t] = runs[p][t]
    BY <1>0, <1>8 DEF Recover, QueueType, InitializeRun
  <2> QED BY <1>2, <2>1
<1>9. CASE ReadNetwork(p, s)
  <2>1. runs'[p][s].pc # "none" /\ \A t \in Slots : t # s => runs'[p][t] = runs[p][t]
    BY <1>0, <1>9 DEF ReadNetwork, QueueType, InitializeRun
  <2> QED BY <1>2, <2>1
<1> QED BY <1>3, <1>4, <1>5, <1>6, <1>7, <1>8, <1>9 DEF RunStep

(* A migration that fails fails for a fault of now.                        *)
LEMMA SchemaRejection ==
    ASSUME WholeSchema \subseteq Rerunnable, SetupInv, NEW p \in Instances, Sequential(p),
           NEW m \in Slots, OpeningStep(p, m), NEW r \in Slots, Rejects(p, r)
    PROVE  faults'[p] > runs[p][r].since
<1>0. /\ QueueType /\ runs[p] \in [Slots -> InitializeRun] /\ migrators[p][m] \in Migrator
      /\ ~migrators[p][m].closed
  BY SetupParts DEF QueueType, OpeningInv, OpeningType, Sequential, FreshInv
<1>1. runs[p][r].pc # "none" /\ runs'[p][r].pc = "none"
  BY DEF Rejects
<1>2. CASE Migrate(p, m)
  BY <1>1, <1>2 DEF Migrate, lives
<1>3. CASE SchemaReady(p, m)
  <2>1. runs'[p][r] = IF r \in Waiting(p, m) THEN [runs[p][r] EXCEPT !.awaits = Done] ELSE runs[p][r]
    BY <1>0, <1>3 DEF SchemaReady, QueueType
  <2>2. runs[p][r] \in InitializeRun
    BY <1>0
  <2>3. [runs[p][r] EXCEPT !.awaits = Done].pc = runs[p][r].pc
    BY <2>2 DEF InitializeRun
  <2> QED BY <1>1, <2>1, <2>3
<1>4. CASE SchemaFails(p, m)
  <2>1. ~MustFail(p, m)
    BY <1>0, RerunnableRuns DEF MustFail
  <2> QED BY <1>0, <1>4, <2>1, MeetCounts DEF SchemaFails
<1> QED BY <1>2, <1>3, <1>4 DEF OpeningStep

(* Nothing else ends a run by rejecting it.                                *)
LEMMA CallRejectsNone ==
    ASSUME ~Overlap, SetupInv, NEW p \in Instances, Sequential(p), NEW r \in Slots,
           \/ OpenDriver(p) \/ OpenDriverRejects(p) \/ Initialize(p) \/ StartBegin(p)
           \/ StartGoesOn(p) \/ DestroyBegin(p) \/ DestroyEnd(p) \/ Crash(p)
    PROVE  ~Rejects(p, r)
<1>0. QueueType /\ runs[p] \in [Slots -> InitializeRun]
  BY SetupParts DEF QueueType
<1>1. CASE OpenDriver(p) \/ OpenDriverRejects(p) \/ StartGoesOn(p) \/ DestroyBegin(p)
  BY <1>1 DEF OpenDriver, OpenDriverRejects, StartGoesOn, DestroyBegin, lives, Rejects
<1>2. CASE Initialize(p) \/ StartBegin(p)
  <2>1. CASE UNCHANGED runs
    BY <2>1 DEF Rejects
  <2>2. ASSUME NEW s \in Slots, runs[p][s].pc = "none",
               runs' = [runs EXCEPT ![p][s] = [NoRun EXCEPT !.pc = "driver", !.since = faults[p]]]
        PROVE  ~Rejects(p, r)
    BY <1>0, <2>2 DEF Rejects, QueueType
  <2> QED BY <1>2, <2>1, <2>2 DEF Initialize, StartBegin, Begin, FirstFree
<1>3. CASE DestroyEnd(p)
  <2>1. runs[p][r].pc = "none"
    BY <1>3 DEF DestroyEnd, Sequential, LivesInv
  <2> QED BY <2>1 DEF Rejects
<1>4. CASE Crash(p)
  BY <1>0, <1>4 DEF Crash, Rejects, QueueType
<1> QED BY <1>1, <1>2, <1>3, <1>4

(* No step rejects a run of initialize() for what is past.                 *)
LEMMA NextFresh ==
    ASSUME ~Overlap, WholeSchema \subseteq Rerunnable, SetupInv, SequentialInv, [Next]_vars,
           NEW q \in Instances, NEW r \in Slots, Rejects(q, r), driver[q] # "rejected"
    PROVE  faults'[q] > runs[q][r].since
<1>0. Sequential(q)
  BY DEF SequentialInv, Sequential
<1>1. CASE ChangeNetwork \/ UNCHANGED vars
  BY <1>1 DEF ChangeNetwork, vars, lives, Rejects
<1>2. ASSUME NEW p \in Instances, ProcessStep(p)
      PROVE  faults'[q] > runs[q][r].since
  <2>1. CASE q # p
    <3>1. runs'[q] = runs[q]
      BY <1>2, <2>1, Elsewhere DEF Untouched
    <3> QED BY <3>1 DEF Rejects
  <2>2. CASE q = p
    BY <1>0, <1>2, <2>2, RunRejection, SchemaRejection, CallRejectsNone DEF ProcessStep
  <2> QED BY <2>1, <2>2
<1> QED BY <1>1, <1>2, Steps

(* With migrations that may run twice, as all of today's may, and calls    *)
(* that do not overlap: initialize() rejects for a driver that could not   *)
(* be opened or for a fault that happened since it began, never for what   *)
(* an earlier call, another process or a crash left half-done.             *)
THEOREM FailureIsFresh ==
    ASSUME ~Overlap, WholeSchema \subseteq Rerunnable
    PROVE  Spec => NoStaleSchema
<1>1. SetupInv /\ SequentialInv /\ [Next]_vars => SequentialInv'
  BY NextSequential
<1>2. SetupInv /\ SequentialInv /\ [Next]_vars
      => [\A p \in Instances, r \in Slots :
             Rejects(p, r) /\ driver[p] # "rejected" => faults'[p] > runs[p][r].since]_vars
  BY NextFresh
<1> QED BY <1>1, <1>2, InitSequential, Invariant, PTL DEF Spec, NoStaleSchema
================================================================================
