------------------------------ MODULE QueueSetup ------------------------------
(***************************************************************************)
(* initialize(), start() and destroy() of core/queue/upload-queue.ts over  *)
(* the SQLite adapter (SqliteOpening), with the connectivity listener that *)
(* initialize() leaves behind, in several processes on one database file.  *)
(*                                                                         *)
(* What initialize() is asked for by (enqueue, get, process, ...) makes no *)
(* difference; start() stands for those that go on once it is done.  What  *)
(* process() does is QueueRunner's matter: here it is only noted.          *)
(***************************************************************************)
EXTENDS SqliteOpening

CONSTANTS
    NetStates,   \* what NetInfo reports
    Replays,     \* BOOLEAN: a new listener is told the present state
    Overlap,     \* BOOLEAN: initialize() and destroy() may overlap
    Rejections,  \* BOOLEAN: openDriver may reject
    MaxCalls,    \* bound: calls of the application altogether
    MaxChanges,  \* bound: changes of connectivity altogether
    MaxFaults,   \* bound: faults in a process
    MaxCrashes   \* bound: crashes altogether

NetState == [isConnected: BOOLEAN \cup {NULL}, isInternetReachable: BOOLEAN \cup {NULL}]

ASSUME SetupAssumption ==
    /\ NetStates \subseteq NetState
    /\ Replays \in BOOLEAN /\ Overlap \in BOOLEAN /\ Rejections \in BOOLEAN
    /\ MaxCalls \in Nat /\ MaxChanges \in Nat /\ MaxFaults \in Nat /\ MaxCrashes \in Nat

VARIABLES
    net,             \* what NetInfo.fetch() answers
    initialization,  \* [Instances -> none, ready, or which run of initialize() settles it]
    runs,            \* [Instances -> [Slots -> run of initialize()]]
    wasOffline,      \* [Instances -> BOOLEAN]
    listeners,       \* [Instances -> how many listeners are subscribed]
    unsubscribe,     \* [Instances -> unsubscribeConnectivity is set]
    started,         \* [Instances -> BOOLEAN]
    starting,        \* [Instances -> the initialization a start() awaits, or none]
    destroying,      \* [Instances -> a destroy() awaits its stop()]
    attended,        \* history: process() was called since the network came back
    faults,          \* [Instances -> faults met so far]
    used             \* [calls, changes, crashes] so far

lives == <<initialization, runs, starting, destroying>>
network == <<net, wasOffline, listeners, unsubscribe, started, attended>>
vars == <<opening, lives, network, faults, used>>

(* A run waits for the driver, or for "schema": the value schemaPromise    *)
(* had.  since: the faults its process had met when it began.              *)
NoRun == [pc |-> "none", goal |-> "initialize", awaits |-> None, closed |-> FALSE,
          online |-> FALSE, since |-> 0]

Init ==
    /\ OpeningInit
    /\ net \in NetStates
    /\ initialization = [p \in Instances |-> None]
    /\ runs = [p \in Instances |-> [r \in Slots |-> NoRun]]
    /\ wasOffline = [p \in Instances |-> FALSE]
    /\ listeners = [p \in Instances |-> 0]
    /\ unsubscribe = [p \in Instances |-> FALSE]
    /\ started = [p \in Instances |-> FALSE]
    /\ starting = [p \in Instances |-> None]
    /\ destroying = [p \in Instances |-> FALSE]
    /\ attended = [p \in Instances |-> FALSE]
    /\ faults = [p \in Instances |-> 0]
    /\ used = [calls |-> 0, changes |-> 0, crashes |-> 0]

-----------------------------------------------------------------------------
(* Connectivity                                                            *)

(* netinfo-connectivity-provider.ts: nothing says no, and something says yes. *)
ResolveOnline(state) ==
    /\ state.isConnected # FALSE /\ state.isInternetReachable # FALSE
    /\ state.isConnected = TRUE \/ state.isInternetReachable = TRUE

Online == ResolveOnline(net)

(* Mutation: wasOffline is only written when process() is called. *)
ListenerReturnsEarly(p, isOnline, offline) ==
    LET triggers == isOnline /\ offline /\ started[p]
    IN  [triggers |-> triggers, wasOffline |-> IF triggers THEN FALSE ELSE offline]

(* The listener: process() is called when the network returns to a started *)
(* queue.  Several listeners of one queue share wasOffline, so the first   *)
(* decides.                                                                *)
Listener(p, isOnline, offline) ==
    [triggers |-> isOnline /\ offline /\ started[p], wasOffline |-> ~isOnline]

ChangeNetwork ==
    /\ used.changes < MaxChanges
    /\ used' = [used EXCEPT !.changes = @ + 1]
    /\ \E state \in NetStates \ {net} :
        LET online == ResolveOnline(state)
            heard(p) == Listener(p, online, wasOffline[p])
        IN  /\ net' = state
            /\ wasOffline' = [p \in Instances |->
                                IF listeners[p] > 0 THEN heard(p).wasOffline ELSE wasOffline[p]]
            /\ attended' = [p \in Instances |->
                                online /\ (attended[p] \/ (listeners[p] > 0 /\ heard(p).triggers))]
    /\ UNCHANGED <<opening, lives, listeners, unsubscribe, started, faults>>

-----------------------------------------------------------------------------
(* initialize()                                                            *)

Busy(p) == \E r \in Slots : runs[p][r].pc # "none"

(* Mutation: every call of initialize() runs it. *)
BeginUnshared(p) ==
    \E r \in Slots :
        /\ FirstFree(r, runs[p])
        /\ runs' = [runs EXCEPT ![p][r] = [NoRun EXCEPT !.pc = "driver", !.since = faults[p]]]
        /\ initialization' = [initialization EXCEPT ![p] = r]
        /\ ResolveDriver(p)

(* initialization ??= ..., up to the first await. *)
Begin(p) ==
    IF initialization[p] # None
       THEN UNCHANGED <<runs, initialization, driver>>
       ELSE \E r \in Slots :
                /\ FirstFree(r, runs[p])
                /\ runs' = [runs EXCEPT ![p][r] = [NoRun EXCEPT !.pc = "driver", !.since = faults[p]]]
                /\ initialization' = [initialization EXCEPT ![p] = r]
                /\ ResolveDriver(p)

AwaitDriver(p, r) ==
    /\ runs[p][r].pc = "driver"
    /\ driver[p] = "open" \/ runs[p][r].closed
    /\ EnsureSchema(p, runs[p][r].closed)
    /\ runs' = [runs EXCEPT ![p][r].pc = "schema", ![p][r].awaits = schema'[p]]
    /\ UNCHANGED <<db, driver, initialization, starting, destroying, network, faults, used>>

(* storage.initialize() is done, and recoverAbandoned() asks for the       *)
(* database once more, which is as a rule there already.                   *)
StorageReady(p, r) ==
    /\ runs[p][r].pc = "schema" /\ runs[p][r].awaits = Done
    /\ IF runs[p][r].goal = "initialize"
          THEN /\ runs' = [runs EXCEPT ![p][r] = [@ EXCEPT !.pc = "driver", !.goal = "recover",
                                                            !.closed = FALSE]]
               /\ ResolveDriver(p)
          ELSE runs' = [runs EXCEPT ![p][r].pc = "recover"] /\ UNCHANGED driver
    /\ UNCHANGED <<db, schema, migrators, initialization, starting, destroying, network, faults, used>>

(* The UPDATE of recoverAbandoned(); which rows it takes is UploadLifecycle's. *)
Recover(p, r) ==
    /\ runs[p][r].pc = "recover" /\ ~runs[p][r].closed
    /\ runs' = [runs EXCEPT ![p][r].pc = "isOnline"]
    /\ UNCHANGED <<opening, initialization, starting, destroying, network, faults, used>>

ReadNetwork(p, r) ==
    /\ runs[p][r].pc = "isOnline"
    /\ runs' = [runs EXCEPT ![p][r].pc = "subscribe", ![p][r].online = Online]
    /\ UNCHANGED <<opening, initialization, starting, destroying, network, faults, used>>

(* wasOffline is set and the listener subscribed; a provider that replays  *)
(* calls it with the state of now.                                         *)
Subscribe(p, r) ==
    LET heard == Listener(p, Online, ~runs[p][r].online)
    IN  /\ runs[p][r].pc = "subscribe"
        /\ listeners' = [listeners EXCEPT ![p] = @ + 1]
        /\ unsubscribe' = [unsubscribe EXCEPT ![p] = TRUE]
        /\ wasOffline' = [wasOffline EXCEPT ![p] =
                              IF Replays THEN heard.wasOffline ELSE ~runs[p][r].online]
        /\ attended' = [attended EXCEPT ![p] = @ \/ (Replays /\ heard.triggers)]
        /\ initialization' = [initialization EXCEPT ![p] = IF @ = r THEN Done ELSE @]
        /\ starting' = [starting EXCEPT ![p] = IF @ = r THEN Done ELSE @]
        /\ runs' = [runs EXCEPT ![p][r] = NoRun]
        /\ UNCHANGED <<opening, destroying, net, started, faults, used>>

(* The runs of S reject: initialization is forgotten, whoever set it, and  *)
(* a start() that awaits one of them rejects.                              *)
RunsFail(p, S) ==
    /\ runs' = [runs EXCEPT ![p] = [r \in Slots |-> IF r \in S THEN NoRun ELSE @[r]]]
    /\ initialization' = [initialization EXCEPT ![p] = IF S = {} THEN @ ELSE None]
    /\ starting' = [starting EXCEPT ![p] = IF @ \in S THEN None ELSE @]

Waiting(p, m) == {r \in Slots : runs[p][r].pc = "schema" /\ runs[p][r].awaits = m}

Meet(p) == faults[p] < MaxFaults /\ faults' = [faults EXCEPT ![p] = @ + 1]

(* What the rejected run awaited had been rejected before. *)
RejectedBefore(p, r) ==
    \/ runs[p][r].pc = "driver" /\ driver[p] = "rejected"
    \/ runs[p][r].pc = "schema" /\ runs[p][r].awaits = Rejected
    \/ runs[p][r].pc = "recover" /\ runs[p][r].closed

RunRejects(p, r) ==
    /\ RejectedBefore(p, r)
    /\ RunsFail(p, {r})
    /\ UNCHANGED <<opening, destroying, network, faults, used>>

(* recoverAbandoned() or isOnline() fails. *)
RunFault(p, r) ==
    /\ runs[p][r].pc \in {"recover", "isOnline"}
    /\ Meet(p)
    /\ RunsFail(p, {r})
    /\ UNCHANGED <<opening, destroying, network, used>>

-----------------------------------------------------------------------------
(* The driver and the schema                                               *)

OpenDriver(p) ==
    /\ DriverOpens(p)
    /\ UNCHANGED <<lives, network, faults, used>>

OpenDriverRejects(p) ==
    /\ Rejections /\ DriverRejects(p)
    /\ Meet(p)
    /\ UNCHANGED <<lives, network, used>>

Migrate(p, m) ==
    /\ ReadVersion(p, m) \/ Apply(p, m)
    /\ UNCHANGED <<lives, network, faults, used>>

SchemaReady(p, m) ==
    /\ MigratorEnds(p, m)
    /\ runs' = [runs EXCEPT ![p] = [r \in Slots |->
                    IF r \in Waiting(p, m) THEN [@[r] EXCEPT !.awaits = Done] ELSE @[r]]]
    /\ UNCHANGED <<initialization, starting, destroying, network, faults, used>>

(* A statement fails, by itself or by a fault of the storage. *)
SchemaFails(p, m) ==
    /\ MigratorFails(p, m)
    /\ IF MustFail(p, m) THEN UNCHANGED faults ELSE Meet(p)
    /\ RunsFail(p, Waiting(p, m))
    /\ UNCHANGED <<destroying, network, used>>

-----------------------------------------------------------------------------
(* The application                                                         *)

Call == used.calls < MaxCalls /\ used' = [used EXCEPT !.calls = @ + 1]

Initialize(p) ==
    /\ Call
    /\ Overlap \/ ~destroying[p]
    /\ Begin(p)
    /\ UNCHANGED <<db, schema, migrators, starting, destroying, network, faults>>

(* start() calls initialize() itself, and goes on when that is done. *)
StartBegin(p) ==
    /\ Call
    /\ Overlap \/ ~destroying[p]
    /\ starting[p] = None
    /\ Begin(p)
    /\ starting' = [starting EXCEPT ![p] = initialization'[p]]
    /\ UNCHANGED <<db, schema, migrators, destroying, network, faults>>

StartGoesOn(p) ==
    /\ starting[p] = Done
    /\ starting' = [starting EXCEPT ![p] = None]
    /\ started' = [started EXCEPT ![p] = TRUE]
    /\ attended' = [attended EXCEPT ![p] = Online]
    /\ UNCHANGED <<opening, initialization, runs, destroying, net, wasOffline, listeners,
                   unsubscribe, faults, used>>

DestroyBegin(p) ==
    /\ Call
    /\ ~destroying[p] /\ (Overlap \/ (~Busy(p) /\ starting[p] = None))
    /\ started' = [started EXCEPT ![p] = FALSE]
    /\ destroying' = [destroying EXCEPT ![p] = TRUE]
    /\ UNCHANGED <<opening, initialization, runs, starting, net, wasOffline, listeners,
                   unsubscribe, attended, faults>>

(* A run that holds the database, or will get it, holds a closed one. *)
LosesHandle(run) == [run EXCEPT !.closed = (@ \/ run.pc \in {"driver", "recover"})]

(* Storage is closed only if there is an initialization, running or done.  *)
CloseIfInitialized(p) ==
    IF initialization[p] # None
       THEN /\ Close(p)
            /\ runs' = [runs EXCEPT ![p] = [r \in Slots |-> LosesHandle(@[r])]]
       ELSE UNCHANGED <<opening, runs>>

(* Mutation: the listener is left behind. *)
DestroyEndSubscribed(p) ==
    /\ destroying[p]
    /\ destroying' = [destroying EXCEPT ![p] = FALSE]
    /\ initialization' = [initialization EXCEPT ![p] = None]
    /\ CloseIfInitialized(p)
    /\ UNCHANGED <<starting, network, faults, used>>

(* After stop(): unsubscribe, forget the initialization, close. *)
DestroyEnd(p) ==
    /\ destroying[p]
    /\ destroying' = [destroying EXCEPT ![p] = FALSE]
    /\ listeners' = [listeners EXCEPT ![p] = IF unsubscribe[p] THEN @ - 1 ELSE @]
    /\ unsubscribe' = [unsubscribe EXCEPT ![p] = FALSE]
    /\ initialization' = [initialization EXCEPT ![p] = None]
    /\ CloseIfInitialized(p)
    /\ UNCHANGED <<starting, net, wasOffline, started, attended, faults, used>>

(* The process dies, between any two statements, and is started again. *)
Crash(p) ==
    /\ used.crashes < MaxCrashes
    /\ used' = [used EXCEPT !.crashes = @ + 1]
    /\ OpeningDies(p)
    /\ initialization' = [initialization EXCEPT ![p] = None]
    /\ runs' = [runs EXCEPT ![p] = [r \in Slots |-> NoRun]]
    /\ wasOffline' = [wasOffline EXCEPT ![p] = FALSE]
    /\ listeners' = [listeners EXCEPT ![p] = 0]
    /\ unsubscribe' = [unsubscribe EXCEPT ![p] = FALSE]
    /\ started' = [started EXCEPT ![p] = FALSE]
    /\ starting' = [starting EXCEPT ![p] = None]
    /\ destroying' = [destroying EXCEPT ![p] = FALSE]
    /\ attended' = [attended EXCEPT ![p] = FALSE]
    /\ UNCHANGED <<net, faults>>

-----------------------------------------------------------------------------
RunStep(p, r) ==
    \/ AwaitDriver(p, r) \/ StorageReady(p, r) \/ Recover(p, r) \/ ReadNetwork(p, r)
    \/ Subscribe(p, r) \/ RunRejects(p, r) \/ RunFault(p, r)

OpeningStep(p, m) == Migrate(p, m) \/ SchemaReady(p, m) \/ SchemaFails(p, m)

Next ==
    \/ \E p \in Instances :
        \/ OpenDriver(p) \/ OpenDriverRejects(p)
        \/ \E s \in Slots : RunStep(p, s) \/ OpeningStep(p, s)
        \/ Initialize(p) \/ StartBegin(p) \/ StartGoesOn(p)
        \/ DestroyBegin(p) \/ DestroyEnd(p) \/ Crash(p)
    \/ ChangeNetwork

Spec == Init /\ [][Next]_vars

-----------------------------------------------------------------------------
InitializeRun ==
    [pc: {"none", "driver", "schema", "recover", "isOnline", "subscribe"},
     goal: {"initialize", "recover"}, awaits: {None, Done, Rejected} \cup Slots,
     closed: BOOLEAN, online: BOOLEAN, since: Nat]

(* The variables have their types. *)
SetupType ==
    /\ OpeningType
    /\ net \in NetStates
    /\ initialization \in [Instances -> {None, Done} \cup Slots]
    /\ starting \in [Instances -> {None, Done} \cup Slots]
    /\ runs \in [Instances -> [Slots -> InitializeRun]]
    /\ listeners \in [Instances -> Nat]
    /\ {wasOffline, unsubscribe, started, destroying, attended} \subseteq [Instances -> BOOLEAN]
    /\ faults \in [Instances -> Nat]
    /\ used \in [calls: Nat, changes: Nat, crashes: Nat]

(* README.md: after start(), coming back online drains the queue.  A       *)
(* started queue that is online has called process() since the network     *)
(* came back, also when it changed while initialize() was under way.       *)
ReconnectNoticed == \A p \in Instances : started[p] /\ Online => attended[p]

(* README.md: destroy() unsubscribes.  However often initialize() failed   *)
(* and was called again, a queue has one listener at most, and a queue     *)
(* that is destroyed or not initialised has none.                          *)
OneListener ==
    \A p \in Instances :
        /\ listeners[p] <= 1
        /\ initialization[p] = None => listeners[p] = 0

(* A run of initialize() rejects in this step. *)
Rejects(p, r) == runs[p][r].pc # "none" /\ runs'[p][r].pc = "none" /\ UNCHANGED <<listeners, used>>

(* initialize() forgets its promise when it fails, so that it can be       *)
(* called again: it never rejects for what went wrong in an earlier call,  *)
(* only for a fault that happened since it began.                          *)
NoStaleFailure ==
    [][\A p \in Instances, r \in Slots : Rejects(p, r) => faults'[p] > runs[p][r].since]_vars

(* The same of the schema: a migration that failed half-way is taken up    *)
(* again by the next initialize(), and rejects no later one, unless the    *)
(* database could not be opened in the first place.                        *)
NoStaleSchema ==
    [][\A p \in Instances, r \in Slots :
          Rejects(p, r) /\ driver[p] # "rejected" => faults'[p] > runs[p][r].since]_vars

-----------------------------------------------------------------------------
(* What the properties rest on                                             *)

(* Whatever the application does.                                          *)
SetupInv ==
    /\ SetupType
    /\ OpeningInv
    /\ \A p \in Instances : unsubscribe[p] => listeners[p] > 0

(* Where initialize() and destroy() do not overlap, the one run there may  *)
(* be is the one that initialization remembers, ...                        *)
OneRun(p) ==
    /\ \A r \in Slots : runs[p][r].pc # "none" => initialization[p] = r
    /\ initialization[p] \in Slots => runs[p][initialization[p]].pc # "none"

(* ... who is subscribed has been initialised, ...                         *)
ListenerInv(p) ==
    /\ unsubscribe[p] <=> initialization[p] = Done
    /\ listeners[p] = IF initialization[p] = Done THEN 1 ELSE 0

(* ... start() goes on in an initialised queue, and destroy() finds        *)
(* nothing under way.                                                      *)
LivesInv(p) ==
    /\ starting[p] # None => initialization[p] = starting[p]
    /\ started[p] => initialization[p] = Done
    /\ destroying[p] =>
          starting[p] = None /\ ~started[p] /\ \A r \in Slots : runs[p][r].pc = "none"

(* Nothing that was closed or rejected is left for a later call: who       *)
(* migrates is awaited by a run, and the faults a run has met are counted. *)
FreshInv(p) ==
    /\ schema[p] # Rejected
    /\ \A r \in Slots :
          ~runs[p][r].closed /\ runs[p][r].awaits # Rejected /\ runs[p][r].since <= faults[p]
    /\ \A m \in Slots :
          /\ ~migrators[p][m].closed
          /\ migrators[p][m].pc # "none" =>
                \E r \in Slots : runs[p][r].pc = "schema" /\ runs[p][r].awaits = m

SequentialInv ==
    \A p \in Instances : OneRun(p) /\ ListenerInv(p) /\ LivesInv(p) /\ FreshInv(p)

(* A listener has been told the present state of the network.              *)
NetworkInv == \A p \in Instances : listeners[p] > 0 => (wasOffline[p] <=> ~Online)
==============================================================================
