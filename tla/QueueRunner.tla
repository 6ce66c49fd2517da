------------------------------ MODULE QueueRunner ------------------------------
(***************************************************************************)
(* How one queue instance finds work: the triggers and process() of        *)
(* core/queue/upload-queue.ts, the exclusive pass of queue-coordinator.ts, *)
(* the drain loop of queue-runner.ts and the wake timer.  UploadLifecycle  *)
(* takes launches as given and looks inside an attempt; this module takes  *)
(* an attempt as claim, outcome, settlement, and asks which uploads are    *)
(* launched, when, and whether anything due is forgotten.                  *)
(*                                                                         *)
(* JavaScript runs one continuation at a time, so an action is what runs   *)
(* between two awaits, and a call of process() is a program counter.  The  *)
(* uploads are numbered in the order of createdAt.                         *)
(***************************************************************************)
EXTENDS WakeScheduler, FiniteSets

CONSTANTS
    Uploads,      \* 1 .. n, in the order of createdAt
    Callers,      \* bound: calls of process() in progress at once
    Concurrency,  \* concurrencyLimit
    RetryDelays,  \* how far in the future a retry may be scheduled
    AppCalls,     \* what the application calls
    MaxCalls,     \* bound: calls of the application altogether
    MaxOutages,   \* bound: losses of connectivity altogether
    MaxRetries,   \* bound: retries scheduled altogether (the code has maxAttempts)
    MaxFaults,    \* bound: storage and connectivity faults altogether
    MaxTime       \* bound: clock

ASSUME RunnerAssumption ==
    /\ Uploads \subseteq Nat /\ IsFiniteSet(Uploads)
    /\ Callers \subseteq Nat
    /\ Concurrency \in Nat \ {0}
    /\ RetryDelays \subseteq Nat
    /\ AppCalls \subseteq {"start", "process", "stop", "park", "unpark"}
    /\ MaxCalls \in Nat /\ MaxOutages \in Nat /\ MaxRetries \in Nat
    /\ MaxFaults \in Nat /\ MaxTime \in Nat

VARIABLES
    rows,          \* [Uploads -> status, nextAttemptAt and who claimed]
    now,           \* the clock
    online,        \* what isOnline() answers
    started,       \* start() was called, stop() was not called since
    shuttingDown,  \* a stop() is waiting for the batch
    running,       \* QueueCoordinator.running
    rerun,         \* rerunRequested
    calls,         \* [Callers -> call of process() in progress]
    gen,           \* how many passes died with their attempts in flight
    att,           \* [0 .. MaxFaults -> [Uploads -> attempt of such a pass]]
    stalled,       \* the pass: uploads not to be launched again
    limit,         \* the pass: argument of the getPending() in progress
    fetched,       \* the pass: what getPending() returned
    raced,         \* the pass: attempts in Promise.race()
    taken,         \* history: claimed by this pass, not touched by the user since
    overtaken,     \* history: an attempt has settled since limit was computed
    stop,          \* the stop() in progress: attempts it waits for
    used           \* [calls, outages, retries, faults] so far

table == <<rows, now, online>>
flags == <<started, shuttingDown, stop>>
lock == <<running, rerun>>
pass == <<stalled, limit, fetched, raced, taken, overtaken>>
wake == <<timers, timer>>
vars == <<table, flags, lock, calls, gen, att, pass, wake, used>>

(* Where a call of process() is.  "called": before the lock.  "isOnline",  *)
(* "loopOnline", "fetch", "fetched", "race", "all": the awaits of run().   *)
(* "unlock" and "rejected": run() has returned or thrown, the lock is      *)
(* still held.  "recheck": the lock is free, the rerun flag not yet read.  *)
(* "wake", "query": scheduleWake() after a call made in the background.    *)
Looping == {"loopOnline", "fetch", "fetched", "race", "all"}
Holding == {"isOnline", "unlock", "rejected"} \cup Looping
Phase == {"idle", "called", "recheck", "wake", "query"} \cup Holding

(* Where an attempt is.  "claim": claim() not yet run.  "lost": it claimed *)
(* nothing, and the row is to be read.  "busy": claimed.  "release":       *)
(* releaseClaim() is to give the claim back.  "pending", "other": it has   *)
(* returned or thrown, its continuations not yet run; "pending" stalls.    *)
AttemptPhase == {"none", "claim", "lost", "busy", "release", "pending", "other"}

Generations == 0 .. MaxFaults

Row == [status: {"none", "pending", "uploading", "parked"},
        at: Nat \cup {NULL}, by: Generations \cup {NULL}]

(* Mutation: the retry is scheduled a tick early. *)
PendingEarly(at) ==
    [status |-> "pending", at |-> IF at = NULL THEN NULL ELSE at - 1, by |-> NULL]

PendingAt(at) == [status |-> "pending", at |-> at, by |-> NULL]

(* paused, cancelled, completed, failed or blocked *)
Parked == [status |-> "parked", at |-> NULL, by |-> NULL]

Init ==
    /\ rows = [u \in Uploads |-> [status |-> "none", at |-> NULL, by |-> NULL]]
    /\ now = 0
    /\ online \in (IF MaxOutages = 0 THEN {TRUE} ELSE BOOLEAN)
    /\ started = FALSE /\ shuttingDown = FALSE
    /\ running = FALSE /\ rerun = FALSE
    /\ calls = [c \in Callers |-> [pc |-> "idle", wakes |-> FALSE]]
    /\ gen = 0
    /\ att = [g \in Generations |-> [u \in Uploads |-> "none"]]
    /\ stalled = {} /\ limit = 0 /\ fetched = {} /\ raced = {}
    /\ taken = {} /\ overtaken = FALSE
    /\ stop = [on |-> FALSE, waits |-> {}]
    /\ used = [calls |-> 0, outages |-> 0, retries |-> 0, faults |-> 0]
    /\ WakeInit

-----------------------------------------------------------------------------
(* Helpers                                                                 *)

(* Mutation: the slot is released when the attempt returns, before its     *)
(* promise settles.                                                        *)
InFlightUntilReturn == {u \in Uploads : att[gen][u] \in {"claim", "lost", "busy", "release"}}

InFlight == {u \in Uploads : att[gen][u] # "none"}

Due(u) == rows[u].status = "pending" /\ (rows[u].at # NULL => rows[u].at <= now)

(* The n uploads of S created first. *)
First(S, n) == {u \in S : Cardinality({v \in S : v < u}) < n}

Goto(c, pc) == calls' = [calls EXCEPT ![c].pc = pc]

(* Mutation: a background trigger forgets to schedule the next wake. *)
ReturnQuietly(c) == Goto(c, "idle")

(* process() returns to its caller: only a background trigger and start()  *)
(* go on to scheduleWake().                                                *)
Return(c) == Goto(c, IF calls[c].wakes THEN "wake" ELSE "idle")

(* A free slot starts a call of process(). *)
Call(wakes) ==
    \E c \in Callers :
        /\ calls[c].pc = "idle"
        /\ \A d \in Callers : calls[d].pc = "idle" => c <= d
        /\ calls' = [calls EXCEPT ![c] = [pc |-> "called", wakes |-> wakes]]

TriggerIfStarted == IF started THEN Call(TRUE) ELSE UNCHANGED calls

Spend(what) == used' = [used EXCEPT ![what] = @ + 1]

AppCall(name) == name \in AppCalls /\ used.calls < MaxCalls /\ Spend("calls")

-----------------------------------------------------------------------------
(* process() and the exclusive lock                                        *)

(* Mutation: a call that finds the lock taken leaves no note. *)
EnterPassUnnoticed(c) ==
    IF running
       THEN UNCHANGED lock /\ Return(c)
       ELSE running' = TRUE /\ UNCHANGED rerun /\ Goto(c, "isOnline")

(* Mutation: the lock is not looked at. *)
EnterPassUnlocked(c) == running' = TRUE /\ UNCHANGED rerun /\ Goto(c, "isOnline")

EnterPass(c) ==
    IF running
       THEN UNCHANGED running /\ rerun' = TRUE /\ Return(c)
       ELSE running' = TRUE /\ UNCHANGED rerun /\ Goto(c, "isOnline")

Enter(c) ==
    /\ calls[c].pc = "called"
    /\ EnterPass(c)
    /\ UNCHANGED <<table, flags, gen, att, pass, wake, used>>

Unlock(c) ==
    /\ calls[c].pc = "unlock"
    /\ running' = FALSE
    /\ Goto(c, "recheck")
    /\ UNCHANGED <<table, flags, rerun, gen, att, pass, wake, used>>

(* The loop of process(). *)
Recheck(c) ==
    /\ calls[c].pc = "recheck"
    /\ IF rerun THEN EnterPass(c) ELSE Return(c) /\ UNCHANGED lock
    /\ UNCHANGED <<table, flags, gen, att, pass, wake, used>>

(* Mutation: the lock is released on success only. *)
RejectLocked(c) ==
    /\ calls[c].pc = "rejected"
    /\ Goto(c, "idle")
    /\ UNCHANGED <<table, flags, lock, gen, att, pass, wake, used>>

(* The rejection passes through process(), and skips scheduleWake(). *)
Reject(c) ==
    /\ calls[c].pc = "rejected"
    /\ running' = FALSE
    /\ Goto(c, "idle")
    /\ UNCHANGED <<table, flags, rerun, gen, att, pass, wake, used>>

-----------------------------------------------------------------------------
(* The pass: QueueRunner.run()                                             *)

(* The top of the loop, up to its await. *)
Lap(c) == Goto(c, IF shuttingDown THEN "all" ELSE "loopOnline")

(* Mutation: the rerun flag is read and not consumed. *)
RestUnconsumed(c, inFlight) ==
    IF inFlight # {}
       THEN Goto(c, "race") /\ raced' = inFlight /\ UNCHANGED rerun
       ELSE /\ IF rerun THEN Lap(c) ELSE Goto(c, "all")
            /\ UNCHANGED <<raced, rerun>>

(* Nothing more to launch: wait for an attempt, take another lap, or end. *)
Rest(c, inFlight) ==
    IF inFlight # {}
       THEN Goto(c, "race") /\ raced' = inFlight /\ UNCHANGED rerun
       ELSE /\ rerun' = FALSE
            /\ IF rerun THEN Lap(c) ELSE Goto(c, "all")
            /\ UNCHANGED raced

(* Mutation: the fetch does not allow for the stalled uploads. *)
FillBareLimit(c, inFlight) ==
    LET remaining == Concurrency - Cardinality(inFlight)
    IN  IF remaining > 0
           THEN Goto(c, "fetch") /\ limit' = remaining /\ overtaken' = FALSE
                /\ UNCHANGED <<rerun, raced>>
           ELSE Rest(c, inFlight) /\ limit' = 0 /\ UNCHANGED overtaken

(* while (concurrency.remaining > 0): ask for enough rows to see past the *)
(* stalled ones.                                                          *)
Fill(c, inFlight) ==
    LET remaining == Concurrency - Cardinality(inFlight)
    IN  IF remaining > 0
           THEN /\ Goto(c, "fetch")
                /\ limit' = remaining + Cardinality(stalled)
                /\ overtaken' = FALSE
                /\ UNCHANGED <<rerun, raced>>
           ELSE Rest(c, inFlight) /\ limit' = 0 /\ UNCHANGED overtaken

(* Offline, run() returns at once; the rerun flag is not consumed. *)
BeginPass(c) ==
    /\ calls[c].pc = "isOnline"
    /\ IF online
          THEN rerun' = FALSE /\ Lap(c)
          ELSE UNCHANGED rerun /\ Goto(c, "unlock")
    /\ UNCHANGED <<table, flags, running, gen, att, pass, wake, used>>

CheckOnline(c) ==
    /\ calls[c].pc = "loopOnline"
    /\ IF online
          THEN Fill(c, InFlight)
          ELSE Goto(c, "all") /\ UNCHANGED <<limit, rerun, raced, overtaken>>
    /\ UNCHANGED <<table, flags, running, gen, att, stalled, fetched, taken, wake, used>>

GetPending(c) ==
    /\ calls[c].pc = "fetch"
    /\ fetched' = First({u \in Uploads : Due(u)}, limit)
    /\ limit' = 0
    /\ Goto(c, "fetched")
    /\ UNCHANGED <<table, flags, lock, gen, att, stalled, raced, taken, overtaken, wake, used>>

Chosen(rowsFetched) ==
    First((rowsFetched \ stalled) \ InFlight, Concurrency - Cardinality(InFlight))

Launch(c) ==
    /\ calls[c].pc = "fetched"
    /\ fetched' = {}
    /\ LET next == Chosen(fetched)
       IN  IF next = {}
              THEN Rest(c, InFlight) /\ UNCHANGED <<att, limit, overtaken>>
              ELSE /\ att' = [att EXCEPT ![gen] =
                                 [u \in Uploads |-> IF u \in next THEN "claim" ELSE @[u]]]
                   /\ Fill(c, InFlight \cup next)
    /\ UNCHANGED <<table, flags, running, gen, stalled, taken, wake, used>>

RaceWon(c) ==
    /\ calls[c].pc = "race"
    /\ raced \ InFlight # {}
    /\ raced' = {}
    /\ Lap(c)
    /\ UNCHANGED <<table, flags, lock, gen, att, stalled, limit, fetched, taken, overtaken, wake,
                   used>>

(* await Promise.all(), and the pass is over. *)
EndPass(c) ==
    /\ calls[c].pc = "all"
    /\ InFlight = {}
    /\ Goto(c, "unlock")
    /\ stalled' = {} /\ taken' = {}
    /\ UNCHANGED <<table, flags, lock, gen, att, limit, fetched, raced, overtaken, wake, used>>

(* isOnline() or getPending() throws.  The finally clause forgets the      *)
(* batch: its attempts live on, but no pass and no stop() knows of them.   *)
PassFault(c) ==
    /\ calls[c].pc \in {"isOnline", "loopOnline", "fetch"}
    /\ used.faults < MaxFaults
    /\ Spend("faults")
    /\ gen' = gen + 1
    /\ Goto(c, "rejected")
    /\ stalled' = {} /\ taken' = {} /\ limit' = 0
    /\ UNCHANGED <<table, flags, lock, att, fetched, raced, overtaken, wake>>

-----------------------------------------------------------------------------
(* An attempt: processor.process() and its continuations in launch()       *)

AttemptGoto(g, u, pc) == att' = [att EXCEPT ![g][u] = pc]

(* The UPDATE of claim(). *)
Mark(g, u) ==
    /\ rows' = [rows EXCEPT ![u] = [status |-> "uploading", at |-> NULL, by |-> g]]
    /\ taken' = IF g = gen THEN taken \cup {u} ELSE taken

Claim(g, u) ==
    /\ att[g][u] = "claim"
    /\ IF Due(u)
          THEN Mark(g, u) /\ AttemptGoto(g, u, "busy")
          ELSE UNCHANGED <<rows, taken>> /\ AttemptGoto(g, u, "lost")
    /\ UNCHANGED <<now, online, flags, lock, calls, gen, stalled, limit, fetched, raced, overtaken,
                   wake, used>>

Owns(g, u) == rows[u].status = "uploading" /\ rows[u].by = g

(* get(): an attempt that does not own the row reports what the row is. *)
Reports(g, u) == AttemptGoto(g, u, IF rows[u].status = "pending" THEN "pending" ELSE "other")

(* Mutation: the attempt ends without its write. *)
EndsUnwritten(g, u, row, returned) == UNCHANGED rows /\ AttemptGoto(g, u, returned)

Ends(g, u, row, returned) ==
    /\ rows' = [rows EXCEPT ![u] = row]
    /\ AttemptGoto(g, u, returned)

(* claim() returned null. *)
ReadStatus(g, u) ==
    /\ att[g][u] = "lost"
    /\ Reports(g, u)
    /\ UNCHANGED <<table, flags, lock, calls, gen, pass, wake, used>>

(* runClaimed() up to its fenced write: the answer, a retry, or deferred   *)
(* for want of a network.  Who has lost the row never gets it back, so the *)
(* write that is dropped and the read after it are one step.               *)
Finish(g, u) ==
    /\ att[g][u] = "busy"
    /\ IF Owns(g, u)
          THEN \/ Ends(g, u, Parked, "other") /\ UNCHANGED used
               \/ /\ used.retries < MaxRetries /\ Spend("retries")
                  /\ \E d \in RetryDelays : Ends(g, u, PendingAt(now + d), "pending")
               \/ ~online /\ Ends(g, u, PendingAt(NULL), "pending") /\ UNCHANGED used
          ELSE Reports(g, u) /\ UNCHANGED <<rows, used>>
    /\ UNCHANGED <<now, online, flags, lock, calls, gen, pass, wake>>

(* stop() has aborted it.  Whether the abort reached this very attempt is  *)
(* UploadLifecycle's subject.                                              *)
Interrupt(g, u) ==
    /\ att[g][u] = "busy" /\ shuttingDown
    /\ AttemptGoto(g, u, "release")
    /\ UNCHANGED <<table, flags, lock, calls, gen, pass, wake, used>>

(* releaseClaim() *)
Release(g, u) ==
    /\ att[g][u] = "release"
    /\ IF Owns(g, u) THEN Ends(g, u, PendingAt(NULL), "pending")
                     ELSE Reports(g, u) /\ UNCHANGED rows
    /\ UNCHANGED <<now, online, flags, lock, calls, gen, pass, wake, used>>

(* Mutation: an upload back on pending is not kept out of the pass. *)
SettleUnstalled(g, u) ==
    /\ att[g][u] \in {"pending", "other"}
    /\ AttemptGoto(g, u, "none")
    /\ stop' = [stop EXCEPT !.waits = @ \ {<<g, u>>}]
    /\ UNCHANGED <<table, started, shuttingDown, lock, calls, gen, pass, wake, used>>

(* then and finally of launch(): the pass that launched the upload stalls  *)
(* it if it is pending again, and has a slot free.                         *)
Settle(g, u) ==
    /\ att[g][u] \in {"pending", "other"}
    /\ AttemptGoto(g, u, "none")
    /\ stalled' = IF g = gen /\ att[g][u] = "pending" THEN stalled \cup {u} ELSE stalled
    /\ overtaken' = (overtaken \/ g = gen)
    /\ stop' = [stop EXCEPT !.waits = @ \ {<<g, u>>}]
    /\ UNCHANGED <<table, started, shuttingDown, lock, calls, gen, limit, fetched, raced, taken,
                   wake, used>>

(* A statement of claim() throws: process() rejects, and the upload is     *)
(* stalled.  After the UPDATE the row stays claimed by nobody.             *)
ClaimFault(g, u) ==
    /\ att[g][u] = "claim"
    /\ used.faults < MaxFaults /\ Spend("faults")
    /\ UNCHANGED <<rows, taken>> \/ (Due(u) /\ Mark(g, u))
    /\ AttemptGoto(g, u, "pending")
    /\ UNCHANGED <<now, online, flags, lock, calls, gen, stalled, limit, fetched, raced, overtaken,
                   wake>>

(* The get() after a claim() that returned null throws: process() rejects. *)
ReadFault(g, u) ==
    /\ att[g][u] = "lost"
    /\ used.faults < MaxFaults /\ Spend("faults")
    /\ AttemptGoto(g, u, "pending")
    /\ UNCHANGED <<table, flags, lock, calls, gen, pass, wake>>

(* Anything runClaimed() awaits throws: process() releases the claim.      *)
AttemptFault(g, u) ==
    /\ att[g][u] = "busy"
    /\ used.faults < MaxFaults /\ Spend("faults")
    /\ AttemptGoto(g, u, "release")
    /\ UNCHANGED <<table, flags, lock, calls, gen, pass, wake>>

(* releaseClaim() swallows the failure of its own write, and reports       *)
(* pending for a row that stays claimed.                                   *)
ReleaseFault(g, u) ==
    /\ att[g][u] = "release"
    /\ used.faults < MaxFaults /\ Spend("faults")
    /\ AttemptGoto(g, u, "pending")
    /\ UNCHANGED <<table, flags, lock, calls, gen, pass, wake>>

-----------------------------------------------------------------------------
(* scheduleWake() and the timer                                            *)

ScheduleWake(c) ==
    /\ calls[c].pc = "wake"
    /\ CancelTimer
    /\ Goto(c, IF started THEN "query" ELSE "idle")
    /\ UNCHANGED <<table, flags, lock, gen, att, pass, used>>

(* getEarliestNextAttemptAt(), and setTimeout() in its continuation. *)
ArmTimer(c) ==
    /\ calls[c].pc = "query"
    /\ LET retries == {u \in Uploads : rows[u].status = "pending" /\ rows[u].at # NULL}
       IN  IF retries = {}
              THEN UNCHANGED wake
              ELSE \E u \in retries :
                      /\ \A v \in retries : rows[u].at <= rows[v].at
                      /\ SetTimer(rows[u].at)
    /\ Goto(c, "idle")
    /\ UNCHANGED <<table, flags, lock, gen, att, pass, used>>

(* A timer fires: onWake() triggers, started or not. *)
Wake(h) ==
    /\ Expire(h, now)
    /\ Call(TRUE)
    /\ UNCHANGED <<table, flags, lock, gen, att, pass, used>>

-----------------------------------------------------------------------------
(* The application, the user and the network                               *)

Tick ==
    /\ now < MaxTime
    /\ now' = now + 1
    /\ UNCHANGED <<rows, online, flags, lock, calls, gen, att, pass, wake, used>>

Enqueue(u) ==
    /\ rows[u].status = "none"
    /\ \A v \in Uploads : v < u => rows[v].status # "none"
    /\ rows' = [rows EXCEPT ![u].status = "pending"]
    /\ TriggerIfStarted
    /\ UNCHANGED <<now, online, flags, lock, gen, att, pass, wake, used>>

Start ==
    /\ AppCall("start")
    /\ started' = TRUE
    /\ Call(TRUE)
    /\ UNCHANGED <<table, shuttingDown, stop, lock, gen, att, pass, wake>>

Process ==
    /\ AppCall("process")
    /\ Call(FALSE)
    /\ UNCHANGED <<table, flags, lock, gen, att, pass, wake>>

(* pause() and cancel().  The attempt they abort finds the row not its own *)
(* whenever it ends.                                                       *)
Park(u) ==
    /\ AppCall("park")
    /\ rows[u].status \in {"pending", "uploading"}
    /\ rows' = [rows EXCEPT ![u] = Parked]
    /\ taken' = taken \ {u}
    /\ UNCHANGED <<now, online, flags, lock, calls, gen, att, stalled, limit, fetched, raced,
                   overtaken, wake>>

(* resume() and retry(). *)
Unpark(u) ==
    /\ AppCall("unpark")
    /\ rows[u].status = "parked"
    /\ rows' = [rows EXCEPT ![u].status = "pending"]
    /\ taken' = taken \ {u}
    /\ TriggerIfStarted
    /\ UNCHANGED <<now, online, flags, lock, gen, att, stalled, limit, fetched, raced, overtaken,
                   wake>>

StopBegin ==
    /\ AppCall("stop")
    /\ ~stop.on
    /\ started' = FALSE
    /\ CancelTimer
    /\ shuttingDown' = TRUE
    /\ stop' = [on |-> TRUE, waits |-> {gen} \X InFlight]
    /\ UNCHANGED <<table, lock, calls, gen, att, pass>>

(* drain() has returned. *)
StopEnd ==
    /\ stop.on
    /\ stop.waits = {}
    /\ shuttingDown' = FALSE
    /\ stop' = [stop EXCEPT !.on = FALSE]
    /\ UNCHANGED <<table, started, lock, calls, gen, att, pass, wake, used>>

GoOffline ==
    /\ online
    /\ used.outages < MaxOutages
    /\ Spend("outages")
    /\ online' = FALSE
    /\ UNCHANGED <<rows, now, flags, lock, calls, gen, att, pass, wake>>

(* The listener of the connectivity provider runs as the state changes. *)
GoOnline ==
    /\ ~online
    /\ online' = TRUE
    /\ TriggerIfStarted
    /\ UNCHANGED <<rows, now, flags, lock, gen, att, pass, wake, used>>

-----------------------------------------------------------------------------
CallStep(c) ==
    \/ Enter(c) \/ Unlock(c) \/ Recheck(c) \/ Reject(c)
    \/ BeginPass(c) \/ CheckOnline(c) \/ GetPending(c) \/ Launch(c) \/ RaceWon(c) \/ EndPass(c)
    \/ ScheduleWake(c) \/ ArmTimer(c)

AttemptStep(g, u) ==
    \/ Claim(g, u) \/ ReadStatus(g, u)
    \/ Finish(g, u) \/ Interrupt(g, u) \/ Release(g, u)
    \/ Settle(g, u)

AttemptThrows(g, u) ==
    ClaimFault(g, u) \/ ReadFault(g, u) \/ AttemptFault(g, u) \/ ReleaseFault(g, u)

Next ==
    \/ \E c \in Callers : CallStep(c) \/ PassFault(c)
    \/ \E g \in Generations, u \in Uploads : AttemptStep(g, u) \/ AttemptThrows(g, u)
    \/ \E h \in Handles : Wake(h)
    \/ \E u \in Uploads : Enqueue(u) \/ Park(u) \/ Unpark(u)
    \/ Start \/ Process \/ StopBegin \/ StopEnd
    \/ Tick \/ GoOffline \/ GoOnline

Spec == Init /\ [][Next]_vars

(* Continuations run, attempts end (the transport has a deadline), timers  *)
(* that are due fire.  The application, the network and the clock owe      *)
(* nothing.                                                                *)
Fairness ==
    /\ \A c \in Callers : WF_vars(CallStep(c))
    /\ \A g \in Generations, u \in Uploads : WF_vars(AttemptStep(g, u))
    /\ \A h \in Handles : WF_vars(Wake(h))
    /\ WF_vars(StopEnd)

FairSpec == Spec /\ Fairness

-----------------------------------------------------------------------------
(* Safety                                                                  *)

TypeOK ==
    /\ rows \in [Uploads -> Row]
    /\ now \in Nat
    /\ online \in BOOLEAN /\ started \in BOOLEAN /\ shuttingDown \in BOOLEAN
    /\ running \in BOOLEAN /\ rerun \in BOOLEAN
    /\ calls \in [Callers -> [pc: Phase, wakes: BOOLEAN]]
    /\ gen \in Generations
    /\ att \in [Generations -> [Uploads -> AttemptPhase]]
    /\ stalled \in SUBSET Uploads /\ taken \in SUBSET Uploads
    /\ overtaken \in BOOLEAN
    /\ fetched \in SUBSET Uploads /\ raced \in SUBSET Uploads
    /\ limit \in Nat
    /\ stop \in [on: BOOLEAN, waits: SUBSET (Generations \X Uploads)]
    /\ used \in [calls: Nat, outages: Nat, retries: Nat, faults: Nat]
    /\ WakeType

(* process() is single-flight: of all the calls, however they were made    *)
(* and whatever threw, at most one is inside a pass, and the lock is taken *)
(* exactly while one is.                                                   *)
SingleFlight ==
    /\ running <=> \E c \in Callers : calls[c].pc \in Holding
    /\ \A c, d \in Callers : calls[c].pc \in Holding /\ calls[d].pc \in Holding => c = d

(* README.md: concurrency is a hard cap on the uploads of the instance in  *)
(* flight, over all its passes.                                            *)
HardCap ==
    Cardinality({x \in Generations \X Uploads : att[x[1]][x[2]] # "none"}) <= Concurrency

(* A pass marks an upload as its own once, unless the user moves it        *)
(* meanwhile: one that comes back to pending cannot make the pass spin.    *)
(* It may launch it again, on a row that getPending() read before the      *)
(* first attempt ended, and that second attempt finds nothing to claim.    *)
OncePerPass ==
    [][\A u \in Uploads :
          ~Owns(gen, u) /\ Owns(gen, u)' /\ gen' = gen => u \notin taken]_vars

(* A pass gives up only when every upload that is due has had its turn:    *)
(* those it has stalled do not hide one that is behind them in the order   *)
(* of creation.  An attempt that settles during the await of getPending()  *)
(* is not in the limit that was computed before it, and may hide one.      *)
StalledHideNobody ==
    [][\A c \in Callers :
          (/\ calls[c].pc = "fetch" /\ calls'[c].pc = "fetched"
           /\ InFlight = {} /\ fetched' \subseteq stalled /\ ~overtaken)
          => \A u \in Uploads : Due(u) => u \in stalled]_vars

(* Uploads marked uploading with no attempt at work that will let them go. *)
Unattended ==
    {u \in Uploads : /\ rows[u].status = "uploading"
                     /\ ~\E g \in Generations :
                           rows[u].by = g /\ att[g][u] \in {"busy", "release"}}

(* Claims are left without an attempt by faults of their own alone, one by *)
(* each: by one after claim() has marked the row, or by one in the write   *)
(* that gives it back.  stop(), a lost network, a pause and a pass that is *)
(* rejected with attempts in flight abandon none.                          *)
ClaimsAttended == Cardinality(Unattended) <= used.faults - gen

(* Every pass that failed left one batch behind, and nobody launches into  *)
(* a batch that is not there yet.                                          *)
Batch(g) == {u \in Uploads : att[g][u] # "none"}

BatchesCounted ==
    /\ gen <= used.faults /\ used.faults <= MaxFaults
    /\ \A g \in Generations : Batch(g) # {} => g <= gen

(* The batch of the present pass has a call of process() that drains it.   *)
BatchDrained == Batch(gen) # {} => \E c \in Callers : calls[c].pc \in Looping

(* concurrencyLimit caps every pass. *)
PassCap == \A g \in Generations : Cardinality(Batch(g)) <= Concurrency

(* An upload that the pass has claimed, and the user has not moved since,  *)
(* is one it still holds, or will not or cannot claim again.               *)
TakenSpent ==
    \A u \in taken :
        \/ att[gen][u] \in {"busy", "release"} /\ Owns(gen, u)
        \/ att[gen][u] = "pending"
        \/ att[gen][u] \notin {"busy", "release"} /\ rows[u].status = "parked"
        \/ u \in stalled

StalledSettled == \A u \in stalled : att[gen][u] = "none"

(* While getPending() runs and nothing settles, its limit stands.          *)
LimitStands ==
    \A c \in Callers : calls[c].pc = "fetch" /\ ~overtaken =>
        limit = Concurrency - Cardinality(InFlight) + Cardinality(stalled)

(* The inductive invariant. *)
IInv ==
    /\ TypeOK /\ SingleFlight /\ BatchesCounted /\ BatchDrained /\ PassCap
    /\ ClaimsAttended /\ TakenSpent /\ StalledSettled /\ LimitStands

(* While the queue is started and at rest, every scheduled retry has a     *)
(* timer that will fire by the time it is due.                             *)
RetriesHaveTimer ==
    (started /\ \A c \in Callers : calls[c].pc = "idle") =>
        \A u \in Uploads :
            rows[u].status = "pending" /\ rows[u].at # NULL
            => \E h \in Alive : timers[h] <= rows[u].at

(* What it rests on where nothing throws and only the queue itself calls   *)
(* process(): every call goes through scheduleWake() on its way out.       *)
WakeInv ==
    /\ \A u \in Uploads : rows[u].status # "pending" => rows[u].at = NULL
    /\ \A c \in Callers :
          calls[c].pc # "idle" => calls[c].wakes /\ calls[c].pc # "rejected"
    /\ RetriesHaveTimer

(* When stop() returns, nothing is in flight.  The code does not keep it:  *)
(* the pass may launch while stop() awaits a batch that was empty when it  *)
(* asked for it.  (A launch after the return is not looked at.)            *)
StopQuiesces ==
    [][stop.on /\ ~stop'.on => \A g \in Generations, u \in Uploads : att[g][u] = "none"]_vars

(* There is one timer for the next scheduled retry.                        *)
OneTimer == Cardinality(Alive) <= 1

(* stop() ends automatic scheduling: no timer outlives it.                 *)
TimersOnlyWhileStarted == Alive # {} => started

-----------------------------------------------------------------------------
(* Liveness                                                                *)

(* While the queue is started and online, an upload that is due is taken.  *)
DueIsTaken ==
    \A u \in Uploads :
        (started /\ online /\ Due(u)) ~> (~started \/ ~online \/ ~Due(u))

(* A call of process() returns. *)
ProcessReturns ==
    \A c \in Callers : calls[c].pc = "called" ~> calls[c].pc = "idle"
=============================================================================
