---------------------------- MODULE UploadLifecycle ----------------------------
(***************************************************************************)
(* The life of uploads stored in one table and processed by one or more    *)
(* queue instances (processes) that may crash and restart: claims, the     *)
(* upload attempt of core/processor/upload-processor.ts with its fenced    *)
(* writes, the user commands and stop() of core/queue/upload-queue.ts, and *)
(* the recovery of abandoned claims when an instance initialises.          *)
(*                                                                         *)
(* Every await on storage, the transport or the file system is a place     *)
(* where the others run: an attempt and a command are sequences of         *)
(* actions, each reading or writing storage at most once.  Which pending   *)
(* row the runner launches, and when, is QueueRunner's subject; here any   *)
(* due row may be launched by any instance not already working on it.      *)
(***************************************************************************)
EXTENDS UploadTask, FiniteSets

CONSTANTS
    Uploads,      \* ids of the uploads
    Instances,    \* processes that open the same storage
    Clients,      \* concurrent callers of the user commands
    Stoppers,     \* concurrent callers of stop()
    Commands,     \* the user commands in play
    HttpCodes,    \* statuses the server may answer with
    Errors,       \* what the transport may throw
    MaxAttempts,  \* retry.maxAttempts, written on every row
    RetryDelays,  \* what the backoff, or Retry-After, may return
    Timeout,      \* recovery.processingTimeoutMs
    MaxClaims,    \* bound: attempts launched altogether
    MaxTime,      \* bound: clock
    MaxCrashes,   \* bound: crashes altogether
    MaxFaults     \* bound: storage, connectivity and file-system faults altogether

ASSUME LifecycleAssumption ==
    /\ Commands \subseteq {"pause", "resume", "cancel", "retry"}
    /\ HttpCodes \subseteq Nat
    /\ Errors \subseteq Thrown
    /\ MaxAttempts \in Nat
    /\ RetryDelays \subseteq Nat
    /\ Timeout \in Nat
    /\ MaxClaims \in Nat /\ MaxTime \in Nat
    /\ MaxCrashes \in Nat /\ MaxFaults \in Nat
    /\ NULL \notin Instances

VARIABLES
    rows,          \* [Uploads -> Row]: the stored table, survives crashes
    now,           \* the clock
    up,            \* [Instances -> BOOLEAN]: initialised and running
    att,           \* [Instances -> [Uploads -> attempt]]: attempts in flight
    controllers,   \* [Instances -> SUBSET Uploads]: AbortControllers registered
    shuttingDown,  \* [Instances -> BOOLEAN]
    stop,          \* [Stoppers -> stop() call in progress: instance and batch awaited]
    cmd,           \* [Clients -> command between its get and its update]
    nextToken,     \* the next createId() for a claim
    crashes,       \* crashes so far
    faults         \* faults so far

vars == <<rows, now, up, att, controllers, shuttingDown, stop, cmd, nextToken, crashes, faults>>

(* Where an attempt is.  "claim": process() called, the conditional UPDATE *)
(* not yet run.  "readback": claimed, the SELECT by token not yet run.     *)
(* "preflight": connectivity and file checks.  "transport": the request.   *)
(* "aborted": AbortError caught, row to be re-read.  "shutdown?": row      *)
(* re-read, neither paused nor cancelled.  "commit" and "release": a       *)
(* fenced write of next is under way, inside or outside the catch of       *)
(* releaseClaim.                                                           *)
Phase == {"idle", "claim", "readback", "preflight", "transport", "aborted", "shutdown?",
          "commit", "release"}

Attempt == [pc: Phase, token: Nat \cup {NULL}, at: Nat, task: Row, next: Row, aborted: BOOLEAN]

IdleAttempt == [pc |-> "idle", token |-> NULL, at |-> 0, task |-> NoRow, next |-> NoRow,
                aborted |-> FALSE]

IdleStop == [instance |-> NULL, batch |-> {}]

IdleCommand == [op |-> NULL, instance |-> NULL, upload |-> NULL, task |-> NoRow]

Init ==
    /\ rows = [u \in Uploads |-> NoRow]
    /\ now = 0
    /\ up = [i \in Instances |-> FALSE]
    /\ att = [i \in Instances |-> [u \in Uploads |-> IdleAttempt]]
    /\ controllers = [i \in Instances |-> {}]
    /\ shuttingDown = [i \in Instances |-> FALSE]
    /\ stop = [s \in Stoppers |-> IdleStop]
    /\ cmd = [c \in Clients |-> IdleCommand]
    /\ nextToken = 0
    /\ crashes = 0
    /\ faults = 0

InFlight(i) == {u \in Uploads : att[i][u].pc # "idle"}

-----------------------------------------------------------------------------
(* The environment: time, enqueue, purge, processes coming and going       *)

Tick ==
    /\ now < MaxTime
    /\ now' = now + 1
    /\ UNCHANGED <<rows, up, att, controllers, shuttingDown, stop, cmd, nextToken, crashes, faults>>

Enqueue(u) ==
    /\ \E i \in Instances : up[i]
    /\ rows[u].status = "none"
    /\ rows' = [rows EXCEPT ![u] = Enqueued]
    /\ UNCHANGED <<now, up, att, controllers, shuttingDown, stop, cmd, nextToken, crashes, faults>>

(* purgeCompleted(olderThan) deletes the completed rows up to some age. *)
Purge(S) ==
    /\ \E i \in Instances : up[i]
    /\ S # {}
    /\ \A u \in S : rows[u].status = "completed"
    /\ rows' = [u \in Uploads |-> IF u \in S THEN [NoRow EXCEPT !.status = "purged"] ELSE rows[u]]
    /\ UNCHANGED <<now, up, att, controllers, shuttingDown, stop, cmd, nextToken, crashes, faults>>

(* initialize() is memoised: one recovery per process. *)
Initialize(i) ==
    /\ ~up[i]
    /\ up' = [up EXCEPT ![i] = TRUE]
    /\ rows' = [u \in Uploads |->
                  IF Abandoned(rows[u], now - Timeout) THEN Recovered(rows[u]) ELSE rows[u]]
    /\ UNCHANGED <<now, att, controllers, shuttingDown, stop, cmd, nextToken, crashes, faults>>

(* The process dies: everything but the table is gone. *)
Crash(i) ==
    /\ up[i]
    /\ crashes < MaxCrashes
    /\ crashes' = crashes + 1
    /\ up' = [up EXCEPT ![i] = FALSE]
    /\ att' = [att EXCEPT ![i] = [u \in Uploads |-> IdleAttempt]]
    /\ controllers' = [controllers EXCEPT ![i] = {}]
    /\ shuttingDown' = [shuttingDown EXCEPT ![i] = FALSE]
    /\ stop' = [s \in Stoppers |-> IF stop[s].instance = i THEN IdleStop ELSE stop[s]]
    /\ cmd' = [c \in Clients |-> IF cmd[c].instance = i THEN IdleCommand ELSE cmd[c]]
    /\ UNCHANGED <<rows, now, nextToken, faults>>

-----------------------------------------------------------------------------
(* An attempt: QueueRunner.launch and UploadProcessor.process              *)

(* Mutation: the promise that stop() awaits is not the one that settles. *)
SettleUnawaited(i, u) ==
    /\ att' = [att EXCEPT ![i][u] = IdleAttempt]
    /\ controllers' = [controllers EXCEPT ![i] = @ \ {u}]
    /\ UNCHANGED stop

(* The promise of the attempt settles: onSettled drops its controller, and *)
(* a stop() that awaits it has one attempt less to wait for.               *)
Settle(i, u) ==
    /\ att' = [att EXCEPT ![i][u] = IdleAttempt]
    /\ controllers' = [controllers EXCEPT ![i] = @ \ {u}]
    /\ stop' = [s \in Stoppers |->
                  IF stop[s].instance = i THEN [stop[s] EXCEPT !.batch = @ \ {u}] ELSE stop[s]]

(* The attempt goes on to its next await. *)
Goto(i, u, pc) ==
    /\ att' = [att EXCEPT ![i][u].pc = pc]
    /\ UNCHANGED <<controllers, stop>>

(* The attempt has decided what to write, and asks storage to write it. *)
Write(i, u, pc, row) ==
    /\ att' = [att EXCEPT ![i][u].pc = pc, ![i][u].next = row]
    /\ UNCHANGED <<controllers, stop>>

(* Mutation: the claim token is fixed instead of fresh. *)
LaunchSameToken(i, u) ==
    /\ up[i]
    /\ att[i][u].pc = "idle"
    /\ Due(rows[u], now)
    /\ nextToken < MaxClaims
    /\ att' = [att EXCEPT ![i][u] = [IdleAttempt EXCEPT !.pc = "claim", !.token = 0, !.at = now]]
    /\ nextToken' = nextToken + 1
    /\ UNCHANGED <<rows, now, up, controllers, shuttingDown, stop, cmd, crashes, faults>>

(* getPending() returned u at some point; claim() will check again, for    *)
(* the token and the time that process() took when it was called.          *)
Launch(i, u) ==
    /\ up[i]
    /\ att[i][u].pc = "idle"
    /\ Due(rows[u], now)
    /\ nextToken < MaxClaims
    /\ att' = [att EXCEPT ![i][u] = [IdleAttempt EXCEPT !.pc = "claim", !.token = nextToken,
                                                           !.at = now]]
    /\ nextToken' = nextToken + 1
    /\ UNCHANGED <<rows, now, up, controllers, shuttingDown, stop, cmd, crashes, faults>>

(* The conditional UPDATE of claim().  Time may have passed, and others    *)
(* may have claimed, paused or cancelled, since the row was fetched.       *)
ClaimRow(i, u) ==
    /\ att[i][u].pc = "claim"
    /\ IF Claimable(rows[u], att[i][u].at)
          THEN /\ rows' = [rows EXCEPT ![u] = Claimed(@, att[i][u].token, att[i][u].at)]
               /\ Goto(i, u, "readback")
          ELSE /\ Settle(i, u)
               /\ UNCHANGED rows
    /\ UNCHANGED <<now, up, shuttingDown, cmd, nextToken, crashes, faults>>

(* The SELECT by id and token of the SQLite claim(); the memory adapter    *)
(* returns the row in the same step, which is this action at once.         *)
ReadBack(i, u) ==
    /\ att[i][u].pc = "readback"
    /\ IF HeldBy(rows[u], att[i][u].token)
          THEN /\ att' = [att EXCEPT ![i][u].pc = "preflight", ![i][u].task = rows[u]]
               /\ UNCHANGED <<controllers, stop>>
          ELSE Settle(i, u)
    /\ UNCHANGED <<rows, now, up, shuttingDown, cmd, nextToken, crashes, faults>>

ReleaseOffline(i, u) ==
    /\ att[i][u].pc = "preflight"
    /\ Write(i, u, "commit", Deferred(att[i][u].task))
    /\ UNCHANGED <<rows, now, up, shuttingDown, cmd, nextToken, crashes, faults>>

FileMissing(i, u) ==
    /\ att[i][u].pc = "preflight"
    /\ Write(i, u, "commit", GivenUp(att[i][u].task, "failed", "file-not-found"))
    /\ UNCHANGED <<rows, now, up, shuttingDown, cmd, nextToken, crashes, faults>>

(* getAbortSignal registers a fresh controller, and the request starts. *)
StartUpload(i, u) ==
    /\ att[i][u].pc = "preflight"
    /\ att' = [att EXCEPT ![i][u].pc = "transport"]
    /\ controllers' = [controllers EXCEPT ![i] = @ \cup {u}]
    /\ UNCHANGED <<rows, now, up, shuttingDown, stop, cmd, nextToken, crashes, faults>>

(* updateProgress: one of the chained progress writes reaches storage. *)
PersistProgress(i, u) ==
    /\ att[i][u].pc = "transport"
    /\ ProgressApplies(rows[u], att[i][u].token)
    /\ rows' = [rows EXCEPT ![u].progress = 1]
    /\ UNCHANGED <<now, up, att, controllers, shuttingDown, stop, cmd, nextToken, crashes, faults>>

(* Mutation: a failed attempt is retried once more than maxAttempts. *)
FailureRowsOffByOne(task, kind) ==
    IF kind \in {"authentication", "authorization"}
       THEN {GivenUp(task, "blocked", kind)}
       ELSE IF kind \in RetryableKind /\ task.attempts <= MaxAttempts
            THEN {Rescheduled(task, kind, now + d) : d \in RetryDelays}
            ELSE {GivenUp(task, "failed", kind)}

(* handleFailure, its cancelled branch aside: the rows it may write. *)
FailureRows(task, kind) ==
    IF kind \in {"authentication", "authorization"}
       THEN {GivenUp(task, "blocked", kind)}
       ELSE IF kind \in RetryableKind /\ task.attempts + 1 < MaxAttempts
            THEN {Rescheduled(task, kind, now + d) : d \in RetryDelays}
            ELSE {GivenUp(task, "failed", kind)}

(* The server answers.  An abort that comes too late does not undo the     *)
(* answer, so this needs no ~aborted.                                      *)
Respond(i, u, code) ==
    /\ att[i][u].pc = "transport"
    /\ LET task == att[i][u].task
       IN  IF Accepted(code)
              THEN Write(i, u, "commit", Completed(task))
              ELSE \E row \in FailureRows(task, ClassifyHttpStatus(code)) :
                      Write(i, u, "commit", row)
    /\ UNCHANGED <<rows, now, up, shuttingDown, cmd, nextToken, crashes, faults>>

(* The transport throws something that is not the abort of its signal. *)
TransportThrows(i, u, thrown) ==
    /\ att[i][u].pc = "transport"
    /\ \E row \in FailureRows(att[i][u].task, ClassifyThrown(thrown)) :
          Write(i, u, "commit", row)
    /\ UNCHANGED <<rows, now, up, shuttingDown, cmd, nextToken, crashes, faults>>

AbortError(i, u) ==
    /\ att[i][u].pc = "transport"
    /\ att[i][u].aborted
    /\ Goto(i, u, "aborted")
    /\ UNCHANGED <<rows, now, up, shuttingDown, cmd, nextToken, crashes, faults>>

(* The two consecutive get() of the catch clause and of handleFailure,     *)
(* which ask the same question, are one read: settling on either read is   *)
(* settling on a read, going on is going on after the last.                *)
CheckDecision(i, u) ==
    /\ att[i][u].pc = "aborted"
    /\ IF rows[u].status \in {"paused", "cancelled"}
          THEN Settle(i, u)
          ELSE Goto(i, u, "shutdown?")
    /\ UNCHANGED <<rows, now, up, shuttingDown, cmd, nextToken, crashes, faults>>

(* Mutation: an abort is always taken for a failure. *)
AbortAlwaysFails(i, u) ==
    /\ att[i][u].pc = "shutdown?"
    /\ Write(i, u, "commit", GivenUp(att[i][u].task, "failed", "cancelled"))
    /\ UNCHANGED <<rows, now, up, shuttingDown, cmd, nextToken, crashes, faults>>

(* Mutation: an attempt that shutdown interrupted keeps its claim. *)
AbortKeepsClaim(i, u) ==
    /\ att[i][u].pc = "shutdown?"
    /\ Settle(i, u)
    /\ UNCHANGED <<rows, now, up, shuttingDown, cmd, nextToken, crashes, faults>>

(* Aborted, and not by a pause or a cancel that still stands. *)
ResolveAbort(i, u) ==
    /\ att[i][u].pc = "shutdown?"
    /\ IF shuttingDown[i]
          THEN Write(i, u, "release", Released(att[i][u].task, "cancelled"))
          ELSE Write(i, u, "commit", GivenUp(att[i][u].task, "failed", "cancelled"))
    /\ UNCHANGED <<rows, now, up, shuttingDown, cmd, nextToken, crashes, faults>>

(* updateOwned: written only while the row carries the attempt's token. *)
Commit(i, u) ==
    /\ att[i][u].pc \in {"commit", "release"}
    /\ rows' = IF HeldBy(rows[u], att[i][u].token)
                  THEN [rows EXCEPT ![u] = att[i][u].next] ELSE rows
    /\ Settle(i, u)
    /\ UNCHANGED <<now, up, shuttingDown, cmd, nextToken, crashes, faults>>

(* A statement of claim() throws: process() rejects and the runner stalls  *)
(* the upload.  After the UPDATE the row stays claimed by nobody.          *)
ClaimFault(i, u) ==
    /\ att[i][u].pc \in {"claim", "readback"}
    /\ faults < MaxFaults
    /\ faults' = faults + 1
    /\ Settle(i, u)
    /\ UNCHANGED <<rows, now, up, shuttingDown, cmd, nextToken, crashes>>

(* Anything runClaimed awaits throws: connectivity, the file provider, a   *)
(* progress write, get() or the commit.  process() catches it and releases *)
(* the claim, whatever the server said.                                    *)
AttemptFault(i, u) ==
    /\ att[i][u].pc \in {"preflight", "transport", "aborted", "commit"}
    /\ faults < MaxFaults
    /\ faults' = faults + 1
    /\ Write(i, u, "release", Released(att[i][u].task, "unknown"))
    /\ UNCHANGED <<rows, now, up, shuttingDown, cmd, nextToken, crashes>>

(* releaseClaim swallows the failure of its own write. *)
ReleaseFault(i, u) ==
    /\ att[i][u].pc = "release"
    /\ faults < MaxFaults
    /\ faults' = faults + 1
    /\ Settle(i, u)
    /\ UNCHANGED <<rows, now, up, shuttingDown, cmd, nextToken, crashes>>

-----------------------------------------------------------------------------
(* pause(), resume(), cancel(), retry() and stop()                         *)

AbortUploads(i, S) ==
    att' = [att EXCEPT ![i] = [u \in Uploads |->
              IF u \in S \cap controllers[i] THEN [@[u] EXCEPT !.aborted = TRUE] ELSE @[u]]]

Target == [pause |-> "paused", resume |-> "pending", cancel |-> "cancelled", retry |-> "pending"]

(* The early returns and the state-machine assertion of a command. *)
Permitted(op, row) ==
    /\ Present(row)
    /\ op # "retry" => row.status # Target[op]
    /\ CanTransition(row.status, Target[op])

CommandRead(c, i, op, u) ==
    /\ up[i]
    /\ cmd[c] = IdleCommand
    /\ Permitted(op, rows[u])
    /\ cmd' = [cmd EXCEPT ![c] = [op |-> op, instance |-> i, upload |-> u, task |-> rows[u]]]
    /\ UNCHANGED <<rows, now, up, att, controllers, shuttingDown, stop, nextToken, crashes, faults>>

Decision(op, task) == IF op = "retry" THEN Retried(task) ELSE Decided(task, Target[op])

(* update() writes the whole row the command read, whatever the row is by  *)
(* now, and throws only if it is gone.  The abort follows in the           *)
(* continuation of the update, before any later statement's.               *)
CommandWrite(c) ==
    /\ cmd[c] # IdleCommand
    /\ LET u == cmd[c].upload
           i == cmd[c].instance
       IN  IF Present(rows[u])
              THEN /\ rows' = [rows EXCEPT ![u] = Decision(cmd[c].op, cmd[c].task)]
                   /\ IF cmd[c].op \in {"pause", "cancel"}
                         THEN AbortUploads(i, {u}) ELSE UNCHANGED att
              ELSE UNCHANGED <<rows, att>>
    /\ cmd' = [cmd EXCEPT ![c] = IdleCommand]
    /\ UNCHANGED <<now, up, controllers, shuttingDown, stop, nextToken, crashes, faults>>

(* stop() up to the await of drain(): the batch is what is in flight now. *)
StopBegin(s, i) ==
    /\ up[i]
    /\ stop[s] = IdleStop
    /\ shuttingDown' = [shuttingDown EXCEPT ![i] = TRUE]
    /\ AbortUploads(i, Uploads)
    /\ stop' = [stop EXCEPT ![s] = [instance |-> i, batch |-> InFlight(i)]]
    /\ UNCHANGED <<rows, now, up, controllers, cmd, nextToken, crashes, faults>>

(* Mutation: stop() does not wait for the batch it aborted. *)
StopEndNoDrain(s) ==
    /\ stop[s] # IdleStop
    /\ shuttingDown' = [shuttingDown EXCEPT ![stop[s].instance] = FALSE]
    /\ controllers' = [controllers EXCEPT ![stop[s].instance] = {}]
    /\ stop' = [stop EXCEPT ![s] = IdleStop]
    /\ UNCHANGED <<rows, now, up, att, cmd, nextToken, crashes, faults>>

StopEnd(s) ==
    /\ stop[s] # IdleStop
    /\ stop[s].batch = {}
    /\ shuttingDown' = [shuttingDown EXCEPT ![stop[s].instance] = FALSE]
    /\ controllers' = [controllers EXCEPT ![stop[s].instance] = {}]
    /\ stop' = [stop EXCEPT ![s] = IdleStop]
    /\ UNCHANGED <<rows, now, up, att, cmd, nextToken, crashes, faults>>

-----------------------------------------------------------------------------
(* What an attempt does by itself, when nothing fails. *)
AttemptStep(i, u) ==
    \/ ClaimRow(i, u) \/ ReadBack(i, u)
    \/ ReleaseOffline(i, u) \/ FileMissing(i, u) \/ StartUpload(i, u)
    \/ \E code \in HttpCodes : Respond(i, u, code)
    \/ \E thrown \in Errors : TransportThrows(i, u, thrown)
    \/ AbortError(i, u) \/ CheckDecision(i, u) \/ ResolveAbort(i, u)
    \/ Commit(i, u)

Next ==
    \/ Tick
    \/ \E u \in Uploads : Enqueue(u)
    \/ \E S \in SUBSET Uploads : Purge(S)
    \/ \E i \in Instances : Initialize(i) \/ Crash(i)
    \/ \E i \in Instances, u \in Uploads :
          \/ Launch(i, u) \/ AttemptStep(i, u) \/ PersistProgress(i, u)
          \/ ClaimFault(i, u) \/ AttemptFault(i, u) \/ ReleaseFault(i, u)
    \/ \E c \in Clients, i \in Instances, op \in Commands, u \in Uploads : CommandRead(c, i, op, u)
    \/ \E c \in Clients : CommandWrite(c)
    \/ \E s \in Stoppers, i \in Instances : StopBegin(s, i)
    \/ \E s \in Stoppers : StopEnd(s)

Spec == Init /\ [][Next]_vars

(* Promises settle: an attempt that can move moves (a request ends in an   *)
(* answer, an error or the transport's deadline), a command's update and   *)
(* the drain that stop() awaits are carried out.  Nothing obliges anyone   *)
(* to launch, to call a command, to crash or to restart.                   *)
Fairness ==
    /\ \A i \in Instances, u \in Uploads : WF_vars(AttemptStep(i, u))
    /\ \A c \in Clients : WF_vars(CommandWrite(c))
    /\ \A s \in Stoppers : WF_vars(StopEnd(s))

FairSpec == Spec /\ Fairness

(* Besides, the clock runs on and a process that died is started again.    *)
RestartSpec ==
    /\ FairSpec
    /\ WF_vars(Tick)
    /\ \A i \in Instances : WF_vars(Initialize(i))

-----------------------------------------------------------------------------
(* Safety                                                                  *)

Command == [op: {"pause", "resume", "cancel", "retry"}, instance: Instances, upload: Uploads, task: Row]

TypeOK ==
    /\ rows \in [Uploads -> Row]
    /\ now \in Nat
    /\ up \in [Instances -> BOOLEAN]
    /\ att \in [Instances -> [Uploads -> Attempt]]
    /\ controllers \in [Instances -> SUBSET Uploads]
    /\ shuttingDown \in [Instances -> BOOLEAN]
    /\ stop \in [Stoppers -> [instance: Instances \cup {NULL}, batch: SUBSET Uploads]]
    /\ cmd \in [Clients -> Command \cup {IdleCommand}]
    /\ nextToken \in Nat
    /\ crashes \in Nat
    /\ faults \in Nat

(* A row says uploading exactly while it names a claim and the time it was *)
(* made: no status written by anyone leaves a token behind that a late     *)
(* write could still use, and no claimed row is out of recovery's reach.   *)
ClaimIffUploading ==
    \A u \in Uploads :
        /\ rows[u].status = "uploading" <=> rows[u].processingToken # NULL
        /\ rows[u].status = "uploading" <=> rows[u].processingStartedAt # NULL

(* An attempt whose fence would let it write the whole row has not missed  *)
(* anything: but for the progress columns, the row is the one it read when *)
(* it claimed, so the write loses nobody's update.                         *)
HolderSeesTruth ==
    \A i \in Instances, u \in Uploads :
        (/\ att[i][u].pc \notin {"idle", "claim", "readback"}
         /\ HeldBy(rows[u], att[i][u].token))
        => [rows[u] EXCEPT !.progress = 0] = [att[i][u].task EXCEPT !.progress = 0]

(* What an attempt writes always gives the claim back. *)
LetsGo(row) ==
    /\ row \in Row
    /\ row.status \in {"completed", "pending", "blocked", "failed"}
    /\ row.processingToken = NULL
    /\ row.processingStartedAt = NULL

WritesLetGo ==
    \A i \in Instances, u \in Uploads :
        att[i][u].pc \in {"commit", "release"} => LetsGo(att[i][u].next)

(* An attempt carries a token from its launch to its end, one that has     *)
(* been issued and that no other attempt carries.                          *)
TokensIssued ==
    \A i \in Instances, u \in Uploads :
        /\ att[i][u].pc = "idle" <=> att[i][u].token = NULL
        /\ att[i][u].token # NULL => att[i][u].token < nextToken

TokensDistinct ==
    \A i, j \in Instances, u, v \in Uploads :
        att[i][u].token # NULL /\ att[i][u].token = att[j][v].token => i = j /\ u = v

(* A token on a row is an issued one, and the attempt that carries it, if  *)
(* it still lives, is one on that upload that has claimed.                 *)
TokensPlaced ==
    \A u \in Uploads : rows[u].processingToken # NULL =>
        /\ rows[u].processingToken < nextToken
        /\ \A i \in Instances, v \in Uploads :
              att[i][v].token = rows[u].processingToken => v = u /\ att[i][v].pc # "claim"

(* The inductive invariant. *)
IInv ==
    /\ TypeOK
    /\ TokensIssued
    /\ TokensDistinct
    /\ TokensPlaced
    /\ WritesLetGo
    /\ ClaimIffUploading
    /\ HolderSeesTruth

(* An upload that stop() interrupted is never failed for it: an attempt    *)
(* aborted by shutdown still finds shuttingDown set when it asks, and one  *)
(* aborted by a pause or a cancel has lost its claim.                      *)
ShutdownFailsNothing ==
    \A u \in Uploads : rows[u].status = "failed" => rows[u].lastError # "cancelled"

(* An upload that waits, is paused or is being sent has attempts left: of  *)
(* the answers, errors and missing files that count, the last one allowed  *)
(* ends it.  It says nothing of the sends that recovery and releases       *)
(* repeat uncounted, which are UploadSends' subject, and it is not true    *)
(* when resume() is used on a failed or blocked upload.                    *)
AttemptsLeft ==
    \A u \in Uploads : rows[u].status \in {"pending", "uploading", "paused"}
                          => rows[u].attempts < MaxAttempts

(* Two processes transfer the same upload at once only if the claim of one *)
(* of them has outlived processingTimeoutMs (and no user command took it). *)
DoubleSendOnlyAfterTimeout ==
    \A u \in Uploads, i, j \in Instances :
        (i # j /\ att[i][u].pc = "transport" /\ att[j][u].pc = "transport")
        => \E k \in {i, j} : att[k][u].task.processingStartedAt + Timeout <= now

(* What the three rest on besides IInv.  AttemptsLeft: every copy of a row *)
(* that may be written back to a waiting state has attempts left.          *)
AttemptsInv ==
    /\ AttemptsLeft
    /\ \A i \in Instances, u \in Uploads :
          /\ att[i][u].pc \notin {"idle", "claim", "readback"} =>
                att[i][u].task.attempts < MaxAttempts
          /\ att[i][u].pc \in {"commit", "release"} /\ att[i][u].next.status = "pending" =>
                att[i][u].next.attempts < MaxAttempts
    /\ \A c \in Clients :
          /\ cmd[c] # IdleCommand => cmd[c].op \in Commands
          /\ cmd[c].op = "pause" => cmd[c].task.attempts < MaxAttempts

(* DoubleSendOnlyAfterTimeout: where no command is in play, an attempt     *)
(* holds its row until the claim is old enough for recovery.               *)
TransferInv ==
    /\ \A c \in Clients : cmd[c] = IdleCommand
    /\ \A i \in Instances, u \in Uploads :
          att[i][u].pc \in {"preflight", "transport"} =>
              \/ HeldBy(rows[u], att[i][u].token)
              \/ /\ att[i][u].task.processingStartedAt \in Int
                 /\ att[i][u].task.processingStartedAt + Timeout <= now

(* What ShutdownFailsNothing asks of the application: the stop() calls of  *)
(* one process do not overlap.                                             *)
OneStopEach ==
    \A s, t \in Stoppers :
        stop[s].instance # NULL /\ stop[s].instance = stop[t].instance => s = t

(* ShutdownFailsNothing: an attempt that was aborted and still holds its   *)
(* row is in the batch of a stop(), and shuttingDown is up for that long;  *)
(* who writes failed for an abort holds the row no more.                   *)
ShutdownInv ==
    /\ ShutdownFailsNothing
    /\ \A s \in Stoppers : stop[s].instance # NULL => shuttingDown[stop[s].instance]
    /\ \A i \in Instances, u \in Uploads :
          /\ u \in controllers[i] \/ att[i][u].aborted =>
                att[i][u].pc \notin {"idle", "claim", "readback", "preflight"}
          /\ att[i][u].pc \in {"aborted", "shutdown?"} => att[i][u].aborted
          /\ att[i][u].aborted /\ HeldBy(rows[u], att[i][u].token) =>
                \E s \in Stoppers : stop[s].instance = i /\ u \in stop[s].batch
          /\ (/\ att[i][u].pc \in {"commit", "release"}
              /\ att[i][u].next.status = "failed" /\ att[i][u].next.lastError = "cancelled")
             => ~HeldBy(rows[u], att[i][u].token)

(* A paused or cancelled upload is as the user left it, every column of    *)
(* it, until the next user command is carried out: no late answer,         *)
(* progress write, release or recovery touches it.                         *)
UserDecisionSticks ==
    [][\A u \in Uploads :
          rows[u].status \in {"paused", "cancelled"} /\ rows'[u] # rows[u]
          => \E c \in Clients : cmd[c].upload = u /\ cmd'[c] # cmd[c]]_vars

(* docs/architecture.md: completed and cancelled are final (a purge aside). *)
TerminalIsFinal ==
    [][\A u \in Uploads :
          rows[u].status \in {"completed", "cancelled"}
          => rows'[u].status \in {rows[u].status, "purged"}]_vars

-----------------------------------------------------------------------------
(* Liveness                                                                *)

(* A claim is given back: while processes live and storage works, an       *)
(* upload does not stay uploading for ever.                                *)
ClaimsEnd ==
    \A u \in Uploads : rows[u].status = "uploading" ~> rows[u].status # "uploading"

(* stop() returns: the batch it awaits drains. *)
StopReturns ==
    \A s \in Stoppers : stop[s] # IdleStop ~> stop[s] = IdleStop

(* README.md: after a crash, rows older than processingTimeoutMs return to *)
(* pending.  An upload that nobody works on, and whose claim is that old,  *)
(* does not stay uploading for ever.                                       *)
AbandonedRecovered ==
    \A u \in Uploads :
        (/\ Abandoned(rows[u], now - Timeout)
         /\ \A i \in Instances : att[i][u].pc = "idle")
        ~> rows[u].status # "uploading"

-----------------------------------------------------------------------------
(* The lifecycle keeps the contract of UploadContract.                     *)

Contract == INSTANCE UploadContract WITH
    status  <- [u \in Uploads |-> rows[u].status],
    owner   <- [u \in Uploads |-> rows[u].processingToken],
    issued  <- nextToken,
    waiting <- {t \in 0 .. nextToken - 1 :
                  \E i \in Instances, u \in Uploads : att[i][u].pc = "claim" /\ att[i][u].token = t}

KeepsContract == Contract!Spec
================================================================================
