----------------------------- MODULE UploadTask -----------------------------
(***************************************************************************)
(* The upload row and everything that rewrites it: the transition table of *)
(* core/queue/upload-state-machine.ts, the rows the processor and the      *)
(* queue commands build with cloneTask, and the conditional statements of  *)
(* the storage adapters.  Pure operators, no state.                        *)
(*                                                                         *)
(* Both adapters (memory and SQLite) implement the same statements; where  *)
(* they differ in atomicity the difference is in UploadLifecycle.          *)
(* An ISO timestamp is an integer, an absent optional column is NULL, and  *)
(* progress is 0 (nothing) or 1 (something sent, or everything).           *)
(***************************************************************************)
EXTENDS Integers, UploadError

CONSTANT NULL

ASSUME NullAssumption == NULL \notin Int

Status == {"pending", "uploading", "completed", "failed", "paused", "cancelled", "blocked"}

(* "none": not enqueued yet.  "purged": deleted by purgeCompleted(); an id *)
(* is never reused (createId), so the two differ.                          *)
RowStatus == Status \cup {"none", "purged"}

Row == [status: RowStatus,
        attempts: Nat,
        processingToken: Nat \cup {NULL},
        processingStartedAt: Int \cup {NULL},
        nextAttemptAt: Int \cup {NULL},
        progress: {0, 1},
        lastError: ErrorKind \cup {NULL}]

Present(row) == row.status \in Status

NoRow == [status |-> "none", attempts |-> 0, processingToken |-> NULL,
          processingStartedAt |-> NULL, nextAttemptAt |-> NULL,
          progress |-> 0, lastError |-> NULL]

-----------------------------------------------------------------------------
(* upload-state-machine.ts: TRANSITIONS                                    *)

Transitions ==
    [s \in Status |->
        CASE s = "pending"   -> {"uploading", "paused", "cancelled", "pending"}
          [] s = "uploading" -> {"completed", "pending", "paused", "blocked", "failed", "cancelled"}
          [] s = "paused"    -> {"pending", "cancelled"}
          [] s = "blocked"   -> {"pending", "failed", "cancelled"}
          [] s = "failed"    -> {"pending", "cancelled"}
          [] OTHER           -> {}]

CanTransition(from, to) == to \in Transitions[from]

-----------------------------------------------------------------------------
(* The conditional statements of the storage adapters.                     *)

Due(row, now) ==
    /\ row.status = "pending"
    /\ row.nextAttemptAt # NULL => row.nextAttemptAt <= now

(* Mutation: claims whatever the row's status is. *)
ClaimAnyStatus(row, now) == Present(row)

Claimable(row, now) == Due(row, now)

Claimed(row, token, now) ==
    [row EXCEPT !.status = "uploading", !.processingToken = token,
                !.processingStartedAt = now, !.nextAttemptAt = NULL, !.progress = 0]

(* Mutation: an unfenced write, as update() would be. *)
Unfenced(row, token) == Present(row)

HeldBy(row, token) == Present(row) /\ row.processingToken = token

(* Mutation: the progress statement without its WHERE on the token. *)
ProgressAnyRow(row, token) == Present(row)

ProgressApplies(row, token) == row.status = "uploading" /\ row.processingToken = token

(* Mutation: recovery forgets the age condition. *)
AbandonedAnyAge(row, staleBefore) == row.status = "uploading"

Abandoned(row, staleBefore) ==
    /\ row.status = "uploading"
    /\ row.processingStartedAt # NULL
    /\ row.processingStartedAt <= staleBefore

Recovered(row) ==
    [row EXCEPT !.status = "pending", !.progress = 0, !.processingToken = NULL,
                !.processingStartedAt = NULL, !.nextAttemptAt = NULL]

-----------------------------------------------------------------------------
(* The rows the queue commands write (upload-queue.ts).                    *)

Enqueued == [NoRow EXCEPT !.status = "pending"]

(* Mutation: the command leaves the claim's token on the row. *)
DecidedKeepingClaim(row, status) == [row EXCEPT !.status = status, !.nextAttemptAt = NULL]

(* pause(), resume() and cancel() differ only in the status they write. *)
Decided(row, status) ==
    [row EXCEPT !.status = status, !.processingToken = NULL,
                !.processingStartedAt = NULL, !.nextAttemptAt = NULL]

(* Mutation: retry() forgets to reset the attempt counter. *)
RetriedKeepingAttempts(row) ==
    [Decided(row, "pending") EXCEPT !.progress = 0, !.lastError = NULL]

Retried(row) ==
    [Decided(row, "pending") EXCEPT !.attempts = 0, !.progress = 0, !.lastError = NULL]

-----------------------------------------------------------------------------
(* The rows an attempt writes (upload-processor.ts), each from the row it  *)
(* read back when it claimed.                                              *)

Completed(task) ==
    [task EXCEPT !.status = "completed", !.attempts = @ + 1, !.progress = 1,
                 !.processingToken = NULL, !.processingStartedAt = NULL,
                 !.nextAttemptAt = NULL, !.lastError = NULL]

(* blocked (401, 403) and failed differ only in the status. *)
GivenUp(task, status, kind) ==
    [task EXCEPT !.status = status, !.attempts = @ + 1, !.progress = 0,
                 !.processingToken = NULL, !.processingStartedAt = NULL,
                 !.nextAttemptAt = NULL, !.lastError = kind]

Rescheduled(task, kind, at) ==
    [task EXCEPT !.status = "pending", !.attempts = @ + 1, !.progress = 0,
                 !.processingToken = NULL, !.processingStartedAt = NULL,
                 !.nextAttemptAt = at, !.lastError = kind]

(* releaseOffline: the error of the previous attempt stays on the row. *)
Deferred(task) ==
    [task EXCEPT !.status = "pending", !.processingToken = NULL,
                 !.processingStartedAt = NULL, !.nextAttemptAt = NULL]

Released(task, kind) ==
    [task EXCEPT !.status = "pending", !.processingToken = NULL,
                 !.processingStartedAt = NULL, !.lastError = kind]
=============================================================================
