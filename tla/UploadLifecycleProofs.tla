------------------------- MODULE UploadLifecycleProofs -------------------------
(***************************************************************************)
(* Theorems of UploadLifecycle, for any number of uploads, instances,      *)
(* clients and stop() callers and any bounds.                              *)
(***************************************************************************)
EXTENDS UploadLifecycle, TLAPS

-----------------------------------------------------------------------------
(* Rows                                                                    *)

(* Parts of a row may be rewritten one after the other. *)
LEMMA RowUpdates ==
    ASSUME NEW row \in Row
    PROVE  /\ \A s \in RowStatus, n \in Nat :
                 [row EXCEPT !.status = s, !.attempts = n] \in Row
           /\ \A t \in Nat \cup {NULL}, n \in Int \cup {NULL} :
                 [row EXCEPT !.processingToken = t, !.processingStartedAt = n] \in Row
           /\ \A n \in Int \cup {NULL}, p \in {0, 1} :
                 [row EXCEPT !.nextAttemptAt = n, !.progress = p] \in Row
           /\ \A k \in ErrorKind \cup {NULL} : [row EXCEPT !.lastError = k] \in Row
BY DEF Row

(* Every row the storage statements and the commands produce is a row. *)
LEMMA StatementRows ==
    ASSUME NEW row \in Row, NEW token \in Nat \cup {NULL}, NEW n \in Nat
    PROVE  /\ NoRow \in Row
           /\ [NoRow EXCEPT !.status = "purged"] \in Row
           /\ Enqueued \in Row
           /\ Claimed(row, token, n) \in Row
           /\ Recovered(row) \in Row
           /\ [row EXCEPT !.progress = 1] \in Row
<1>1. NoRow \in Row
  BY DEF NoRow, Row, RowStatus, Status
<1>2. [NoRow EXCEPT !.status = "purged"] \in Row /\ Enqueued \in Row
  BY <1>1 DEF Enqueued, Row, RowStatus, Status
<1>3. Claimed(row, token, n) \in Row
  <2> DEFINE r == [row EXCEPT !.status = "uploading", !.attempts = row.attempts]
             q == [r EXCEPT !.processingToken = token, !.processingStartedAt = n]
  <2>1. r \in Row
    <3>1. "uploading" \in RowStatus /\ row.attempts \in Nat
      BY DEF Row, RowStatus, Status
    <3> QED BY <3>1, RowUpdates
  <2>2. q \in Row
    <3>1. token \in Nat \cup {NULL} /\ n \in Int \cup {NULL}
      OBVIOUS
    <3> HIDE DEF r
    <3> QED BY <2>1, <3>1, RowUpdates
  <2>3. [q EXCEPT !.nextAttemptAt = NULL, !.progress = 0] \in Row
    <3> HIDE DEF q
    <3> QED BY <2>2, RowUpdates
  <2>4. Claimed(row, token, n) = [q EXCEPT !.nextAttemptAt = NULL, !.progress = 0]
    BY DEF Claimed, Row
  <2> QED BY <2>3, <2>4
<1>4. Recovered(row) \in Row /\ [row EXCEPT !.progress = 1] \in Row
  BY DEF Recovered, Row, RowStatus, Status
<1> QED BY <1>1, <1>2, <1>3, <1>4

(* Whatever user command is carried out on a row leaves a row that no      *)
(* claim holds: the four commands drop processingToken and                 *)
(* processingStartedAt.                                                    *)
LEMMA DecisionRows ==
    ASSUME NEW row \in Row, NEW op \in {"pause", "resume", "cancel", "retry"}
    PROVE  /\ Decision(op, row) \in Row
           /\ Decision(op, row).status \in {"pending", "paused", "cancelled"}
           /\ Decision(op, row).processingToken = NULL
           /\ Decision(op, row).processingStartedAt = NULL
<1>1. \A s \in {"pending", "paused", "cancelled"} :
         /\ Decided(row, s) \in Row
         /\ Decided(row, s).status = s
         /\ Decided(row, s).processingToken = NULL
         /\ Decided(row, s).processingStartedAt = NULL
  BY DEF Decided, Row, RowStatus, Status
<1>2. /\ Retried(row) \in Row
      /\ Retried(row).status = "pending"
      /\ Retried(row).processingToken = NULL
      /\ Retried(row).processingStartedAt = NULL
  BY <1>1 DEF Retried, Row
<1> QED BY <1>1, <1>2 DEF Decision, Target

(* The classifier only speaks of known kinds. *)
LEMMA ClassifiedKinds ==
    /\ \A code \in Nat : ClassifyHttpStatus(code) \in ErrorKind
    /\ \A thrown \in Thrown : ClassifyThrown(thrown) \in ErrorKind
BY DEF ClassifyHttpStatus, ClassifyThrown, ErrorKind, Thrown

(* A verdict: the claim is cleared, and the other columns take any value. *)
VerdictRow(task, status, attempts, at, progress, error) ==
    [task EXCEPT !.status = status, !.attempts = attempts,
                 !.processingToken = NULL, !.processingStartedAt = NULL,
                 !.nextAttemptAt = at, !.progress = progress, !.lastError = error]

(* The rows complete, fail, releaseOffline and releaseClaim build from the *)
(* claimed one are table rows that give the claim back.                    *)
LEMMA VerdictRowLetsGo ==
    ASSUME NEW task \in Row, NEW s \in {"completed", "pending", "blocked", "failed"}, NEW n \in Nat,
           NEW at \in Int \cup {NULL}, NEW p \in {0, 1}, NEW k \in ErrorKind \cup {NULL}
    PROVE  LetsGo(VerdictRow(task, s, n, at, p, k))
<1> DEFINE r1 == [task EXCEPT !.status = s, !.attempts = n]
           r2 == [r1 EXCEPT !.processingToken = NULL, !.processingStartedAt = NULL]
           r3 == [r2 EXCEPT !.nextAttemptAt = at, !.progress = p]
           r4 == [r3 EXCEPT !.lastError = k]
<1>1. r1 \in Row
  BY RowUpdates DEF RowStatus, Status
<1>2. r2 \in Row
  <2> HIDE DEF r1
  <2> QED BY <1>1, RowUpdates
<1>3. r3 \in Row
  <2> HIDE DEF r2
  <2> QED BY <1>2, RowUpdates
<1>4. r4 \in Row
  <2> HIDE DEF r3
  <2> QED BY <1>3, RowUpdates
<1>5. VerdictRow(task, s, n, at, p, k) = r4
  BY DEF VerdictRow
<1>6. r4.status = s /\ r4.processingToken = NULL /\ r4.processingStartedAt = NULL
  BY DEF Row
<1> HIDE DEF r4
<1> QED BY <1>4, <1>5, <1>6 DEF LetsGo

(* Every row an attempt writes is a row, and lets go of the claim. *)
LEMMA AttemptRows ==
    ASSUME NEW task \in Row, NEW kind \in ErrorKind
    PROVE  /\ LetsGo(Completed(task))
           /\ LetsGo(Deferred(task))
           /\ LetsGo(Released(task, kind))
           /\ \A s \in {"blocked", "failed"} : LetsGo(GivenUp(task, s, kind))
           /\ \A at \in Int : LetsGo(Rescheduled(task, kind, at))
<1>0. /\ task.attempts \in Nat /\ task.attempts + 1 \in Nat
      /\ task.nextAttemptAt \in Int \cup {NULL} /\ task.progress \in {0, 1}
      /\ task.lastError \in ErrorKind \cup {NULL}
  BY DEF Row
<1>1. LetsGo(Completed(task))
  <2>1. Completed(task) = VerdictRow(task, "completed", task.attempts + 1, NULL, 1, NULL)
    BY DEF Completed, VerdictRow
  <2> QED BY <1>0, <2>1, VerdictRowLetsGo
<1>2. LetsGo(Deferred(task))
  <2>1. Deferred(task) =
          VerdictRow(task, "pending", task.attempts, NULL, task.progress, task.lastError)
    BY DEF Deferred, VerdictRow, Row
  <2> QED BY <1>0, <2>1, VerdictRowLetsGo
<1>3. LetsGo(Released(task, kind))
  <2>1. Released(task, kind) =
          VerdictRow(task, "pending", task.attempts, task.nextAttemptAt, task.progress, kind)
    BY DEF Released, VerdictRow, Row
  <2> QED BY <1>0, <2>1, VerdictRowLetsGo
<1>4. ASSUME NEW s \in {"blocked", "failed"}
      PROVE  LetsGo(GivenUp(task, s, kind))
  <2>1. GivenUp(task, s, kind) = VerdictRow(task, s, task.attempts + 1, NULL, 0, kind)
    BY DEF GivenUp, VerdictRow
  <2> QED BY <1>0, <2>1, VerdictRowLetsGo
<1>5. ASSUME NEW at \in Int
      PROVE  LetsGo(Rescheduled(task, kind, at))
  <2>1. Rescheduled(task, kind, at) = VerdictRow(task, "pending", task.attempts + 1, at, 0, kind)
    BY DEF Rescheduled, VerdictRow
  <2> QED BY <1>0, <2>1, VerdictRowLetsGo
<1> QED BY <1>1, <1>2, <1>3, <1>4, <1>5

(* Whatever handleFailure decides, its row gives the claim back.           *)
LEMMA FailureRowsLetGo ==
    ASSUME LifecycleAssumption, NEW task \in Row, NEW kind \in ErrorKind, now \in Nat
    PROVE  \A row \in FailureRows(task, kind) : LetsGo(row)
<1> SUFFICES ASSUME NEW row \in FailureRows(task, kind)
             PROVE  LetsGo(row)
  OBVIOUS
<1>1. CASE kind \in {"authentication", "authorization"}
  <2>1. row = GivenUp(task, "blocked", kind)
    BY <1>1 DEF FailureRows
  <2> QED BY <2>1, AttemptRows
<1>2. CASE /\ kind \notin {"authentication", "authorization"}
           /\ kind \in RetryableKind /\ task.attempts + 1 < MaxAttempts
  <2>1. PICK d \in RetryDelays : row = Rescheduled(task, kind, now + d)
    BY <1>2 DEF FailureRows
  <2>2. now + d \in Int
    BY DEF LifecycleAssumption
  <2> QED BY <2>1, <2>2, AttemptRows
<1>3. CASE /\ kind \notin {"authentication", "authorization"}
           /\ ~(kind \in RetryableKind /\ task.attempts + 1 < MaxAttempts)
  <2>1. row = GivenUp(task, "failed", kind)
    BY <1>3 DEF FailureRows
  <2> QED BY <2>1, AttemptRows
<1> QED BY <1>1, <1>2, <1>3

-----------------------------------------------------------------------------
(* Type correctness                                                        *)

(* An upload nobody works on is described by an attempt record too.        *)
LEMMA IdleIsAttempt ==
    /\ IdleAttempt \in Attempt
    /\ \A token, at \in Nat :
          [IdleAttempt EXCEPT !.pc = "claim", !.token = token, !.at = at] \in Attempt
<1>1. IdleAttempt \in Attempt
  BY DEF IdleAttempt, Attempt, Phase, NoRow, Row, RowStatus, Status
<1> QED BY <1>1 DEF Attempt, Phase

(* Updating fields of one attempt within their types keeps all of them     *)
(* typed.                                                                  *)
LEMMA AttemptUpdates ==
    ASSUME NEW a \in Attempt
    PROVE  /\ \A pc \in Phase : [a EXCEPT !.pc = pc] \in Attempt
           /\ \A pc \in Phase, row \in Row : [a EXCEPT !.pc = pc, !.next = row] \in Attempt
           /\ \A pc \in Phase, row \in Row : [a EXCEPT !.pc = pc, !.task = row] \in Attempt
           /\ [a EXCEPT !.aborted = TRUE] \in Attempt
BY DEF Attempt

(* An attempt's promise settling keeps the process's bookkeeping typed.    *)
LEMMA SettleType ==
    ASSUME TypeOK, NEW i \in Instances, NEW u \in Uploads, Settle(i, u)
    PROVE  /\ att' \in [Instances -> [Uploads -> Attempt]]
           /\ controllers' \in [Instances -> SUBSET Uploads]
           /\ stop' \in [Stoppers -> [instance: Instances \cup {NULL}, batch: SUBSET Uploads]]
<1>1. IdleAttempt \in Attempt
  BY IdleIsAttempt
<1> QED BY <1>1 DEF Settle, TypeOK

(* An attempt moving on to its next await keeps the bookkeeping typed.     *)
LEMMA GotoType ==
    ASSUME TypeOK, NEW i \in Instances, NEW u \in Uploads, NEW pc \in Phase, Goto(i, u, pc)
    PROVE  /\ att' \in [Instances -> [Uploads -> Attempt]]
           /\ UNCHANGED <<controllers, stop>>
<1>1. [att[i][u] EXCEPT !.pc = pc] \in Attempt
  <2>1. att[i][u] \in Attempt
    BY DEF TypeOK
  <2> QED BY <2>1, AttemptUpdates
<1> QED BY <1>1 DEF Goto, TypeOK

(* An attempt deciding on a row to write keeps the bookkeeping typed.      *)
LEMMA WriteType ==
    ASSUME TypeOK, NEW i \in Instances, NEW u \in Uploads, NEW pc \in Phase, NEW row \in Row,
           Write(i, u, pc, row)
    PROVE  /\ att' \in [Instances -> [Uploads -> Attempt]]
           /\ UNCHANGED <<controllers, stop>>
<1>1. [att[i][u] EXCEPT !.pc = pc, !.next = row] \in Attempt
  <2>1. att[i][u] \in Attempt
    BY DEF TypeOK
  <2> QED BY <2>1, AttemptUpdates
<1> QED BY <1>1 DEF Write, TypeOK

(* abortUpload and abortAll keep the attempts typed.                       *)
LEMMA AbortType ==
    ASSUME TypeOK, NEW i \in Instances, NEW S \in SUBSET Uploads, AbortUploads(i, S)
    PROVE  att' \in [Instances -> [Uploads -> Attempt]]
<1>1. \A v \in Uploads : [att[i][v] EXCEPT !.aborted = TRUE] \in Attempt
  <2>1. \A v \in Uploads : att[i][v] \in Attempt
    BY DEF TypeOK
  <2> QED BY <2>1, AttemptUpdates
<1> QED BY <1>1 DEF AbortUploads, TypeOK

(* An empty table and no process running are well typed.                   *)
LEMMA InitType == Init => TypeOK
<1> SUFFICES ASSUME Init PROVE TypeOK
  OBVIOUS
<1>1. NoRow \in Row
  BY DEF NoRow, Row, RowStatus, Status
<1>2. rows \in [Uploads -> Row]
  BY <1>1 DEF Init
<1>3. att \in [Instances -> [Uploads -> Attempt]]
  BY IdleIsAttempt DEF Init
<1>4. stop \in [Stoppers -> [instance: Instances \cup {NULL}, batch: SUBSET Uploads]]
  BY DEF Init, IdleStop
<1>5. cmd \in [Clients -> Command \cup {IdleCommand}]
  BY DEF Init
<1>6. /\ now \in Nat /\ nextToken \in Nat /\ crashes \in Nat /\ faults \in Nat
      /\ up \in [Instances -> BOOLEAN] /\ shuttingDown \in [Instances -> BOOLEAN]
      /\ controllers \in [Instances -> SUBSET Uploads]
  BY DEF Init
<1> QED BY <1>2, <1>3, <1>4, <1>5, <1>6 DEF TypeOK

(* The steps of an attempt, and its faults, by what they do to its record. *)
AttemptMoves(i, u) ==
    \/ Settle(i, u)
    \/ \E pc \in Phase : Goto(i, u, pc)
    \/ \E pc \in Phase, row \in Row : Write(i, u, pc, row)

(* If the rows stay rows, a step that settles, moves or writes for an      *)
(* attempt keeps every type.                                               *)
LEMMA AttemptMovesType ==
    ASSUME TypeOK, NEW i \in Instances, NEW u \in Uploads, AttemptMoves(i, u)
    PROVE  /\ att' \in [Instances -> [Uploads -> Attempt]]
           /\ controllers' \in [Instances -> SUBSET Uploads]
           /\ stop' \in [Stoppers -> [instance: Instances \cup {NULL}, batch: SUBSET Uploads]]
<1>1. CASE Settle(i, u)
  BY <1>1, SettleType
<1>2. CASE \E pc \in Phase : Goto(i, u, pc)
  <2>1. att' \in [Instances -> [Uploads -> Attempt]] /\ UNCHANGED <<controllers, stop>>
    BY <1>2, GotoType
  <2> QED BY <2>1 DEF TypeOK
<1>3. CASE \E pc \in Phase, row \in Row : Write(i, u, pc, row)
  <2>1. att' \in [Instances -> [Uploads -> Attempt]] /\ UNCHANGED <<controllers, stop>>
    BY <1>3, WriteType
  <2> QED BY <2>1 DEF TypeOK
<1> QED BY <1>1, <1>2, <1>3 DEF AttemptMoves

(* Every step of an attempt but reading back its claim and starting the    *)
(* request is one that settles, moves or writes.                           *)
LEMMA AttemptStepMoves ==
    ASSUME TypeOK, NEW i \in Instances, NEW u \in Uploads,
           \/ ClaimRow(i, u) \/ ReleaseOffline(i, u) \/ FileMissing(i, u)
           \/ \E code \in HttpCodes : Respond(i, u, code)
           \/ \E thrown \in Errors : TransportThrows(i, u, thrown)
           \/ AbortError(i, u) \/ CheckDecision(i, u) \/ ResolveAbort(i, u)
           \/ Commit(i, u)
           \/ ClaimFault(i, u) \/ AttemptFault(i, u) \/ ReleaseFault(i, u)
    PROVE  AttemptMoves(i, u)
<1>0. att[i][u].task \in Row
  <2>1. att[i][u] \in Attempt
    BY DEF TypeOK
  <2> QED BY <2>1 DEF Attempt
<1> DEFINE task == att[i][u].task
<1>1. CASE ClaimRow(i, u)
  BY <1>1 DEF ClaimRow, AttemptMoves, Phase
<1>2. CASE ReleaseOffline(i, u)
  <2>1. Deferred(task) \in Row /\ Write(i, u, "commit", Deferred(task))
    BY <1>0, <1>2, AttemptRows DEF LetsGo, ReleaseOffline, ErrorKind
  <2> QED BY <2>1 DEF AttemptMoves, Phase
<1>3. CASE FileMissing(i, u)
  <2>1. "file-not-found" \in ErrorKind
    BY DEF ErrorKind
  <2>2. GivenUp(task, "failed", "file-not-found") \in Row
    BY <1>0, <2>1, AttemptRows DEF LetsGo
  <2> QED BY <1>3, <2>2 DEF FileMissing, AttemptMoves, Phase
<1>4. ASSUME NEW code \in HttpCodes, Respond(i, u, code)
      PROVE  AttemptMoves(i, u)
  <2>1. ClassifyHttpStatus(code) \in ErrorKind
    BY LifecycleAssumption, ClassifiedKinds DEF LifecycleAssumption
  <2>2. Completed(task) \in Row
    BY <1>0, <2>1, AttemptRows DEF LetsGo
  <2>3. \A row \in FailureRows(task, ClassifyHttpStatus(code)) : row \in Row
    BY <1>0, <2>1, FailureRowsLetGo, LifecycleAssumption DEF LetsGo, TypeOK
  <2>4. \E row \in Row : Write(i, u, "commit", row)
    BY <1>4, <2>2, <2>3 DEF Respond
  <2> QED BY <2>4 DEF AttemptMoves, Phase
<1>5. ASSUME NEW thrown \in Errors, TransportThrows(i, u, thrown)
      PROVE  AttemptMoves(i, u)
  <2>1. ClassifyThrown(thrown) \in ErrorKind
    BY LifecycleAssumption, ClassifiedKinds DEF LifecycleAssumption
  <2>2. \A row \in FailureRows(task, ClassifyThrown(thrown)) : row \in Row
    BY <1>0, <2>1, FailureRowsLetGo, LifecycleAssumption DEF LetsGo, TypeOK
  <2>3. \E row \in Row : Write(i, u, "commit", row)
    BY <1>5, <2>2 DEF TransportThrows
  <2> QED BY <2>3 DEF AttemptMoves, Phase
<1>6. CASE AbortError(i, u) \/ CheckDecision(i, u)
  BY <1>6 DEF AbortError, CheckDecision, AttemptMoves, Phase
<1>7. CASE ResolveAbort(i, u)
  <2>1. "cancelled" \in ErrorKind
    BY DEF ErrorKind
  <2>2. GivenUp(task, "failed", "cancelled") \in Row /\ Released(task, "cancelled") \in Row
    BY <1>0, <2>1, AttemptRows DEF LetsGo
  <2>3. \E pc \in {"commit", "release"}, row \in Row : Write(i, u, pc, row)
    BY <1>7, <2>2 DEF ResolveAbort
  <2> QED BY <2>3 DEF AttemptMoves, Phase
<1>8. CASE Commit(i, u) \/ ClaimFault(i, u) \/ ReleaseFault(i, u)
  BY <1>8 DEF Commit, ClaimFault, ReleaseFault, AttemptMoves
<1>9. CASE AttemptFault(i, u)
  <2>1. "unknown" \in ErrorKind
    BY DEF ErrorKind
  <2>2. Released(task, "unknown") \in Row
    BY <1>0, <2>1, AttemptRows DEF LetsGo
  <2> QED BY <1>9, <2>2 DEF AttemptFault, AttemptMoves, Phase
<1> QED BY <1>1, <1>2, <1>3, <1>4, <1>5, <1>6, <1>7, <1>8, <1>9

(* No step of an attempt, fault or launch breaks a type.                   *)
LEMMA AttemptStepType ==
    ASSUME TypeOK, NEW i \in Instances, NEW u \in Uploads,
           \/ Launch(i, u) \/ AttemptStep(i, u) \/ PersistProgress(i, u)
           \/ ClaimFault(i, u) \/ AttemptFault(i, u) \/ ReleaseFault(i, u)
    PROVE  TypeOK'
<1>0. /\ att[i][u] \in Attempt /\ rows[u] \in Row
      /\ rows \in [Uploads -> Row] /\ now \in Nat /\ nextToken \in Nat
  BY DEF TypeOK
<1>1. CASE Launch(i, u)
  <2>1. [IdleAttempt EXCEPT !.pc = "claim", !.token = nextToken, !.at = now] \in Attempt
    BY <1>0, IdleIsAttempt
  <2> QED BY <1>1, <2>1 DEF Launch, TypeOK
<1>2. CASE ReadBack(i, u)
  <2>1. [att[i][u] EXCEPT !.pc = "preflight", !.task = rows[u]] \in Attempt
    BY <1>0, AttemptUpdates DEF Phase
  <2>2. /\ att' \in [Instances -> [Uploads -> Attempt]]
        /\ controllers' \in [Instances -> SUBSET Uploads]
        /\ stop' \in [Stoppers -> [instance: Instances \cup {NULL}, batch: SUBSET Uploads]]
    <3>1. CASE HeldBy(rows[u], att[i][u].token)
      <4>1. /\ att' = [att EXCEPT ![i][u].pc = "preflight", ![i][u].task = rows[u]]
            /\ UNCHANGED <<controllers, stop>>
        BY <1>2, <3>1 DEF ReadBack
      <4>2. att' \in [Instances -> [Uploads -> Attempt]]
        BY <2>1, <4>1 DEF TypeOK
      <4> QED BY <4>1, <4>2 DEF TypeOK
    <3>2. CASE ~HeldBy(rows[u], att[i][u].token)
      BY <1>2, <3>2, SettleType DEF ReadBack
    <3> QED BY <3>1, <3>2
  <2> QED BY <1>2, <2>2 DEF ReadBack, TypeOK
<1>3. CASE StartUpload(i, u)
  <2>1. [att[i][u] EXCEPT !.pc = "transport"] \in Attempt
    BY <1>0, AttemptUpdates DEF Phase
  <2> QED BY <1>3, <2>1 DEF StartUpload, TypeOK
<1>4. CASE PersistProgress(i, u)
  <2>1. [rows[u] EXCEPT !.progress = 1] \in Row
    BY <1>0, RowUpdates, StatementRows
  <2>2. rows' \in [Uploads -> Row]
    BY <1>0, <1>4, <2>1 DEF PersistProgress
  <2> QED BY <1>4, <2>2 DEF PersistProgress, TypeOK
<1>5. CASE ClaimRow(i, u)
  <2>1. att[i][u].token \in Nat \cup {NULL} /\ att[i][u].at \in Nat
    BY <1>0 DEF Attempt
  <2>2. Claimed(rows[u], att[i][u].token, att[i][u].at) \in Row
    BY <1>0, <2>1, StatementRows
  <2>3. rows' \in [Uploads -> Row]
    BY <1>0, <1>5, <2>2 DEF ClaimRow
  <2>4. AttemptMoves(i, u)
    BY <1>5, AttemptStepMoves
  <2> QED BY <1>5, <2>3, <2>4, AttemptMovesType DEF ClaimRow, TypeOK
<1>6. CASE Commit(i, u)
  <2>1. att[i][u].next \in Row
    BY <1>0 DEF Attempt
  <2>2. rows' \in [Uploads -> Row]
    BY <1>0, <1>6, <2>1 DEF Commit
  <2>3. AttemptMoves(i, u)
    BY <1>6, AttemptStepMoves
  <2> QED BY <1>6, <2>2, <2>3, AttemptMovesType DEF Commit, TypeOK
<1>7. CASE \/ ReleaseOffline(i, u) \/ FileMissing(i, u)
           \/ \E code \in HttpCodes : Respond(i, u, code)
           \/ \E thrown \in Errors : TransportThrows(i, u, thrown)
           \/ AbortError(i, u) \/ CheckDecision(i, u) \/ ResolveAbort(i, u)
  <2>1. AttemptMoves(i, u)
    BY <1>7, AttemptStepMoves
  <2>2. UNCHANGED <<rows, now, up, shuttingDown, cmd, nextToken, crashes, faults>>
    BY <1>7 DEF ReleaseOffline, FileMissing, Respond, TransportThrows, AbortError,
                CheckDecision, ResolveAbort
  <2> QED BY <2>1, <2>2, AttemptMovesType DEF TypeOK
<1>8. CASE ClaimFault(i, u) \/ AttemptFault(i, u) \/ ReleaseFault(i, u)
  <2>1. AttemptMoves(i, u)
    BY <1>8, AttemptStepMoves
  <2>2. /\ UNCHANGED <<rows, now, up, shuttingDown, cmd, nextToken, crashes>>
        /\ faults' = faults + 1
    BY <1>8 DEF ClaimFault, AttemptFault, ReleaseFault
  <2> QED BY <2>1, <2>2, AttemptMovesType DEF TypeOK
<1> QED BY <1>1, <1>2, <1>3, <1>4, <1>5, <1>6, <1>7, <1>8 DEF AttemptStep

(* Neither time, enqueue, purge, initialize() nor a crash breaks a type.   *)
LEMMA EnvironmentType ==
    ASSUME TypeOK,
           \/ Tick
           \/ \E u \in Uploads : Enqueue(u)
           \/ \E S \in SUBSET Uploads : Purge(S)
           \/ \E i \in Instances : Initialize(i) \/ Crash(i)
    PROVE  TypeOK'
<1>0. rows \in [Uploads -> Row] /\ now \in Nat
  BY DEF TypeOK
<1>1. CASE Tick
  BY <1>1 DEF Tick, TypeOK
<1>2. ASSUME NEW u \in Uploads, Enqueue(u)
      PROVE  TypeOK'
  <2>1. Enqueued \in Row
    BY <1>0, StatementRows
  <2>2. rows' \in [Uploads -> Row]
    BY <1>0, <1>2, <2>1 DEF Enqueue
  <2> QED BY <1>2, <2>2 DEF Enqueue, TypeOK
<1>3. ASSUME NEW S \in SUBSET Uploads, Purge(S)
      PROVE  TypeOK'
  <2>1. \A u \in Uploads : [NoRow EXCEPT !.status = "purged"] \in Row
    BY <1>0, StatementRows
  <2>2. rows' \in [Uploads -> Row]
    BY <1>0, <1>3, <2>1 DEF Purge
  <2> QED BY <1>3, <2>2 DEF Purge, TypeOK
<1>4. ASSUME NEW i \in Instances, Initialize(i)
      PROVE  TypeOK'
  <2>1. \A u \in Uploads : Recovered(rows[u]) \in Row
    BY <1>0, StatementRows
  <2>2. rows' \in [Uploads -> Row]
    BY <1>0, <1>4, <2>1 DEF Initialize
  <2> QED BY <1>4, <2>2 DEF Initialize, TypeOK
<1>5. ASSUME NEW i \in Instances, Crash(i)
      PROVE  TypeOK'
  <2>1. att' \in [Instances -> [Uploads -> Attempt]]
    BY <1>5, IdleIsAttempt DEF Crash, TypeOK
  <2>2. stop' \in [Stoppers -> [instance: Instances \cup {NULL}, batch: SUBSET Uploads]]
    BY <1>5 DEF Crash, TypeOK, IdleStop
  <2>3. cmd' \in [Clients -> Command \cup {IdleCommand}]
    BY <1>5 DEF Crash, TypeOK
  <2>4. /\ up' \in [Instances -> BOOLEAN] /\ shuttingDown' \in [Instances -> BOOLEAN]
        /\ controllers' \in [Instances -> SUBSET Uploads] /\ crashes' \in Nat
        /\ UNCHANGED <<rows, now, nextToken, faults>>
    BY <1>5 DEF Crash, TypeOK
  <2> QED BY <2>1, <2>2, <2>3, <2>4 DEF TypeOK
<1> QED BY <1>1, <1>2, <1>3, <1>4, <1>5

(* Reading for and carrying out a user command break no type.              *)
LEMMA CommandType ==
    ASSUME TypeOK, NEW c \in Clients,
           \/ \E i \in Instances, op \in Commands, u \in Uploads : CommandRead(c, i, op, u)
           \/ CommandWrite(c)
    PROVE  TypeOK'
<1>0. rows \in [Uploads -> Row] /\ cmd \in [Clients -> Command \cup {IdleCommand}]
  BY DEF TypeOK
<1>1. ASSUME NEW i \in Instances, NEW op \in Commands, NEW u \in Uploads, CommandRead(c, i, op, u)
      PROVE  TypeOK'
  <2>1. op \in {"pause", "resume", "cancel", "retry"}
    BY LifecycleAssumption DEF LifecycleAssumption
  <2>2. [op |-> op, instance |-> i, upload |-> u, task |-> rows[u]] \in Command
    BY <1>0, <2>1 DEF Command
  <2>3. cmd' \in [Clients -> Command \cup {IdleCommand}]
    BY <1>0, <1>1, <2>2 DEF CommandRead
  <2> QED BY <1>1, <2>3 DEF CommandRead, TypeOK
<1>2. CASE CommandWrite(c)
  <2> DEFINE u == cmd[c].upload
             i == cmd[c].instance
  <2>1. cmd[c] \in Command
    BY <1>0, <1>2 DEF CommandWrite
  <2>2. /\ u \in Uploads /\ i \in Instances /\ cmd[c].task \in Row
        /\ cmd[c].op \in {"pause", "resume", "cancel", "retry"}
    BY <2>1 DEF Command
  <2>3. Decision(cmd[c].op, cmd[c].task) \in Row
    BY <2>2, DecisionRows
  <2>4. rows' \in [Uploads -> Row]
    BY <1>0, <1>2, <2>2, <2>3 DEF CommandWrite
  <2>5. AbortUploads(i, {u}) \/ UNCHANGED att
    BY <1>2 DEF CommandWrite
  <2>6. att' \in [Instances -> [Uploads -> Attempt]]
    BY <2>2, <2>5, AbortType DEF TypeOK
  <2>7. cmd' \in [Clients -> Command \cup {IdleCommand}]
    BY <1>0, <1>2 DEF CommandWrite
  <2> QED BY <1>2, <2>4, <2>6, <2>7 DEF CommandWrite, TypeOK
<1> QED BY <1>1, <1>2

(* The two halves of stop() break no type.                                 *)
LEMMA StopType ==
    ASSUME TypeOK, NEW s \in Stoppers,
           (\E i \in Instances : StopBegin(s, i)) \/ StopEnd(s)
    PROVE  TypeOK'
<1>1. ASSUME NEW i \in Instances, StopBegin(s, i)
      PROVE  TypeOK'
  <2>1. att' \in [Instances -> [Uploads -> Attempt]]
    BY <1>1, AbortType DEF StopBegin
  <2>2. InFlight(i) \in SUBSET Uploads
    BY DEF InFlight
  <2>3. stop' \in [Stoppers -> [instance: Instances \cup {NULL}, batch: SUBSET Uploads]]
    BY <1>1, <2>2 DEF StopBegin, TypeOK
  <2> QED BY <1>1, <2>1, <2>3 DEF StopBegin, TypeOK
<1>2. CASE StopEnd(s)
  <2>1. stop' \in [Stoppers -> [instance: Instances \cup {NULL}, batch: SUBSET Uploads]]
    BY <1>2 DEF StopEnd, TypeOK, IdleStop
  <2>2. shuttingDown' \in [Instances -> BOOLEAN] /\ controllers' \in [Instances -> SUBSET Uploads]
    BY <1>2 DEF StopEnd, TypeOK
  <2> QED BY <1>2, <2>1, <2>2 DEF StopEnd, TypeOK
<1> QED BY <1>1, <1>2

(* No step breaks a type.                                                  *)
LEMMA NextType == TypeOK /\ [Next]_vars => TypeOK'
<1> SUFFICES ASSUME TypeOK, [Next]_vars
             PROVE  TypeOK'
  OBVIOUS
<1>1. CASE UNCHANGED vars
  BY <1>1 DEF vars, TypeOK
<1>2. CASE Next
  BY <1>2, EnvironmentType, AttemptStepType, CommandType, StopType DEF Next
<1> QED BY <1>1, <1>2

(* Every variable keeps its type: in particular no step of any process,    *)
(* crash or fault writes a row outside the table's columns.                *)
THEOREM TypeCorrect == Spec => []TypeOK
BY InitType, NextType, PTL DEF Spec

-----------------------------------------------------------------------------
(* The inductive invariant.  Nearly every step is quiet: the rows it       *)
(* changes end up claimed by nobody, and the attempts it changes are over  *)
(* or go on with the claim they have.  Only launching, claiming, reading   *)
(* back and reporting progress are not.                                    *)

Early == {"idle", "claim", "readback"}

GoesOn(a, b) ==
    /\ b.token = a.token
    /\ b.task = a.task
    /\ b.pc = "idle" <=> a.pc = "idle"
    /\ b.pc = "claim" => a.pc = "claim"
    /\ a.pc \in Early => b.pc \in Early
    /\ b.pc \in {"commit", "release"} => LetsGo(b.next)

Unheld(row) ==
    /\ row.status # "uploading"
    /\ row.processingToken = NULL
    /\ row.processingStartedAt = NULL

QuietRows == \A u \in Uploads : rows'[u] = rows[u] \/ Unheld(rows'[u])

QuietAttempts ==
    \A i \in Instances, u \in Uploads :
        att'[i][u] = IdleAttempt \/ GoesOn(att[i][u], att'[i][u])

(* A quiet step that issues no token keeps the inductive invariant.        *)
LEMMA QuietStep ==
    ASSUME IInv, TypeOK', QuietRows, QuietAttempts, nextToken' = nextToken
    PROVE  IInv'
<1>0. /\ \A i \in Instances, u \in Uploads : att[i][u] \in Attempt /\ att'[i][u] \in Attempt
      /\ \A u \in Uploads : rows[u] \in Row /\ rows'[u] \in Row
  BY DEF IInv, TypeOK
<1>1. \A i \in Instances, u \in Uploads :
         att'[i][u].token # NULL => GoesOn(att[i][u], att'[i][u])
  BY DEF QuietAttempts, IdleAttempt
<1>2. TokensIssued'
  BY <1>1 DEF QuietAttempts, IdleAttempt, GoesOn, IInv, TokensIssued
<1>3. TokensDistinct'
  BY <1>1 DEF GoesOn, IInv, TokensDistinct
<1>4. TokensPlaced'
  <2> SUFFICES ASSUME NEW u \in Uploads, rows'[u].processingToken # NULL
               PROVE  /\ rows'[u].processingToken < nextToken'
                      /\ \A i \in Instances, v \in Uploads :
                            att'[i][v].token = rows'[u].processingToken
                            => v = u /\ att'[i][v].pc # "claim"
    BY DEF TokensPlaced
  <2>1. rows'[u] = rows[u]
    BY DEF QuietRows, Unheld
  <2> QED BY <1>1, <2>1 DEF GoesOn, IInv, TokensPlaced
<1>5. WritesLetGo'
  BY DEF QuietAttempts, IdleAttempt, GoesOn, WritesLetGo
<1>6. ClaimIffUploading'
  BY DEF QuietRows, Unheld, IInv, ClaimIffUploading
<1>7. HolderSeesTruth'
  <2> SUFFICES ASSUME NEW i \in Instances, NEW u \in Uploads,
                      att'[i][u].pc \notin Early,
                      HeldBy(rows'[u], att'[i][u].token)
               PROVE  [rows'[u] EXCEPT !.progress = 0] = [att'[i][u].task EXCEPT !.progress = 0]
    BY DEF HolderSeesTruth, Early
  <2>1. GoesOn(att[i][u], att'[i][u])
    BY DEF QuietAttempts, IdleAttempt, Early
  <2>2. att[i][u].pc \notin Early /\ att[i][u].token # NULL
    BY <2>1 DEF GoesOn, IInv, TokensIssued, Early
  <2>3. rows'[u] = rows[u]
    BY <2>1, <2>2 DEF QuietRows, Unheld, GoesOn, HeldBy
  <2> QED BY <2>1, <2>2, <2>3 DEF GoesOn, IInv, HolderSeesTruth, Early
<1> QED BY <1>2, <1>3, <1>4, <1>5, <1>6, <1>7 DEF IInv

(* An attempt left as it is goes on.                                       *)
LEMMA Unmoved ==
    ASSUME IInv, NEW i \in Instances, NEW u \in Uploads
    PROVE  GoesOn(att[i][u], att[i][u])
BY DEF GoesOn, IInv, WritesLetGo

(* A step that touches no attempt is quiet about attempts.                 *)
LEMMA AttemptsUnchanged ==
    ASSUME IInv, UNCHANGED att
    PROVE  QuietAttempts
BY Unmoved DEF QuietAttempts

(* Settling an attempt is quiet.                                           *)
LEMMA SettleQuiet ==
    ASSUME IInv, NEW i \in Instances, NEW u \in Uploads, Settle(i, u)
    PROVE  QuietAttempts
<1> SUFFICES ASSUME NEW j \in Instances, NEW v \in Uploads
             PROVE  att'[j][v] \in {att[j][v], IdleAttempt}
  BY Unmoved DEF QuietAttempts
<1> QED BY DEF Settle, IInv, TypeOK

(* Moving a claimed attempt on to an await that is not a write is quiet.   *)
LEMMA GotoQuiet ==
    ASSUME IInv, NEW i \in Instances, NEW u \in Uploads,
           NEW pc \in Phase \ (Early \cup {"commit", "release"}),
           att' = [att EXCEPT ![i][u].pc = pc], att[i][u].pc \notin Early
    PROVE  QuietAttempts
<1>1. \A j \in Instances, v \in Uploads :
         att'[j][v] = IF j = i /\ v = u THEN [att[i][u] EXCEPT !.pc = pc] ELSE att[j][v]
  BY DEF IInv, TypeOK
<1>2. GoesOn(att[i][u], [att[i][u] EXCEPT !.pc = pc])
  <2>1. att[i][u] \in Attempt
    BY DEF IInv, TypeOK
  <2> QED BY <2>1 DEF GoesOn, Attempt, Early
<1> QED BY <1>1, <1>2, Unmoved DEF QuietAttempts

(* A claimed attempt choosing a row that lets go of the claim is quiet.    *)
LEMMA WriteQuiet ==
    ASSUME IInv, NEW i \in Instances, NEW u \in Uploads, NEW pc \in {"commit", "release"},
           NEW row, LetsGo(row), Write(i, u, pc, row), att[i][u].pc \notin Early
    PROVE  QuietAttempts
<1>1. \A j \in Instances, v \in Uploads :
         att'[j][v] = IF j = i /\ v = u THEN [att[i][u] EXCEPT !.pc = pc, !.next = row]
                                        ELSE att[j][v]
  BY DEF Write, IInv, TypeOK
<1>2. GoesOn(att[i][u], [att[i][u] EXCEPT !.pc = pc, !.next = row])
  <2>1. att[i][u] \in Attempt
    BY DEF IInv, TypeOK
  <2>2. [att[i][u] EXCEPT !.pc = pc, !.next = row].next = row
    BY <2>1 DEF Attempt
  <2> QED BY <2>1, <2>2 DEF GoesOn, Attempt, Early
<1> QED BY <1>1, <1>2, Unmoved DEF QuietAttempts

(* Aborting controllers is quiet: it only raises the flag of attempts.     *)
LEMMA AbortQuiet ==
    ASSUME IInv, NEW i \in Instances, NEW S \in SUBSET Uploads, AbortUploads(i, S)
    PROVE  QuietAttempts
<1> SUFFICES ASSUME NEW j \in Instances, NEW v \in Uploads
             PROVE  GoesOn(att[j][v], att'[j][v])
  BY DEF QuietAttempts
<1>1. att'[j][v] \in {att[j][v], [att[j][v] EXCEPT !.aborted = TRUE]}
  BY DEF AbortUploads, IInv, TypeOK
<1>2. GoesOn(att[j][v], [att[j][v] EXCEPT !.aborted = TRUE])
  <2>1. att[j][v] \in Attempt
    BY DEF IInv, TypeOK
  <2> QED BY <2>1, Unmoved DEF GoesOn, Attempt
<1> QED BY <1>1, <1>2, Unmoved

(* The four loud steps. *)

(* Launching keeps the inductive invariant: the token is fresh.            *)
LEMMA LaunchInv ==
    ASSUME IInv, TypeOK', NEW i \in Instances, NEW u \in Uploads, Launch(i, u)
    PROVE  IInv'
<1> DEFINE a == [IdleAttempt EXCEPT !.pc = "claim", !.token = nextToken, !.at = now]
<1>1. \A j \in Instances, v \in Uploads :
         att'[j][v] = IF j = i /\ v = u THEN a ELSE att[j][v]
  BY DEF Launch, IInv, TypeOK
<1>2. a.pc = "claim" /\ a.token = nextToken
  BY DEF IdleAttempt
<1>3. rows' = rows /\ nextToken' = nextToken + 1 /\ nextToken \in Nat /\ nextToken # NULL
  BY NullAssumption DEF Launch, IInv, TypeOK
<1>4. \A j \in Instances, v \in Uploads : att[j][v].token \in Nat \cup {NULL}
  BY DEF IInv, TypeOK, Attempt
<1>5. \A v \in Uploads : rows[v].processingToken \in Nat \cup {NULL}
  BY DEF IInv, TypeOK, Row
<1> HIDE DEF a
<1>6. TokensIssued'
  BY <1>1, <1>2, <1>3, <1>4 DEF IInv, TokensIssued
<1>7. TokensDistinct'
  BY <1>1, <1>2, <1>3, <1>4 DEF IInv, TokensIssued, TokensDistinct
<1>8. TokensPlaced'
  BY <1>1, <1>2, <1>3, <1>5 DEF IInv, TokensPlaced
<1>9. WritesLetGo'
  BY <1>1, <1>2 DEF IInv, WritesLetGo
<1>10. ClaimIffUploading'
  BY <1>3 DEF IInv, ClaimIffUploading
<1>11. HolderSeesTruth'
  BY <1>1, <1>2, <1>3 DEF IInv, HolderSeesTruth
<1> QED BY <1>6, <1>7, <1>8, <1>9, <1>10, <1>11 DEF IInv

(* The conditional UPDATE of claim() keeps the inductive invariant: only a *)
(* row nobody holds becomes the attempt's.                                 *)
LEMMA ClaimRowInv ==
    ASSUME IInv, TypeOK', NEW i \in Instances, NEW u \in Uploads, ClaimRow(i, u)
    PROVE  IInv'
<1>1. CASE ~Claimable(rows[u], att[i][u].at)
  <2>1. Settle(i, u) /\ UNCHANGED <<rows, nextToken>>
    BY <1>1 DEF ClaimRow
  <2> QED BY <2>1, SettleQuiet, QuietStep DEF QuietRows
<1>2. CASE Claimable(rows[u], att[i][u].at)
  <2> DEFINE t == att[i][u].token
             s == att[i][u].at
  <2>1. /\ rows' = [rows EXCEPT ![u] = Claimed(@, t, s)]
        /\ att' = [att EXCEPT ![i][u].pc = "readback"]
        /\ nextToken' = nextToken /\ att[i][u].pc = "claim"
    BY <1>2 DEF ClaimRow, Goto
  <2>2. \A j \in Instances, v \in Uploads :
           /\ att'[j][v].token = att[j][v].token
           /\ att'[j][v].task = att[j][v].task
           /\ att'[j][v].next = att[j][v].next
           /\ att'[j][v].pc = IF j = i /\ v = u THEN "readback" ELSE att[j][v].pc
    BY <2>1 DEF IInv, TypeOK, Attempt
  <2>3. \A v \in Uploads : v # u => rows'[v] = rows[v]
    BY <2>1 DEF IInv, TypeOK
  <2>4. rows'[u] = Claimed(rows[u], t, s) /\ rows[u] \in Row
    BY <2>1 DEF IInv, TypeOK
  <2>5. /\ rows'[u].status = "uploading"
        /\ rows'[u].processingToken = t
        /\ rows'[u].processingStartedAt = s
    BY <2>4 DEF Claimed, Row
  <2>6. t # NULL /\ t < nextToken /\ s # NULL
    BY <2>1, NullAssumption DEF IInv, TokensIssued, TypeOK, Attempt
  <2>7. \A v \in Uploads : rows[v].processingToken # t
    BY <2>1, <2>6 DEF IInv, TokensPlaced
  <2> HIDE DEF t, s
  <2>8. TokensIssued' /\ TokensDistinct'
    BY <2>1, <2>2 DEF IInv, TokensIssued, TokensDistinct
  <2>9. TokensPlaced'
    <3> SUFFICES ASSUME NEW v \in Uploads, rows'[v].processingToken # NULL
                 PROVE  /\ rows'[v].processingToken < nextToken'
                        /\ \A j \in Instances, w \in Uploads :
                              att'[j][w].token = rows'[v].processingToken
                              => w = v /\ att'[j][w].pc # "claim"
      BY DEF TokensPlaced
    <3>1. CASE v # u
      BY <3>1, <2>1, <2>2, <2>3 DEF IInv, TokensPlaced
    <3>2. CASE v = u
      <4> SUFFICES ASSUME NEW j \in Instances, NEW w \in Uploads, att[j][w].token = t
                   PROVE  w = u /\ att'[j][w].pc # "claim"
        BY <3>2, <2>1, <2>2, <2>5, <2>6
      <4>1. j = i /\ w = u
        BY <2>6 DEF IInv, TokensDistinct, t
      <4> QED BY <4>1, <2>2
    <3> QED BY <3>1, <3>2
  <2>10. WritesLetGo'
    BY <2>2 DEF IInv, WritesLetGo
  <2>11. ClaimIffUploading'
    BY <2>3, <2>5, <2>6 DEF IInv, ClaimIffUploading
  <2>12. HolderSeesTruth'
    <3> SUFFICES ASSUME NEW j \in Instances, NEW v \in Uploads,
                        att'[j][v].pc \notin Early, HeldBy(rows'[v], att'[j][v].token)
                 PROVE  [rows'[v] EXCEPT !.progress = 0] = [att'[j][v].task EXCEPT !.progress = 0]
      BY DEF HolderSeesTruth, Early
    <3>1. ~(j = i /\ v = u)
      BY <2>2 DEF Early
    <3>2. v # u
      BY <3>1, <2>2, <2>5, <2>6 DEF HeldBy, IInv, TokensDistinct, t
    <3>3. rows'[v] = rows[v] /\ att'[j][v].task = att[j][v].task
      BY <3>2, <2>2, <2>3
    <3>4. att[j][v].pc \notin Early /\ HeldBy(rows[v], att[j][v].token)
      BY <3>1, <3>2, <2>2, <2>3 DEF HeldBy, Present
    <3>5. [rows[v] EXCEPT !.progress = 0] = [att[j][v].task EXCEPT !.progress = 0]
      BY <3>4 DEF IInv, HolderSeesTruth, Early
    <3> QED BY <3>3, <3>5
  <2> QED BY <2>8, <2>9, <2>10, <2>11, <2>12 DEF IInv
<1> QED BY <1>1, <1>2

(* Reading back by token keeps the inductive invariant: the attempt's copy *)
(* of the row is the row.                                                  *)
LEMMA ReadBackInv ==
    ASSUME IInv, TypeOK', NEW i \in Instances, NEW u \in Uploads, ReadBack(i, u)
    PROVE  IInv'
<1>1. CASE ~HeldBy(rows[u], att[i][u].token)
  <2>1. Settle(i, u) /\ UNCHANGED <<rows, nextToken>>
    BY <1>1 DEF ReadBack
  <2> QED BY <2>1, SettleQuiet, QuietStep DEF QuietRows
<1>2. CASE HeldBy(rows[u], att[i][u].token)
  <2>1. /\ att' = [att EXCEPT ![i][u].pc = "preflight", ![i][u].task = rows[u]]
        /\ rows' = rows /\ nextToken' = nextToken /\ att[i][u].pc = "readback"
    BY <1>2 DEF ReadBack
  <2>2. \A j \in Instances, v \in Uploads :
           /\ att'[j][v].token = att[j][v].token
           /\ att'[j][v].task = IF j = i /\ v = u THEN rows[u] ELSE att[j][v].task
           /\ att'[j][v].next = att[j][v].next
           /\ att'[j][v].pc = IF j = i /\ v = u THEN "preflight" ELSE att[j][v].pc
    BY <2>1 DEF IInv, TypeOK, Attempt
  <2>3. /\ TokensIssued'
        /\ TokensDistinct'
        /\ TokensPlaced'
    <3>0. \A j \in Instances, v \in Uploads :
             /\ att'[j][v].token = att[j][v].token
             /\ att'[j][v].pc = "idle" <=> att[j][v].pc = "idle"
             /\ att'[j][v].pc = "claim" <=> att[j][v].pc = "claim"
      <4>1. att[i][u].pc = "readback"
        BY <2>1
      <4> QED BY <4>1, <2>2
    <3>4. rows' = rows /\ nextToken' = nextToken
      BY <2>1
    <3>1. TokensIssued'
      BY <3>0, <3>4 DEF IInv, TokensIssued
    <3>2. TokensDistinct'
      BY <3>0 DEF IInv, TokensDistinct
    <3>3. TokensPlaced'
      BY <3>0, <3>4 DEF IInv, TokensPlaced
    <3> QED BY <3>1, <3>2, <3>3
  <2>4. WritesLetGo'
    BY <2>2 DEF IInv, WritesLetGo
  <2>5. ClaimIffUploading'
    BY <2>1 DEF IInv, ClaimIffUploading
  <2>6. HolderSeesTruth'
    <3> SUFFICES ASSUME NEW j \in Instances, NEW v \in Uploads,
                        att'[j][v].pc \notin Early, HeldBy(rows[v], att[j][v].token)
                 PROVE  [rows[v] EXCEPT !.progress = 0] = [att'[j][v].task EXCEPT !.progress = 0]
      BY <2>1, <2>2 DEF HolderSeesTruth, Early
    <3>1. CASE j = i /\ v = u
      BY <3>1, <2>2
    <3>2. CASE ~(j = i /\ v = u)
      <4>1. att'[j][v].task = att[j][v].task /\ att[j][v].pc \notin Early
        BY <3>2, <2>2
      <4> QED BY <4>1 DEF IInv, HolderSeesTruth, Early
    <3> QED BY <3>1, <3>2
  <2> QED BY <2>3, <2>4, <2>5, <2>6 DEF IInv
<1> QED BY <1>1, <1>2

(* A progress write keeps the inductive invariant: it changes the one      *)
(* column the holder's copy may lack.                                      *)
LEMMA PersistProgressInv ==
    ASSUME IInv, TypeOK', NEW i \in Instances, NEW u \in Uploads, PersistProgress(i, u)
    PROVE  IInv'
<1>1. rows' = [rows EXCEPT ![u].progress = 1] /\ att' = att /\ nextToken' = nextToken
  BY DEF PersistProgress
<1>2. \A v \in Uploads :
         /\ rows'[v].status = rows[v].status
         /\ rows'[v].processingToken = rows[v].processingToken
         /\ rows'[v].processingStartedAt = rows[v].processingStartedAt
         /\ [rows'[v] EXCEPT !.progress = 0] = [rows[v] EXCEPT !.progress = 0]
  <2>1. \A v \in Uploads : rows'[v] = IF v = u THEN [rows[u] EXCEPT !.progress = 1] ELSE rows[v]
    BY <1>1 DEF IInv, TypeOK
  <2>2. rows[u] \in Row
    BY DEF IInv, TypeOK
  <2>3. [[rows[u] EXCEPT !.progress = 1] EXCEPT !.progress = 0] = [rows[u] EXCEPT !.progress = 0]
    BY <2>2 DEF Row
  <2> QED BY <2>1, <2>2, <2>3 DEF Row
<1>3. TokensIssued' /\ TokensDistinct' /\ TokensPlaced' /\ WritesLetGo'
  BY <1>1, <1>2 DEF IInv, TokensIssued, TokensDistinct, TokensPlaced, WritesLetGo
<1>4. ClaimIffUploading'
  BY <1>2 DEF IInv, ClaimIffUploading
<1>5. HolderSeesTruth'
  <2> SUFFICES ASSUME NEW j \in Instances, NEW v \in Uploads,
                      att[j][v].pc \notin Early, HeldBy(rows'[v], att[j][v].token)
               PROVE  [rows'[v] EXCEPT !.progress = 0] = [att[j][v].task EXCEPT !.progress = 0]
    BY <1>1 DEF HolderSeesTruth, Early
  <2>1. HeldBy(rows[v], att[j][v].token)
    BY <1>2 DEF HeldBy, Present
  <2>2. [rows[v] EXCEPT !.progress = 0] = [att[j][v].task EXCEPT !.progress = 0]
    BY <2>1 DEF IInv, HolderSeesTruth, Early
  <2> QED BY <1>2, <2>2
<1> QED BY <1>3, <1>4, <1>5 DEF IInv

(* The quiet steps of an attempt. *)

(* updateOwned keeps the inductive invariant: it gives back the claim, or  *)
(* does nothing.                                                           *)
LEMMA CommitInv ==
    ASSUME IInv, TypeOK', NEW i \in Instances, NEW u \in Uploads, Commit(i, u)
    PROVE  IInv'
<1>1. LetsGo(att[i][u].next)
  BY DEF Commit, IInv, WritesLetGo
<1>2. QuietRows
  BY <1>1 DEF Commit, QuietRows, Unheld, LetsGo, IInv, TypeOK
<1> QED BY <1>2, SettleQuiet, QuietStep DEF Commit

(* The other steps of an attempt, faults included, are quiet.              *)
LEMMA QuietAttemptStepInv ==
    ASSUME IInv, TypeOK', NEW i \in Instances, NEW u \in Uploads,
           \/ ReleaseOffline(i, u) \/ FileMissing(i, u) \/ StartUpload(i, u)
           \/ \E code \in HttpCodes : Respond(i, u, code)
           \/ \E thrown \in Errors : TransportThrows(i, u, thrown)
           \/ AbortError(i, u) \/ CheckDecision(i, u) \/ ResolveAbort(i, u)
           \/ ClaimFault(i, u) \/ AttemptFault(i, u) \/ ReleaseFault(i, u)
    PROVE  IInv'
<1>0. QuietRows /\ nextToken' = nextToken
  BY DEF QuietRows, ReleaseOffline, FileMissing, StartUpload, Respond, TransportThrows, AbortError,
         CheckDecision, ResolveAbort, ClaimFault, AttemptFault, ReleaseFault
<1> SUFFICES QuietAttempts
  BY <1>0, QuietStep
<1> DEFINE task == att[i][u].task
<1>1. att[i][u] \in Attempt /\ task \in Row /\ now \in Nat
  <2>1. att[i][u] \in Attempt /\ now \in Nat
    BY DEF IInv, TypeOK
  <2> QED BY <2>1 DEF Attempt
<1>2. \A kind \in {"file-not-found", "cancelled", "unknown"} : kind \in ErrorKind
  BY DEF ErrorKind
<1>3. CASE ReleaseOffline(i, u) \/ FileMissing(i, u)
  <2>1. \E row : LetsGo(row) /\ Write(i, u, "commit", row)
    BY <1>1, <1>2, <1>3, AttemptRows DEF ReleaseOffline, FileMissing
  <2> QED BY <2>1, <1>3, WriteQuiet DEF ReleaseOffline, FileMissing, Early
<1>4. CASE StartUpload(i, u)
  BY <1>4, GotoQuiet DEF StartUpload, Phase, Early
<1>5. ASSUME NEW code \in HttpCodes, Respond(i, u, code)
      PROVE  QuietAttempts
  <2>1. ClassifyHttpStatus(code) \in ErrorKind
    BY LifecycleAssumption, ClassifiedKinds DEF LifecycleAssumption
  <2>2. LetsGo(Completed(task))
    BY <1>1, <2>1, AttemptRows
  <2>3. \A row \in FailureRows(task, ClassifyHttpStatus(code)) : LetsGo(row)
    BY <1>1, <2>1, FailureRowsLetGo, LifecycleAssumption
  <2>4. \E row : LetsGo(row) /\ Write(i, u, "commit", row)
    BY <1>5, <2>2, <2>3 DEF Respond
  <2> QED BY <2>4, <1>5, WriteQuiet DEF Respond, Early
<1>6. ASSUME NEW thrown \in Errors, TransportThrows(i, u, thrown)
      PROVE  QuietAttempts
  <2>1. ClassifyThrown(thrown) \in ErrorKind
    BY LifecycleAssumption, ClassifiedKinds DEF LifecycleAssumption
  <2>2. \A row \in FailureRows(task, ClassifyThrown(thrown)) : LetsGo(row)
    BY <1>1, <2>1, FailureRowsLetGo, LifecycleAssumption
  <2>3. \E row : LetsGo(row) /\ Write(i, u, "commit", row)
    BY <1>6, <2>2 DEF TransportThrows
  <2> QED BY <2>3, <1>6, WriteQuiet DEF TransportThrows, Early
<1>7. CASE AbortError(i, u) \/ CheckDecision(i, u)
  <2>1. CASE Settle(i, u)
    BY <2>1, SettleQuiet
  <2>2. CASE ~Settle(i, u)
    <3>1. PICK pc \in {"aborted", "shutdown?"} : att' = [att EXCEPT ![i][u].pc = pc]
      BY <1>7, <2>2 DEF AbortError, CheckDecision, Goto
    <3>2. att[i][u].pc \notin Early
      BY <1>7 DEF AbortError, CheckDecision, Early
    <3>3. pc \in Phase \ (Early \cup {"commit", "release"})
      BY DEF Phase, Early
    <3> QED BY <3>1, <3>2, <3>3, GotoQuiet
  <2> QED BY <2>1, <2>2
<1>8. CASE ResolveAbort(i, u)
  <2>1. \E row : \E pc \in {"commit", "release"} : LetsGo(row) /\ Write(i, u, pc, row)
    BY <1>1, <1>2, <1>8, AttemptRows DEF ResolveAbort
  <2> QED BY <2>1, <1>8, WriteQuiet DEF ResolveAbort, Early
<1>9. CASE AttemptFault(i, u)
  <2>1. \E row : LetsGo(row) /\ Write(i, u, "release", row)
    BY <1>1, <1>2, <1>9, AttemptRows DEF AttemptFault
  <2> QED BY <2>1, <1>9, WriteQuiet DEF AttemptFault, Early
<1>10. CASE ClaimFault(i, u) \/ ReleaseFault(i, u)
  BY <1>10, SettleQuiet DEF ClaimFault, ReleaseFault
<1> QED BY <1>3, <1>4, <1>5, <1>6, <1>7, <1>8, <1>9, <1>10

(* Time, enqueue, purge, recovery and crashes keep the inductive           *)
(* invariant.                                                              *)
LEMMA EnvironmentInv ==
    ASSUME IInv, TypeOK',
           \/ Tick
           \/ \E u \in Uploads : Enqueue(u)
           \/ \E S \in SUBSET Uploads : Purge(S)
           \/ \E i \in Instances : Initialize(i) \/ Crash(i)
    PROVE  IInv'
<1>0. nextToken' = nextToken
  BY DEF Tick, Enqueue, Purge, Initialize, Crash
<1>1. CASE Tick
  BY <1>0, <1>1, AttemptsUnchanged, QuietStep DEF Tick, QuietRows
<1>2. ASSUME NEW u \in Uploads, Enqueue(u)
      PROVE  IInv'
  <2>1. Unheld(Enqueued)
    BY DEF Enqueued, NoRow, Unheld
  <2>2. QuietRows
    BY <1>2, <2>1 DEF Enqueue, QuietRows, IInv, TypeOK
  <2> QED BY <1>0, <1>2, <2>2, AttemptsUnchanged, QuietStep DEF Enqueue
<1>3. ASSUME NEW S \in SUBSET Uploads, Purge(S)
      PROVE  IInv'
  <2>1. Unheld([NoRow EXCEPT !.status = "purged"])
    BY DEF NoRow, Unheld
  <2>2. QuietRows
    BY <1>3, <2>1 DEF Purge, QuietRows
  <2> QED BY <1>0, <1>3, <2>2, AttemptsUnchanged, QuietStep DEF Purge
<1>4. ASSUME NEW i \in Instances, Initialize(i)
      PROVE  IInv'
  <2>1. \A u \in Uploads : Unheld(Recovered(rows[u]))
    <3>1. \A u \in Uploads : rows[u] \in Row
      BY DEF IInv, TypeOK
    <3> QED BY <3>1 DEF Recovered, Unheld, Row
  <2>2. QuietRows
    BY <1>4, <2>1 DEF Initialize, QuietRows
  <2> QED BY <1>0, <1>4, <2>2, AttemptsUnchanged, QuietStep DEF Initialize
<1>5. ASSUME NEW i \in Instances, Crash(i)
      PROVE  IInv'
  <2>1. QuietRows
    BY <1>5 DEF Crash, QuietRows
  <2>2. \A j \in Instances, v \in Uploads : att'[j][v] \in {att[j][v], IdleAttempt}
    BY <1>5 DEF Crash, IInv, TypeOK
  <2>3. QuietAttempts
    BY <2>2, Unmoved DEF QuietAttempts
  <2> QED BY <1>0, <2>1, <2>3, QuietStep
<1> QED BY <1>1, <1>2, <1>3, <1>4, <1>5

(* The user commands keep the inductive invariant, stale as the row they   *)
(* write may be.                                                           *)
LEMMA CommandInv ==
    ASSUME IInv, TypeOK', NEW c \in Clients,
           \/ \E i \in Instances, op \in Commands, u \in Uploads : CommandRead(c, i, op, u)
           \/ CommandWrite(c)
    PROVE  IInv'
<1>1. CASE \E i \in Instances, op \in Commands, u \in Uploads : CommandRead(c, i, op, u)
  BY <1>1, AttemptsUnchanged, QuietStep DEF CommandRead, QuietRows
<1>2. CASE CommandWrite(c)
  <2>1. cmd[c] \in Command
    BY <1>2 DEF CommandWrite, IInv, TypeOK
  <2>2. /\ cmd[c].upload \in Uploads /\ cmd[c].instance \in Instances /\ cmd[c].task \in Row
        /\ cmd[c].op \in {"pause", "resume", "cancel", "retry"}
    BY <2>1 DEF Command
  <2>3. Unheld(Decision(cmd[c].op, cmd[c].task))
    BY <2>2, DecisionRows DEF Unheld
  <2>4. QuietRows
    BY <1>2, <2>2, <2>3 DEF CommandWrite, QuietRows, IInv, TypeOK
  <2>5. AbortUploads(cmd[c].instance, {cmd[c].upload}) \/ UNCHANGED att
    BY <1>2 DEF CommandWrite
  <2>6. QuietAttempts
    BY <2>2, <2>5, AbortQuiet, AttemptsUnchanged
  <2> QED BY <1>2, <2>4, <2>6, QuietStep DEF CommandWrite
<1> QED BY <1>1, <1>2

(* stop() keeps the inductive invariant.                                   *)
LEMMA StopInv ==
    ASSUME IInv, TypeOK', NEW s \in Stoppers,
           (\E i \in Instances : StopBegin(s, i)) \/ StopEnd(s)
    PROVE  IInv'
<1>1. QuietRows /\ nextToken' = nextToken
  BY DEF StopBegin, StopEnd, QuietRows
<1>2. QuietAttempts
  BY AbortQuiet, AttemptsUnchanged DEF StopBegin, StopEnd
<1> QED BY <1>1, <1>2, QuietStep

(* An empty table satisfies the inductive invariant.                       *)
LEMMA InitInv == Init => IInv
<1> SUFFICES ASSUME Init PROVE IInv
  OBVIOUS
<1>1. TypeOK
  BY InitType
<1>2. /\ \A i \in Instances, u \in Uploads : att[i][u] = IdleAttempt
      /\ \A u \in Uploads : rows[u] = NoRow
  BY DEF Init
<1>3. TokensIssued /\ TokensDistinct /\ WritesLetGo /\ HolderSeesTruth
  BY <1>2 DEF IdleAttempt, TokensIssued, TokensDistinct, WritesLetGo, HolderSeesTruth
<1>4. TokensPlaced /\ ClaimIffUploading
  BY <1>2 DEF NoRow, TokensPlaced, ClaimIffUploading
<1> QED BY <1>1, <1>3, <1>4 DEF IInv

(* Every step keeps the inductive invariant.                               *)
LEMMA NextInv == IInv /\ [Next]_vars => IInv'
<1> SUFFICES ASSUME IInv, [Next]_vars
             PROVE  IInv'
  OBVIOUS
<1>0. TypeOK'
  BY NextType DEF IInv
<1>1. CASE UNCHANGED vars
  BY <1>0, <1>1, AttemptsUnchanged, QuietStep DEF vars, QuietRows
<1>2. CASE Tick \/ (\E u \in Uploads : Enqueue(u)) \/ (\E S \in SUBSET Uploads : Purge(S))
           \/ \E i \in Instances : Initialize(i) \/ Crash(i)
  BY <1>0, <1>2, EnvironmentInv
<1>3. ASSUME NEW i \in Instances, NEW u \in Uploads,
             \/ Launch(i, u) \/ AttemptStep(i, u) \/ PersistProgress(i, u)
             \/ ClaimFault(i, u) \/ AttemptFault(i, u) \/ ReleaseFault(i, u)
      PROVE  IInv'
  BY <1>0, <1>3, LaunchInv, ClaimRowInv, ReadBackInv, PersistProgressInv, CommitInv,
     QuietAttemptStepInv DEF AttemptStep
<1>4. ASSUME NEW c \in Clients,
             \/ \E i \in Instances, op \in Commands, u \in Uploads : CommandRead(c, i, op, u)
             \/ CommandWrite(c)
      PROVE  IInv'
  BY <1>0, <1>4, CommandInv
<1>5. ASSUME NEW s \in Stoppers, (\E i \in Instances : StopBegin(s, i)) \/ StopEnd(s)
      PROVE  IInv'
  BY <1>0, <1>5, StopInv
<1> QED BY <1>1, <1>2, <1>3, <1>4, <1>5 DEF Next

(* The inductive invariant holds in every reachable state. *)
THEOREM Invariant == Spec => []IInv
BY InitInv, NextInv, PTL DEF Spec

-----------------------------------------------------------------------------
(* What the invariant gives                                                *)

(* processing_token is set exactly on the rows that say uploading, and so  *)
(* is processing_started_at: the fence and the recovery statement see      *)
(* every claim and nothing but claims.                                     *)
THEOREM ClaimsAreMarked == Spec => []ClaimIffUploading
<1>1. IInv => ClaimIffUploading
  BY DEF IInv
<1> QED BY <1>1, Invariant, PTL

(* updateOwned() writes whole rows and still loses no update: whoever may  *)
(* write a row has seen all of it but its progress.                        *)
THEOREM NoLostUpdateByHolder == Spec => []HolderSeesTruth
<1>1. IInv => HolderSeesTruth
  BY DEF IInv
<1> QED BY <1>1, Invariant, PTL

(* The one step that rewrites a paused or cancelled row is a user          *)
(* command's update(): an attempt's writes are fenced by a token the row   *)
(* no longer has, and recovery and claims look at the status.              *)
LEMMA DecisionStep ==
    ASSUME IInv, [Next]_vars, NEW u \in Uploads,
           rows[u].status \in {"paused", "cancelled"}, rows'[u] # rows[u]
    PROVE  \E c \in Clients : cmd[c].upload = u /\ cmd'[c] # cmd[c]
<1>0. rows \in [Uploads -> Row] /\ cmd \in [Clients -> Command \cup {IdleCommand}]
  BY DEF IInv, TypeOK
<1>1. rows[u].processingToken = NULL
  BY DEF IInv, ClaimIffUploading
<1>2. PICK c \in Clients : CommandWrite(c)
  <2>1. ~(Tick \/ UNCHANGED vars)
    BY DEF Tick, vars
  <2>2. ~(\/ \E v \in Uploads : Enqueue(v)
          \/ \E S \in SUBSET Uploads : Purge(S)
          \/ \E i \in Instances : Initialize(i) \/ Crash(i))
    BY <1>0 DEF Enqueue, Purge, Initialize, Crash, Abandoned
  <2>3. ASSUME NEW i \in Instances, NEW v \in Uploads, ClaimRow(i, v)
        PROVE  FALSE
    BY <1>0, <2>3 DEF ClaimRow, Claimable, Due
  <2>4. ASSUME NEW i \in Instances, NEW v \in Uploads, PersistProgress(i, v)
        PROVE  FALSE
    BY <1>0, <2>4 DEF PersistProgress, ProgressApplies
  <2>5. ASSUME NEW i \in Instances, NEW v \in Uploads, Commit(i, v)
        PROVE  FALSE
    <3>1. att[i][v].token # NULL
      BY <2>5 DEF Commit, IInv, TokensIssued
    <3> QED BY <1>0, <1>1, <2>5, <3>1 DEF Commit, HeldBy
  <2>6. ASSUME NEW i \in Instances, NEW v \in Uploads,
               \/ Launch(i, v) \/ ReadBack(i, v) \/ ReleaseOffline(i, v) \/ FileMissing(i, v)
               \/ StartUpload(i, v) \/ \E code \in HttpCodes : Respond(i, v, code)
               \/ \E thrown \in Errors : TransportThrows(i, v, thrown)
               \/ AbortError(i, v) \/ CheckDecision(i, v) \/ ResolveAbort(i, v)
               \/ ClaimFault(i, v) \/ AttemptFault(i, v) \/ ReleaseFault(i, v)
        PROVE  FALSE
    BY <2>6 DEF Launch, ReadBack, ReleaseOffline, FileMissing, StartUpload, Respond,
                TransportThrows, AbortError, CheckDecision, ResolveAbort, ClaimFault, AttemptFault,
                ReleaseFault
  <2>7. ~\E c \in Clients, i \in Instances, op \in Commands, v \in Uploads : CommandRead(c, i, op, v)
    BY DEF CommandRead
  <2>8. ~\E s \in Stoppers : (\E i \in Instances : StopBegin(s, i)) \/ StopEnd(s)
    BY DEF StopBegin, StopEnd
  <2> QED BY <2>1, <2>2, <2>3, <2>4, <2>5, <2>6, <2>7, <2>8 DEF Next, AttemptStep
<1>3. cmd[c].upload = u
  BY <1>0, <1>2 DEF CommandWrite
<1>4. cmd'[c] # cmd[c]
  BY <1>0, <1>2 DEF CommandWrite
<1> QED BY <1>3, <1>4

(* A paused or cancelled row changes only when a user command is carried   *)
(* out: no answer, progress write, release or recovery ever reaches it.    *)
THEOREM DecisionsStick == Spec => UserDecisionSticks
<1>1. IInv /\ [Next]_vars =>
        [\A u \in Uploads :
            rows[u].status \in {"paused", "cancelled"} /\ rows'[u] # rows[u]
            => \E c \in Clients : cmd[c].upload = u /\ cmd'[c] # cmd[c]]_vars
  BY DecisionStep
<1> QED BY <1>1, Invariant, PTL DEF Spec, UserDecisionSticks
================================================================================
