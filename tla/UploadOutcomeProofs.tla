-------------------------- MODULE UploadOutcomeProofs --------------------------
(***************************************************************************)
(* Theorems of UploadLifecycle about where uploads end: the attempts they  *)
(* are given, transfers of one upload by two processes, and uploads that   *)
(* stop() interrupts.  Each is an invariant of its own above IInv.         *)
(***************************************************************************)
EXTENDS UploadLifecycleProofs, UploadSends, FiniteSetTheorems

-----------------------------------------------------------------------------
(* What a step may do to a row                                             *)

RowFate(u) ==
    \/ rows'[u] = rows[u]
    \/ rows[u].status = "none" /\ rows'[u] = Enqueued
    \/ rows[u].status = "completed" /\ rows'[u] = [NoRow EXCEPT !.status = "purged"]
    \/ /\ Abandoned(rows[u], now - Timeout) /\ rows'[u] = Recovered(rows[u])
       /\ UNCHANGED <<att, now>> /\ \E i \in Instances : Initialize(i)
    \/ \E i \in Instances :
          /\ att[i][u].pc = "claim" /\ rows[u].status = "pending"
          /\ rows'[u] = Claimed(rows[u], att[i][u].token, att[i][u].at)
    \/ rows'[u] = [rows[u] EXCEPT !.progress = 1]
    \/ \E i \in Instances :
          /\ Commit(i, u) /\ HeldBy(rows[u], att[i][u].token) /\ rows'[u] = att[i][u].next
    \/ \E c \in Clients :
          /\ cmd[c] \in Command /\ cmd[c].upload = u
          /\ rows'[u] = Decision(cmd[c].op, cmd[c].task)

(* Every step does one of these to every row.                              *)
LEMMA RowFates ==
    ASSUME TypeOK, [Next]_vars, NEW u \in Uploads
    PROVE  RowFate(u)
<1>0. rows \in [Uploads -> Row] /\ cmd \in [Clients -> Command \cup {IdleCommand}]
  BY DEF TypeOK
<1>1. CASE UNCHANGED rows
  BY <1>1 DEF RowFate
<1>2. ASSUME NEW v \in Uploads, Enqueue(v)
      PROVE  RowFate(u)
  BY <1>0, <1>2 DEF Enqueue, RowFate
<1>3. ASSUME NEW S \in SUBSET Uploads, Purge(S)
      PROVE  RowFate(u)
  BY <1>0, <1>3 DEF Purge, RowFate
<1>4. ASSUME NEW i \in Instances, Initialize(i)
      PROVE  RowFate(u)
  BY <1>0, <1>4 DEF Initialize, RowFate
<1>5. ASSUME NEW i \in Instances, NEW v \in Uploads, ClaimRow(i, v)
      PROVE  RowFate(u)
  BY <1>0, <1>5 DEF ClaimRow, Claimable, Due, RowFate
<1>6. ASSUME NEW i \in Instances, NEW v \in Uploads, PersistProgress(i, v)
      PROVE  RowFate(u)
  BY <1>0, <1>6 DEF PersistProgress, RowFate
<1>7. ASSUME NEW i \in Instances, NEW v \in Uploads, Commit(i, v)
      PROVE  RowFate(u)
  <2>1. CASE u = v /\ HeldBy(rows[v], att[i][v].token)
    <3>1. rows'[u] = att[i][u].next
      BY <1>0, <1>7, <2>1 DEF Commit
    <3> QED BY <1>7, <2>1, <3>1 DEF RowFate
  <2>2. CASE ~(u = v /\ HeldBy(rows[v], att[i][v].token))
    <3>1. rows'[u] = rows[u]
      BY <1>0, <1>7, <2>2 DEF Commit
    <3> QED BY <3>1 DEF RowFate
  <2> QED BY <2>1, <2>2
<1>8. ASSUME NEW c \in Clients, CommandWrite(c)
      PROVE  RowFate(u)
  <2>1. cmd[c] \in Command
    BY <1>0, <1>8 DEF CommandWrite
  <2>2. CASE u = cmd[c].upload /\ Present(rows[u])
    <3>1. rows'[u] = Decision(cmd[c].op, cmd[c].task)
      BY <1>0, <1>8, <2>2 DEF CommandWrite
    <3> QED BY <2>1, <2>2, <3>1 DEF RowFate
  <2>3. CASE ~(u = cmd[c].upload /\ Present(rows[u]))
    <3>1. rows'[u] = rows[u]
      BY <1>0, <1>8, <2>3 DEF CommandWrite
    <3> QED BY <3>1 DEF RowFate
  <2> QED BY <2>2, <2>3
<1>9. CASE \/ Tick \/ UNCHANGED vars
           \/ \E i \in Instances : Crash(i)
           \/ \E c \in Clients, i \in Instances, op \in Commands, v \in Uploads : CommandRead(c, i, op, v)
           \/ \E s \in Stoppers : (\E i \in Instances : StopBegin(s, i)) \/ StopEnd(s)
  BY <1>1, <1>9 DEF Tick, vars, Crash, CommandRead, StopBegin, StopEnd
<1>10. ASSUME NEW i \in Instances, NEW v \in Uploads,
              \/ Launch(i, v) \/ ReadBack(i, v) \/ ReleaseOffline(i, v) \/ FileMissing(i, v)
              \/ StartUpload(i, v) \/ \E code \in HttpCodes : Respond(i, v, code)
              \/ \E thrown \in Errors : TransportThrows(i, v, thrown)
              \/ AbortError(i, v) \/ CheckDecision(i, v) \/ ResolveAbort(i, v)
              \/ ClaimFault(i, v) \/ AttemptFault(i, v) \/ ReleaseFault(i, v)
       PROVE  RowFate(u)
  BY <1>1, <1>10 DEF Launch, ReadBack, ReleaseOffline, FileMissing, StartUpload, Respond,
                TransportThrows, AbortError, CheckDecision, ResolveAbort, ClaimFault, AttemptFault,
                ReleaseFault
<1> QED BY <1>2, <1>3, <1>4, <1>5, <1>6, <1>7, <1>8, <1>9, <1>10 DEF Next, AttemptStep

-----------------------------------------------------------------------------
(* What a step may do to an attempt                                        *)

(* A row that an attempt decides to write.                                 *)
Verdict(i, u, row) ==
    /\ LetsGo(row)
    /\ row.status = "pending" =>
          row.attempts = att[i][u].task.attempts \/ row.attempts < MaxAttempts
    /\ row.status = "failed" /\ row.lastError = "cancelled" =>
          att[i][u].pc = "shutdown?" /\ ~shuttingDown[i]

(* What the write costs: an attempt, or none where the claim is released   *)
(* or was deferred before anything was sent.                               *)
Costs(i, u, pc, row) ==
    LET task == att[i][u].task
    IN  \/ row.attempts = task.attempts + 1
        \/ /\ row.attempts = task.attempts
           /\ pc = "release" \/ (att[i][u].pc = "preflight" /\ row = Deferred(task))

(* One disjunct per await that an attempt leaves, and its end.             *)
AttemptFate(i, u) ==
    LET a == att[i][u]
        b == att'[i][u]
    IN  \/ b = a
        \/ b = IdleAttempt /\ u \notin controllers'[i]
        \/ /\ b = [a EXCEPT !.aborted = TRUE] /\ u \in controllers[i]
           /\ \/ \E s \in Stoppers : StopBegin(s, i)
              \/ \E c \in Clients : CommandWrite(c) /\ cmd[c].upload = u /\ Present(rows[u])
        \/ a.pc = "idle" /\ b = [IdleAttempt EXCEPT !.pc = "claim", !.token = nextToken, !.at = now]
        \/ a.pc = "claim" /\ b = [a EXCEPT !.pc = "readback"] /\ ClaimRow(i, u)
        \/ /\ a.pc = "readback" /\ HeldBy(rows[u], a.token) /\ UNCHANGED <<rows, now>>
           /\ b = [a EXCEPT !.pc = "preflight", !.task = rows[u]]
        \/ a.pc = "preflight" /\ b = [a EXCEPT !.pc = "transport"] /\ StartUpload(i, u)
        \/ a.pc = "transport" /\ a.aborted /\ b = [a EXCEPT !.pc = "aborted"]
        \/ a.pc = "aborted" /\ b = [a EXCEPT !.pc = "shutdown?"]
        \/ /\ a.pc \notin {"idle", "claim", "readback"}
           /\ \E pc \in {"commit", "release"}, row \in Row :
                 /\ Verdict(i, u, row) /\ Costs(i, u, pc, row)
                 /\ b = [a EXCEPT !.pc = pc, !.next = row]

(* The rows that give an upload up for good or for a while.                *)
LEMMA FailureVerdicts ==
    ASSUME TypeOK, NEW i \in Instances, NEW u \in Uploads, NEW kind \in ErrorKind \ {"cancelled"},
           NEW row \in FailureRows(att[i][u].task, kind)
    PROVE  Verdict(i, u, row) /\ Costs(i, u, "commit", row)
<1> DEFINE task == att[i][u].task
<1>0. task \in Row /\ now \in Nat /\ task.attempts \in Nat
  <2>1. att[i][u] \in Attempt /\ now \in Nat
    BY DEF TypeOK
  <2> QED BY <2>1 DEF Attempt, Row
<1>1. LetsGo(row)
  BY <1>0, LifecycleAssumption, FailureRowsLetGo
<1>2. CASE \E s \in {"blocked", "failed"} : row = GivenUp(task, s, kind)
  <2>1. /\ row.status \in {"blocked", "failed"} /\ row.lastError = kind
        /\ row.attempts = task.attempts + 1
    BY <1>0, <1>2 DEF GivenUp, Row
  <2> QED BY <1>1, <2>1 DEF Verdict, Costs
<1>3. ASSUME NEW d \in RetryDelays, row = Rescheduled(task, kind, now + d),
             task.attempts + 1 < MaxAttempts
      PROVE  Verdict(i, u, row) /\ Costs(i, u, "commit", row)
  <2>1. row.status = "pending" /\ row.attempts = task.attempts + 1
    BY <1>0, <1>3 DEF Rescheduled, Row
  <2> QED BY <1>1, <1>3, <2>1 DEF Verdict, Costs
<1> QED BY <1>2, <1>3 DEF FailureRows

(* The other rows an attempt writes.                                       *)
LEMMA OtherVerdicts ==
    ASSUME TypeOK, NEW i \in Instances, NEW u \in Uploads
    PROVE  /\ Verdict(i, u, Completed(att[i][u].task))
           /\ Costs(i, u, "commit", Completed(att[i][u].task))
           /\ Verdict(i, u, Deferred(att[i][u].task))
           /\ att[i][u].pc = "preflight" => Costs(i, u, "commit", Deferred(att[i][u].task))
           /\ \A kind \in ErrorKind :
                 /\ Verdict(i, u, Released(att[i][u].task, kind))
                 /\ Costs(i, u, "release", Released(att[i][u].task, kind))
                 /\ Costs(i, u, "commit", GivenUp(att[i][u].task, "failed", kind))
           /\ \A kind \in ErrorKind \ {"cancelled"} :
                 Verdict(i, u, GivenUp(att[i][u].task, "failed", kind))
           /\ att[i][u].pc = "shutdown?" /\ ~shuttingDown[i] =>
                 Verdict(i, u, GivenUp(att[i][u].task, "failed", "cancelled"))
<1> DEFINE task == att[i][u].task
<1>0. task \in Row /\ "cancelled" \in ErrorKind
  <2>1. att[i][u] \in Attempt
    BY DEF TypeOK
  <2> QED BY <2>1 DEF Attempt, ErrorKind
<1> HIDE DEF task
<1>1. LetsGo(Completed(task)) /\ LetsGo(Deferred(task))
  BY <1>0, AttemptRows
<1>2. \A kind \in ErrorKind : LetsGo(Released(task, kind)) /\ LetsGo(GivenUp(task, "failed", kind))
  BY <1>0, AttemptRows
<1>3. /\ Completed(task).status = "completed" /\ Completed(task).attempts = task.attempts + 1
      /\ Deferred(task).status = "pending" /\ Deferred(task).attempts = task.attempts
  BY <1>0 DEF Completed, Deferred, Row
<1>4. \A kind \in ErrorKind :
         /\ Released(task, kind).status = "pending" /\ Released(task, kind).attempts = task.attempts
         /\ GivenUp(task, "failed", kind).status = "failed"
         /\ GivenUp(task, "failed", kind).lastError = kind
         /\ GivenUp(task, "failed", kind).attempts = task.attempts + 1
  BY <1>0 DEF Released, GivenUp, Row
<1>5. task = att[i][u].task
  BY DEF task
<1>6. /\ Costs(i, u, "commit", Completed(task))
      /\ att[i][u].pc = "preflight" => Costs(i, u, "commit", Deferred(task))
      /\ \A kind \in ErrorKind :
            /\ Costs(i, u, "release", Released(task, kind))
            /\ Costs(i, u, "commit", GivenUp(task, "failed", kind))
  BY <1>3, <1>4, <1>5 DEF Costs
<1>7. /\ Verdict(i, u, Completed(task)) /\ Verdict(i, u, Deferred(task))
      /\ \A kind \in ErrorKind : Verdict(i, u, Released(task, kind))
      /\ \A kind \in ErrorKind \ {"cancelled"} : Verdict(i, u, GivenUp(task, "failed", kind))
      /\ att[i][u].pc = "shutdown?" /\ ~shuttingDown[i] =>
            Verdict(i, u, GivenUp(task, "failed", "cancelled"))
  BY <1>0, <1>1, <1>2, <1>3, <1>4, <1>5 DEF Verdict
<1> QED BY <1>5, <1>6, <1>7

(* A step of one attempt leaves the others alone.                          *)
LEMMA OneAttempt ==
    ASSUME TypeOK, NEW i \in Instances, NEW u \in Uploads,
           \/ Launch(i, u) \/ AttemptStep(i, u) \/ PersistProgress(i, u)
           \/ ClaimFault(i, u) \/ AttemptFault(i, u) \/ ReleaseFault(i, u)
    PROVE  \A j \in Instances, v \in Uploads : ~(j = i /\ v = u) => att'[j][v] = att[j][v]
<1>1. \/ att' = att
      \/ Settle(i, u) \/ (\E pc : Goto(i, u, pc)) \/ (\E pc, row : Write(i, u, pc, row))
      \/ \E a : att' = [att EXCEPT ![i][u] = a]
      \/ att' = [att EXCEPT ![i][u].pc = "preflight", ![i][u].task = rows[u]]
      \/ att' = [att EXCEPT ![i][u].pc = "transport"]
  BY DEF AttemptStep, Launch, PersistProgress, ClaimRow, ReadBack, ReleaseOffline, FileMissing,
         StartUpload, Respond, TransportThrows, AbortError, CheckDecision, ResolveAbort, Commit,
         ClaimFault, AttemptFault, ReleaseFault
<1>2. \E a : att' = [att EXCEPT ![i][u] = a] \/ att' = att
  <2>1. CASE Settle(i, u)
    BY <2>1 DEF Settle
  <2>2. ASSUME NEW pc, Goto(i, u, pc)
        PROVE  \E a : att' = [att EXCEPT ![i][u] = a]
    <3>1. att' = [att EXCEPT ![i][u] = [@ EXCEPT !.pc = pc]]
      BY <2>2 DEF Goto
    <3> QED BY <3>1, Zenon
  <2>3. ASSUME NEW pc, NEW row, Write(i, u, pc, row)
        PROVE  \E a : att' = [att EXCEPT ![i][u] = a]
    <3>1. att' = [att EXCEPT ![i][u] = [@ EXCEPT !.pc = pc, !.next = row]]
      BY <2>3 DEF Write, TypeOK
    <3> QED BY <3>1, Zenon
  <2>4. CASE att' = [att EXCEPT ![i][u].pc = "preflight", ![i][u].task = rows[u]]
    <3>1. att' = [att EXCEPT ![i][u] = [@ EXCEPT !.pc = "preflight", !.task = rows[u]]]
      BY <2>4 DEF TypeOK
    <3> QED BY <3>1, Zenon
  <2>5. CASE att' = [att EXCEPT ![i][u].pc = "transport"]
    <3>1. att' = [att EXCEPT ![i][u] = [@ EXCEPT !.pc = "transport"]]
      BY <2>5
    <3> QED BY <3>1, Zenon
  <2> QED BY <1>1, <2>1, <2>2, <2>3, <2>4, <2>5
<1> QED BY <1>2 DEF TypeOK

(* The steps of an attempt do to it what AttemptFate says.                 *)
LEMMA OwnFate ==
    ASSUME TypeOK, NEW i \in Instances, NEW u \in Uploads,
           \/ Launch(i, u) \/ AttemptStep(i, u) \/ PersistProgress(i, u)
           \/ ClaimFault(i, u) \/ AttemptFault(i, u) \/ ReleaseFault(i, u)
    PROVE  AttemptFate(i, u)
<1> DEFINE a == att[i][u]
<1>0. /\ att \in [Instances -> [Uploads -> Attempt]] /\ a \in Attempt /\ a.task \in Row
      /\ \A kind \in {"file-not-found", "unknown", "cancelled"} : kind \in ErrorKind
      /\ controllers \in [Instances -> SUBSET Uploads]
  BY DEF TypeOK, Attempt, ErrorKind
<1>1. CASE Settle(i, u) \/ PersistProgress(i, u)
  <2>1. (att'[i][u] = IdleAttempt /\ u \notin controllers'[i]) \/ att'[i][u] = att[i][u]
    BY <1>0, <1>1 DEF Settle, PersistProgress
  <2> QED BY <2>1 DEF AttemptFate
<1>2. CASE Launch(i, u)
  <2>1. att'[i][u] = [IdleAttempt EXCEPT !.pc = "claim", !.token = nextToken, !.at = now]
    BY <1>0, <1>2 DEF Launch
  <2> QED BY <1>2, <2>1 DEF AttemptFate, Launch
<1>3. CASE ClaimRow(i, u) /\ ~Settle(i, u)
  <2>1. att'[i][u] = [a EXCEPT !.pc = "readback"] /\ a.pc = "claim"
    BY <1>0, <1>3 DEF ClaimRow, Goto
  <2> QED BY <1>3, <2>1 DEF AttemptFate
<1>4. CASE ReadBack(i, u) /\ ~Settle(i, u)
  <2>1. att'[i][u] = [a EXCEPT !.pc = "preflight", !.task = rows[u]]
    BY <1>0, <1>4 DEF ReadBack
  <2> QED BY <1>4, <2>1 DEF AttemptFate, ReadBack
<1>5. CASE StartUpload(i, u)
  <2>1. att'[i][u] = [a EXCEPT !.pc = "transport"] /\ a.pc = "preflight"
    BY <1>0, <1>5 DEF StartUpload
  <2> QED BY <1>5, <2>1 DEF AttemptFate
<1>6. CASE AbortError(i, u)
  <2>1. att'[i][u] = [a EXCEPT !.pc = "aborted"] /\ a.pc = "transport" /\ a.aborted
    BY <1>0, <1>6 DEF AbortError, Goto
  <2> QED BY <2>1 DEF AttemptFate
<1>7. CASE CheckDecision(i, u) /\ ~Settle(i, u)
  <2>1. att'[i][u] = [a EXCEPT !.pc = "shutdown?"] /\ a.pc = "aborted"
    BY <1>0, <1>7 DEF CheckDecision, Goto
  <2> QED BY <2>1 DEF AttemptFate
<1>8. ASSUME NEW pc \in {"commit", "release"}, NEW row, Verdict(i, u, row), Costs(i, u, pc, row),
             Write(i, u, pc, row), a.pc \notin {"idle", "claim", "readback"}
      PROVE  AttemptFate(i, u)
  <2>1. att'[i][u] = [a EXCEPT !.pc = pc, !.next = row]
    BY <1>0, <1>8 DEF Write
  <2>2. row \in Row
    BY <1>8 DEF Verdict, LetsGo
  <2> QED BY <1>8, <2>1, <2>2 DEF AttemptFate
<1>9. CASE ReleaseOffline(i, u)
  <2>1. Verdict(i, u, Deferred(a.task)) /\ Costs(i, u, "commit", Deferred(a.task))
    BY <1>9, OtherVerdicts DEF ReleaseOffline
  <2> QED BY <1>8, <1>9, <2>1 DEF ReleaseOffline
<1>10. CASE FileMissing(i, u)
  <2>1. /\ Verdict(i, u, GivenUp(a.task, "failed", "file-not-found"))
        /\ Costs(i, u, "commit", GivenUp(a.task, "failed", "file-not-found"))
    BY <1>0, OtherVerdicts
  <2> QED BY <1>8, <1>10, <2>1 DEF FileMissing
<1>11. ASSUME NEW code \in HttpCodes, Respond(i, u, code)
       PROVE  AttemptFate(i, u)
  <2>1. ClassifyHttpStatus(code) \in ErrorKind \ {"cancelled"}
    BY LifecycleAssumption DEF LifecycleAssumption, ClassifyHttpStatus, ErrorKind
  <2>2. \A row \in FailureRows(a.task, ClassifyHttpStatus(code)) :
           Verdict(i, u, row) /\ Costs(i, u, "commit", row)
    BY <2>1, FailureVerdicts
  <2>3. Verdict(i, u, Completed(a.task)) /\ Costs(i, u, "commit", Completed(a.task))
    BY OtherVerdicts
  <2>4. PICK row : Verdict(i, u, row) /\ Costs(i, u, "commit", row) /\ Write(i, u, "commit", row)
    BY <1>11, <2>2, <2>3 DEF Respond
  <2> QED BY <1>8, <1>11, <2>4 DEF Respond
<1>12. ASSUME NEW thrown \in Errors, TransportThrows(i, u, thrown)
       PROVE  AttemptFate(i, u)
  <2>1. ClassifyThrown(thrown) \in ErrorKind \ {"cancelled"}
    BY DEF ClassifyThrown, ErrorKind
  <2>2. \A row \in FailureRows(a.task, ClassifyThrown(thrown)) :
           Verdict(i, u, row) /\ Costs(i, u, "commit", row)
    BY <2>1, FailureVerdicts
  <2>3. PICK row : Verdict(i, u, row) /\ Costs(i, u, "commit", row) /\ Write(i, u, "commit", row)
    BY <1>12, <2>2 DEF TransportThrows
  <2> QED BY <1>8, <1>12, <2>3 DEF TransportThrows
<1>13. CASE ResolveAbort(i, u)
  <2>1. CASE shuttingDown[i]
    <3>1. /\ Verdict(i, u, Released(a.task, "cancelled"))
          /\ Costs(i, u, "release", Released(a.task, "cancelled"))
      BY <1>0, OtherVerdicts
    <3> QED BY <1>8, <1>13, <2>1, <3>1 DEF ResolveAbort
  <2>2. CASE ~shuttingDown[i]
    <3>1. /\ Verdict(i, u, GivenUp(a.task, "failed", "cancelled"))
          /\ Costs(i, u, "commit", GivenUp(a.task, "failed", "cancelled"))
      BY <1>0, <1>13, <2>2, OtherVerdicts DEF ResolveAbort
    <3> QED BY <1>8, <1>13, <2>2, <3>1 DEF ResolveAbort
  <2> QED BY <2>1, <2>2
<1>14. CASE AttemptFault(i, u)
  <2>1. /\ Verdict(i, u, Released(a.task, "unknown"))
        /\ Costs(i, u, "release", Released(a.task, "unknown"))
    BY <1>0, OtherVerdicts
  <2> QED BY <1>8, <1>14, <2>1 DEF AttemptFault
<1>15. Commit(i, u) \/ ClaimFault(i, u) \/ ReleaseFault(i, u) => Settle(i, u)
  BY DEF Commit, ClaimFault, ReleaseFault
<1> QED BY <1>1, <1>2, <1>3, <1>4, <1>5, <1>6, <1>7, <1>9, <1>10, <1>11, <1>12, <1>13, <1>14, <1>15
        DEF AttemptStep

(* Aborting through controllers is the third fate.                         *)
LEMMA AbortFate ==
    ASSUME TypeOK, NEW i \in Instances, NEW S \in SUBSET Uploads, AbortUploads(i, S),
           NEW j \in Instances, NEW v \in Uploads
    PROVE  \/ att'[j][v] = att[j][v]
           \/ /\ j = i /\ v \in S /\ v \in controllers[j]
              /\ att'[j][v] = [att[j][v] EXCEPT !.aborted = TRUE]
BY DEF AbortUploads, TypeOK

(* Every step does one of these to every attempt.                          *)
LEMMA AttemptFates ==
    ASSUME TypeOK, [Next]_vars, NEW j \in Instances, NEW v \in Uploads
    PROVE  AttemptFate(j, v)
<1>0. cmd \in [Clients -> Command \cup {IdleCommand}]
  BY DEF TypeOK
<1>1. CASE UNCHANGED att
  BY <1>1 DEF AttemptFate
<1>2. CASE UNCHANGED vars \/ Tick \/ (\E u \in Uploads : Enqueue(u))
           \/ (\E S \in SUBSET Uploads : Purge(S)) \/ (\E i \in Instances : Initialize(i))
           \/ \E c \in Clients, i \in Instances, op \in Commands, u \in Uploads : CommandRead(c, i, op, u)
           \/ \E s \in Stoppers : StopEnd(s)
  BY <1>1, <1>2 DEF vars, Tick, Enqueue, Purge, Initialize, CommandRead, StopEnd
<1>3. ASSUME NEW i \in Instances, Crash(i)
      PROVE  AttemptFate(j, v)
  <2>1. att'[j][v] = att[j][v] \/ (att'[j][v] = IdleAttempt /\ v \notin controllers'[j])
    BY <1>3 DEF Crash, TypeOK
  <2> QED BY <2>1 DEF AttemptFate
<1>4. ASSUME NEW i \in Instances, NEW u \in Uploads,
             \/ Launch(i, u) \/ AttemptStep(i, u) \/ PersistProgress(i, u)
             \/ ClaimFault(i, u) \/ AttemptFault(i, u) \/ ReleaseFault(i, u)
      PROVE  AttemptFate(j, v)
  <2>1. CASE j = i /\ v = u
    BY <1>4, <2>1, OwnFate
  <2>2. CASE ~(j = i /\ v = u)
    <3>1. att'[j][v] = att[j][v]
      BY <1>4, <2>2, OneAttempt
    <3> QED BY <3>1 DEF AttemptFate
  <2> QED BY <2>1, <2>2
<1>6. ASSUME NEW c \in Clients, CommandWrite(c)
      PROVE  AttemptFate(j, v)
  <2>1. cmd[c].instance \in Instances /\ {cmd[c].upload} \in SUBSET Uploads
    BY <1>0, <1>6 DEF CommandWrite, Command
  <2>2. UNCHANGED att \/ (AbortUploads(cmd[c].instance, {cmd[c].upload}) /\ Present(rows[cmd[c].upload]))
    BY <1>6 DEF CommandWrite
  <2>3. CASE AbortUploads(cmd[c].instance, {cmd[c].upload}) /\ Present(rows[cmd[c].upload])
    <3>1. \/ att'[j][v] = att[j][v]
          \/ /\ j = cmd[c].instance /\ v \in {cmd[c].upload} /\ v \in controllers[j]
             /\ att'[j][v] = [att[j][v] EXCEPT !.aborted = TRUE]
      BY <2>1, <2>3, AbortFate
    <3> QED BY <1>6, <2>3, <3>1 DEF AttemptFate
  <2> QED BY <1>1, <2>2, <2>3
<1>7. ASSUME NEW s \in Stoppers, NEW i \in Instances, StopBegin(s, i)
      PROVE  AttemptFate(j, v)
  <2>1. AbortUploads(i, Uploads)
    BY <1>7 DEF StopBegin
  <2>2. \/ att'[j][v] = att[j][v]
        \/ j = i /\ v \in controllers[j] /\ att'[j][v] = [att[j][v] EXCEPT !.aborted = TRUE]
    BY <2>1, AbortFate
  <2> QED BY <1>7, <2>2 DEF AttemptFate
<1>8. ASSUME Next PROVE AttemptFate(j, v)
  <2>1. CASE \/ Tick \/ (\E u \in Uploads : Enqueue(u)) \/ (\E S \in SUBSET Uploads : Purge(S))
             \/ \E i \in Instances : Initialize(i) \/ Crash(i)
    BY <1>2, <1>3, <2>1
  <2>2. CASE \/ \E c \in Clients, i \in Instances, op \in Commands, u \in Uploads : CommandRead(c, i, op, u)
             \/ \E c \in Clients : CommandWrite(c)
    BY <1>2, <1>6, <2>2
  <2>3. CASE \E s \in Stoppers, i \in Instances : StopBegin(s, i)
    BY <1>7, <2>3
  <2>4. CASE \E s \in Stoppers : StopEnd(s)
    <3>1. UNCHANGED att
      BY <2>4 DEF StopEnd
    <3> QED BY <1>1, <3>1
  <2> QED BY <1>4, <1>8, <2>1, <2>2, <2>3, <2>4 DEF Next
<1> QED BY <1>2, <1>8

(* Every step leaves a command as it is, reads for it or ends it.          *)
LEMMA CommandFates ==
    ASSUME IInv, [Next]_vars, NEW c \in Clients
    PROVE  \/ cmd'[c] = cmd[c] \/ cmd'[c] = IdleCommand
           \/ \E i \in Instances, op \in Commands, u \in Uploads : CommandRead(c, i, op, u)
<1>0. cmd \in [Clients -> Command \cup {IdleCommand}]
  BY DEF IInv, TypeOK
<1>1. CASE UNCHANGED cmd
  BY <1>1
<1>2. ASSUME NEW d \in Clients, NEW i \in Instances, NEW op \in Commands, NEW u \in Uploads,
             CommandRead(d, i, op, u)
      PROVE  cmd'[c] = cmd[c] \/ (c = d /\ CommandRead(c, i, op, u))
  BY <1>0, <1>2 DEF CommandRead
<1>3. ASSUME NEW d \in Clients, CommandWrite(d)
      PROVE  cmd'[c] = cmd[c] \/ cmd'[c] = IdleCommand
  BY <1>0, <1>3 DEF CommandWrite
<1>4. ASSUME NEW i \in Instances, Crash(i)
      PROVE  cmd'[c] = cmd[c] \/ cmd'[c] = IdleCommand
  BY <1>0, <1>4 DEF Crash
<1>5. CASE UNCHANGED vars \/ Tick \/ (\E u \in Uploads : Enqueue(u))
           \/ (\E S \in SUBSET Uploads : Purge(S)) \/ (\E i \in Instances : Initialize(i))
           \/ \E s \in Stoppers : (\E i \in Instances : StopBegin(s, i)) \/ StopEnd(s)
  BY <1>1, <1>5 DEF vars, Tick, Enqueue, Purge, Initialize, StopBegin, StopEnd
<1>6. ASSUME NEW i \in Instances, NEW u \in Uploads,
             \/ Launch(i, u) \/ AttemptStep(i, u) \/ PersistProgress(i, u)
             \/ ClaimFault(i, u) \/ AttemptFault(i, u) \/ ReleaseFault(i, u)
      PROVE  UNCHANGED cmd
  BY <1>6 DEF AttemptStep, Launch, PersistProgress, ClaimRow, ReadBack, ReleaseOffline, FileMissing,
         StartUpload, Respond, TransportThrows, AbortError, CheckDecision, ResolveAbort, Commit,
         ClaimFault, AttemptFault, ReleaseFault
<1> QED BY <1>1, <1>2, <1>3, <1>4, <1>5, <1>6 DEF Next

(* Time passes one tick at a time.                                         *)
LEMMA ClockStep == ASSUME [Next]_vars PROVE now' = now \/ now' = now + 1
<1>1. CASE UNCHANGED vars \/ Tick \/ (\E u \in Uploads : Enqueue(u))
           \/ (\E S \in SUBSET Uploads : Purge(S)) \/ (\E i \in Instances : Initialize(i))
           \/ (\E c \in Clients, i \in Instances, op \in Commands, u \in Uploads : CommandRead(c, i, op, u))
           \/ \E s \in Stoppers : StopEnd(s)
  BY <1>1 DEF vars, Tick, Enqueue, Purge, Initialize, CommandRead, StopEnd
<1>2. ASSUME NEW i \in Instances, Crash(i)
      PROVE  now' = now
  BY <1>2 DEF Crash
<1>3. ASSUME NEW c \in Clients, CommandWrite(c)
      PROVE  now' = now
  BY <1>3 DEF CommandWrite
<1>4. ASSUME NEW s \in Stoppers, NEW i \in Instances, StopBegin(s, i)
      PROVE  now' = now
  BY <1>4 DEF StopBegin
<1>5. ASSUME NEW i \in Instances, NEW u \in Uploads,
             \/ Launch(i, u) \/ AttemptStep(i, u) \/ PersistProgress(i, u)
             \/ ClaimFault(i, u) \/ AttemptFault(i, u) \/ ReleaseFault(i, u)
      PROVE  now' = now
  BY <1>5 DEF AttemptStep, Launch, PersistProgress, ClaimRow, ReadBack, ReleaseOffline, FileMissing,
         StartUpload, Respond, TransportThrows, AbortError, CheckDecision, ResolveAbort, Commit,
         ClaimFault, AttemptFault, ReleaseFault
<1> QED BY <1>1, <1>2, <1>3, <1>4, <1>5 DEF Next

-----------------------------------------------------------------------------
(* maxAttempts                                                             *)

NoResume == "resume" \notin Commands /\ MaxAttempts > 0

(* Without resume(), every row that waits or is worked on, and every copy  *)
(* of one that may come back, keeps attempts left.                         *)
LEMMA AttemptsStep ==
    ASSUME NoResume, IInv, AttemptsInv, [Next]_vars
    PROVE  AttemptsInv'
<1>0. /\ TypeOK /\ TypeOK' /\ rows \in [Uploads -> Row]
      /\ \A i \in Instances, u \in Uploads : att[i][u] \in Attempt
      /\ \A c \in Clients : cmd[c] = IdleCommand \/ cmd[c] \in Command
      /\ MaxAttempts \in Nat
  BY NextType, LifecycleAssumption DEF IInv, TypeOK, LifecycleAssumption
<1>1. AttemptsLeft'
  <2> SUFFICES ASSUME NEW u \in Uploads, rows'[u].status \in {"pending", "uploading", "paused"}
               PROVE  rows'[u].attempts < MaxAttempts
    BY DEF AttemptsLeft
  <2>1. /\ rows[u] \in Row
        /\ rows[u].status \in {"pending", "uploading", "paused"} => rows[u].attempts < MaxAttempts
    BY <1>0 DEF AttemptsInv, AttemptsLeft
  <2>2. CASE rows'[u] = rows[u] \/ rows'[u] = [rows[u] EXCEPT !.progress = 1]
    BY <2>1, <2>2 DEF Row
  <2>3. CASE rows'[u] = Enqueued
    BY <1>0, <2>3 DEF NoResume, Enqueued, NoRow
  <2>4. CASE rows'[u] = [NoRow EXCEPT !.status = "purged"]
    BY <2>4 DEF NoRow
  <2>5. CASE Abandoned(rows[u], now - Timeout) /\ rows'[u] = Recovered(rows[u])
    BY <2>1, <2>5 DEF Abandoned, Recovered, Row
  <2>6. ASSUME NEW i \in Instances, rows[u].status = "pending",
               rows'[u] = Claimed(rows[u], att[i][u].token, att[i][u].at)
        PROVE  rows'[u].attempts < MaxAttempts
    BY <2>1, <2>6 DEF Claimed, Row
  <2>7. ASSUME NEW i \in Instances, Commit(i, u), rows'[u] = att[i][u].next
        PROVE  rows'[u].attempts < MaxAttempts
    <3>1. att[i][u].pc \in {"commit", "release"} /\ rows'[u].status = "pending"
      BY <2>7 DEF Commit, IInv, WritesLetGo, LetsGo
    <3> QED BY <2>7, <3>1 DEF AttemptsInv
  <2>8. ASSUME NEW c \in Clients, cmd[c] \in Command, rows'[u] = Decision(cmd[c].op, cmd[c].task)
        PROVE  rows'[u].attempts < MaxAttempts
    <3>1. cmd[c].task \in Row /\ cmd[c].op \in {"pause", "resume", "cancel", "retry"}
      BY <2>8 DEF Command
    <3>2. cmd[c].op # "cancel"
      BY <2>8, <3>1 DEF Decision, Decided, Target, Row
    <3>3. CASE cmd[c].op = "pause"
      BY <2>8, <3>1, <3>3 DEF Decision, Decided, Target, Row, AttemptsInv
    <3>4. CASE cmd[c].op = "retry"
      BY <2>8, <3>1, <3>4 DEF NoResume, Decision, Retried, Decided, Row
    <3>5. cmd[c].op # "resume"
      <4>1. cmd[c] # IdleCommand
        BY <2>8, LifecycleAssumption DEF Command, IdleCommand, LifecycleAssumption
      <4> QED BY <4>1 DEF AttemptsInv, NoResume
    <3> QED BY <2>8, <3>1, <3>2, <3>3, <3>4, <3>5
  <2> QED BY <1>0, <2>2, <2>3, <2>4, <2>5, <2>6, <2>7, <2>8, RowFates DEF RowFate
<1>2. ASSUME NEW i \in Instances, NEW u \in Uploads
      PROVE  /\ att'[i][u].pc \notin {"idle", "claim", "readback"} =>
                   att'[i][u].task.attempts < MaxAttempts
             /\ att'[i][u].pc \in {"commit", "release"} /\ att'[i][u].next.status = "pending" =>
                   att'[i][u].next.attempts < MaxAttempts
  <2> DEFINE a == att[i][u]
             b == att'[i][u]
  <2>1. /\ a \in Attempt
        /\ a.pc \notin {"idle", "claim", "readback"} => a.task.attempts < MaxAttempts
        /\ a.pc \in {"commit", "release"} /\ a.next.status = "pending" =>
              a.next.attempts < MaxAttempts
    BY <1>0 DEF AttemptsInv
  <2>2. CASE a.pc = "readback" /\ HeldBy(rows[u], a.token)
             /\ b = [a EXCEPT !.pc = "preflight", !.task = rows[u]]
    <3>1. a.token # NULL /\ rows[u].processingToken # NULL
      BY <2>2 DEF IInv, TokensIssued, HeldBy
    <3>2. rows[u].status = "uploading"
      BY <3>1 DEF IInv, ClaimIffUploading
    <3>3. rows[u].attempts < MaxAttempts
      BY <3>2 DEF AttemptsInv, AttemptsLeft
    <3> QED BY <2>1, <2>2, <3>3 DEF Attempt
  <2>3. ASSUME NEW pc \in {"commit", "release"}, NEW row \in Row, Verdict(i, u, row),
               b = [a EXCEPT !.pc = pc, !.next = row], a.pc \notin {"idle", "claim", "readback"}
        PROVE  /\ b.pc \notin {"idle", "claim", "readback"} => b.task.attempts < MaxAttempts
               /\ b.pc \in {"commit", "release"} /\ b.next.status = "pending" =>
                     b.next.attempts < MaxAttempts
    <3>1. b.task = a.task /\ b.next = row
      BY <2>1, <2>3 DEF Attempt
    <3> QED BY <2>1, <2>3, <3>1 DEF Verdict
  <2>4. CASE b = IdleAttempt
    <3>1. b.pc = "idle"
      BY <2>4 DEF IdleAttempt
    <3> QED BY <3>1
  <2>7. CASE b = [IdleAttempt EXCEPT !.pc = "claim", !.token = nextToken, !.at = now]
    <3>1. b.pc = "claim"
      BY <2>7 DEF IdleAttempt
    <3> QED BY <3>1
  <2>5. CASE \/ b = a \/ b = [a EXCEPT !.aborted = TRUE]
             \/ a.pc = "claim" /\ b = [a EXCEPT !.pc = "readback"]
             \/ a.pc = "preflight" /\ b = [a EXCEPT !.pc = "transport"]
             \/ a.pc = "transport" /\ b = [a EXCEPT !.pc = "aborted"]
             \/ a.pc = "aborted" /\ b = [a EXCEPT !.pc = "shutdown?"]
    BY <2>1, <2>5 DEF Attempt
  <2>6. AttemptFate(i, u)
    BY <1>0, AttemptFates
  <2> QED BY <2>2, <2>3, <2>4, <2>5, <2>6, <2>7 DEF AttemptFate
<1>3. ASSUME NEW c \in Clients
      PROVE  /\ cmd'[c] # IdleCommand => cmd'[c].op \in Commands
             /\ cmd'[c].op = "pause" => cmd'[c].task.attempts < MaxAttempts
  <2>1. CASE cmd'[c] = cmd[c]
    BY <2>1 DEF AttemptsInv
  <2>2. CASE cmd'[c] = IdleCommand
    <3>1. cmd'[c].task.attempts = 0
      BY <2>2 DEF IdleCommand, NoRow
    <3> QED BY <2>2, <3>1 DEF NoResume
  <2>3. ASSUME NEW i \in Instances, NEW op \in Commands, NEW u \in Uploads, CommandRead(c, i, op, u)
        PROVE  /\ cmd'[c].op \in Commands
               /\ cmd'[c].op = "pause" => cmd'[c].task.attempts < MaxAttempts
    <3>1. /\ cmd'[c].op = op /\ cmd'[c].task = rows[u] /\ Permitted(op, rows[u])
      BY <2>3 DEF CommandRead, IInv, TypeOK
    <3>2. op = "pause" => rows[u].status \in {"pending", "uploading"}
      BY <3>1 DEF Permitted, Present, CanTransition, Transitions, Target, Status
    <3> QED BY <3>1, <3>2 DEF AttemptsInv, AttemptsLeft
  <2> QED BY <2>1, <2>2, <2>3, CommandFates
<1> QED BY <1>1, <1>2, <1>3 DEF AttemptsInv


(* Without resume(), an upload that waits, is paused or is being sent has  *)
(* attempts left, in the row and in every copy that an attempt or a stale  *)
(* command may write back.  What it bounds are the outcomes that count.    *)
THEOREM AttemptsBounded == ASSUME NoResume PROVE Spec => []AttemptsLeft
<1>1. Init => AttemptsInv
  BY DEF Init, AttemptsInv, AttemptsLeft, IdleAttempt, IdleCommand, NoRow, NoResume
<1>2. IInv /\ AttemptsInv /\ [Next]_vars => AttemptsInv'
  BY AttemptsStep
<1>3. AttemptsInv => AttemptsLeft
  BY DEF AttemptsInv
<1> QED BY <1>1, <1>2, <1>3, Invariant, PTL DEF Spec

-----------------------------------------------------------------------------
(* How often an upload is sent                                             *)

(* The requests made and those that claims made so far may still make.     *)
Total(u) == sent[u] + Cardinality(Unsent(u))

LEMMA UnsentFinite ==
    ASSUME NEW S \in SUBSET Instances
    PROVE  IsFiniteSet(S) /\ Cardinality(S) \in Nat
BY SendsAssumption, FS_Subset, FS_CardinalityType DEF SendsAssumption

(* Only a claim adds an attempt that may send, and a request uses one up.  *)
LEMMA UnsentMoves ==
    ASSUME IInv, [Next]_vars, NEW u \in Uploads
    PROVE  \/ /\ Unsent(u)' \subseteq Unsent(u)
              /\ \A i \in Instances : ~StartUpload(i, u)
           \/ \E i \in Unsent(u) : StartUpload(i, u) /\ Unsent(u)' \subseteq Unsent(u) \ {i}
           \/ \E i \in Instances :
                 /\ ClaimRow(i, u) /\ att'[i][u].pc = "readback"
                 /\ Unsent(u)' \subseteq Unsent(u) \cup {i}
                 /\ \A j \in Instances : ~StartUpload(j, u)
<1>0. /\ TypeOK
      /\ \A i \in Instances : att[i][u] \in Attempt /\ att'[i][u] \in Attempt
  BY NextType DEF IInv, TypeOK
<1>1. ASSUME NEW i \in Instances, StartUpload(i, u)
      PROVE  i \in Unsent(u) /\ i \notin Unsent(u)'
  BY <1>0, <1>1 DEF StartUpload, Unsent, TypeOK
<1>2. ASSUME NEW i \in Instances, ClaimRow(i, u) \/ StartUpload(i, u), NEW j \in Instances \ {i}
      PROVE  att'[j][u] = att[j][u]
  BY <1>0, <1>2, OneAttempt DEF AttemptStep
<1>3. ASSUME NEW i \in Instances, i \in Unsent(u)', i \notin Unsent(u)
      PROVE  ClaimRow(i, u) /\ att'[i][u].pc = "readback"
  <2> DEFINE a == att[i][u]
             b == att'[i][u]
  <2>1. /\ AttemptFate(i, u) /\ a \in Attempt
        /\ a.pc \notin {"readback", "preflight"} /\ ~(a.pc = "commit" /\ a.next = Deferred(a.task))
        /\ b.pc \in {"readback", "preflight"} \/ (b.pc = "commit" /\ b.next = Deferred(b.task))
    BY <1>0, <1>3, AttemptFates DEF Unsent
  <2>2. CASE b = a \/ b = [a EXCEPT !.aborted = TRUE]
    BY <2>1, <2>2 DEF Attempt
  <2>3. CASE b = IdleAttempt \/ b = [IdleAttempt EXCEPT !.pc = "claim", !.token = nextToken, !.at = now]
    <3>1. /\ IdleAttempt.pc = "idle"
          /\ [IdleAttempt EXCEPT !.pc = "claim", !.token = nextToken, !.at = now].pc = "claim"
      BY DEF IdleAttempt
    <3>2. b.pc \in {"idle", "claim"}
      BY <2>3, <3>1
    <3> QED BY <2>1, <3>2
  <2>4. CASE \/ a.pc = "preflight" /\ b = [a EXCEPT !.pc = "transport"]
             \/ a.pc = "transport" /\ b = [a EXCEPT !.pc = "aborted"]
             \/ a.pc = "aborted" /\ b = [a EXCEPT !.pc = "shutdown?"]
    BY <2>1, <2>4 DEF Attempt
  <2>5. ASSUME NEW pc \in {"commit", "release"}, NEW row \in Row, Costs(i, u, pc, row),
               b = [a EXCEPT !.pc = pc, !.next = row]
        PROVE  FALSE
    <3>1. b.pc = pc /\ b.next = row /\ b.task = a.task
      BY <2>1, <2>5 DEF Attempt
    <3>2. pc = "commit" /\ row = Deferred(a.task)
      BY <2>1, <3>1
    <3>3. row.attempts = a.task.attempts /\ a.task.attempts \in Nat
      BY <2>1, <3>2 DEF Deferred, Attempt, Row
    <3> QED BY <2>1, <2>5, <3>2, <3>3 DEF Costs
  <2>6. CASE a.pc = "claim" /\ b = [a EXCEPT !.pc = "readback"] /\ ClaimRow(i, u)
    BY <2>1, <2>6 DEF Attempt
  <2> QED BY <2>1, <2>2, <2>3, <2>4, <2>5, <2>6 DEF AttemptFate
<1>4. CASE \E i \in Instances : StartUpload(i, u)
  <2>1. PICK i \in Instances : StartUpload(i, u)
    BY <1>4
  <2>2. Unsent(u)' \subseteq Unsent(u) \ {i}
    <3> SUFFICES ASSUME NEW j \in Unsent(u)' PROVE j \in Unsent(u) \ {i}
      OBVIOUS
    <3>1. j # i /\ j \in Instances
      BY <1>1, <2>1 DEF Unsent
    <3> QED BY <1>2, <2>1, <3>1 DEF Unsent
  <2> QED BY <1>1, <2>1, <2>2
<1>5. CASE /\ \A i \in Instances : ~StartUpload(i, u)
           /\ \E i \in Instances : i \in Unsent(u)' /\ i \notin Unsent(u)
  <2>1. PICK i \in Instances : ClaimRow(i, u) /\ att'[i][u].pc = "readback"
    BY <1>3, <1>5
  <2>2. Unsent(u)' \subseteq Unsent(u) \cup {i}
    <3> SUFFICES ASSUME NEW j \in Unsent(u)', j # i PROVE j \in Unsent(u)
      OBVIOUS
    <3>1. j \in Instances
      BY DEF Unsent
    <3> QED BY <1>2, <2>1, <3>1 DEF Unsent
  <2> QED BY <1>5, <2>1, <2>2
<1>6. Unsent(u)' \subseteq Instances
  BY DEF Unsent
<1> QED BY <1>4, <1>5, <1>6

(* The requests counted and still to come grow by a claim, and shrink when *)
(* an attempt that still could have sent does not.                         *)
LEMMA TotalMoves ==
    ASSUME IInv, SendsInv, [Next /\ CountSends]_<<vars, sends>>, NEW u \in Uploads
    PROVE  /\ Total(u) \in Nat /\ Total(u)' \in Nat
           /\ \/ Total(u)' <= Total(u)
              \/ Total(u)' <= Total(u) + 1 /\ \E i \in Instances :
                    ClaimRow(i, u) /\ att'[i][u].pc = "readback"
           /\ \A i \in Instances :
                 i \in Unsent(u) /\ Commit(i, u) => Total(u)' <= Total(u) - 1
<1>0. /\ [Next]_vars /\ sent[u] \in Nat
      /\ \/ sent'[u] = sent[u]
         \/ sent'[u] = sent[u] + 1 /\ \E i \in Instances : StartUpload(i, u)
  <2>1. [Next]_vars /\ sent[u] \in Nat
    BY DEF SendsInv, sends
  <2>2. CASE CountSends
    <3>1. sent'[u] = sent[u] + IF \E i \in Instances : StartUpload(i, u) THEN 1 ELSE 0
      BY <2>2 DEF CountSends
    <3> QED BY <2>1, <3>1
  <2>3. CASE UNCHANGED <<vars, sends>>
    BY <2>1, <2>3 DEF sends
  <2> QED BY <2>1, <2>2, <2>3
<1> DEFINE S == Unsent(u)
           T == Unsent(u)'
<1>1. /\ S \in SUBSET Instances /\ T \in SUBSET Instances
      /\ Cardinality(S) \in Nat /\ Cardinality(T) \in Nat /\ IsFiniteSet(S)
  <2>1. S \in SUBSET Instances /\ T \in SUBSET Instances
    BY DEF Unsent
  <2> QED BY <2>1, UnsentFinite
<1>2. ASSUME T \subseteq S
      PROVE  Cardinality(T) <= Cardinality(S)
  BY <1>1, <1>2, FS_Subset
<1>3. ASSUME NEW i \in S, T \subseteq S \ {i}
      PROVE  Cardinality(T) <= Cardinality(S) - 1
  <2>1. IsFiniteSet(S \ {i}) /\ Cardinality(S \ {i}) = Cardinality(S) - 1
    BY <1>1, FS_RemoveElement
  <2> QED BY <1>3, <2>1, FS_Subset
<1>4. ASSUME NEW i \in Instances, T \subseteq S \cup {i}
      PROVE  Cardinality(T) <= Cardinality(S) + 1
  <2>1. /\ IsFiniteSet(S \cup {i})
        /\ Cardinality(S \cup {i}) \in {Cardinality(S), Cardinality(S) + 1}
    BY <1>1, FS_AddElement
  <2>2. Cardinality(T) <= Cardinality(S \cup {i})
    BY <1>4, <2>1, FS_Subset
  <2> QED BY <1>1, <2>1, <2>2
<1>5. Total(u) = sent[u] + Cardinality(S) /\ Total(u)' = sent'[u] + Cardinality(T)
  BY DEF Total
<1>6. ASSUME NEW i \in S, Commit(i, u)
      PROVE  /\ T \subseteq S \ {i}
             /\ \A j \in Instances : ~StartUpload(j, u) /\ ~ClaimRow(j, u)
  <2>1. i \in Instances /\ att[i][u].pc = "commit" /\ att'[i][u] = IdleAttempt
    BY <1>6 DEF Unsent, Commit, Settle, IInv, TypeOK
  <2>2. \A j \in Instances \ {i} : att'[j][u] = att[j][u]
    BY <1>6, <2>1, OneAttempt DEF AttemptStep, IInv
  <2>3. i \notin T
    BY <2>1 DEF Unsent, IdleAttempt
  <2>4. \A j \in Instances : StartUpload(j, u) => att'[j][u].pc # att[j][u].pc /\ j # i
    BY <2>1 DEF StartUpload, IInv, TypeOK
  <2>5. \A j \in Instances : ClaimRow(j, u) => att'[j][u].pc # att[j][u].pc /\ j # i
    BY <2>1 DEF ClaimRow, Goto, Settle, IdleAttempt, IInv, TypeOK
  <2> QED BY <1>1, <2>2, <2>3, <2>4, <2>5 DEF Unsent
<1> HIDE DEF S, T
<1>7. ASSUME NEW i \in Instances, i \in S, Commit(i, u)
      PROVE  Total(u)' <= Total(u) - 1
  BY <1>0, <1>1, <1>3, <1>5, <1>6, <1>7
<1>8. \/ Total(u)' <= Total(u)
      \/ Total(u)' <= Total(u) + 1 /\ \E i \in Instances :
            ClaimRow(i, u) /\ att'[i][u].pc = "readback"
  <2>1. CASE T \subseteq S /\ \A i \in Instances : ~StartUpload(i, u)
    BY <1>0, <1>1, <1>2, <1>5, <2>1
  <2>2. ASSUME NEW i \in S, T \subseteq S \ {i}
        PROVE  Total(u)' <= Total(u)
    BY <1>0, <1>1, <1>3, <1>5, <2>2
  <2>3. ASSUME NEW i \in Instances, ClaimRow(i, u), att'[i][u].pc = "readback",
               T \subseteq S \cup {i}, \A j \in Instances : ~StartUpload(j, u)
        PROVE  Total(u)' <= Total(u) + 1
    BY <1>0, <1>1, <1>4, <1>5, <2>3
  <2> QED BY <1>0, <2>1, <2>2, <2>3, UnsentMoves DEF S, T
<1> QED BY <1>0, <1>1, <1>5, <1>7, <1>8 DEF S

(* Every claim ends as a counted attempt, or is given back and counted     *)
(* there, or was deferred and sent nothing.                                *)
LEMMA SendsStep ==
    ASSUME Commands = {}, NoResume, IInv, AttemptsInv, SendsInv,
           [Next /\ CountSends]_<<vars, sends>>
    PROVE  SendsInv'
<1>0. /\ [Next]_vars /\ TypeOK /\ TypeOK' /\ IInv' /\ AttemptsInv' /\ rows \in [Uploads -> Row]
      /\ \A i \in Instances, u \in Uploads : att[i][u] \in Attempt
      /\ MaxAttempts \in Nat
  <2>1. [Next]_vars
    BY DEF sends
  <2> QED BY <2>1, NextInv, AttemptsStep, LifecycleAssumption DEF IInv, TypeOK, LifecycleAssumption
<1>1. \A c \in Clients : cmd'[c] = IdleCommand
  BY <1>0, CommandFates DEF SendsInv
<1>2. /\ sent' \in [Uploads -> Nat] /\ givenBack' \in [Uploads -> Nat]
      /\ \A u \in Uploads : givenBack'[u] >= givenBack[u]
      /\ \A u \in Uploads : Returns(u) /\ ~UNCHANGED <<vars, sends>> => givenBack'[u] = givenBack[u] + 1
  BY DEF SendsInv, CountSends, sends
<1>3. ASSUME NEW u \in Uploads
      PROVE  /\ rows'[u].status = "none" => rows'[u].attempts = 0
             /\ rows'[u].attempts <= MaxAttempts
             /\ rows'[u].status # "purged" => Total(u)' <= Claims(u)'
             /\ Total(u)' <= MaxAttempts + givenBack'[u]
  <2>0. /\ rows[u] \in Row /\ givenBack[u] \in Nat /\ givenBack'[u] \in Nat
        /\ givenBack'[u] >= givenBack[u]
        /\ rows[u].status = "none" => rows[u].attempts = 0
        /\ rows[u].attempts <= MaxAttempts
        /\ rows[u].status # "purged" => Total(u) <= Claims(u)
        /\ Total(u) <= MaxAttempts + givenBack[u]
        /\ Total(u) \in Nat /\ Total(u)' \in Nat
        /\ rows'[u].status = "uploading" => rows'[u].attempts < MaxAttempts
        /\ rows'[u] \in Row
    BY <1>0, <1>2, TotalMoves DEF SendsInv, Total, AttemptsInv, AttemptsLeft, TypeOK
  <2>1. Claims(u)' = rows'[u].attempts + givenBack'[u] + IF rows'[u].status = "uploading" THEN 1 ELSE 0
    BY DEF Claims
  <2>2. ASSUME rows'[u].status = "none" => rows'[u].attempts = 0,
               rows'[u].attempts <= MaxAttempts, rows'[u].status # "purged", Total(u)' <= Claims(u)'
        PROVE  Total(u)' <= MaxAttempts + givenBack'[u]
    BY <1>0, <2>0, <2>1, <2>2 DEF Row
  <2>3. ASSUME rows'[u].status # "uploading" \/ rows[u].status = "uploading"
        PROVE  Total(u)' <= Total(u)
    <3>1. ASSUME NEW i \in Instances, ClaimRow(i, u), att'[i][u].pc = "readback"
          PROVE  FALSE
      <4>1. /\ Claimable(rows[u], att[i][u].at)
            /\ rows' = [rows EXCEPT ![u] = Claimed(@, att[i][u].token, att[i][u].at)]
        BY <1>0, <3>1 DEF ClaimRow, Settle, IdleAttempt, TypeOK
      <4>2. rows[u].status = "pending" /\ rows'[u].status = "uploading"
        BY <1>0, <4>1 DEF Claimable, Due, Claimed, Row
      <4> QED BY <2>3, <4>2
    <3> QED BY <3>1, TotalMoves
  <2>4. CASE rows'[u] = rows[u] \/ rows'[u] = [rows[u] EXCEPT !.progress = 1]
    <3>1. rows'[u].status = rows[u].status /\ rows'[u].attempts = rows[u].attempts
      BY <2>0, <2>4 DEF Row
    <3>2. Total(u)' <= Total(u)
      BY <2>3, <3>1
    <3>3. Claims(u)' >= Claims(u)
      BY <2>0, <2>1, <3>1 DEF Claims, Row
    <3> QED BY <1>0, <2>0, <2>1, <3>1, <3>2, <3>3 DEF Row, Claims
  <2>5. CASE rows[u].status = "none" /\ rows'[u] = Enqueued
    <3>1. rows'[u].status = "pending" /\ rows'[u].attempts = 0
      BY <2>5 DEF Enqueued, NoRow
    <3>2. Total(u)' <= Total(u)
      BY <2>3, <3>1
    <3>3. Claims(u)' >= Claims(u)
      BY <2>0, <2>1, <2>5, <3>1 DEF Claims
    <3> QED BY <1>0, <2>0, <2>1, <2>2, <2>5, <3>1, <3>2, <3>3 DEF Row, Claims
  <2>6. CASE rows[u].status = "completed" /\ rows'[u] = [NoRow EXCEPT !.status = "purged"]
    <3>1. rows'[u].status = "purged" /\ rows'[u].attempts = 0
      BY <2>6 DEF NoRow
    <3>2. Total(u)' <= Total(u)
      BY <2>3, <3>1
    <3> QED BY <1>0, <2>0, <3>1, <3>2
  <2>7. CASE /\ Abandoned(rows[u], now - Timeout) /\ rows'[u] = Recovered(rows[u])
             /\ \E i \in Instances : Initialize(i)
    <3>1. /\ rows[u].status = "uploading" /\ rows'[u].status = "pending"
          /\ rows'[u].attempts = rows[u].attempts
      BY <2>0, <2>7 DEF Abandoned, Recovered, Row
    <3>2. Total(u)' <= Total(u)
      BY <2>3, <3>1
    <3>3. givenBack'[u] = givenBack[u] + 1
      BY <1>2, <2>7, <3>1 DEF Returns, vars
    <3>4. Claims(u)' >= Claims(u)
      BY <2>0, <2>1, <3>1, <3>3 DEF Claims, Row
    <3> QED BY <1>0, <2>0, <2>1, <2>2, <3>1, <3>2, <3>4 DEF Row, Claims
  <2>8. ASSUME NEW i \in Instances, rows[u].status = "pending",
               rows'[u] = Claimed(rows[u], att[i][u].token, att[i][u].at)
        PROVE  /\ rows'[u].attempts <= MaxAttempts /\ rows'[u].status = "uploading"
               /\ Total(u)' <= Claims(u)' /\ Total(u)' <= MaxAttempts + givenBack'[u]
    <3>1. rows'[u].status = "uploading" /\ rows'[u].attempts = rows[u].attempts
      BY <2>0, <2>8 DEF Claimed, Row
    <3>2. Total(u)' <= Total(u) + 1
      BY <2>0, TotalMoves
    <3>3. Claims(u)' >= Claims(u) + 1
      BY <2>0, <2>1, <2>8, <3>1 DEF Claims, Row
    <3> QED BY <1>0, <2>0, <2>1, <2>2, <2>8, <3>1, <3>2, <3>3 DEF Row, Claims
  <2>9. ASSUME NEW i \in Instances, Commit(i, u), HeldBy(rows[u], att[i][u].token),
               rows'[u] = att[i][u].next
        PROVE  /\ rows'[u].attempts <= MaxAttempts /\ rows'[u].status \notin {"none", "purged"}
               /\ Total(u)' <= Claims(u)' /\ Total(u)' <= MaxAttempts + givenBack'[u]
    <3> DEFINE a == att[i][u]
    <3>1. a.pc \in {"commit", "release"} /\ LetsGo(a.next) /\ a.task \in Row /\ a.token # NULL
      BY <1>0, <2>9 DEF Commit, IInv, WritesLetGo, Attempt, TokensIssued
    <3>2. rows[u].status = "uploading" /\ rows[u].attempts = a.task.attempts
      <4>1. rows[u].processingToken # NULL
        BY <2>9, <3>1 DEF HeldBy
      <4>2. [rows[u] EXCEPT !.progress = 0] = [a.task EXCEPT !.progress = 0]
        BY <2>9, <3>1 DEF IInv, HolderSeesTruth
      <4>3. rows[u].attempts = a.task.attempts
        BY <2>0, <3>1, <4>2 DEF Row
      <4> QED BY <4>1, <4>3 DEF IInv, ClaimIffUploading
    <3>3. rows'[u].status \in {"completed", "pending", "blocked", "failed"}
      BY <2>9, <3>1 DEF LetsGo
    <3>4. Total(u)' <= Total(u)
      BY <2>3, <3>3
    <3>5. rows[u].attempts < MaxAttempts
      BY <3>2 DEF AttemptsInv, AttemptsLeft
    <3>6. CASE a.next.attempts = a.task.attempts + 1
      <4>1. Claims(u)' >= Claims(u) /\ rows'[u].attempts <= MaxAttempts
        BY <1>0, <2>0, <2>1, <2>9, <3>2, <3>3, <3>5, <3>6 DEF Claims, Row
      <4> QED BY <1>0, <2>0, <2>1, <2>2, <3>2, <3>3, <3>4, <4>1 DEF Row, Claims
    <3>7. CASE a.next.attempts = a.task.attempts /\ a.pc = "release"
      <4>1. givenBack'[u] = givenBack[u] + 1
        BY <1>2, <2>9, <3>2, <3>3, <3>7 DEF Returns, vars
      <4>2. Claims(u)' >= Claims(u) /\ rows'[u].attempts <= MaxAttempts
        BY <1>0, <2>0, <2>1, <2>9, <3>2, <3>3, <3>7, <4>1 DEF Claims, Row
      <4> QED BY <1>0, <2>0, <2>1, <2>2, <3>2, <3>3, <3>4, <4>2 DEF Row, Claims
    <3>8. CASE a.next.attempts = a.task.attempts /\ a.pc = "commit" /\ a.next = Deferred(a.task)
      <4>1. Total(u)' <= Total(u) - 1
        BY <2>9, <3>8, TotalMoves DEF Unsent
      <4>2. Claims(u)' >= Claims(u) - 1 /\ rows'[u].attempts <= MaxAttempts
        BY <1>0, <2>0, <2>1, <2>9, <3>2, <3>3, <3>8 DEF Claims, Row
      <4> QED BY <1>0, <2>0, <2>1, <2>2, <3>2, <3>3, <4>1, <4>2 DEF Row, Claims
    <3>9. \/ a.next.attempts = a.task.attempts + 1
          \/ /\ a.next.attempts = a.task.attempts
             /\ a.pc = "release" \/ a.next = Deferred(a.task)
      BY <3>1 DEF SendsInv
    <3> QED BY <3>1, <3>3, <3>6, <3>7, <3>8, <3>9
  <2>10. ASSUME NEW c \in Clients, cmd[c] \in Command
         PROVE  FALSE
    BY <2>10, LifecycleAssumption DEF SendsInv, Command, IdleCommand, LifecycleAssumption
  <2>11. RowFate(u)
    BY <1>0, RowFates
  <2> QED BY <2>4, <2>5, <2>6, <2>7, <2>8, <2>9, <2>10, <2>11 DEF RowFate
<1>4. ASSUME NEW i \in Instances, NEW u \in Uploads, att'[i][u].pc \in {"commit", "release"}
      PROVE  \/ att'[i][u].next.attempts = att'[i][u].task.attempts + 1
             \/ /\ att'[i][u].next.attempts = att'[i][u].task.attempts
                /\ att'[i][u].pc = "release" \/ att'[i][u].next = Deferred(att'[i][u].task)
  <2> DEFINE a == att[i][u]
             b == att'[i][u]
  <2>1. AttemptFate(i, u) /\ a \in Attempt
    BY <1>0, AttemptFates
  <2>2. CASE b = a \/ b = [a EXCEPT !.aborted = TRUE]
    <3>1. b.pc = a.pc /\ b.next = a.next /\ b.task = a.task
      BY <2>1, <2>2 DEF Attempt
    <3> QED BY <1>4, <3>1 DEF SendsInv
  <2>3. CASE b = IdleAttempt \/ b = [IdleAttempt EXCEPT !.pc = "claim", !.token = nextToken, !.at = now]
    <3>1. /\ IdleAttempt.pc = "idle"
          /\ [IdleAttempt EXCEPT !.pc = "claim", !.token = nextToken, !.at = now].pc = "claim"
      BY DEF IdleAttempt
    <3>2. b.pc \in {"idle", "claim"}
      BY <2>3, <3>1
    <3> QED BY <1>4, <3>2
  <2>4. CASE \/ a.pc = "claim" /\ b = [a EXCEPT !.pc = "readback"]
             \/ a.pc = "readback" /\ b = [a EXCEPT !.pc = "preflight", !.task = rows[u]]
             \/ a.pc = "preflight" /\ b = [a EXCEPT !.pc = "transport"]
             \/ a.pc = "transport" /\ b = [a EXCEPT !.pc = "aborted"]
             \/ a.pc = "aborted" /\ b = [a EXCEPT !.pc = "shutdown?"]
    BY <1>4, <2>1, <2>4 DEF Attempt
  <2>5. ASSUME NEW pc \in {"commit", "release"}, NEW row \in Row, Costs(i, u, pc, row),
               b = [a EXCEPT !.pc = pc, !.next = row]
        PROVE  \/ b.next.attempts = b.task.attempts + 1
               \/ /\ b.next.attempts = b.task.attempts
                  /\ b.pc = "release" \/ b.next = Deferred(b.task)
    <3>1. b.pc = pc /\ b.next = row /\ b.task = a.task
      BY <2>1, <2>5 DEF Attempt
    <3> QED BY <2>5, <3>1 DEF Costs
  <2> QED BY <2>1, <2>2, <2>3, <2>4, <2>5 DEF AttemptFate
<1> QED BY <1>1, <1>2, <1>3, <1>4 DEF SendsInv, Total

(* Without user commands an upload is sent maxAttempts times, and once     *)
(* more for each claim that recovery or a release gave back: the claims    *)
(* that were not counted as attempts are the only sends beyond the limit,  *)
(* for any number of processes, crashes and faults.                        *)
THEOREM SendsAccounted ==
    ASSUME Commands = {}, MaxAttempts > 0 PROVE SendsSpec => []SendsBounded
<1>0. NoResume
  BY DEF NoResume
<1>1. Init /\ SendsInit => SendsInv
  <2> SUFFICES ASSUME Init, SendsInit PROVE SendsInv
    OBVIOUS
  <2>1. \A u \in Uploads : Unsent(u) = {}
    BY DEF Init, Unsent, IdleAttempt
  <2>2. \A u \in Uploads : Cardinality(Unsent(u)) = 0
    BY <2>1, FS_EmptySet
  <2>3. MaxAttempts \in Nat /\ \A u \in Uploads : rows[u] = NoRow /\ NoRow.attempts = 0 /\ NoRow.status = "none"
    BY LifecycleAssumption DEF Init, LifecycleAssumption, NoRow
  <2>4. \A u \in Uploads : sent[u] = 0 /\ givenBack[u] = 0 /\ Claims(u) = 0
    BY <2>3 DEF SendsInit, Claims
  <2>5. \A i \in Instances, u \in Uploads : att[i][u].pc = "idle"
    BY DEF Init, IdleAttempt
  <2> QED BY <2>2, <2>3, <2>4, <2>5 DEF Init, SendsInit, SendsInv
<1>2. Init => IInv /\ AttemptsInv
  BY <1>0, InitInv DEF Init, AttemptsInv, AttemptsLeft, IdleAttempt, IdleCommand, NoRow, NoResume
<1>3. /\ IInv /\ AttemptsInv /\ SendsInv /\ [Next /\ CountSends]_<<vars, sends>> => SendsInv'
      /\ IInv /\ AttemptsInv /\ [Next /\ CountSends]_<<vars, sends>> => IInv' /\ AttemptsInv'
  BY <1>0, SendsStep, NextInv, AttemptsStep
<1>4. SendsInv => SendsBounded
  <2> SUFFICES ASSUME SendsInv, NEW u \in Uploads
               PROVE  sent[u] <= MaxAttempts + givenBack[u]
    BY DEF SendsBounded
  <2>1. /\ sent[u] \in Nat /\ givenBack[u] \in Nat /\ MaxAttempts \in Nat
        /\ Cardinality(Unsent(u)) \in Nat
        /\ sent[u] + Cardinality(Unsent(u)) <= MaxAttempts + givenBack[u]
    BY LifecycleAssumption, UnsentFinite DEF SendsInv, LifecycleAssumption, Unsent
  <2> QED BY <2>1
<1> QED BY <1>1, <1>2, <1>3, <1>4, PTL DEF SendsSpec

-----------------------------------------------------------------------------
(* Two processes sending one upload                                        *)

(* Without user commands, an attempt before its request's answer holds its *)
(* row or has outlived the timeout.                                        *)
LEMMA TransferStep ==
    ASSUME Commands = {}, IInv, TransferInv, [Next]_vars
    PROVE  TransferInv'
<1>0. /\ TypeOK /\ TypeOK' /\ IInv'
      /\ \A i \in Instances, u \in Uploads : att[i][u] \in Attempt
      /\ now \in Nat /\ Timeout \in Nat
      /\ now' = now \/ now' = now + 1
  <2> QED BY ClockStep, NextType, NextInv, LifecycleAssumption DEF IInv, TypeOK, LifecycleAssumption
<1>1. \A c \in Clients : cmd'[c] = IdleCommand
  BY CommandFates DEF TransferInv
<1>2. ASSUME NEW i \in Instances, NEW u \in Uploads, att'[i][u].pc \in {"preflight", "transport"},
             ~HeldBy(rows'[u], att'[i][u].token)
      PROVE  /\ att'[i][u].task.processingStartedAt \in Int
             /\ att'[i][u].task.processingStartedAt + Timeout <= now'
  <2> DEFINE a == att[i][u]
             b == att'[i][u]
  <2>1. a \in Attempt /\ AttemptFate(i, u) /\ RowFate(u)
    BY <1>0, AttemptFates, RowFates
  <2>2. a.pc \in {"preflight", "transport"} /\ b.task = a.task /\ b.token = a.token
    <3>1. CASE a.pc = "readback" /\ HeldBy(rows[u], a.token) /\ UNCHANGED <<rows, now>>
               /\ b = [a EXCEPT !.pc = "preflight", !.task = rows[u]]
      BY <1>2, <2>1, <3>1 DEF Attempt
    <3>2. CASE b = IdleAttempt
      <4>1. b.pc = "idle"
        BY <3>2 DEF IdleAttempt
      <4> QED BY <1>2, <4>1
    <3>5. CASE b = [IdleAttempt EXCEPT !.pc = "claim", !.token = nextToken, !.at = now]
      <4>1. b.pc = "claim"
        BY <3>5 DEF IdleAttempt
      <4> QED BY <1>2, <4>1
    <3>3. CASE \/ b = a \/ b = [a EXCEPT !.aborted = TRUE]
               \/ a.pc = "claim" /\ b = [a EXCEPT !.pc = "readback"]
               \/ a.pc = "preflight" /\ b = [a EXCEPT !.pc = "transport"]
               \/ a.pc = "transport" /\ b = [a EXCEPT !.pc = "aborted"]
               \/ a.pc = "aborted" /\ b = [a EXCEPT !.pc = "shutdown?"]
      BY <1>2, <2>1, <3>3 DEF Attempt
    <3>4. ASSUME NEW pc \in {"commit", "release"}, NEW row \in Row,
                 b = [a EXCEPT !.pc = pc, !.next = row]
          PROVE  FALSE
      BY <1>2, <2>1, <3>4 DEF Attempt
    <3> QED BY <2>1, <3>1, <3>2, <3>3, <3>4, <3>5 DEF AttemptFate
  <2>3. CASE ~HeldBy(rows[u], a.token)
    <3>1. a.task.processingStartedAt \in Int /\ a.task.processingStartedAt + Timeout <= now
      BY <2>2, <2>3 DEF TransferInv
    <3> QED BY <1>0, <2>2, <3>1
  <2>4. CASE HeldBy(rows[u], a.token)
    <3>1. a.token # NULL /\ rows[u].processingToken = a.token /\ rows[u].status = "uploading"
      BY <2>2, <2>4 DEF IInv, TokensIssued, ClaimIffUploading, HeldBy
    <3>2. a.task.processingStartedAt = rows[u].processingStartedAt
      <4>1. [rows[u] EXCEPT !.progress = 0] = [a.task EXCEPT !.progress = 0]
        BY <2>2, <2>4 DEF IInv, HolderSeesTruth
      <4>2. rows[u] \in Row /\ a.task \in Row
        BY <2>1 DEF IInv, TypeOK, Attempt
      <4> QED BY <4>1, <4>2 DEF Row
    <3>3. Abandoned(rows[u], now - Timeout)
      <4>1. rows'[u].processingToken # a.token \/ ~Present(rows'[u])
        BY <1>2, <2>2 DEF HeldBy
      <4>2. rows[u] \in Row /\ Present(rows[u])
        BY <2>4 DEF IInv, TypeOK, HeldBy
      <4>3. ~(rows'[u] = rows[u] \/ rows'[u] = [rows[u] EXCEPT !.progress = 1])
        BY <3>1, <4>1, <4>2 DEF Row, Present
      <4>4. rows[u].status \notin {"none", "completed", "pending"}
        BY <3>1
      <4>5. ASSUME NEW j \in Instances, Commit(j, u), HeldBy(rows[u], att[j][u].token)
            PROVE  FALSE
        <5>1. att[j][u].token = a.token
          BY <3>1, <4>5 DEF HeldBy
        <5>2. j = i
          BY <3>1, <5>1 DEF IInv, TokensDistinct
        <5> QED BY <2>2, <4>5, <5>2 DEF Commit
      <4>6. \A c \in Clients : cmd[c] \notin Command
        BY LifecycleAssumption DEF TransferInv, Command, IdleCommand, LifecycleAssumption
      <4> QED BY <2>1, <4>3, <4>4, <4>5, <4>6 DEF RowFate
    <3>4. rows[u].processingStartedAt \in Int
      BY <3>3 DEF Abandoned, IInv, TypeOK, Row
    <3>5. rows[u].processingStartedAt <= now - Timeout
      BY <3>3 DEF Abandoned
    <3> QED BY <1>0, <2>2, <3>2, <3>4, <3>5
  <2> QED BY <2>3, <2>4
<1> QED BY <1>1, <1>2 DEF TransferInv

(* Where the user does not interfere, two processes are in the request for *)
(* one upload at once only if a claim has outlived processingTimeoutMs.    *)
THEOREM DoubleSendNeedsTimeout ==
    ASSUME Commands = {} PROVE Spec => []DoubleSendOnlyAfterTimeout
<1>1. Init => TransferInv
  BY DEF Init, TransferInv, IdleAttempt
<1>2. IInv /\ TransferInv /\ [Next]_vars => TransferInv'
  BY TransferStep
<1>3. IInv /\ TransferInv => DoubleSendOnlyAfterTimeout
  <2> SUFFICES ASSUME IInv, TransferInv, NEW u \in Uploads, NEW i \in Instances, NEW j \in Instances,
                      i # j, att[i][u].pc = "transport", att[j][u].pc = "transport"
               PROVE  \E k \in {i, j} : att[k][u].task.processingStartedAt + Timeout <= now
    BY DEF DoubleSendOnlyAfterTimeout
  <2>1. ~(HeldBy(rows[u], att[i][u].token) /\ HeldBy(rows[u], att[j][u].token))
    BY DEF HeldBy, IInv, TokensIssued, TokensDistinct
  <2> QED BY <2>1 DEF TransferInv
<1> QED BY <1>1, <1>2, <1>3, Invariant, PTL DEF Spec

-----------------------------------------------------------------------------
(* Uploads that stop() interrupts                                          *)

(* What the steps of an attempt may do to controllers, stop() calls and    *)
(* shuttingDown.                                                           *)
LEMMA AttemptTouches ==
    ASSUME NEW i \in Instances, NEW u \in Uploads,
           \/ Launch(i, u) \/ AttemptStep(i, u) \/ PersistProgress(i, u)
           \/ ClaimFault(i, u) \/ AttemptFault(i, u) \/ ReleaseFault(i, u)
    PROVE  /\ UNCHANGED shuttingDown
           /\ \/ UNCHANGED <<controllers, stop>>
              \/ Settle(i, u)
              \/ StartUpload(i, u)
BY DEF AttemptStep, Launch, PersistProgress, ClaimRow, ReadBack, ReleaseOffline, FileMissing,
       Respond, TransportThrows, AbortError, CheckDecision, ResolveAbort, Commit,
       ClaimFault, AttemptFault, ReleaseFault, StartUpload, Goto, Write

(* Only an attempt that starts its request registers a controller.         *)
LEMMA ControllerFates ==
    ASSUME TypeOK, [Next]_vars, NEW j \in Instances, NEW v \in controllers'[j]
    PROVE  v \in controllers[j] \/ (att[j][v].pc = "preflight" /\ att'[j][v].pc = "transport")
<1>0. /\ controllers \in [Instances -> SUBSET Uploads]
      /\ att \in [Instances -> [Uploads -> Attempt]]
      /\ stop \in [Stoppers -> [instance: Instances \cup {NULL}, batch: SUBSET Uploads]]
  BY DEF TypeOK
<1>1. CASE UNCHANGED controllers
  BY <1>1
<1>2. CASE UNCHANGED vars \/ Tick \/ (\E u \in Uploads : Enqueue(u))
           \/ (\E S \in SUBSET Uploads : Purge(S)) \/ (\E i \in Instances : Initialize(i))
           \/ (\E c \in Clients, i \in Instances, op \in Commands, u \in Uploads : CommandRead(c, i, op, u))
           \/ (\E c \in Clients : CommandWrite(c))
           \/ (\E s \in Stoppers, i \in Instances : StopBegin(s, i))
  BY <1>1, <1>2 DEF vars, Tick, Enqueue, Purge, Initialize, CommandRead, CommandWrite, StopBegin
<1>3. ASSUME NEW i \in Instances, Crash(i)
      PROVE  v \in controllers[j]
  BY <1>0, <1>3 DEF Crash
<1>4. ASSUME NEW i \in Instances, NEW u \in Uploads, Settle(i, u)
      PROVE  v \in controllers[j]
  BY <1>0, <1>4 DEF Settle
<1>5. ASSUME NEW i \in Instances, NEW u \in Uploads, StartUpload(i, u)
      PROVE  v \in controllers[j] \/ (att[j][v].pc = "preflight" /\ att'[j][v].pc = "transport")
  BY <1>0, <1>5 DEF StartUpload, Attempt
<1>6. ASSUME NEW s \in Stoppers, StopEnd(s)
      PROVE  v \in controllers[j]
  BY <1>0, <1>6 DEF StopEnd
<1> QED BY <1>1, <1>2, <1>3, <1>4, <1>5, <1>6, AttemptTouches DEF Next

(* A stop() call begins, awaits one attempt less, ends with nothing left   *)
(* to await or dies with its process.                                      *)
StopFate(s) ==
    \/ /\ stop'[s] = stop[s]
       /\ \/ stop[s].instance \in Instances /\ shuttingDown[stop[s].instance] =>
                shuttingDown'[stop[s].instance]
          \/ \E t \in Stoppers \ {s} : stop[t].instance = stop[s].instance
    \/ stop'[s] = IdleStop /\ stop[s].batch = {}
    \/ /\ stop'[s] = IdleStop
       /\ \A u \in Uploads : att'[stop[s].instance][u] = IdleAttempt
    \/ \E i \in Instances : StopBegin(s, i)
    \/ \E u \in Uploads :
          /\ stop'[s] = [stop[s] EXCEPT !.batch = @ \ {u}]
          /\ att'[stop[s].instance][u] = IdleAttempt
          /\ UNCHANGED shuttingDown

(* Every step does one of these to every stop() call.                      *)
LEMMA StopFates ==
    ASSUME TypeOK, [Next]_vars, NEW s \in Stoppers
    PROVE  StopFate(s)
<1>0. /\ stop \in [Stoppers -> [instance: Instances \cup {NULL}, batch: SUBSET Uploads]]
      /\ shuttingDown \in [Instances -> BOOLEAN]
      /\ att \in [Instances -> [Uploads -> Attempt]]
  BY DEF TypeOK
<1>1. CASE UNCHANGED <<stop, shuttingDown>>
  BY <1>1 DEF StopFate
<1>2. CASE UNCHANGED vars \/ Tick \/ (\E u \in Uploads : Enqueue(u))
           \/ (\E S \in SUBSET Uploads : Purge(S)) \/ (\E i \in Instances : Initialize(i))
           \/ (\E c \in Clients, i \in Instances, op \in Commands, u \in Uploads : CommandRead(c, i, op, u))
           \/ (\E c \in Clients : CommandWrite(c))
  BY <1>1, <1>2 DEF vars, Tick, Enqueue, Purge, Initialize, CommandRead, CommandWrite
<1>3. ASSUME NEW i \in Instances, Crash(i)
      PROVE  StopFate(s)
  <2>1. CASE stop[s].instance = i
    <3>1. stop'[s] = IdleStop /\ \A u \in Uploads : att'[i][u] = IdleAttempt
      BY <1>0, <1>3, <2>1 DEF Crash
    <3> QED BY <2>1, <3>1 DEF StopFate
  <2>2. CASE stop[s].instance # i
    <3>1. stop'[s] = stop[s]
      BY <1>0, <1>3, <2>2 DEF Crash
    <3>2. stop[s].instance \in Instances =>
             shuttingDown'[stop[s].instance] = shuttingDown[stop[s].instance]
      BY <1>0, <1>3, <2>2 DEF Crash
    <3> QED BY <3>1, <3>2 DEF StopFate
  <2> QED BY <2>1, <2>2
<1>4. ASSUME NEW i \in Instances, NEW u \in Uploads, Settle(i, u), UNCHANGED shuttingDown
      PROVE  StopFate(s)
  <2>1. CASE stop[s].instance = i
    <3>1. stop'[s] = [stop[s] EXCEPT !.batch = @ \ {u}] /\ att'[i][u] = IdleAttempt
      BY <1>0, <1>4, <2>1 DEF Settle
    <3> QED BY <1>4, <2>1, <3>1 DEF StopFate
  <2>2. CASE stop[s].instance # i
    <3>1. stop'[s] = stop[s]
      BY <1>0, <1>4, <2>2 DEF Settle
    <3> QED BY <1>4, <3>1 DEF StopFate
  <2> QED BY <2>1, <2>2
<1>5. ASSUME NEW t \in Stoppers, NEW i \in Instances, StopBegin(t, i)
      PROVE  StopFate(s)
  <2>1. CASE s = t
    BY <1>5, <2>1 DEF StopFate
  <2>2. CASE s # t
    <3>1. stop'[s] = stop[s]
      BY <1>0, <1>5, <2>2 DEF StopBegin
    <3>2. \A j \in Instances : shuttingDown[j] => shuttingDown'[j]
      BY <1>0, <1>5 DEF StopBegin
    <3> QED BY <3>1, <3>2 DEF StopFate
  <2> QED BY <2>1, <2>2
<1>6. ASSUME NEW t \in Stoppers, StopEnd(t)
      PROVE  StopFate(s)
  <2>1. CASE s = t
    <3>1. stop'[s] = IdleStop /\ stop[s].batch = {}
      BY <1>0, <1>6, <2>1 DEF StopEnd
    <3> QED BY <3>1 DEF StopFate
  <2>2. CASE s # t
    <3>1. stop'[s] = stop[s]
      BY <1>0, <1>6, <2>2 DEF StopEnd
    <3>2. \/ stop[t].instance = stop[s].instance
          \/ stop[s].instance \in Instances =>
                shuttingDown'[stop[s].instance] = shuttingDown[stop[s].instance]
      BY <1>0, <1>6 DEF StopEnd
    <3> QED BY <2>2, <3>1, <3>2 DEF StopFate
  <2> QED BY <2>1, <2>2
<1>7. ASSUME NEW i \in Instances, NEW u \in Uploads,
             \/ Launch(i, u) \/ AttemptStep(i, u) \/ PersistProgress(i, u)
             \/ ClaimFault(i, u) \/ AttemptFault(i, u) \/ ReleaseFault(i, u)
      PROVE  StopFate(s)
  <2>1. StartUpload(i, u) => UNCHANGED stop
    BY DEF StartUpload
  <2> QED BY <1>1, <1>4, <1>7, <2>1, AttemptTouches
<1> QED BY <1>2, <1>3, <1>5, <1>6, <1>7 DEF Next

(* A row is held after a step by who held it before or by who waited to    *)
(* claim it.                                                               *)
LEMMA HoldersStay ==
    ASSUME IInv, [Next]_vars, NEW u \in Uploads, NEW token \in Nat, HeldBy(rows'[u], token)
    PROVE  \/ HeldBy(rows[u], token)
           \/ \E i \in Instances : att[i][u].pc = "claim" /\ att[i][u].token = token
<1>0. /\ rows[u] \in Row /\ RowFate(u) /\ NULL \notin Nat
      /\ \A c \in Clients : cmd[c] \in Command => cmd[c].task \in Row
  BY RowFates, NullAssumption DEF IInv, TypeOK, Command
<1>1. CASE \/ rows'[u] = rows[u] \/ rows'[u] = [rows[u] EXCEPT !.progress = 1]
  BY <1>0, <1>1 DEF HeldBy, Present, Row
<1>2. CASE rows'[u] = Enqueued \/ rows'[u] = [NoRow EXCEPT !.status = "purged"]
           \/ rows'[u] = Recovered(rows[u])
  BY <1>0, <1>2 DEF HeldBy, Present, Row, Enqueued, NoRow, Recovered
<1>3. ASSUME NEW i \in Instances, att[i][u].pc = "claim",
             rows'[u] = Claimed(rows[u], att[i][u].token, att[i][u].at)
      PROVE  att[i][u].token = token
  BY <1>0, <1>3 DEF Claimed, HeldBy, Row
<1>4. ASSUME NEW i \in Instances, Commit(i, u), rows'[u] = att[i][u].next
      PROVE  FALSE
  BY <1>0, <1>4 DEF Commit, IInv, WritesLetGo, LetsGo, HeldBy
<1>5. ASSUME NEW c \in Clients, cmd[c] \in Command, rows'[u] = Decision(cmd[c].op, cmd[c].task)
      PROVE  FALSE
  BY <1>0, <1>5, DecisionRows DEF Command, HeldBy
<1> QED BY <1>0, <1>1, <1>2, <1>3, <1>4, <1>5 DEF RowFate

(* A failure for an abort is nobody's to write, as long as the stop()      *)
(* calls of one process do not overlap.                                    *)
LEMMA ShutdownStep ==
    ASSUME IInv, OneStopEach, ShutdownInv, [Next]_vars
    PROVE  ShutdownInv'
<1>0. /\ TypeOK /\ TypeOK' /\ NULL \notin Nat /\ NULL \notin Instances
      /\ rows \in [Uploads -> Row]
      /\ \A i \in Instances, u \in Uploads : att[i][u] \in Attempt /\ att'[i][u] \in Attempt
      /\ \A s \in Stoppers : stop[s].instance \in Instances \cup {NULL}
      /\ \A i \in Instances : shuttingDown[i] \in BOOLEAN
  BY NextType, NullAssumption, LifecycleAssumption DEF IInv, TypeOK, LifecycleAssumption
<1>1. ShutdownFailsNothing'
  <2> SUFFICES ASSUME NEW u \in Uploads, rows'[u].status = "failed", rows'[u].lastError = "cancelled"
               PROVE  FALSE
    BY DEF ShutdownFailsNothing
  <2>0. /\ rows[u] \in Row /\ RowFate(u)
        /\ ~(rows[u].status = "failed" /\ rows[u].lastError = "cancelled")
    BY <1>0, RowFates DEF ShutdownInv, ShutdownFailsNothing
  <2>1. CASE rows'[u] = rows[u] \/ rows'[u] = [rows[u] EXCEPT !.progress = 1]
    BY <2>0, <2>1 DEF Row
  <2>2. CASE rows'[u] = Enqueued \/ rows'[u] = [NoRow EXCEPT !.status = "purged"]
             \/ rows'[u] = Recovered(rows[u])
    BY <2>0, <2>2 DEF Row, Enqueued, NoRow, Recovered
  <2>3. ASSUME NEW i \in Instances, rows'[u] = Claimed(rows[u], att[i][u].token, att[i][u].at)
        PROVE  FALSE
    BY <2>0, <2>3 DEF Claimed, Row
  <2>4. ASSUME NEW i \in Instances, Commit(i, u), HeldBy(rows[u], att[i][u].token),
               rows'[u] = att[i][u].next
        PROVE  FALSE
    BY <2>4 DEF ShutdownInv, Commit
  <2>5. ASSUME NEW c \in Clients, cmd[c] \in Command, rows'[u] = Decision(cmd[c].op, cmd[c].task)
        PROVE  FALSE
    BY <2>5, DecisionRows DEF Command
  <2> QED BY <2>0, <2>1, <2>2, <2>3, <2>4, <2>5 DEF RowFate
<1>2. ASSUME NEW s \in Stoppers, stop'[s].instance # NULL
      PROVE  shuttingDown'[stop'[s].instance]
  <2>1. stop'[s] # IdleStop
    BY <1>2 DEF IdleStop
  <2>2. CASE stop'[s] = stop[s]
    <3>1. stop[s].instance \in Instances /\ shuttingDown[stop[s].instance]
      BY <1>0, <1>2, <2>2 DEF ShutdownInv
    <3>2. \A t \in Stoppers \ {s} : stop[t].instance # stop[s].instance
      BY <1>2, <2>2 DEF OneStopEach
    <3>3. stop[s] # IdleStop
      BY <2>1, <2>2
    <3>4. CASE \E i \in Instances : StopBegin(s, i)
      BY <3>3, <3>4 DEF StopBegin
    <3>5. CASE UNCHANGED shuttingDown
      BY <2>2, <3>1, <3>5
    <3> QED BY <2>1, <2>2, <3>1, <3>2, <3>4, <3>5, StopFates, <1>0 DEF StopFate
  <2>3. ASSUME NEW i \in Instances, StopBegin(s, i)
        PROVE  shuttingDown'[stop'[s].instance]
    BY <1>0, <2>3 DEF StopBegin, TypeOK
  <2>4. ASSUME NEW u \in Uploads, stop'[s] = [stop[s] EXCEPT !.batch = @ \ {u}],
               UNCHANGED shuttingDown
        PROVE  shuttingDown'[stop'[s].instance]
    <3>1. stop'[s].instance = stop[s].instance
      BY <1>0, <2>4 DEF TypeOK
    <3> QED BY <1>2, <2>4, <3>1 DEF ShutdownInv
  <2> QED BY <1>0, <2>1, <2>2, <2>3, <2>4, StopFates DEF StopFate
<1>3. ASSUME NEW i \in Instances, NEW u \in Uploads
      PROVE  /\ u \in controllers'[i] \/ att'[i][u].aborted =>
                   att'[i][u].pc \notin {"idle", "claim", "readback", "preflight"}
             /\ att'[i][u].pc \in {"aborted", "shutdown?"} => att'[i][u].aborted
             /\ att'[i][u].aborted /\ HeldBy(rows'[u], att'[i][u].token) =>
                   \E s \in Stoppers : stop'[s].instance = i /\ u \in stop'[s].batch
             /\ (/\ att'[i][u].pc \in {"commit", "release"}
                 /\ att'[i][u].next.status = "failed" /\ att'[i][u].next.lastError = "cancelled")
                => ~HeldBy(rows'[u], att'[i][u].token)
  <2> DEFINE a == att[i][u]
             b == att'[i][u]
  <2>0. /\ a \in Attempt /\ b \in Attempt /\ AttemptFate(i, u)
        /\ u \in controllers[i] \/ a.aborted => a.pc \notin {"idle", "claim", "readback", "preflight"}
        /\ a.pc \in {"aborted", "shutdown?"} => a.aborted
        /\ a.aborted /\ HeldBy(rows[u], a.token) =>
              \E s \in Stoppers : stop[s].instance = i /\ u \in stop[s].batch
        /\ (/\ a.pc \in {"commit", "release"}
            /\ a.next.status = "failed" /\ a.next.lastError = "cancelled")
           => ~HeldBy(rows[u], a.token)
    BY <1>0, AttemptFates DEF ShutdownInv
  <2>1. u \in controllers'[i] => u \in controllers[i] \/ (a.pc = "preflight" /\ b.pc = "transport")
    BY <1>0, ControllerFates
  <2>2. a.pc \notin {"idle", "claim"} /\ HeldBy(rows'[u], a.token) => HeldBy(rows[u], a.token)
    <3> SUFFICES ASSUME a.pc \notin {"idle", "claim"}, HeldBy(rows'[u], a.token)
                 PROVE  HeldBy(rows[u], a.token)
      OBVIOUS
    <3>1. a.token \in Nat
      BY <2>0 DEF IInv, TokensIssued, Attempt
    <3>2. \A j \in Instances : att[j][u].token = a.token => j = i
      BY <1>0, <3>1 DEF IInv, TokensDistinct
    <3> QED BY <3>1, <3>2, HoldersStay
  <2>3. \A s \in Stoppers : stop[s].instance = i /\ u \in stop[s].batch /\ b # IdleAttempt =>
           stop'[s].instance = i /\ u \in stop'[s].batch
    <3> SUFFICES ASSUME NEW s \in Stoppers, stop[s].instance = i, u \in stop[s].batch, b # IdleAttempt
                 PROVE  stop'[s].instance = i /\ u \in stop'[s].batch
      OBVIOUS
    <3>1. stop[s] # IdleStop
      BY DEF IdleStop
    <3>2. ASSUME NEW j \in Instances, StopBegin(s, j)
          PROVE  FALSE
      BY <3>1, <3>2 DEF StopBegin
    <3>3. ASSUME NEW v \in Uploads, stop'[s] = [stop[s] EXCEPT !.batch = @ \ {v}],
                 att'[stop[s].instance][v] = IdleAttempt
          PROVE  stop'[s].instance = i /\ u \in stop'[s].batch
      <4>1. v # u
        BY <3>3
      <4>2. stop'[s].instance = stop[s].instance /\ stop'[s].batch = stop[s].batch \ {v}
        BY <3>3 DEF IInv, TypeOK
      <4> QED BY <4>1, <4>2
    <3>4. CASE stop'[s] = stop[s]
      BY <3>4
    <3>5. stop[s].batch # {} /\ att'[stop[s].instance][u] # IdleAttempt
      OBVIOUS
    <3>6. StopFate(s)
      BY <1>0, StopFates
    <3> QED BY <3>2, <3>3, <3>4, <3>5, <3>6 DEF StopFate
  <2>4. b.aborted => b # IdleAttempt
    BY DEF IdleAttempt
  <2>5. ASSUME b.aborted => a.aborted, b.token = a.token,
               b.aborted /\ HeldBy(rows'[u], b.token)
        PROVE  \E s \in Stoppers : stop'[s].instance = i /\ u \in stop'[s].batch
    BY <2>0, <2>2, <2>3, <2>4, <2>5
  <2>6. CASE b = a
    BY <2>0, <2>1, <2>2, <2>5, <2>6
  <2>7. CASE b = IdleAttempt /\ u \notin controllers'[i]
    BY <2>7 DEF IdleAttempt
  <2>8. CASE /\ b = [a EXCEPT !.aborted = TRUE] /\ u \in controllers[i]
             /\ \/ \E s \in Stoppers : StopBegin(s, i)
                \/ \E c \in Clients : CommandWrite(c) /\ cmd[c].upload = u /\ Present(rows[u])
    <3>1. /\ b.pc = a.pc /\ b.aborted /\ b.token = a.token /\ b.next = a.next
          /\ a.pc \notin {"idle", "claim", "readback", "preflight"}
      BY <2>0, <2>8 DEF Attempt
    <3>2. ASSUME NEW s \in Stoppers, StopBegin(s, i)
          PROVE  stop'[s].instance = i /\ u \in stop'[s].batch
      BY <3>1, <3>2 DEF StopBegin, InFlight, IInv, TypeOK
    <3>3. ASSUME NEW c \in Clients, CommandWrite(c), cmd[c].upload = u, Present(rows[u])
          PROVE  ~HeldBy(rows'[u], b.token)
      <4>1. cmd[c] \in Command /\ rows'[u] = Decision(cmd[c].op, cmd[c].task)
        BY <1>0, <3>3 DEF CommandWrite, IInv, TypeOK
      <4>2. rows'[u].processingToken = NULL
        BY <4>1, DecisionRows DEF Command
      <4>3. b.token # NULL
        BY <3>1 DEF IInv, TokensIssued
      <4> QED BY <4>2, <4>3 DEF HeldBy
    <3> QED BY <2>0, <2>2, <2>8, <3>1, <3>2, <3>3
  <2>9. CASE a.pc = "idle" /\ b = [IdleAttempt EXCEPT !.pc = "claim", !.token = nextToken, !.at = now]
    <3>1. b.pc = "claim" /\ ~b.aborted
      BY <2>9 DEF IdleAttempt
    <3>2. u \notin controllers'[i]
      BY <2>0, <2>1, <2>9
    <3> QED BY <2>0, <3>1, <3>2
  <2>10. CASE \/ a.pc = "claim" /\ b = [a EXCEPT !.pc = "readback"]
              \/ a.pc = "readback" /\ b = [a EXCEPT !.pc = "preflight", !.task = rows[u]]
    <3>1. b.pc \in {"readback", "preflight"} /\ b.aborted = a.aborted /\ ~a.aborted
      BY <2>0, <2>10 DEF Attempt
    <3>2. u \notin controllers'[i]
      BY <2>0, <2>1, <2>10
    <3> QED BY <3>1, <3>2
  <2>11. CASE \/ a.pc = "preflight" /\ b = [a EXCEPT !.pc = "transport"]
              \/ a.pc = "transport" /\ a.aborted /\ b = [a EXCEPT !.pc = "aborted"]
              \/ a.pc = "aborted" /\ b = [a EXCEPT !.pc = "shutdown?"]
    <3>1. /\ b.pc \in {"transport", "aborted", "shutdown?"} /\ b.aborted = a.aborted
          /\ b.token = a.token /\ (b.pc \in {"aborted", "shutdown?"} => a.aborted)
      BY <2>0, <2>11 DEF Attempt
    <3> QED BY <2>5, <3>1
  <2>12. ASSUME NEW pc \in {"commit", "release"}, NEW row \in Row, Verdict(i, u, row),
                b = [a EXCEPT !.pc = pc, !.next = row],
                a.pc \notin {"idle", "claim", "readback"}
         PROVE  /\ u \in controllers'[i] \/ b.aborted =>
                       b.pc \notin {"idle", "claim", "readback", "preflight"}
                /\ b.pc \in {"aborted", "shutdown?"} => b.aborted
                /\ b.aborted /\ HeldBy(rows'[u], b.token) =>
                      \E s \in Stoppers : stop'[s].instance = i /\ u \in stop'[s].batch
                /\ (/\ b.pc \in {"commit", "release"}
                    /\ b.next.status = "failed" /\ b.next.lastError = "cancelled")
                   => ~HeldBy(rows'[u], b.token)
    <3>1. b.pc = pc /\ b.aborted = a.aborted /\ b.token = a.token /\ b.next = row
      BY <2>0, <2>12 DEF Attempt
    <3>2. ASSUME row.status = "failed", row.lastError = "cancelled"
          PROVE  ~HeldBy(rows[u], a.token)
      <4>1. a.pc = "shutdown?" /\ ~shuttingDown[i]
        BY <2>12, <3>2 DEF Verdict
      <4>2. a.aborted
        BY <2>0, <4>1
      <4>3. \A s \in Stoppers : stop[s].instance # i
        BY <1>0, <4>1 DEF ShutdownInv
      <4> QED BY <2>0, <4>2, <4>3
    <3> QED BY <2>2, <2>5, <2>12, <3>1, <3>2
  <2> QED BY <2>0, <2>6, <2>7, <2>8, <2>9, <2>10, <2>11, <2>12 DEF AttemptFate
<1> QED BY <1>1, <1>2, <1>3 DEF ShutdownInv

(* An upload that stop() interrupted is never failed for it, as long as    *)
(* the application does not call stop() again before it has returned: the  *)
(* interrupted attempt still finds shuttingDown set when it asks, and an   *)
(* attempt that a pause or a cancel aborted has lost its claim.            *)
THEOREM ShutdownNeverFails == Spec /\ []OneStopEach => []ShutdownFailsNothing
<1>1. Init => ShutdownInv
  BY DEF Init, ShutdownInv, ShutdownFailsNothing, IdleAttempt, IdleStop, NoRow
<1>2. IInv /\ OneStopEach /\ ShutdownInv /\ [Next]_vars => ShutdownInv'
  BY ShutdownStep
<1>3. ShutdownInv => ShutdownFailsNothing
  BY DEF ShutdownInv
<1> QED BY <1>1, <1>2, <1>3, Invariant, PTL DEF Spec
================================================================================
