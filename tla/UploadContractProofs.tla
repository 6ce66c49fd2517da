-------------------------- MODULE UploadContractProofs --------------------------
(***************************************************************************)
(* UploadLifecycle implements UploadContract, for any number of uploads,   *)
(* instances and clients: every step of the processor, the commands,       *)
(* recovery, crashes and faults is a step of the contract or none.         *)
(***************************************************************************)
EXTENDS UploadLifecycleProofs

-----------------------------------------------------------------------------
(* The state the contract sees                                             *)

Waiting ==
    {t \in 0 .. nextToken - 1 :
       \E i \in Instances, u \in Uploads : att[i][u].pc = "claim" /\ att[i][u].token = t}

Seen(u) == <<rows[u].status, rows[u].processingToken>>

OthersSeen(u) == \A v \in Uploads \ {u} : Seen(v)' = Seen(v)

(* Steps that change one row map to steps of the contract by the status    *)
(* and the token they leave on it.                                         *)
LEMMA EnqueueMaps ==
    ASSUME UNCHANGED nextToken, Waiting' = Waiting, NEW u \in Uploads, OthersSeen(u),
           rows[u].status = "none", Seen(u)' = <<"pending", rows[u].processingToken>>
    PROVE  Contract!Enqueue(u)
BY DEF Contract!Enqueue, Seen, OthersSeen, Waiting

(* A verdict of the holder.                                                *)
LEMMA FinishMaps ==
    ASSUME UNCHANGED nextToken, Waiting' = Waiting, NEW u \in Uploads, OthersSeen(u),
           NEW verdict, rows[u].status = "uploading", Seen(u)' = <<verdict, NULL>>
    PROVE  Contract!Finish(u, verdict)
BY DEF Contract!Finish, Seen, OthersSeen, Waiting

(* A decision of the user.                                                 *)
LEMMA DecideMaps ==
    ASSUME UNCHANGED nextToken, Waiting' = Waiting, NEW u \in Uploads, OthersSeen(u),
           NEW decision, Present(rows[u]), Seen(u)' = <<decision, NULL>>
    PROVE  Contract!Decide(u, decision)
BY DEF Contract!Decide, Seen, OthersSeen, Waiting, Present, Status

(* A claim: its token waits no more.                                       *)
LEMMA ClaimMaps ==
    ASSUME UNCHANGED nextToken, NEW u \in Uploads, OthersSeen(u), NEW t, Waiting' = Waiting \ {t},
           rows[u].status = "pending", Seen(u)' = <<"uploading", t>>
    PROVE  Contract!Claim(u, t)
BY DEF Contract!Claim, Seen, OthersSeen, Waiting

(* A step that leaves every status and token, and issues none, drops some  *)
(* tokens at most.                                                         *)
LEMMA DropMaps ==
    ASSUME UNCHANGED nextToken, Waiting' \subseteq Waiting, \A u \in Uploads : Seen(u)' = Seen(u)
    PROVE  Contract!Drop
BY DEF Contract!Drop, Seen, Waiting

(* No token is put back among those waiting by a quiet step.               *)
LEMMA QuietWaits ==
    ASSUME UNCHANGED nextToken, QuietAttempts
    PROVE  Waiting' \subseteq Waiting
BY DEF QuietAttempts, GoesOn, IdleAttempt, Waiting

(* No token is dropped by a step that leaves the attempts before their     *)
(* claim as they are.                                                      *)
LEMMA ClaimsWait ==
    ASSUME UNCHANGED nextToken, QuietAttempts,
           \A i \in Instances, u \in Uploads :
              att[i][u].pc = "claim" =>
                 att'[i][u].pc = "claim" /\ att'[i][u].token = att[i][u].token
    PROVE  Waiting' = Waiting
<1>1. Waiting' \subseteq Waiting
  BY QuietWaits
<1>2. Waiting \subseteq Waiting'
  BY DEF Waiting
<1> QED BY <1>1, <1>2

-----------------------------------------------------------------------------
(* The steps                                                               *)

(* An empty table is what the contract starts from.                        *)
LEMMA InitMaps == Init => Contract!Init
<1> SUFFICES ASSUME Init PROVE Contract!Init
  OBVIOUS
<1>1. \A u \in Uploads : rows[u].status = "none" /\ rows[u].processingToken = NULL
  BY DEF Init, NoRow
<1>2. nextToken = 0
  BY DEF Init
<1>3. 0 .. nextToken - 1 = {}
  BY <1>2
<1> QED BY <1>1, <1>2, <1>3 DEF Contract!Init

(* Launching an attempt issues a token.                                    *)
LEMMA LaunchMaps ==
    ASSUME IInv, NEW i \in Instances, NEW u \in Uploads, Launch(i, u)
    PROVE  Contract!Issue
<1> DEFINE a == [IdleAttempt EXCEPT !.pc = "claim", !.token = nextToken, !.at = now]
<1>1. \A j \in Instances, v \in Uploads :
         att'[j][v] = IF j = i /\ v = u THEN a ELSE att[j][v]
  BY DEF Launch, IInv, TypeOK
<1>2. a.pc = "claim" /\ a.token = nextToken
  BY DEF IdleAttempt
<1>3. rows' = rows /\ nextToken' = nextToken + 1 /\ nextToken \in Nat /\ att[i][u].pc = "idle"
  BY DEF Launch, IInv, TypeOK
<1>4. 0 .. nextToken' - 1 = (0 .. nextToken - 1) \cup {nextToken}
  BY <1>3
<1> HIDE DEF a
<1>5. Waiting' = Waiting \cup {nextToken}
  <2>1. ASSUME NEW t \in Waiting' PROVE t \in Waiting \cup {nextToken}
    <3>1. PICK j \in Instances, v \in Uploads : att'[j][v].pc = "claim" /\ att'[j][v].token = t
      BY <2>1 DEF Waiting
    <3>2. t \in (0 .. nextToken - 1) \cup {nextToken}
      BY <1>4, <2>1 DEF Waiting
    <3>3. CASE j = i /\ v = u
      BY <1>1, <1>2, <3>1, <3>3
    <3>4. CASE ~(j = i /\ v = u)
      BY <1>1, <3>1, <3>2, <3>4 DEF Waiting
    <3> QED BY <3>3, <3>4
  <2>2. ASSUME NEW t \in Waiting PROVE t \in Waiting'
    <3>1. PICK j \in Instances, v \in Uploads : att[j][v].pc = "claim" /\ att[j][v].token = t
      BY <2>2 DEF Waiting
    <3>2. att'[j][v] = att[j][v]
      BY <1>1, <1>3, <3>1
    <3> QED BY <1>4, <2>2, <3>1, <3>2 DEF Waiting
  <2>3. nextToken \in Waiting'
    BY <1>1, <1>2, <1>4 DEF Waiting
  <2> QED BY <2>1, <2>2, <2>3
<1> QED BY <1>3, <1>5 DEF Contract!Issue, Waiting

(* The conditional UPDATE of claim() is the contract's claim, with the     *)
(* token that waited for it, or finds nothing to claim.                    *)
LEMMA ClaimRowMaps ==
    ASSUME IInv, NEW i \in Instances, NEW u \in Uploads, ClaimRow(i, u)
    PROVE  Contract!Next
<1> DEFINE t == att[i][u].token
<1>0. UNCHANGED nextToken
  BY DEF ClaimRow
<1>1. CASE ~Claimable(rows[u], att[i][u].at)
  <2>1. Settle(i, u) /\ UNCHANGED rows
    BY <1>1 DEF ClaimRow
  <2>2. Waiting' \subseteq Waiting
    BY <1>0, <2>1, SettleQuiet, QuietWaits
  <2> QED BY <1>0, <2>1, <2>2, DropMaps DEF Seen, Contract!Next
<1>2. CASE Claimable(rows[u], att[i][u].at)
  <2>1. /\ rows' = [rows EXCEPT ![u] = Claimed(@, t, att[i][u].at)]
        /\ att' = [att EXCEPT ![i][u].pc = "readback"]
        /\ att[i][u].pc = "claim" /\ rows[u].status = "pending"
    BY <1>2 DEF ClaimRow, Goto, Claimable, Due
  <2>2. \A j \in Instances, v \in Uploads :
           /\ att'[j][v].token = att[j][v].token
           /\ att'[j][v].pc = IF j = i /\ v = u THEN "readback" ELSE att[j][v].pc
    BY <2>1 DEF IInv, TypeOK, Attempt
  <2>3. t \in Waiting
    <3>1. att[i][u].token \in Nat /\ att[i][u].token < nextToken
      BY <2>1 DEF IInv, TokensIssued, TypeOK, Attempt
    <3>2. t \in 0 .. nextToken - 1
      BY <3>1 DEF IInv, TypeOK
    <3> QED BY <2>1, <3>2 DEF Waiting
  <2>4. t # NULL
    BY <2>1 DEF IInv, TokensIssued
  <2>5. \A j \in Instances, v \in Uploads : att[j][v].token = t => j = i /\ v = u
    BY <2>4 DEF IInv, TokensDistinct
  <2> HIDE DEF t
  <2>6. Waiting' = Waiting \ {t}
    <3>1. \A j \in Instances, v \in Uploads :
             att'[j][v].pc = "claim" <=> att[j][v].pc = "claim" /\ att[j][v].token # t
      BY <2>1, <2>2, <2>5 DEF t
    <3> QED BY <1>0, <2>2, <3>1 DEF Waiting
  <2>7. OthersSeen(u)
    BY <2>1 DEF OthersSeen, Seen, IInv, TypeOK
  <2>8. Seen(u)' = <<"uploading", t>>
    <3>1. rows'[u] = Claimed(rows[u], t, att[i][u].at) /\ rows[u] \in Row
      BY <2>1 DEF IInv, TypeOK
    <3>2. rows'[u].status = "uploading" /\ rows'[u].processingToken = t
      BY <3>1 DEF Claimed, Row
    <3> QED BY <3>2 DEF Seen
  <2>9. PICK token \in Waiting : token = t
    BY <2>3
  <2>10. Contract!Claim(u, token)
    BY <1>0, <2>1, <2>6, <2>7, <2>8, <2>9, ClaimMaps
  <2> QED BY <2>10 DEF Contract!Next, Waiting
<1> QED BY <1>1, <1>2

(* updateOwned() is the contract's verdict while the attempt holds the row *)
(* and nothing otherwise.                                                  *)
LEMMA CommitMaps ==
    ASSUME IInv, NEW i \in Instances, NEW u \in Uploads, Commit(i, u)
    PROVE  Contract!Next
<1>0. /\ UNCHANGED nextToken /\ Settle(i, u) /\ att[i][u].pc \in {"commit", "release"}
      /\ QuietAttempts
  BY SettleQuiet DEF Commit
<1>1. CASE HeldBy(rows[u], att[i][u].token)
  <2> DEFINE row == att[i][u].next
  <2>1. row.status \in Contract!Verdict /\ row.processingToken = NULL
    BY <1>0 DEF IInv, WritesLetGo, LetsGo, Contract!Verdict
  <2>2. rows'[u] = row /\ OthersSeen(u)
    BY <1>1 DEF Commit, OthersSeen, Seen, IInv, TypeOK
  <2>3. rows[u].status = "uploading"
    BY <1>0, <1>1 DEF IInv, ClaimIffUploading, TokensIssued, HeldBy
  <2>4. Waiting' = Waiting
    <3>1. \A j \in Instances, v \in Uploads :
             att[j][v].pc = "claim" => att'[j][v] = att[j][v]
      BY <1>0 DEF Settle, IInv, TypeOK
    <3> QED BY <1>0, <3>1, ClaimsWait
  <2>5. PICK verdict \in Contract!Verdict : verdict = row.status
    BY <2>1
  <2>6. Contract!Finish(u, verdict)
    <3>1. Seen(u)' = <<verdict, NULL>>
      BY <2>1, <2>2, <2>5 DEF Seen
    <3> QED BY <1>0, <2>2, <2>3, <2>4, <3>1, FinishMaps
  <2> QED BY <2>6 DEF Contract!Next
<1>2. CASE ~HeldBy(rows[u], att[i][u].token)
  <2>1. UNCHANGED rows
    BY <1>2 DEF Commit
  <2>2. Waiting' \subseteq Waiting
    BY <1>0, QuietWaits
  <2> QED BY <1>0, <2>1, <2>2, DropMaps DEF Seen, Contract!Next
<1> QED BY <1>1, <1>2

(* The other steps of an attempt, faults included, are nothing to the      *)
(* contract, but for a token that a fault before the claim wastes.         *)
LEMMA AttemptMaps ==
    ASSUME IInv, NEW i \in Instances, NEW u \in Uploads,
           \/ ReadBack(i, u) \/ PersistProgress(i, u)
           \/ ReleaseOffline(i, u) \/ FileMissing(i, u) \/ StartUpload(i, u)
           \/ \E code \in HttpCodes : Respond(i, u, code)
           \/ \E thrown \in Errors : TransportThrows(i, u, thrown)
           \/ AbortError(i, u) \/ CheckDecision(i, u) \/ ResolveAbort(i, u)
           \/ ClaimFault(i, u) \/ AttemptFault(i, u) \/ ReleaseFault(i, u)
    PROVE  Contract!Next
<1>0. UNCHANGED nextToken
  BY DEF ReadBack, PersistProgress, ReleaseOffline, FileMissing, StartUpload, Respond,
         TransportThrows, AbortError, CheckDecision, ResolveAbort, ClaimFault, AttemptFault,
         ReleaseFault
<1>1. \A v \in Uploads : Seen(v)' = Seen(v)
  <2>1. CASE PersistProgress(i, u)
    <3>1. \A v \in Uploads : rows'[v] = IF v = u THEN [rows[u] EXCEPT !.progress = 1] ELSE rows[v]
      BY <2>1 DEF PersistProgress, IInv, TypeOK
    <3>2. rows[u] \in Row
      BY DEF IInv, TypeOK
    <3> QED BY <3>1, <3>2 DEF Seen, Row
  <2>2. CASE ~PersistProgress(i, u)
    <3>1. UNCHANGED rows
      BY <2>2 DEF ReadBack, ReleaseOffline, FileMissing, StartUpload, Respond,
             TransportThrows, AbortError, CheckDecision, ResolveAbort, ClaimFault, AttemptFault,
             ReleaseFault
    <3> QED BY <3>1 DEF Seen
  <2> QED BY <2>1, <2>2
<1>2. \A j \in Instances, v \in Uploads :
         att'[j][v].pc = "claim" => att'[j][v] = att[j][v]
  <2>0. \A j \in Instances, v \in Uploads : att[j][v] \in Attempt
    BY DEF IInv, TypeOK
  <2>1. CASE Settle(i, u)
    BY <2>1, SettleQuiet DEF Settle, IInv, TypeOK, IdleAttempt
  <2>2. CASE ~Settle(i, u) /\ ~PersistProgress(i, u)
    <3>1. \E pc \in Phase \ {"claim"} :
             /\ att'[i][u].pc = pc
             /\ \A j \in Instances, v \in Uploads : ~(j = i /\ v = u) => att'[j][v] = att[j][v]
      <4>1. CASE ReadBack(i, u) \/ StartUpload(i, u)
        BY <2>0, <2>2, <4>1 DEF ReadBack, StartUpload, IInv, TypeOK, Phase, Attempt
      <4>2. CASE AbortError(i, u) \/ CheckDecision(i, u)
        BY <2>0, <2>2, <4>2 DEF AbortError, CheckDecision, Goto, IInv, TypeOK, Phase, Attempt
      <4>3. CASE ~(\/ ReadBack(i, u) \/ StartUpload(i, u) \/ AbortError(i, u) \/ CheckDecision(i, u))
        <5>1. PICK pc \in {"commit", "release"} : \E row : Write(i, u, pc, row)
          BY <2>2, <4>3 DEF ReleaseOffline, FileMissing, Respond, TransportThrows, ResolveAbort,
                            ClaimFault, AttemptFault, ReleaseFault
        <5>2. att'[i][u].pc = pc
          BY <2>0, <5>1 DEF Write, IInv, TypeOK, Attempt
        <5>3. \A j \in Instances, v \in Uploads : ~(j = i /\ v = u) => att'[j][v] = att[j][v]
          BY <5>1 DEF Write, IInv, TypeOK
        <5> QED BY <5>2, <5>3 DEF Phase
      <4> QED BY <4>1, <4>2, <4>3
    <3> QED BY <3>1
  <2>3. CASE PersistProgress(i, u)
    BY <2>3 DEF PersistProgress
  <2> QED BY <2>1, <2>2, <2>3
<1>3. Waiting' \subseteq Waiting
  BY <1>0, <1>2 DEF Waiting
<1> QED BY <1>0, <1>1, <1>3, DropMaps DEF Contract!Next

(* Enqueue, purge and recovery are the contract's; time and crashes only   *)
(* drop tokens.                                                            *)
LEMMA EnvironmentMaps ==
    ASSUME IInv,
           \/ Tick
           \/ \E u \in Uploads : Enqueue(u)
           \/ \E S \in SUBSET Uploads : Purge(S)
           \/ \E i \in Instances : Initialize(i) \/ Crash(i)
    PROVE  Contract!Next
<1>0. /\ UNCHANGED nextToken /\ rows \in [Uploads -> Row]
      /\ \A u \in Uploads : rows[u].status # "uploading" => rows[u].processingToken = NULL
  BY DEF Tick, Enqueue, Purge, Initialize, Crash, IInv, TypeOK, ClaimIffUploading
<1>1. CASE Tick \/ \E i \in Instances : Crash(i)
  <2>1. UNCHANGED rows /\ \A j \in Instances, v \in Uploads : att'[j][v] \in {att[j][v], IdleAttempt}
    BY <1>1 DEF Tick, Crash, IInv, TypeOK
  <2>2. Waiting' \subseteq Waiting
    BY <1>0, <2>1 DEF Waiting, IdleAttempt
  <2> QED BY <1>0, <2>1, <2>2, DropMaps DEF Seen, Contract!Next
<1>2. ASSUME NEW u \in Uploads, Enqueue(u)
      PROVE  Contract!Next
  <2>1. Waiting' = Waiting
    BY <1>2 DEF Enqueue, Waiting
  <2>2. rows[u].status = "none" /\ rows'[u] = Enqueued /\ OthersSeen(u)
    BY <1>0, <1>2 DEF Enqueue, OthersSeen, Seen
  <2>3. Seen(u)' = <<"pending", rows[u].processingToken>>
    BY <1>0, <2>2 DEF Seen, Enqueued, NoRow
  <2> QED BY <1>0, <2>1, <2>2, <2>3, EnqueueMaps DEF Contract!Next
<1>3. ASSUME NEW S \in SUBSET Uploads, Purge(S)
      PROVE  Contract!Next
  <2>1. Waiting' = Waiting
    BY <1>3 DEF Purge, Waiting
  <2>2. \A u \in Uploads :
           /\ u \in S => rows[u].status = "completed"
           /\ rows'[u].status = IF u \in S THEN "purged" ELSE rows[u].status
           /\ rows'[u].processingToken = rows[u].processingToken
    BY <1>0, <1>3 DEF Purge, NoRow
  <2>3. Contract!Purge(S)
    BY <1>0, <2>1, <2>2 DEF Contract!Purge, Waiting
  <2> QED BY <2>3 DEF Contract!Next
<1>4. ASSUME NEW i \in Instances, Initialize(i)
      PROVE  Contract!Next
  <2> DEFINE S == {u \in Uploads : Abandoned(rows[u], now - Timeout)}
  <2>1. Waiting' = Waiting
    BY <1>4 DEF Initialize, Waiting
  <2>2. \A u \in Uploads : Recovered(rows[u]).status = "pending" /\ Recovered(rows[u]).processingToken = NULL
    BY <1>0 DEF Recovered, Row
  <2>3. \A u \in Uploads :
           /\ u \in S => rows[u].status = "uploading"
           /\ rows'[u].status = IF u \in S THEN "pending" ELSE rows[u].status
           /\ rows'[u].processingToken = IF u \in S THEN NULL ELSE rows[u].processingToken
    BY <1>4, <2>2 DEF Initialize, Abandoned
  <2>4. PICK recovered \in SUBSET Uploads : recovered = S
    OBVIOUS
  <2> HIDE DEF S
  <2>5. Contract!Recover(recovered)
    BY <1>0, <2>1, <2>3, <2>4 DEF Contract!Recover, Waiting
  <2> QED BY <2>5 DEF Contract!Next
<1> QED BY <1>1, <1>2, <1>3, <1>4

(* A user command carried out is the contract's decision; reading for one, *)
(* or finding the upload purged, is nothing.                               *)
LEMMA CommandMaps ==
    ASSUME IInv, NEW c \in Clients,
           \/ \E i \in Instances, op \in Commands, u \in Uploads : CommandRead(c, i, op, u)
           \/ CommandWrite(c)
    PROVE  Contract!Next
<1>0. UNCHANGED nextToken
  BY DEF CommandRead, CommandWrite
<1>1. CASE \E i \in Instances, op \in Commands, u \in Uploads : CommandRead(c, i, op, u)
  <2>1. UNCHANGED <<rows, att>>
    BY <1>1 DEF CommandRead
  <2>2. Waiting' \subseteq Waiting
    BY <1>0, <2>1 DEF Waiting
  <2> QED BY <1>0, <2>1, <2>2, DropMaps DEF Seen, Contract!Next
<1>2. CASE CommandWrite(c)
  <2> DEFINE row == Decision(cmd[c].op, cmd[c].task)
  <2>1. cmd[c] \in Command
    BY <1>2 DEF CommandWrite, IInv, TypeOK
  <2>0. PICK u \in Uploads : u = cmd[c].upload
    BY <2>1 DEF Command
  <2>2. /\ cmd[c].instance \in Instances /\ cmd[c].task \in Row
        /\ cmd[c].op \in {"pause", "resume", "cancel", "retry"}
    BY <2>1 DEF Command
  <2>3. QuietAttempts
    <3>1. AbortUploads(cmd[c].instance, {u}) \/ UNCHANGED att
      BY <1>2, <2>0 DEF CommandWrite
    <3> QED BY <2>2, <3>1, AbortQuiet, AttemptsUnchanged
  <2>4. Waiting' = Waiting
    <3>1. AbortUploads(cmd[c].instance, {u}) \/ UNCHANGED att
      BY <1>2, <2>0 DEF CommandWrite
    <3>2. \A j \in Instances, v \in Uploads :
             att'[j][v].pc = att[j][v].pc /\ att'[j][v].token = att[j][v].token
      <4>1. \A j \in Instances, v \in Uploads :
               att'[j][v] \in {att[j][v], [att[j][v] EXCEPT !.aborted = TRUE]}
        BY <2>2, <3>1 DEF AbortUploads, IInv, TypeOK
      <4>2. \A j \in Instances, v \in Uploads : att[j][v] \in Attempt
        BY DEF IInv, TypeOK
      <4> QED BY <4>1, <4>2 DEF Attempt
    <3> QED BY <1>0, <2>3, <3>2, ClaimsWait
  <2>5. CASE Present(rows[u])
    <3>1. row.status \in Contract!Decision /\ row.processingToken = NULL
      BY <2>2, DecisionRows DEF Contract!Decision
    <3>2. rows'[u] = row /\ OthersSeen(u)
      BY <1>2, <2>0, <2>5 DEF CommandWrite, OthersSeen, Seen, IInv, TypeOK
    <3>3. PICK decision \in Contract!Decision : decision = row.status
      BY <3>1
    <3> HIDE DEF row
    <3>4. Seen(u)' = <<decision, NULL>>
      BY <3>1, <3>2, <3>3 DEF Seen
    <3>5. Contract!Decide(u, decision)
      BY <1>0, <2>4, <2>5, <3>2, <3>4, DecideMaps
    <3> QED BY <3>5 DEF Contract!Next
  <2>6. CASE ~Present(rows[u])
    <3>1. UNCHANGED rows
      BY <1>2, <2>0, <2>6 DEF CommandWrite
    <3> QED BY <1>0, <2>4, <3>1, DropMaps DEF Seen, Contract!Next
  <2> QED BY <2>5, <2>6
<1> QED BY <1>1, <1>2

(* stop() is nothing to the contract.                                      *)
LEMMA StopMaps ==
    ASSUME IInv, NEW s \in Stoppers,
           (\E i \in Instances : StopBegin(s, i)) \/ StopEnd(s)
    PROVE  Contract!Next
<1>1. UNCHANGED <<rows, nextToken>>
  BY DEF StopBegin, StopEnd
<1>2. QuietAttempts
  BY AbortQuiet, AttemptsUnchanged DEF StopBegin, StopEnd
<1>3. Waiting' \subseteq Waiting
  BY <1>1, <1>2, QuietWaits
<1> QED BY <1>1, <1>3, DropMaps DEF Seen, Contract!Next

(* Every step maps to a step of the contract or to a stutter.              *)
LEMMA NextMaps == IInv /\ [Next]_vars => [Contract!Next]_(Contract!vars)
<1> SUFFICES ASSUME IInv, [Next]_vars
             PROVE  Contract!Next \/ UNCHANGED Contract!vars
  OBVIOUS
<1>1. CASE UNCHANGED vars
  BY <1>1 DEF vars, Contract!vars
<1>2. CASE Tick \/ (\E u \in Uploads : Enqueue(u)) \/ (\E S \in SUBSET Uploads : Purge(S))
           \/ \E i \in Instances : Initialize(i) \/ Crash(i)
  BY <1>2, EnvironmentMaps
<1>3. ASSUME NEW i \in Instances, NEW u \in Uploads,
             \/ Launch(i, u) \/ AttemptStep(i, u) \/ PersistProgress(i, u)
             \/ ClaimFault(i, u) \/ AttemptFault(i, u) \/ ReleaseFault(i, u)
      PROVE  Contract!Next
  <2>1. CASE Launch(i, u)
    BY <2>1, LaunchMaps DEF Contract!Next
  <2>2. CASE ClaimRow(i, u) \/ Commit(i, u)
    BY <2>2, ClaimRowMaps, CommitMaps
  <2>3. CASE ~(Launch(i, u) \/ ClaimRow(i, u) \/ Commit(i, u))
    BY <1>3, <2>3, AttemptMaps DEF AttemptStep
  <2> QED BY <2>1, <2>2, <2>3
<1>4. ASSUME NEW c \in Clients,
             \/ \E i \in Instances, op \in Commands, u \in Uploads : CommandRead(c, i, op, u)
             \/ CommandWrite(c)
      PROVE  Contract!Next
  BY <1>4, CommandMaps
<1>5. ASSUME NEW s \in Stoppers, (\E i \in Instances : StopBegin(s, i)) \/ StopEnd(s)
      PROVE  Contract!Next
  BY <1>5, StopMaps
<1> QED BY <1>1, <1>2, <1>3, <1>4, <1>5 DEF Next

(* The processor, its fenced writes, recovery, the user commands and stop()*)
(* promise what UploadContract says: a token is used for one claim, only   *)
(* the holder's verdict lands, and only the user moves an upload that is   *)
(* neither held nor waiting.                                               *)
THEOREM ImplementsContract == Spec => KeepsContract
<1>1. Init => Contract!Init
  BY InitMaps
<1>2. IInv /\ [Next]_vars => [Contract!Next]_(Contract!vars)
  BY NextMaps
<1> QED BY <1>1, <1>2, Invariant, PTL DEF Spec, KeepsContract, Contract!Spec
================================================================================
