------------------------------ MODULE UploadSends ------------------------------
(***************************************************************************)
(* How often the server is sent an upload.  The counter on the row does    *)
(* not say: recovery and releaseClaim() give a claim back with the         *)
(* attempts it was made with, also when the request had gone out.  Two     *)
(* history variables count beside UploadLifecycle, and change nothing of   *)
(* what it does.                                                           *)
(***************************************************************************)
EXTENDS UploadLifecycle

ASSUME SendsAssumption == IsFiniteSet(Instances)

VARIABLES
    sent,      \* [Uploads -> how many requests have carried the upload]
    givenBack  \* [Uploads -> how many claims recovery or a release returned]

sends == <<sent, givenBack>>

(* The row goes back to pending with the attempts it had: by recovery, or  *)
(* by the release write of an attempt that a shutdown or a fault ended.    *)
(* A deferral for want of a network is not one of these: nothing was sent. *)
Returns(u) ==
    \/ Abandoned(rows[u], now - Timeout) /\ \E i \in Instances : Initialize(i)
    \/ \E i \in Instances :
          att[i][u].pc = "release" /\ HeldBy(rows[u], att[i][u].token) /\ Commit(i, u)

(* StartUpload is the call of transport.upload(). *)
CountSends ==
    /\ sent' = [u \in Uploads |->
                  sent[u] + IF \E i \in Instances : StartUpload(i, u) THEN 1 ELSE 0]
    /\ givenBack' = [u \in Uploads |-> givenBack[u] + IF Returns(u) THEN 1 ELSE 0]

SendsInit ==
    /\ sent = [u \in Uploads |-> 0]
    /\ givenBack = [u \in Uploads |-> 0]

SendsSpec == Init /\ SendsInit /\ [][Next /\ CountSends]_<<vars, sends>>

-----------------------------------------------------------------------------
(* Without commands, an upload is sent maxAttempts times and once more for *)
(* every claim that was given back uncounted, and no more: two processes,  *)
(* late answers that lose their write and claims that outlive their owner  *)
(* send nothing beyond that.                                               *)
SendsBounded == \A u \in Uploads : sent[u] <= MaxAttempts + givenBack[u]

(* Attempts that have claimed and will send at most once more, or have     *)
(* claimed and deferred.                                                   *)
Unsent(u) ==
    {i \in Instances :
        \/ att[i][u].pc \in {"readback", "preflight"}
        \/ att[i][u].pc = "commit" /\ att[i][u].next = Deferred(att[i][u].task)}

(* The claims made so far, but for those that were deferred.               *)
Claims(u) ==
    rows[u].attempts + givenBack[u] + IF rows[u].status = "uploading" THEN 1 ELSE 0

(* What SendsBounded rests on besides IInv and AttemptsInv. *)
SendsInv ==
    /\ \A c \in Clients : cmd[c] = IdleCommand
    /\ sent \in [Uploads -> Nat] /\ givenBack \in [Uploads -> Nat]
    /\ \A u \in Uploads :
          /\ rows[u].status = "none" => rows[u].attempts = 0
          /\ rows[u].attempts <= MaxAttempts
          /\ rows[u].status # "purged" => sent[u] + Cardinality(Unsent(u)) <= Claims(u)
          /\ sent[u] + Cardinality(Unsent(u)) <= MaxAttempts + givenBack[u]
    /\ \A i \in Instances, u \in Uploads :
          att[i][u].pc \in {"commit", "release"} =>
              \/ att[i][u].next.attempts = att[i][u].task.attempts + 1
              \/ /\ att[i][u].next.attempts = att[i][u].task.attempts
                 /\ att[i][u].pc = "release" \/ att[i][u].next = Deferred(att[i][u].task)
================================================================================
