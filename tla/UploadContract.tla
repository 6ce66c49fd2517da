---------------------------- MODULE UploadContract ----------------------------
(***************************************************************************)
(* What the queue promises about an upload, with none of its machinery: an *)
(* upload is waiting, held by exactly one claim, parked or settled.  A     *)
(* claim token is used for one claim only.  Only the holder's verdict      *)
(* lands, and only while the upload is still held; recovery and the user   *)
(* may take the upload away from its holder; nothing but a user command    *)
(* moves an upload that is not held and not waiting.                       *)
(***************************************************************************)
EXTENDS Integers

CONSTANTS Uploads, NULL

VARIABLES
    status,   \* [Uploads -> status of the row]
    owner,    \* [Uploads -> the token of the claim that holds it, or NULL]
    issued,   \* tokens 0 .. issued - 1 have been handed out
    waiting   \* the tokens handed out and not yet used for a claim

vars == <<status, owner, issued, waiting>>

Verdict == {"completed", "pending", "blocked", "failed"}
Decision == {"pending", "paused", "cancelled"}

Init ==
    /\ status = [u \in Uploads |-> "none"]
    /\ owner = [u \in Uploads |-> NULL]
    /\ issued = 0
    /\ waiting = {}

Enqueue(u) ==
    /\ status[u] = "none"
    /\ status' = [status EXCEPT ![u] = "pending"]
    /\ UNCHANGED <<owner, issued, waiting>>

Purge(S) ==
    /\ \A u \in S : status[u] = "completed"
    /\ status' = [u \in Uploads |-> IF u \in S THEN "purged" ELSE status[u]]
    /\ UNCHANGED <<owner, issued, waiting>>

Issue ==
    /\ issued' = issued + 1
    /\ waiting' = waiting \cup {issued}
    /\ UNCHANGED <<status, owner>>

(* A worker dies or finds nothing to claim: its tokens are never used. *)
Drop ==
    /\ waiting' \subseteq waiting
    /\ UNCHANGED <<status, owner, issued>>

Claim(u, t) ==
    /\ status[u] = "pending"
    /\ status' = [status EXCEPT ![u] = "uploading"]
    /\ owner' = [owner EXCEPT ![u] = t]
    /\ waiting' = waiting \ {t}
    /\ UNCHANGED issued

Finish(u, verdict) ==
    /\ status[u] = "uploading"
    /\ status' = [status EXCEPT ![u] = verdict]
    /\ owner' = [owner EXCEPT ![u] = NULL]
    /\ UNCHANGED <<issued, waiting>>

Recover(S) ==
    /\ \A u \in S : status[u] = "uploading"
    /\ status' = [u \in Uploads |-> IF u \in S THEN "pending" ELSE status[u]]
    /\ owner' = [u \in Uploads |-> IF u \in S THEN NULL ELSE owner[u]]
    /\ UNCHANGED <<issued, waiting>>

Decide(u, decision) ==
    /\ status[u] \notin {"none", "purged"}
    /\ status' = [status EXCEPT ![u] = decision]
    /\ owner' = [owner EXCEPT ![u] = NULL]
    /\ UNCHANGED <<issued, waiting>>

Next ==
    \/ \E u \in Uploads : Enqueue(u)
    \/ \E S \in SUBSET Uploads : Purge(S) \/ Recover(S)
    \/ Issue
    \/ Drop
    \/ \E u \in Uploads, t \in waiting : Claim(u, t)
    \/ \E u \in Uploads, v \in Verdict : Finish(u, v)
    \/ \E u \in Uploads, d \in Decision : Decide(u, d)

Spec == Init /\ [][Next]_vars
===============================================================================
