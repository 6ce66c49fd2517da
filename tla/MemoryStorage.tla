----------------------------- MODULE MemoryStorage -----------------------------
(***************************************************************************)
(* adapters/memory/memory-upload-storage.ts.  The README calls it an       *)
(* honest stand-in with the same contract SQLite implements, which makes   *)
(* it the specification of a storage adapter: SqliteStorage implements it. *)
(*                                                                         *)
(* tasks is the Map, by place in its order of insertion.  call is the call *)
(* made in a step, answer what it returned or threw.                       *)
(***************************************************************************)
EXTENDS StoredTask

VARIABLES tasks, call, answer

Init == tasks = Nothing

-----------------------------------------------------------------------------
(* The place of a key of the Map, if it is there. *)
Of(id) == {i \in DOMAIN tasks : tasks[i].id = id}

(* sort is stable. *)
Sorted(chosen, key) ==
    {order \in Listings(chosen) :
        \A i, j \in DOMAIN order : i < j =>
            \/ tasks[order[i]][key] < tasks[order[j]][key]
            \/ tasks[order[i]][key] = tasks[order[j]][key] /\ order[i] < order[j]}

Due(task, now) ==
    task.status = "pending" /\ ("nextAttemptAt" \in DOMAIN task => task.nextAttemptAt <= now)

Owned(task, token) == "processingToken" \in DOMAIN task /\ task.processingToken = token

Stale(task, staleBefore) ==
    /\ task.status = "uploading"
    /\ "processingStartedAt" \in DOMAIN task
    /\ task.processingStartedAt <= staleBefore

-----------------------------------------------------------------------------
Insert(task) ==
    IF Of(task.id) # {}
       THEN answer' = Throws("already queued") /\ UNCHANGED tasks
       ELSE answer' = Done /\ tasks' = Inserted(tasks, task)

(* tasks.set() of a key that is there keeps its place. *)
Update(task) ==
    IF Of(task.id) # {}
       THEN answer' = Done /\ tasks' = With(tasks, [i \in Of(task.id) |-> task])
       ELSE answer' = Throws("not found") /\ UNCHANGED tasks

UpdateOwned(task, token) ==
    LET owned == {i \in Of(task.id) : Owned(tasks[i], token)}
    IN  /\ answer' = Landed(owned # {})
        /\ tasks' = With(tasks, [i \in owned |-> task])

(* update: progress, bytesUploaded, updatedAt and perhaps totalBytes. *)
UpdateProgress(id, token, update) ==
    LET owned == {i \in Of(id) : tasks[i].status = "uploading" /\ Owned(tasks[i], token)}
    IN  /\ answer' = Landed(owned # {})
        /\ tasks' = With(tasks, [i \in owned |-> CloneTask(tasks[i], update, {})])

Get(id) ==
    (\E order \in Listings(Of(id)) : answer' = Found(At(tasks, order))) /\ UNCHANGED tasks

GetPending(limit, now) ==
    LET due == {i \in DOMAIN tasks : Due(tasks[i], now)}
    IN  /\ \E order \in Sorted(due, "createdAt") : answer' = Found(At(tasks, FirstOf(order, limit)))
        /\ UNCHANGED tasks

(* limit 0: not given. *)
GetRecoverable(staleBefore, limit) ==
    LET stale == {i \in DOMAIN tasks : Stale(tasks[i], staleBefore)}
    IN  /\ \E order \in Sorted(stale, "processingStartedAt") :
              answer' = Found(At(tasks, IF limit = 0 THEN order ELSE FirstOf(order, limit)))
        /\ UNCHANGED tasks

RecoverAbandoned(staleBefore, updatedAt) ==
    LET stale == {i \in DOMAIN tasks : Stale(tasks[i], staleBefore)}
    IN  /\ answer' = Counted(Cardinality(stale))
        /\ tasks' = With(tasks, [i \in stale |->
               CloneTask(tasks[i], [status |-> "pending", updatedAt |-> updatedAt, progress |-> 0],
                         {"processingToken", "processingStartedAt", "nextAttemptAt"})])

GetEarliestNextAttemptAt ==
    LET scheduled == {i \in DOMAIN tasks :
                         tasks[i].status = "pending" /\ "nextAttemptAt" \in DOMAIN tasks[i]}
    IN  answer' = Counted(Earliest({tasks[i].nextAttemptAt : i \in scheduled})) /\ UNCHANGED tasks

ClaimedAt(task, token, now) ==
    CloneTask(task, [status |-> "uploading", processingToken |-> token, processingStartedAt |-> now,
                     startedAt |-> FieldOr(task, "startedAt", now), updatedAt |-> now,
                     progress |-> 0, bytesUploaded |-> 0], {"nextAttemptAt"})

Claim(id, token, now) ==
    LET free == {i \in Of(id) : Due(tasks[i], now)}
    IN  /\ tasks' = With(tasks, [i \in free |-> ClaimedAt(tasks[i], token, now)])
        /\ \E order \in Listings(free) : answer' = Found(At(tasks', order))

Delete(id) ==
    answer' = Done /\ tasks' = Without(tasks, Of(id))

List ==
    (\E order \in Sorted(DOMAIN tasks, "createdAt") : answer' = Found(At(tasks, order))) /\ UNCHANGED tasks

(* olderThan -1: not given. *)
DeleteCompleted(olderThan) ==
    LET gone == {i \in DOMAIN tasks :
                    /\ tasks[i].status = "completed"
                    /\ olderThan # -1 =>
                          FieldOr(tasks[i], "completedAt", tasks[i].updatedAt) <= olderThan}
    IN  answer' = Counted(Cardinality(gone)) /\ tasks' = Without(tasks, gone)

-----------------------------------------------------------------------------
(* Each step serves the call it is made with. *)
Serve(c) ==
    \/ c.op = "insert" /\ Insert(c.task)
    \/ c.op = "update" /\ Update(c.task)
    \/ c.op = "updateOwned" /\ UpdateOwned(c.task, c.token)
    \/ c.op = "updateProgress" /\ UpdateProgress(c.id, c.token, c.update)
    \/ c.op = "get" /\ Get(c.id)
    \/ c.op = "getPending" /\ GetPending(c.limit, c.now)
    \/ c.op = "getRecoverable" /\ GetRecoverable(c.now, c.limit)
    \/ c.op = "recoverAbandoned" /\ RecoverAbandoned(c.before, c.now)
    \/ c.op = "getEarliestNextAttemptAt" /\ GetEarliestNextAttemptAt
    \/ c.op = "claim" /\ Claim(c.id, c.token, c.now)
    \/ c.op = "delete" /\ Delete(c.id)
    \/ c.op = "list" /\ List
    \/ c.op = "deleteCompleted" /\ DeleteCompleted(c.before)

Next == Serve(call')

Spec == Init /\ [][Next]_<<tasks, call, answer>>
==============================================================================
