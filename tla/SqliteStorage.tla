----------------------------- MODULE SqliteStorage -----------------------------
(***************************************************************************)
(* adapters/sqlite/sqlite-upload-storage.ts over a table, with the column  *)
(* list of upload-columns.ts and the conversions of upload-row-mapper.ts;  *)
(* and that it does what the memory adapter does, call for call.  The      *)
(* calls are the ones the queue makes: what it writes it has read before,  *)
(* perhaps too long ago.                                                   *)
(*                                                                         *)
(* Both statements of claim() are in one step here; what comes between     *)
(* them is UploadLifecycle's matter.                                       *)
(***************************************************************************)
EXTENDS StoredTask

CONSTANTS
    NULL,          \* an empty column
    Ids, Tokens,   \* what createId() makes, for rows and for claims
    DefaultLimit,  \* DEFAULT_RECOVERABLE_LIMIT
    Reports,       \* whether the driver fills in the optional rowsAffected
    SameInstant,   \* whether two rows are created, or claimed, in one millisecond
    MaxTime,       \* the clock stops here (bound of the model)
    MaxCalls       \* calls of the adapter (bound of the model)

Status == {"pending", "uploading", "paused", "completed"}

ASSUME StorageAssumption ==
    /\ {Reports, SameInstant} \subseteq BOOLEAN
    /\ {DefaultLimit, MaxTime, MaxCalls} \subseteq Nat
    /\ NULL \notin Int /\ NULL \notin Ids \cup Tokens \cup Status

VARIABLES
    table,         \* the rows of upload_queue, by rowid
    call, answer,  \* the last call of the adapter, and its result
    copies,        \* the last UploadTask a caller was given for an id
    now,           \* clock.now()
    used           \* the number of calls

vars == <<table, call, answer, copies, now, used>>

(* No step depends on the call and the answer before it. *)
View == <<table, copies, now, used>>

Init ==
    /\ table = Nothing /\ call = Nothing /\ answer = Done
    /\ copies = [id \in Ids |-> Nothing] /\ now = 0 /\ used = 0

-----------------------------------------------------------------------------
(* The field that COLUMN_VALUES reads for a column. *)
Field == [id |-> "id", status |-> "status", progress |-> "progress", created_at |-> "createdAt",
          updated_at |-> "updatedAt", bytes_uploaded |-> "bytesUploaded",
          total_bytes |-> "totalBytes", next_attempt_at |-> "nextAttemptAt",
          started_at |-> "startedAt", completed_at |-> "completedAt",
          processing_token |-> "processingToken",
          processing_started_at |-> "processingStartedAt"]

Columns == DOMAIN Field

Encode(task) == [column \in Columns |-> FieldOr(task, Field[column], NULL)]

(* The column that mapUploadRow reads for a field. *)
Column == [id |-> "id", status |-> "status", progress |-> "progress", createdAt |-> "created_at",
           updatedAt |-> "updated_at", bytesUploaded |-> "bytes_uploaded",
           totalBytes |-> "total_bytes", nextAttemptAt |-> "next_attempt_at",
           startedAt |-> "started_at", completedAt |-> "completed_at",
           processingToken |-> "processing_token",
           processingStartedAt |-> "processing_started_at"]

MapUploadRow(row) ==
    [key \in {k \in TaskKey : k \in Mandatory \/ row[Column[k]] # NULL} |-> row[Column[key]]]

Tasks(rows) == [i \in DOMAIN rows |-> MapUploadRow(rows[i])]

Coalesce(a, b) == IF a # NULL THEN a ELSE b

(* rowsAffected ?? 0 *)
RowsAffected(where) == IF Reports THEN Cardinality(where) ELSE 0

(* ORDER BY leaves the order among equals to the engine. *)
Ordered(where, column) ==
    {order \in Listings(where) :
        \A i, j \in DOMAIN order : i < j => table[order[i]][column] <= table[order[j]][column]}

DuePending(row, time) ==
    row.status = "pending" /\ (row.next_attempt_at = NULL \/ row.next_attempt_at <= time)

Abandoned(row, before) ==
    /\ row.status = "uploading"
    /\ row.processing_started_at # NULL
    /\ row.processing_started_at <= before

-----------------------------------------------------------------------------
(* Each operation answers the call it is given. *)

(* Mutation: the table has lost its primary key. *)
InsertUnconstrained(task) == answer' = Done /\ table' = Inserted(table, Encode(task))

Insert(task) ==
    IF \E i \in DOMAIN table : table[i].id = task.id
       THEN answer' = Throws("already queued") /\ UNCHANGED table
       ELSE answer' = Done /\ table' = Inserted(table, Encode(task))

Update(task) ==
    LET where == {i \in DOMAIN table : table[i].id = task.id}
    IN  /\ answer' = IF Reports /\ where = {} THEN Throws("not found") ELSE Done
        /\ table' = With(table, [i \in where |-> Encode(task)])

UpdateOwned(task, token) ==
    LET where == {i \in DOMAIN table : table[i].id = task.id /\ table[i].processing_token = token}
    IN  /\ answer' = Landed(RowsAffected(where) > 0)
        /\ table' = With(table, [i \in where |-> Encode(task)])

UpdateProgress(id, token, update) ==
    LET where == {i \in DOMAIN table :
                     table[i].id = id /\ table[i].processing_token = token /\ table[i].status = "uploading"}
        total(row) == Coalesce(FieldOr(update, "totalBytes", NULL), row.total_bytes)
    IN  /\ answer' = Landed(RowsAffected(where) > 0)
        /\ table' = With(table, [i \in where |-> With(table[i],
               [progress |-> update.progress, bytes_uploaded |-> update.bytesUploaded,
                total_bytes |-> total(table[i]), updated_at |-> update.updatedAt])])

Get(id) ==
    /\ \E order \in Listings({i \in DOMAIN table : table[i].id = id}) :
          answer' = Found(At(Tasks(table), FirstOf(order, 1)))
    /\ UNCHANGED table

GetPending(limit, time) ==
    /\ \E order \in Ordered({i \in DOMAIN table : DuePending(table[i], time)}, "created_at") :
          answer' = Found(At(Tasks(table), FirstOf(order, limit)))
    /\ UNCHANGED table

GetRecoverable(before, limit) ==
    /\ \E order \in Ordered({i \in DOMAIN table : Abandoned(table[i], before)}, "processing_started_at") :
          answer' = Found(At(Tasks(table), FirstOf(order, IF limit = 0 THEN DefaultLimit ELSE limit)))
    /\ UNCHANGED table

RecoveredColumns(time) ==
    [status |-> "pending", updated_at |-> time, progress |-> 0, processing_token |-> NULL,
     processing_started_at |-> NULL, next_attempt_at |-> NULL]

RecoverAbandoned(before, time) ==
    LET where == {i \in DOMAIN table : Abandoned(table[i], before)}
    IN  /\ answer' = Counted(RowsAffected(where))
        /\ table' = With(table, [i \in where |-> With(table[i], RecoveredColumns(time))])

GetEarliestNextAttemptAt ==
    LET where == {i \in DOMAIN table :
                     table[i].status = "pending" /\ table[i].next_attempt_at # NULL}
    IN  answer' = Counted(Earliest({table[i].next_attempt_at : i \in where})) /\ UNCHANGED table

(* Mutation: started_at without its COALESCE. *)
ClaimColumnsRestarting(row, token, time) ==
    [status |-> "uploading", processing_token |-> token, processing_started_at |-> time,
     started_at |-> time, updated_at |-> time, next_attempt_at |-> NULL, progress |-> 0,
     bytes_uploaded |-> 0]

ClaimColumns(row, token, time) ==
    [status |-> "uploading", processing_token |-> token, processing_started_at |-> time,
     started_at |-> Coalesce(row.started_at, time), updated_at |-> time,
     next_attempt_at |-> NULL, progress |-> 0, bytes_uploaded |-> 0]

Claim(id, token, time) ==
    LET where == {i \in DOMAIN table : table[i].id = id /\ DuePending(table[i], time)}
        ours  == {i \in DOMAIN table' : table'[i].id = id /\ table'[i].processing_token = token}
    IN  /\ table' = With(table, [i \in where |-> With(table[i], ClaimColumns(table[i], token, time))])
        /\ IF RowsAffected(where) = 0
              THEN answer' = Found(<<>>)
              ELSE \E order \in Listings(ours) : answer' = Found(At(Tasks(table'), FirstOf(order, 1)))

Delete(id) ==
    answer' = Done /\ table' = Without(table, {i \in DOMAIN table : table[i].id = id})

List ==
    /\ \E order \in Ordered(DOMAIN table, "created_at") : answer' = Found(At(Tasks(table), order))
    /\ UNCHANGED table

Purgeable(row, olderThan) ==
    /\ row.status = "completed"
    /\ olderThan # -1 => Coalesce(row.completed_at, row.updated_at) <= olderThan

DeleteCompleted(olderThan) ==
    LET where == {i \in DOMAIN table : Purgeable(table[i], olderThan)}
    IN  answer' = Counted(RowsAffected(where)) /\ table' = Without(table, where)

-----------------------------------------------------------------------------
(* The callers. *)

(* Now or a moment later. *)
Times == {time \in {now, now + 1} : time <= MaxTime}

Calls(c, time) ==
    used < MaxCalls /\ used' = used + 1 /\ call' = c /\ now' = time

Keep(task) == copies' = [copies EXCEPT ![task.id] = task]

LetGo == {"processingToken", "processingStartedAt", "nextAttemptAt"}

NewTask(id, time) ==
    [id |-> id, status |-> "pending", progress |-> 0, createdAt |-> time, updatedAt |-> time]

(* What enqueue() inserts. *)
CallInsert(id, time) ==
    /\ SameInstant \/ \A i \in DOMAIN table : table[i].created_at # time
    /\ Calls([op |-> "insert", task |-> NewTask(id, time)], time)
    /\ Insert(NewTask(id, time))
    /\ IF answer' = Done THEN Keep(NewTask(id, time)) ELSE UNCHANGED copies

(* What pause() and resume() make of the row they have read. *)
Decided(task, time) ==
    CloneTask(task, [status |-> IF task.status = "paused" THEN "pending" ELSE "paused",
                     updatedAt |-> time], LetGo)

CallUpdate(id, time) ==
    LET task == Decided(copies[id], time)
    IN  /\ copies[id] # Nothing /\ copies[id].status # "completed"
        /\ Calls([op |-> "update", task |-> task], time)
        /\ Update(task)
        /\ UNCHANGED copies

(* What complete() and handleFailure() make of the row they have claimed. *)
Ended(task, time) ==
    {CloneTask(task, [status |-> "completed", progress |-> 1, updatedAt |-> time,
                      completedAt |-> time], LetGo),
     CloneTask(task, [status |-> "pending", progress |-> 0, updatedAt |-> time,
                      nextAttemptAt |-> time + 1], LetGo \ {"nextAttemptAt"})}

CallUpdateOwned(id, time) ==
    /\ "processingToken" \in DOMAIN copies[id]
    /\ \E task \in Ended(copies[id], time) :
          /\ Calls([op |-> "updateOwned", task |-> task, token |-> copies[id].processingToken], time)
          /\ UpdateOwned(task, copies[id].processingToken)
    /\ UNCHANGED copies

CallUpdateProgress(id, time) ==
    /\ "processingToken" \in DOMAIN copies[id]
    /\ \E total \in {Nothing, [totalBytes |-> 1]} :
          LET update == With([progress |-> 1, bytesUploaded |-> 1, updatedAt |-> time], total)
          IN  /\ Calls([op |-> "updateProgress", id |-> id, token |-> copies[id].processingToken,
                        update |-> update], time)
              /\ UpdateProgress(id, copies[id].processingToken, update)
    /\ UNCHANGED copies

CallGet(id, time) ==
    /\ Calls([op |-> "get", id |-> id], time)
    /\ Get(id)
    /\ IF answer'.tasks # <<>> THEN Keep(answer'.tasks[1]) ELSE UNCHANGED copies

(* createId() gives every claim a token of its own. *)
CallClaim(id, token, time) ==
    /\ \A i \in DOMAIN table : table[i].processing_token # token
    /\ \A other \in Ids : FieldOr(copies[other], "processingToken", NULL) # token
    /\ SameInstant \/ \A i \in DOMAIN table : table[i].processing_started_at # time
    /\ Calls([op |-> "claim", id |-> id, token |-> token, now |-> time], time)
    /\ Claim(id, token, time)
    /\ IF answer'.tasks # <<>> THEN Keep(answer'.tasks[1]) ELSE UNCHANGED copies

CallRecoverAbandoned(before, time) ==
    /\ Calls([op |-> "recoverAbandoned", before |-> before, now |-> time], time)
    /\ RecoverAbandoned(before, time)
    /\ UNCHANGED copies

CallDelete(id, time) ==
    Calls([op |-> "delete", id |-> id], time) /\ Delete(id) /\ UNCHANGED copies

CallDeleteCompleted(olderThan, time) ==
    /\ Calls([op |-> "deleteCompleted", before |-> olderThan], time)
    /\ DeleteCompleted(olderThan)
    /\ UNCHANGED copies

CallGetPending(limit, time) ==
    /\ Calls([op |-> "getPending", limit |-> limit, now |-> time], time)
    /\ GetPending(limit, time)
    /\ UNCHANGED copies

CallGetRecoverable(before, limit, time) ==
    /\ Calls([op |-> "getRecoverable", now |-> before, limit |-> limit], time)
    /\ GetRecoverable(before, limit)
    /\ UNCHANGED copies

CallGetEarliest(time) ==
    /\ Calls([op |-> "getEarliestNextAttemptAt"], time)
    /\ GetEarliestNextAttemptAt
    /\ UNCHANGED copies

CallList(time) == Calls([op |-> "list"], time) /\ List /\ UNCHANGED copies

Next ==
    \E time \in Times :
        \/ \E id \in Ids :
              \/ CallInsert(id, time) \/ CallUpdate(id, time) \/ CallUpdateOwned(id, time)
              \/ CallUpdateProgress(id, time) \/ CallGet(id, time) \/ CallDelete(id, time)
              \/ \E token \in Tokens : CallClaim(id, token, time)
        \/ \E before \in 0 .. time :
              \/ CallRecoverAbandoned(before, time)
              \/ \E limit \in 0 .. 1 : CallGetRecoverable(before, limit, time)
        \/ \E olderThan \in -1 .. time : CallDeleteCompleted(olderThan, time)
        \/ \E limit \in 1 .. 2 : CallGetPending(limit, time)
        \/ CallGetEarliest(time)
        \/ CallList(time)

Spec == Init /\ [][Next]_vars

-----------------------------------------------------------------------------
(* What a field may hold, and a column: NULL only for an optional field. *)
Kind == [id |-> Ids, status |-> Status, progress |-> Nat, createdAt |-> Nat, updatedAt |-> Nat,
         bytesUploaded |-> Nat, totalBytes |-> Nat, nextAttemptAt |-> Nat, startedAt |-> Nat,
         completedAt |-> Nat, processingToken |-> Tokens, processingStartedAt |-> Nat]

IsTask(task) ==
    /\ task = [key \in DOMAIN task |-> task[key]]
    /\ Mandatory \subseteq DOMAIN task /\ DOMAIN task \subseteq TaskKey
    /\ \A key \in DOMAIN task : task[key] \in Kind[key]

IsRow(row) ==
    /\ row = [column \in Columns |-> row[column]]
    /\ \A column \in Columns :
          \/ row[column] \in Kind[Field[column]]
          \/ row[column] = NULL /\ Field[column] \in OptionalTaskKey

StorageType ==
    /\ table = [i \in DOMAIN table |-> table[i]]
    /\ IsFiniteSet(DOMAIN table) /\ DOMAIN table \subseteq Nat
    /\ \A i \in DOMAIN table : IsRow(table[i])
    /\ copies = [id \in Ids |-> copies[id]]
    /\ \A id \in Ids : copies[id] # Nothing => IsTask(copies[id]) /\ copies[id].id = id
    /\ now \in Nat

OneRowEach == \A i, j \in DOMAIN table : table[i].id = table[j].id => i = j

ClaimsTimed ==
    \A i \in DOMAIN table : (table[i].processing_token = NULL) = (table[i].processing_started_at = NULL)

CopiesFollow ==
    \A i \in DOMAIN table : copies[table[i].id] # Nothing => copies[table[i].id].createdAt = table[i].created_at

InstantsApart ==
    ~SameInstant =>
        \A i, j \in DOMAIN table : i # j =>
            /\ table[i].created_at # table[j].created_at
            /\ table[i].processing_started_at # NULL =>
                  table[i].processing_started_at # table[j].processing_started_at

(* The table holds typed rows, each id once; a claim's token and time come *)
(* and go together; a copy, however old, has the time of creation of the   *)
(* row it may overwrite, so that two rows never come to share theirs: the  *)
(* primary key of CREATE_UPLOAD_QUEUE_TABLE, the column lists of           *)
(* upload-columns.ts and the statements written by hand fit together.      *)
StorageInv == StorageType /\ OneRowEach /\ ClaimsTimed /\ CopiesFollow /\ InstantsApart

(* getRecoverable() without a limit stops at the default one. *)
FitsLimit == Cardinality(DOMAIN table) <= DefaultLimit

Memory == INSTANCE MemoryStorage WITH tasks <- Tasks(table)

(* Whatever is called, and however old the copy it writes: what a call of  *)
(* the SQLite adapter returns or throws, and what it leaves for later      *)
(* calls, is what the memory adapter would return, throw and leave, with   *)
(* nothing lost between columns and fields (README.md:458, an honest       *)
(* stand-in with the same contract SQLite implements).                     *)
ImplementsMemory == Memory!Spec
==============================================================================
