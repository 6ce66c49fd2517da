------------------------------ MODULE StoredTask ------------------------------
(***************************************************************************)
(* The UploadTask as the storage adapters pass it around: a function from  *)
(* the fields that are present to their values.  An absent optional field  *)
(* is not in the domain.  cloneTask of core/task.ts builds one from        *)
(* another.  Timestamps are integers; fields that are only carried along   *)
(* are left out.                                                           *)
(*                                                                         *)
(* And the places where an adapter keeps its tasks or rows: a function     *)
(* from the places in use, numbered in the order of insertion (that of a   *)
(* Map, the rowid of a table).  Pure operators.                            *)
(***************************************************************************)
EXTENDS Integers, Sequences, FiniteSetsExt

Mandatory == {"id", "status", "progress", "createdAt", "updatedAt"}

OptionalTaskKey == {"bytesUploaded", "totalBytes", "nextAttemptAt", "startedAt", "completedAt",
                    "processingToken", "processingStartedAt"}

TaskKey == Mandatory \cup OptionalTaskKey

Nothing == [key \in {} |-> 0]

(* What is changed, or added, wins over what was there. *)
With(f, changes) ==
    [x \in DOMAIN f \cup DOMAIN changes |-> IF x \in DOMAIN changes THEN changes[x] ELSE f[x]]

Without(f, gone) == [x \in DOMAIN f \ gone |-> f[x]]

(* Nothing but remove takes a field away. *)
CloneTask(task, changes, remove) == Without(With(task, changes), remove)

(* The field of a task, or what stands for it where it is absent. *)
FieldOr(task, key, default) == IF key \in DOMAIN task THEN task[key] ELSE default

-----------------------------------------------------------------------------
NewPlace(places) == IF places = {} THEN 1 ELSE Max(places) + 1

(* What is inserted comes last. *)
Inserted(f, entry) == With(f, [place \in {NewPlace(DOMAIN f)} |-> entry])

(* The places in some order, each once. *)
Listings(places) ==
    {order \in [1 .. Cardinality(places) -> places] :
        \A i, j \in DOMAIN order : order[i] = order[j] => i = j}

FirstOf(order, n) == IF n < Len(order) THEN SubSeq(order, 1, n) ELSE order

(* The entries at the places listed. *)
At(f, order) == [k \in DOMAIN order |-> f[order[k]]]

(* -1: there is none. *)
Earliest(times) == IF times = {} THEN -1 ELSE Min(times)

-----------------------------------------------------------------------------
(* What a call of the adapter returns or throws. *)
Answer(outcome, count, tasks) == [outcome |-> outcome, count |-> count, tasks |-> tasks]

Done == Answer("done", 0, <<>>)
Throws(error) == Answer(error, 0, <<>>)
Counted(n) == Answer("number", n, <<>>)
Landed(yes) == Answer("boolean", IF yes THEN 1 ELSE 0, <<>>)
Found(tasks) == Answer("tasks", 0, tasks)
==============================================================================
