-------------------------- MODULE SqliteStorageProofs --------------------------
(***************************************************************************)
(* Proofs about SqliteStorage: its invariant, and that it implements the   *)
(* memory adapter.                                                         *)
(***************************************************************************)
EXTENDS SqliteStorage, InductionLemmas, FiniteSetTheorems

-----------------------------------------------------------------------------
(* Columns and fields                                                      *)

(* COLUMN_VALUES and mapUploadRow name the same pairs.                     *)
LEMMA ColumnsMatch ==
    /\ Columns = {"id", "status", "progress", "created_at", "updated_at", "bytes_uploaded",
                  "total_bytes", "next_attempt_at", "started_at", "completed_at",
                  "processing_token", "processing_started_at"}
    /\ \A column \in Columns : Field[column] \in TaskKey /\ Column[Field[column]] = column
    /\ \A key \in TaskKey : Column[key] \in Columns /\ Field[Column[key]] = key
    /\ Mandatory \subseteq TaskKey /\ OptionalTaskKey \subseteq TaskKey
<1>1. Columns = {"id", "status", "progress", "created_at", "updated_at", "bytes_uploaded",
                 "total_bytes", "next_attempt_at", "started_at", "completed_at",
                 "processing_token", "processing_started_at"}
  BY DEF Columns, Field
<1>2. \A column \in Columns : Field[column] \in TaskKey /\ Column[Field[column]] = column
  BY <1>1 DEF Field, Column, TaskKey, Mandatory, OptionalTaskKey
<1>3. \A key \in TaskKey : Column[key] \in Columns /\ Field[Column[key]] = key
  BY <1>1 DEF Field, Column, TaskKey, Mandatory, OptionalTaskKey
<1> QED BY <1>1, <1>2, <1>3 DEF TaskKey

LEMMA NullIsNoValue ==
    \A key \in TaskKey : NULL \notin Kind[key]
BY StorageAssumption DEF Kind, TaskKey, Mandatory, OptionalTaskKey, Status

LEMMA RowOfTask ==
    ASSUME NEW task, IsTask(task)
    PROVE  IsRow(Encode(task))
<1> DEFINE row == Encode(task)
<1>1. ASSUME NEW column \in Columns
      PROVE  \/ row[column] \in Kind[Field[column]]
             \/ row[column] = NULL /\ Field[column] \in OptionalTaskKey
  BY <1>1, ColumnsMatch DEF Encode, FieldOr, IsTask, TaskKey
<1> QED BY <1>1 DEF IsRow, Encode

LEMMA TaskOfRow ==
    ASSUME NEW row, IsRow(row)
    PROVE  IsTask(MapUploadRow(row))
<1> DEFINE task == MapUploadRow(row)
<1>1. DOMAIN task = {k \in TaskKey : k \in Mandatory \/ row[Column[k]] # NULL}
  BY DEF MapUploadRow
<1>2. ASSUME NEW key \in DOMAIN task PROVE task[key] \in Kind[key]
  <2>1. key \in TaskKey /\ (key \in Mandatory \/ row[Column[key]] # NULL)
    BY <1>1
  <2>2. task[key] = row[Column[key]]
    BY <1>1 DEF MapUploadRow
  <2>3. key \in Mandatory => key \notin OptionalTaskKey
    BY DEF Mandatory, OptionalTaskKey
  <2> QED BY <2>1, <2>2, <2>3, ColumnsMatch DEF IsRow
<1>3. task = [key \in DOMAIN task |-> task[key]]
  BY DEF MapUploadRow
<1> HIDE DEF task
<1>4. IsTask(task)
  BY <1>1, <1>2, <1>3, ColumnsMatch DEF IsTask
<1> QED BY <1>4 DEF task

(* Nothing is lost between columns and fields.                             *)
LEMMA Lossless ==
    ASSUME NEW task, IsTask(task)
    PROVE  MapUploadRow(Encode(task)) = task
<1> DEFINE row == Encode(task)
<1>1. \A key \in TaskKey : row[Column[key]] = FieldOr(task, key, NULL)
  BY ColumnsMatch DEF Encode
<1>2. \A key \in TaskKey : key \in DOMAIN task <=> key \in Mandatory \/ row[Column[key]] # NULL
  BY <1>1, NullIsNoValue DEF FieldOr, IsTask
<1>3. \A key \in DOMAIN task : key \in TaskKey /\ row[Column[key]] = task[key]
  BY <1>1 DEF FieldOr, IsTask
<1>4. DOMAIN task = {k \in TaskKey : k \in Mandatory \/ row[Column[k]] # NULL}
  BY <1>2, <1>3
<1> HIDE DEF row
<1>5. MapUploadRow(row) = [key \in DOMAIN task |-> task[key]]
  BY <1>3, <1>4 DEF MapUploadRow
<1>6. task = [key \in DOMAIN task |-> task[key]]
  BY DEF IsTask
<1> QED BY <1>5, <1>6 DEF row

(* What mapUploadRow makes of a row, field by field.                       *)
LEMMA FieldsOfRow ==
    ASSUME NEW row, IsRow(row)
    PROVE  LET task == MapUploadRow(row) IN
           /\ task.id = row.id /\ task.status = row.status /\ task.progress = row.progress
           /\ task.createdAt = row.created_at /\ task.updatedAt = row.updated_at
           /\ \A key \in OptionalTaskKey :
                 /\ key \in DOMAIN task <=> row[Column[key]] # NULL
                 /\ key \in DOMAIN task => task[key] = row[Column[key]]
<1> DEFINE task == MapUploadRow(row)
<1>1. \A key \in Mandatory : task[key] = row[Column[key]]
  BY ColumnsMatch DEF MapUploadRow
<1>2. \A key \in OptionalTaskKey :
         /\ key \in DOMAIN task <=> row[Column[key]] # NULL
         /\ key \in DOMAIN task => task[key] = row[Column[key]]
  BY ColumnsMatch DEF MapUploadRow, Mandatory, OptionalTaskKey
<1>3. /\ task.id = row.id /\ task.status = row.status /\ task.progress = row.progress
      /\ task.createdAt = row.created_at /\ task.updatedAt = row.updated_at
  <2> HIDE DEF task
  <2> QED BY <1>1 DEF Mandatory, Column
<1> QED BY <1>2, <1>3

(* An UPDATE of columns is what cloneTask() makes of the fields.           *)
LEMMA ChangeOfRow ==
    ASSUME NEW row, IsRow(row), NEW set, DOMAIN set \subseteq Columns,
           NEW changes, NEW remove,
           DOMAIN changes \subseteq TaskKey, remove \subseteq OptionalTaskKey,
           \A key \in TaskKey :
              /\ key \in remove => Column[key] \in DOMAIN set /\ set[Column[key]] = NULL
              /\ key \in DOMAIN changes \ remove =>
                    Column[key] \in DOMAIN set /\ set[Column[key]] = changes[key] /\ changes[key] # NULL
              /\ key \notin DOMAIN changes \cup remove /\ Column[key] \in DOMAIN set =>
                    set[Column[key]] = row[Column[key]]
    PROVE  MapUploadRow(With(row, set)) = CloneTask(MapUploadRow(row), changes, remove)
<1> DEFINE next == With(row, set)
           task == MapUploadRow(row)
           clone == CloneTask(task, changes, remove)
<1>1. \A key \in TaskKey : next[Column[key]] =
         IF key \in remove THEN NULL
         ELSE IF key \in DOMAIN changes THEN changes[key] ELSE row[Column[key]]
  BY ColumnsMatch DEF With, IsRow
<1>2. \A key \in TaskKey :
         /\ key \in DOMAIN task <=> key \in Mandatory \/ row[Column[key]] # NULL
         /\ key \in DOMAIN task => task[key] = row[Column[key]]
  BY DEF MapUploadRow
<1>3. DOMAIN task \subseteq TaskKey
  BY DEF MapUploadRow
<1>4. Mandatory \cap OptionalTaskKey = {}
  BY DEF Mandatory, OptionalTaskKey
<1>5. clone = [key \in (DOMAIN task \cup DOMAIN changes) \ remove |->
                  IF key \in DOMAIN changes THEN changes[key] ELSE task[key]]
  BY DEF CloneTask, With, Without
<1>6. MapUploadRow(next) = [key \in {k \in TaskKey : k \in Mandatory \/ next[Column[k]] # NULL} |->
                               next[Column[key]]]
  BY DEF MapUploadRow
<1> HIDE DEF next, task, clone
<1>7. {k \in TaskKey : k \in Mandatory \/ next[Column[k]] # NULL}
         = (DOMAIN task \cup DOMAIN changes) \ remove
  BY <1>1, <1>2, <1>3, <1>4
<1>8. \A key \in (DOMAIN task \cup DOMAIN changes) \ remove :
         next[Column[key]] = IF key \in DOMAIN changes THEN changes[key] ELSE task[key]
  BY <1>1, <1>2, <1>3
<1>9. MapUploadRow(next) = clone
  BY <1>5, <1>6, <1>7, <1>8
<1> QED BY <1>9 DEF next, task, clone

LEMMA ChangedRow ==
    ASSUME NEW row, IsRow(row), NEW set, DOMAIN set \subseteq Columns,
           \A column \in DOMAIN set :
              \/ set[column] \in Kind[Field[column]]
              \/ set[column] = NULL /\ Field[column] \in OptionalTaskKey
    PROVE  IsRow(With(row, set))
<1>1. With(row, set) = [column \in Columns |-> IF column \in DOMAIN set THEN set[column] ELSE row[column]]
  BY DEF With, IsRow
<1> QED BY <1>1 DEF IsRow

-----------------------------------------------------------------------------
(* Places                                                                  *)

(* A finite set of numbers that is not empty has a greatest.               *)
LEMMA GreatestExists ==
    ASSUME NEW S, IsFiniteSet(S), S # {}, S \subseteq Nat
    PROVE  \E x \in S : \A y \in S : x >= y
<1> DEFINE Fine == {n \in Nat : \A T \in SUBSET S : T # {} /\ Cardinality(T) = n
                                  => \E x \in T : \A y \in T : x >= y}
<1>0. \A T \in SUBSET S : IsFiniteSet(T) /\ Cardinality(T) \in Nat
  BY FS_Subset, FS_CardinalityType
<1>1. 0 \in Fine
  BY <1>0, FS_EmptySet
<1>2. ASSUME NEW n \in Nat, n \in Fine PROVE n + 1 \in Fine
  <2> SUFFICES ASSUME NEW T \in SUBSET S, T # {}, Cardinality(T) = n + 1
               PROVE  \E x \in T : \A y \in T : x >= y
    OBVIOUS
  <2>1. PICK z \in T : TRUE
    OBVIOUS
  <2>2. T \ {z} \in SUBSET S /\ Cardinality(T \ {z}) = n
    <3>1. IsFiniteSet(T) /\ Cardinality(T \ {z}) = Cardinality(T) - 1
      BY <1>0, <2>1, FS_RemoveElement
    <3> QED BY <3>1
  <2>3. CASE T \ {z} = {}
    BY <2>1, <2>3
  <2>4. CASE T \ {z} # {}
    <3>1. PICK x \in T \ {z} : \A y \in T \ {z} : x >= y
      BY <1>2, <2>2, <2>4
    <3>2. x \in Nat /\ z \in Nat
      BY <2>1, <3>1
    <3>3. \A y \in T : y = z \/ x >= y
      BY <3>1
    <3>4. \A y \in T : y \in Nat
      OBVIOUS
    <3>5. CASE x >= z
      BY <3>1, <3>3, <3>5
    <3>6. CASE z >= x
      BY <2>1, <3>2, <3>3, <3>4, <3>6
    <3> QED BY <3>2, <3>5, <3>6
  <2> QED BY <2>3, <2>4
<1>3. Nat \subseteq Fine
  <2> HIDE DEF Fine
  <2> QED BY <1>1, <1>2, SetInduction
<1> QED BY <1>0, <1>3

LEMMA NewPlaceIsNew ==
    ASSUME NEW S, IsFiniteSet(S), S \subseteq Nat
    PROVE  /\ NewPlace(S) \in Nat /\ NewPlace(S) \notin S
           /\ IsFiniteSet(S \cup {NewPlace(S)})
<1>1. CASE S = {}
  <2>1. NewPlace(S) = 1 /\ S \cup {1} = {1}
    BY <1>1 DEF NewPlace
  <2>2. IsFiniteSet({1})
    BY FS_Singleton
  <2> QED BY <1>1, <2>1, <2>2
<1>2. CASE S # {}
  <2>1. PICK m \in S : m = Max(S) /\ \A y \in S : m >= y
    BY <1>2, GreatestExists DEF Max
  <2>2. m \in Nat /\ NewPlace(S) = m + 1
    BY <1>2, <2>1 DEF NewPlace
  <2>3. NewPlace(S) \in Nat /\ NewPlace(S) \notin S
    BY <2>1, <2>2
  <2> QED BY <2>3, FS_AddElement
<1> QED BY <1>1, <1>2

(* One place has one listing.                                              *)
LEMMA ListingOfOne ==
    ASSUME NEW S, \A i, j \in S : i = j, NEW order \in Listings(S)
    PROVE  FirstOf(order, 1) = order
<1>1. CASE S = {}
  <2>1. Cardinality(S) = 0
    BY <1>1, FS_EmptySet
  <2>2. order \in [1 .. 0 -> S]
    BY <2>1 DEF Listings
  <2>3. Len(order) = 0
    BY <2>2
  <2> QED BY <2>3 DEF FirstOf
<1>2. CASE S # {}
  <2>1. PICK i : S = {i}
    BY <1>2
  <2>2. Cardinality(S) = 1
    BY <2>1, FS_Singleton
  <2>3. order \in [1 .. 1 -> S]
    BY <2>2 DEF Listings
  <2>4. Len(order) = 1
    BY <2>3
  <2> QED BY <2>4 DEF FirstOf
<1> QED BY <1>1, <1>2

-----------------------------------------------------------------------------
(* The tasks that the callers write                                        *)

LEMMA ClonedTask ==
    ASSUME NEW task, IsTask(task), NEW changes, NEW remove, remove \subseteq OptionalTaskKey,
           \A key \in DOMAIN changes : key \in TaskKey /\ changes[key] \in Kind[key]
    PROVE  LET clone == CloneTask(task, changes, remove) IN
           /\ IsTask(clone)
           /\ \A key \in remove : key \notin DOMAIN clone
           /\ \A key \in DOMAIN task \ (DOMAIN changes \cup remove) : clone[key] = task[key]
<1> DEFINE clone == CloneTask(task, changes, remove)
<1>1. clone = [key \in (DOMAIN task \cup DOMAIN changes) \ remove |->
                  IF key \in DOMAIN changes THEN changes[key] ELSE task[key]]
  BY DEF CloneTask, With, Without
<1>2. DOMAIN clone = (DOMAIN task \cup DOMAIN changes) \ remove
  BY <1>1
<1>3. \A key \in DOMAIN clone : clone[key] = IF key \in DOMAIN changes THEN changes[key] ELSE task[key]
  BY <1>1
<1>4. clone = [key \in DOMAIN clone |-> clone[key]]
  BY <1>1
<1> HIDE DEF clone
<1>5. Mandatory \cap OptionalTaskKey = {}
  BY DEF Mandatory, OptionalTaskKey
<1>6. IsTask(clone)
  BY <1>2, <1>3, <1>4, <1>5 DEF IsTask
<1>7. \A key \in remove : key \notin DOMAIN clone
  BY <1>2
<1>8. \A key \in DOMAIN task \ (DOMAIN changes \cup remove) : clone[key] = task[key]
  BY <1>2, <1>3
<1> QED BY <1>6, <1>7, <1>8 DEF clone

(* A task that keeps the identity of another and has no claim.             *)
LetsGo(clone, task) ==
    /\ IsTask(clone)
    /\ clone.id = task.id /\ clone.createdAt = task.createdAt
    /\ "processingToken" \notin DOMAIN clone /\ "processingStartedAt" \notin DOMAIN clone

LEMMA ClonesLetGo ==
    ASSUME NEW task, IsTask(task), NEW changes, NEW remove, remove \subseteq OptionalTaskKey,
           \A key \in DOMAIN changes : key \in TaskKey /\ changes[key] \in Kind[key],
           {"processingToken", "processingStartedAt"} \subseteq remove,
           "id" \notin DOMAIN changes, "createdAt" \notin DOMAIN changes
    PROVE  LetsGo(CloneTask(task, changes, remove), task)
<1>1. {"id", "createdAt"} \subseteq DOMAIN task /\ "id" \notin remove /\ "createdAt" \notin remove
  BY DEF IsTask, Mandatory, OptionalTaskKey
<1> QED BY <1>1, ClonedTask DEF LetsGo

LEMMA DecidedLetsGo ==
    ASSUME NEW task, IsTask(task), NEW time \in Nat
    PROVE  LetsGo(Decided(task, time), task)
<1> DEFINE changes == [status |-> IF task.status = "paused" THEN "pending" ELSE "paused",
                       updatedAt |-> time]
<1>1. \A key \in DOMAIN changes : key \in TaskKey /\ changes[key] \in Kind[key]
  BY DEF TaskKey, Mandatory, Kind, Status
<1>2. "id" \notin DOMAIN changes /\ "createdAt" \notin DOMAIN changes
  OBVIOUS
<1>3. LetGo \subseteq OptionalTaskKey /\ {"processingToken", "processingStartedAt"} \subseteq LetGo
  BY DEF LetGo, OptionalTaskKey
<1>4. Decided(task, time) = CloneTask(task, changes, LetGo)
  BY DEF Decided
<1> HIDE DEF changes
<1> QED BY <1>1, <1>2, <1>3, <1>4, ClonesLetGo

LEMMA EndedLetsGo ==
    ASSUME NEW task, IsTask(task), NEW time \in Nat, NEW clone \in Ended(task, time)
    PROVE  LetsGo(clone, task)
<1>0. /\ LetGo \subseteq OptionalTaskKey /\ {"processingToken", "processingStartedAt"} \subseteq LetGo
      /\ {"processingToken", "processingStartedAt"} \subseteq LetGo \ {"nextAttemptAt"}
  BY DEF LetGo, OptionalTaskKey
<1> DEFINE done == [status |-> "completed", progress |-> 1, updatedAt |-> time, completedAt |-> time]
           again == [status |-> "pending", progress |-> 0, updatedAt |-> time, nextAttemptAt |-> time + 1]
<1>1. /\ \A key \in DOMAIN done : key \in TaskKey /\ done[key] \in Kind[key]
      /\ "id" \notin DOMAIN done /\ "createdAt" \notin DOMAIN done
  BY DEF TaskKey, Mandatory, OptionalTaskKey, Kind, Status
<1>2. /\ \A key \in DOMAIN again : key \in TaskKey /\ again[key] \in Kind[key]
      /\ "id" \notin DOMAIN again /\ "createdAt" \notin DOMAIN again
  BY DEF TaskKey, Mandatory, OptionalTaskKey, Kind, Status
<1>3. \/ clone = CloneTask(task, done, LetGo)
      \/ clone = CloneTask(task, again, LetGo \ {"nextAttemptAt"})
  BY DEF Ended
<1> HIDE DEF done, again
<1>4. CASE clone = CloneTask(task, done, LetGo)
  BY <1>0, <1>1, <1>4, ClonesLetGo
<1>5. CASE clone = CloneTask(task, again, LetGo \ {"nextAttemptAt"})
  BY <1>0, <1>2, <1>5, ClonesLetGo
<1> QED BY <1>3, <1>4, <1>5

LEMMA NewTaskTyped ==
    ASSUME NEW id \in Ids, NEW time \in Nat
    PROVE  IsTask(NewTask(id, time))
<1> DEFINE task == NewTask(id, time)
<1>1. DOMAIN task = Mandatory
  BY DEF NewTask, Mandatory
<1>2. \A key \in DOMAIN task : task[key] \in Kind[key]
  BY DEF NewTask, Kind, Status
<1>3. task = [key \in DOMAIN task |-> task[key]]
  BY DEF NewTask
<1> HIDE DEF task
<1>4. IsTask(task)
  BY <1>1, <1>2, <1>3 DEF IsTask, TaskKey
<1> QED BY <1>4 DEF task

(* The row of a task without a claim.                                      *)
LEMMA RowLetsGo ==
    ASSUME NEW task, NEW clone, LetsGo(clone, task)
    PROVE  /\ IsRow(Encode(clone))
           /\ Encode(clone).id = task.id /\ Encode(clone).created_at = task.createdAt
           /\ Encode(clone).processing_token = NULL /\ Encode(clone).processing_started_at = NULL
<1>1. {"id", "createdAt"} \subseteq DOMAIN clone
  BY DEF LetsGo, IsTask, Mandatory
<1>2. /\ Encode(clone).id = FieldOr(clone, "id", NULL)
      /\ Encode(clone).created_at = FieldOr(clone, "createdAt", NULL)
      /\ Encode(clone).processing_token = FieldOr(clone, "processingToken", NULL)
      /\ Encode(clone).processing_started_at = FieldOr(clone, "processingStartedAt", NULL)
  BY DEF Encode, Columns, Field
<1> QED BY <1>1, <1>2, RowOfTask DEF LetsGo, FieldOr

-----------------------------------------------------------------------------
(* The invariant                                                           *)

(* What it says of the rows, and of the copies.                            *)
RowsInv ==
    /\ table = [i \in DOMAIN table |-> table[i]]
    /\ IsFiniteSet(DOMAIN table) /\ DOMAIN table \subseteq Nat
    /\ \A i \in DOMAIN table : IsRow(table[i])
    /\ OneRowEach /\ ClaimsTimed /\ InstantsApart

CopiesInv ==
    /\ copies = [id \in Ids |-> copies[id]]
    /\ \A id \in Ids : copies[id] # Nothing => IsTask(copies[id]) /\ copies[id].id = id
    /\ CopiesFollow

LEMMA InvParts ==
    /\ StorageInv <=> RowsInv /\ CopiesInv /\ now \in Nat
    /\ StorageInv' <=> RowsInv' /\ CopiesInv' /\ now' \in Nat
BY DEF StorageInv, StorageType, RowsInv, CopiesInv

LEMMA IdOfRow ==
    ASSUME NEW row, IsRow(row)
    PROVE  row.id \in Ids /\ row.created_at \in Nat
<1>1. {"id", "created_at"} \subseteq Columns
  BY ColumnsMatch
<1>2. /\ Field["id"] = "id" /\ Field["created_at"] = "createdAt"
      /\ Kind["id"] = Ids /\ Kind["createdAt"] = Nat
      /\ "id" \notin OptionalTaskKey /\ "createdAt" \notin OptionalTaskKey
  BY DEF Field, Kind, OptionalTaskKey
<1> QED BY <1>1, <1>2 DEF IsRow

(* Rows may be rewritten as long as each keeps its id and its time of      *)
(* creation, and no two are claimed in one instant.                        *)
LEMMA RowsRewritten ==
    ASSUME RowsInv, NEW next, DOMAIN next \subseteq DOMAIN table, table' = With(table, next),
           \A i \in DOMAIN next :
              /\ IsRow(next[i])
              /\ next[i].id = table[i].id /\ next[i].created_at = table[i].created_at
              /\ (next[i].processing_token = NULL) = (next[i].processing_started_at = NULL)
              /\ \/ next[i].processing_started_at = NULL
                 \/ next[i].processing_started_at = table[i].processing_started_at
                 \/ /\ \A j \in DOMAIN next : j = i
                    /\ SameInstant \/ \A j \in DOMAIN table :
                          table[j].processing_started_at # next[i].processing_started_at
    PROVE  /\ RowsInv'
           /\ DOMAIN table' = DOMAIN table
           /\ \A i \in DOMAIN table : /\ table'[i].id = table[i].id
                                      /\ table'[i].created_at = table[i].created_at
<1>1. table' = [i \in DOMAIN table |-> IF i \in DOMAIN next THEN next[i] ELSE table[i]]
  BY DEF With
<1>2. DOMAIN table' = DOMAIN table /\ table' = [i \in DOMAIN table' |-> table'[i]]
  BY <1>1
<1>3. \A i \in DOMAIN table : table'[i] = IF i \in DOMAIN next THEN next[i] ELSE table[i]
  BY <1>1
<1>4. \A i \in DOMAIN table : table'[i].id = table[i].id /\ table'[i].created_at = table[i].created_at
  BY <1>3
<1>5. (\A i \in DOMAIN table : IsRow(table[i]))'
  BY <1>2, <1>3 DEF RowsInv
<1>6. OneRowEach'
  BY <1>2, <1>4 DEF RowsInv, OneRowEach
<1>7. ClaimsTimed'
  BY <1>2, <1>3 DEF RowsInv, ClaimsTimed
<1>8. InstantsApart'
  <2> SUFFICES ASSUME ~SameInstant, NEW i \in DOMAIN table, NEW j \in DOMAIN table, i # j
               PROVE  /\ table'[i].created_at # table'[j].created_at
                      /\ table'[i].processing_started_at # NULL =>
                            table'[i].processing_started_at # table'[j].processing_started_at
    BY <1>2 DEF InstantsApart
  <2>1. table'[i].created_at # table'[j].created_at
    BY <1>4 DEF RowsInv, InstantsApart
  <2>2. ASSUME table'[i].processing_started_at # NULL
        PROVE  table'[i].processing_started_at # table'[j].processing_started_at
    <3>1. /\ table[i].processing_started_at # NULL =>
                table[i].processing_started_at # table[j].processing_started_at
          /\ table[j].processing_started_at # NULL =>
                table[i].processing_started_at # table[j].processing_started_at
      BY DEF RowsInv, InstantsApart
    <3>2. CASE i \notin DOMAIN next /\ j \notin DOMAIN next
      BY <1>3, <2>2, <3>1, <3>2
    <3>3. CASE i \in DOMAIN next /\ j \notin DOMAIN next
      BY <1>3, <2>2, <3>1, <3>3
    <3>4. CASE i \notin DOMAIN next /\ j \in DOMAIN next
      BY <1>3, <2>2, <3>1, <3>4
    <3>5. CASE i \in DOMAIN next /\ j \in DOMAIN next
      BY <1>3, <2>2, <3>1, <3>5
    <3> QED BY <3>2, <3>3, <3>4, <3>5
  <2> QED BY <2>1, <2>2
<1> QED BY <1>2, <1>4, <1>5, <1>6, <1>7, <1>8 DEF RowsInv

LEMMA RowsDeleted ==
    ASSUME RowsInv, NEW gone, table' = Without(table, gone)
    PROVE  /\ RowsInv'
           /\ DOMAIN table' \subseteq DOMAIN table
           /\ \A i \in DOMAIN table' : table'[i] = table[i]
<1>1. table' = [i \in DOMAIN table \ gone |-> table[i]]
  BY DEF Without
<1>2. /\ DOMAIN table' \subseteq DOMAIN table
      /\ \A i \in DOMAIN table' : table'[i] = table[i]
      /\ table' = [i \in DOMAIN table' |-> table'[i]]
  BY <1>1
<1>3. IsFiniteSet(DOMAIN table')
  BY <1>2, FS_Subset DEF RowsInv
<1> QED BY <1>2, <1>3 DEF RowsInv, OneRowEach, ClaimsTimed, InstantsApart

(* Copies stay true while rows keep their identity, also when one of them  *)
(* is read.                                                                *)
LEMMA CopiesStay ==
    ASSUME CopiesInv, RowsInv',
           \A i \in DOMAIN table' : /\ i \in DOMAIN table
                                    /\ table'[i].id = table[i].id
                                    /\ table'[i].created_at = table[i].created_at,
           \/ UNCHANGED copies
           \/ \E i \in DOMAIN table' : Keep(MapUploadRow(table'[i]))
    PROVE  CopiesInv'
<1>1. CASE UNCHANGED copies
  BY <1>1 DEF CopiesInv, CopiesFollow
<1>2. ASSUME NEW i \in DOMAIN table', Keep(MapUploadRow(table'[i])) PROVE CopiesInv'
  <2> DEFINE row == table'[i]
             task == MapUploadRow(row)
  <2>1. IsRow(row) /\ row.id \in Ids
    BY IdOfRow DEF RowsInv
  <2>2. IsTask(task) /\ task.id = row.id /\ task.createdAt = row.created_at
    BY <2>1, TaskOfRow, FieldsOfRow
  <2>3. copies' = [copies EXCEPT ![row.id] = task]
    BY <1>2, <2>2 DEF Keep
  <2> HIDE DEF task
  <2>4. /\ copies' = [id \in Ids |-> copies'[id]]
        /\ \A id \in Ids : copies'[id] = IF id = row.id THEN task ELSE copies[id]
    BY <2>1, <2>3 DEF CopiesInv
  <2>5. \A j \in DOMAIN table' : table'[j].id \in Ids /\ (table'[j].id = row.id => j = i)
    BY IdOfRow DEF RowsInv, OneRowEach
  <2>6. CopiesFollow'
    <3> SUFFICES ASSUME NEW j \in DOMAIN table', copies'[table'[j].id] # Nothing
                 PROVE  copies'[table'[j].id].createdAt = table'[j].created_at
      BY DEF CopiesFollow
    <3>1. CASE j = i
      BY <2>1, <2>2, <2>4, <3>1
    <3>2. CASE j # i
      BY <2>4, <2>5, <3>2 DEF CopiesInv, CopiesFollow
    <3> QED BY <3>1, <3>2
  <2> QED BY <2>1, <2>2, <2>4, <2>6 DEF CopiesInv
<1> QED BY <1>1, <1>2

(* What one place holds is found there.                                    *)
LEMMA FoundAtOnePlace ==
    ASSUME NEW f, NEW S, \A i, j \in S : i = j, NEW order \in Listings(S),
           At(f, FirstOf(order, 1)) # <<>>
    PROVE  \E i \in S : At(f, FirstOf(order, 1))[1] = f[i]
<1>1. FirstOf(order, 1) = order
  BY ListingOfOne
<1>2. CASE S = {}
  <2>1. order \in [1 .. 0 -> S]
    BY <1>2, FS_EmptySet DEF Listings
  <2>2. At(f, order) = <<>>
    BY <2>1 DEF At
  <2> QED BY <1>1, <2>2
<1>3. CASE S # {}
  <2>1. PICK i : S = {i}
    BY <1>3
  <2>2. Cardinality(S) = 1
    BY <2>1, FS_Singleton
  <2>3. order \in [1 .. 1 -> S]
    BY <2>2 DEF Listings
  <2>4. At(f, order)[1] = f[order[1]] /\ order[1] \in S
    BY <2>3 DEF At
  <2> QED BY <1>1, <2>4
<1> QED BY <1>2, <1>3

(* One lemma for each kind of call: it keeps the rows and the copies.      *)
LEMMA InsertKeepsInv ==
    ASSUME StorageInv, NEW id \in Ids, NEW time \in Nat, CallInsert(id, time)
    PROVE  RowsInv' /\ CopiesInv'
<1> DEFINE task == NewTask(id, time)
           row == Encode(task)
           place == NewPlace(DOMAIN table)
<1>0. RowsInv /\ CopiesInv
  BY InvParts
<1>1. IsTask(task) /\ task.id = id /\ task.createdAt = time
  BY NewTaskTyped DEF NewTask
<1>2. /\ IsRow(row) /\ row.id = id /\ row.created_at = time
      /\ row.processing_token = NULL /\ row.processing_started_at = NULL
  <2>1. /\ row.id = FieldOr(task, "id", NULL) /\ row.created_at = FieldOr(task, "createdAt", NULL)
        /\ row.processing_token = FieldOr(task, "processingToken", NULL)
        /\ row.processing_started_at = FieldOr(task, "processingStartedAt", NULL)
    BY DEF Encode, Columns, Field
  <2> QED BY <1>1, <2>1, RowOfTask DEF FieldOr, NewTask
<1>3. CASE \E i \in DOMAIN table : table[i].id = id
  <2>1. UNCHANGED table /\ answer' # Done
    <3>1. UNCHANGED table /\ answer' = Throws("already queued")
      BY <1>1, <1>3 DEF CallInsert, Insert
    <3>2. Throws("already queued").outcome = "already queued" /\ Done.outcome = "done"
      BY DEF Throws, Done, Answer
    <3> QED BY <3>1, <3>2
  <2>2. UNCHANGED copies
    BY <2>1 DEF CallInsert
  <2> QED BY <1>0, <2>1, <2>2 DEF RowsInv, OneRowEach, ClaimsTimed, InstantsApart, CopiesInv, CopiesFollow
<1>4. CASE ~\E i \in DOMAIN table : table[i].id = id
  <2>1. /\ table' = Inserted(table, row) /\ Keep(task)
        /\ SameInstant \/ \A i \in DOMAIN table : table[i].created_at # time
    BY <1>1, <1>4 DEF CallInsert, Insert
  <2>2. /\ place \in Nat /\ place \notin DOMAIN table
        /\ IsFiniteSet(DOMAIN table \cup {place})
    BY <1>0, NewPlaceIsNew DEF RowsInv
  <2>3. table' = [i \in DOMAIN table \cup {place} |-> IF i = place THEN row ELSE table[i]]
    BY <2>1 DEF Inserted, With
  <2>4. copies' = [copies EXCEPT ![id] = task]
    BY <1>1, <2>1 DEF Keep
  <2> HIDE DEF place, row, task
  <2>5. /\ DOMAIN table' = DOMAIN table \cup {place}
        /\ table' = [i \in DOMAIN table' |-> table'[i]]
        /\ table'[place] = row
        /\ \A i \in DOMAIN table : table'[i] = table[i]
    BY <2>2, <2>3
  <2>6. RowsInv'
    <3>1. OneRowEach'
      BY <1>0, <1>2, <1>4, <2>5 DEF RowsInv, OneRowEach
    <3>2. ClaimsTimed'
      BY <1>0, <1>2, <2>5 DEF RowsInv, ClaimsTimed
    <3>3. InstantsApart'
      BY <1>0, <1>2, <2>1, <2>5 DEF RowsInv, InstantsApart
    <3>4. \A i \in DOMAIN table' : IsRow(table'[i])
      BY <1>0, <1>2, <2>5 DEF RowsInv
    <3>5. IsFiniteSet(DOMAIN table') /\ DOMAIN table' \subseteq Nat
      BY <1>0, <2>2, <2>5 DEF RowsInv
    <3> QED BY <2>5, <3>1, <3>2, <3>3, <3>4, <3>5 DEF RowsInv
  <2>7. CopiesInv'
    <3>1. /\ copies' = [other \in Ids |-> copies'[other]]
          /\ \A other \in Ids : copies'[other] = IF other = id THEN task ELSE copies[other]
      BY <1>0, <2>4 DEF CopiesInv
    <3>2. CopiesFollow'
      <4> SUFFICES ASSUME NEW i \in DOMAIN table', copies'[table'[i].id] # Nothing
                   PROVE  copies'[table'[i].id].createdAt = table'[i].created_at
        BY DEF CopiesFollow
      <4>1. CASE i = place
        BY <1>1, <1>2, <2>5, <3>1, <4>1
      <4>2. CASE i \in DOMAIN table
        <5>1. table[i].id \in Ids /\ table[i].id # id /\ table'[i] = table[i]
          BY <1>0, <1>4, <2>5, <4>2, IdOfRow DEF RowsInv
        <5> QED BY <1>0, <3>1, <4>2, <5>1 DEF CopiesInv, CopiesFollow
      <4> QED BY <2>5, <4>1, <4>2
    <3> QED BY <1>0, <1>1, <3>1, <3>2 DEF CopiesInv
  <2> QED BY <2>6, <2>7
<1> QED BY <1>3, <1>4

(* A whole row written back from a copy, wherever the copy's id is.        *)
LEMMA WriteBackKeepsInv ==
    ASSUME StorageInv, NEW id \in Ids, copies[id] # Nothing, NEW task, LetsGo(task, copies[id]),
           NEW where, where \subseteq {i \in DOMAIN table : table[i].id = task.id},
           table' = With(table, [i \in where |-> Encode(task)]), UNCHANGED copies
    PROVE  RowsInv' /\ CopiesInv'
<1> DEFINE row == Encode(task)
           next == [i \in where |-> row]
<1>0. RowsInv /\ CopiesInv
  BY InvParts
<1>1. /\ IsRow(row)
      /\ row.id = copies[id].id /\ row.created_at = copies[id].createdAt
      /\ row.processing_token = NULL /\ row.processing_started_at = NULL
  BY RowLetsGo
<1>2. task.id = id /\ copies[id].id = id
  BY <1>0 DEF LetsGo, CopiesInv
<1> HIDE DEF row
<1>3. \A i \in where : /\ i \in DOMAIN table
                       /\ row.id = table[i].id /\ row.created_at = table[i].created_at
  BY <1>0, <1>1, <1>2 DEF CopiesInv, CopiesFollow
<1>4. DOMAIN next = where /\ \A i \in where : next[i] = row
  OBVIOUS
<1>5. table' = With(table, next)
  BY DEF row
<1> HIDE DEF next
<1>6. /\ RowsInv' /\ DOMAIN table' = DOMAIN table
      /\ \A i \in DOMAIN table : table'[i].id = table[i].id /\ table'[i].created_at = table[i].created_at
  BY <1>0, <1>1, <1>3, <1>4, <1>5, RowsRewritten
<1> QED BY <1>0, <1>6, CopiesStay

LEMMA CopyTyped ==
    ASSUME StorageInv, NEW id \in Ids, copies[id] # Nothing
    PROVE  IsTask(copies[id]) /\ copies[id].id = id
BY InvParts DEF CopiesInv

LEMMA UpdateKeepsInv ==
    ASSUME StorageInv, NEW id \in Ids, NEW time \in Nat, CallUpdate(id, time)
    PROVE  RowsInv' /\ CopiesInv'
<1> DEFINE task == Decided(copies[id], time)
<1>1. copies[id] # Nothing /\ UNCHANGED copies
      /\ table' = With(table, [i \in {j \in DOMAIN table : table[j].id = task.id} |-> Encode(task)])
  BY DEF CallUpdate, Update
<1>2. LetsGo(task, copies[id])
  BY <1>1, CopyTyped, DecidedLetsGo
<1> HIDE DEF task
<1> QED BY <1>1, <1>2, WriteBackKeepsInv

LEMMA UpdateOwnedKeepsInv ==
    ASSUME StorageInv, NEW id \in Ids, NEW time \in Nat, CallUpdateOwned(id, time)
    PROVE  RowsInv' /\ CopiesInv'
<1> DEFINE token == copies[id].processingToken
<1>1. copies[id] # Nothing /\ UNCHANGED copies
  BY DEF CallUpdateOwned, Nothing
<1>2. PICK task \in Ended(copies[id], time) : UpdateOwned(task, token)
  BY DEF CallUpdateOwned
<1>3. LetsGo(task, copies[id])
  BY <1>1, CopyTyped, EndedLetsGo
<1> DEFINE where == {i \in DOMAIN table : table[i].id = task.id /\ table[i].processing_token = token}
<1>4. table' = With(table, [i \in where |-> Encode(task)])
  BY <1>2 DEF UpdateOwned
<1>5. where \subseteq {i \in DOMAIN table : table[i].id = task.id}
  OBVIOUS
<1> HIDE DEF where
<1> QED BY <1>1, <1>3, <1>4, <1>5, WriteBackKeepsInv

(* Columns written by hand: what they leave is a row.                      *)
LEMMA ProgressRow ==
    ASSUME NEW row, IsRow(row), NEW total \in Nat \cup {NULL}, NEW progress \in Nat,
           NEW bytes \in Nat, NEW time \in Nat
    PROVE  LET next == With(row, [progress |-> progress, bytes_uploaded |-> bytes,
                                  total_bytes |-> total, updated_at |-> time]) IN
           /\ IsRow(next)
           /\ next.id = row.id /\ next.created_at = row.created_at
           /\ next.processing_token = row.processing_token
           /\ next.processing_started_at = row.processing_started_at
<1> DEFINE set == [progress |-> progress, bytes_uploaded |-> bytes,
                   total_bytes |-> total, updated_at |-> time]
           next == With(row, set)
<1>1. DOMAIN set \subseteq Columns
  BY ColumnsMatch
<1>2. \A column \in DOMAIN set :
         \/ set[column] \in Kind[Field[column]]
         \/ set[column] = NULL /\ Field[column] \in OptionalTaskKey
  BY DEF Kind, Field, OptionalTaskKey
<1>3. \A column \in Columns \ DOMAIN set : next[column] = row[column]
  BY DEF With, IsRow
<1>4. {"id", "created_at", "processing_token", "processing_started_at"} \subseteq Columns \ DOMAIN set
  BY ColumnsMatch
<1> HIDE DEF set
<1>5. IsRow(next)
  BY <1>1, <1>2, ChangedRow
<1> QED BY <1>3, <1>4, <1>5 DEF set

LEMMA RecoveredRow ==
    ASSUME NEW row, IsRow(row), NEW time \in Nat
    PROVE  LET next == With(row, RecoveredColumns(time)) IN
           /\ IsRow(next)
           /\ next.id = row.id /\ next.created_at = row.created_at
           /\ next.processing_token = NULL /\ next.processing_started_at = NULL
<1> DEFINE set == RecoveredColumns(time)
           next == With(row, set)
<1>1. DOMAIN set = {"status", "updated_at", "progress", "processing_token",
                    "processing_started_at", "next_attempt_at"}
  BY DEF RecoveredColumns
<1>2. \A column \in DOMAIN set :
         \/ set[column] \in Kind[Field[column]]
         \/ set[column] = NULL /\ Field[column] \in OptionalTaskKey
  BY DEF RecoveredColumns, Kind, Field, OptionalTaskKey, Status
<1>3. /\ set.processing_token = NULL /\ set.processing_started_at = NULL
  BY DEF RecoveredColumns
<1> HIDE DEF set
<1>4. \A column \in Columns : next[column] = IF column \in DOMAIN set THEN set[column] ELSE row[column]
  BY DEF With, IsRow
<1>5. {"id", "created_at", "processing_token", "processing_started_at"} \subseteq Columns
  BY ColumnsMatch
<1>6. DOMAIN set \subseteq Columns
  BY <1>1, ColumnsMatch
<1>7. IsRow(next)
  BY <1>2, <1>6, ChangedRow
<1>8. /\ next["id"] = row["id"] /\ next["created_at"] = row["created_at"]
      /\ next["processing_token"] = NULL /\ next["processing_started_at"] = NULL
  BY <1>1, <1>3, <1>4, <1>5
<1> QED BY <1>7, <1>8 DEF set

LEMMA ClaimedRow ==
    ASSUME NEW row, IsRow(row), NEW token \in Tokens, NEW time \in Nat
    PROVE  LET next == With(row, ClaimColumns(row, token, time)) IN
           /\ IsRow(next)
           /\ next.id = row.id /\ next.created_at = row.created_at
           /\ next.processing_token = token /\ next.processing_started_at = time
<1> DEFINE set == ClaimColumns(row, token, time)
           next == With(row, set)
<1>0. Coalesce(row.started_at, time) \in Nat
  <2>1. row["started_at"] \in Kind[Field["started_at"]] \/ row["started_at"] = NULL
    BY ColumnsMatch DEF IsRow
  <2> QED BY <2>1 DEF Coalesce, Kind, Field
<1>1. DOMAIN set = {"status", "processing_token", "processing_started_at", "started_at", "updated_at",
                    "next_attempt_at", "progress", "bytes_uploaded"}
  BY DEF ClaimColumns
<1>2. \A column \in DOMAIN set :
         \/ set[column] \in Kind[Field[column]]
         \/ set[column] = NULL /\ Field[column] \in OptionalTaskKey
  BY <1>0 DEF ClaimColumns, Kind, Field, OptionalTaskKey, Status
<1>3. /\ set.processing_token = token /\ set.processing_started_at = time
  BY DEF ClaimColumns
<1> HIDE DEF set
<1>4. \A column \in Columns : next[column] = IF column \in DOMAIN set THEN set[column] ELSE row[column]
  BY DEF With, IsRow
<1>5. {"id", "created_at", "processing_token", "processing_started_at"} \subseteq Columns
  BY ColumnsMatch
<1>6. DOMAIN set \subseteq Columns
  BY <1>1, ColumnsMatch
<1>7. IsRow(next)
  BY <1>2, <1>6, ChangedRow
<1>8. /\ next["id"] = row["id"] /\ next["created_at"] = row["created_at"]
      /\ next["processing_token"] = token /\ next["processing_started_at"] = time
  BY <1>1, <1>3, <1>4, <1>5
<1> QED BY <1>7, <1>8 DEF set

(* The update that CallUpdateProgress makes.                               *)
LEMMA ProgressUpdate ==
    ASSUME NEW time \in Nat, NEW total \in {Nothing, [totalBytes |-> 1]}
    PROVE  LET update == With([progress |-> 1, bytesUploaded |-> 1, updatedAt |-> time], total) IN
           /\ update.progress = 1 /\ update.bytesUploaded = 1 /\ update.updatedAt = time
           /\ DOMAIN update = {"progress", "bytesUploaded", "updatedAt"} \cup DOMAIN total
           /\ DOMAIN total \subseteq {"totalBytes"}
           /\ FieldOr(update, "totalBytes", NULL) \in Nat \cup {NULL}
           /\ "totalBytes" \in DOMAIN update => update.totalBytes = 1
BY DEF With, Nothing, FieldOr

LEMMA UpdateProgressKeepsInv ==
    ASSUME StorageInv, NEW id \in Ids, NEW time \in Nat, CallUpdateProgress(id, time)
    PROVE  RowsInv' /\ CopiesInv'
<1>0. RowsInv /\ CopiesInv /\ UNCHANGED copies
  BY InvParts DEF CallUpdateProgress
<1> DEFINE token == copies[id].processingToken
<1>1. PICK total \in {Nothing, [totalBytes |-> 1]} :
         UpdateProgress(id, token, With([progress |-> 1, bytesUploaded |-> 1, updatedAt |-> time], total))
  BY DEF CallUpdateProgress
<1> DEFINE update == With([progress |-> 1, bytesUploaded |-> 1, updatedAt |-> time], total)
           where == {i \in DOMAIN table :
                        table[i].id = id /\ table[i].processing_token = token /\ table[i].status = "uploading"}
           bytes(row) == Coalesce(FieldOr(update, "totalBytes", NULL), row.total_bytes)
           next == [i \in where |-> With(table[i],
                      [progress |-> update.progress, bytes_uploaded |-> update.bytesUploaded,
                       total_bytes |-> bytes(table[i]), updated_at |-> update.updatedAt])]
<1>2. table' = With(table, next)
  BY <1>1 DEF UpdateProgress
<1>3. /\ update.progress = 1 /\ update.bytesUploaded = 1 /\ update.updatedAt = time
      /\ FieldOr(update, "totalBytes", NULL) \in Nat \cup {NULL}
  BY ProgressUpdate
<1> HIDE DEF update
<1>4. \A i \in DOMAIN table : bytes(table[i]) \in Nat \cup {NULL}
  <2> SUFFICES ASSUME NEW i \in DOMAIN table PROVE bytes(table[i]) \in Nat \cup {NULL}
    OBVIOUS
  <2>1. table[i]["total_bytes"] \in Kind[Field["total_bytes"]] \/ table[i]["total_bytes"] = NULL
    BY <1>0, ColumnsMatch DEF RowsInv, IsRow
  <2>2. table[i].total_bytes \in Nat \cup {NULL}
    BY <2>1 DEF Kind, Field
  <2> QED BY <1>3, <2>2 DEF Coalesce
<1> HIDE DEF bytes
<1>5. \A i \in where :
         /\ i \in DOMAIN table
         /\ next[i] = With(table[i], [progress |-> 1, bytes_uploaded |-> 1,
                                      total_bytes |-> bytes(table[i]), updated_at |-> time])
  BY <1>3
<1>6. DOMAIN next = where
  OBVIOUS
<1> HIDE DEF where, next
<1>7. \A i \in where :
         /\ IsRow(next[i]) /\ next[i].id = table[i].id /\ next[i].created_at = table[i].created_at
         /\ next[i].processing_token = table[i].processing_token
         /\ next[i].processing_started_at = table[i].processing_started_at
  <2> SUFFICES ASSUME NEW i \in where
               PROVE  /\ IsRow(next[i]) /\ next[i].id = table[i].id /\ next[i].created_at = table[i].created_at
                      /\ next[i].processing_token = table[i].processing_token
                      /\ next[i].processing_started_at = table[i].processing_started_at
    OBVIOUS
  <2>1. PICK sum \in Nat \cup {NULL} : sum = bytes(table[i])
    BY <1>4, <1>5
  <2> DEFINE to == With(table[i], [progress |-> 1, bytes_uploaded |-> 1,
                                   total_bytes |-> sum, updated_at |-> time])
  <2>2. /\ IsRow(to) /\ to.id = table[i].id /\ to.created_at = table[i].created_at
        /\ to.processing_token = table[i].processing_token
        /\ to.processing_started_at = table[i].processing_started_at
    <3>1. IsRow(table[i]) /\ 1 \in Nat
      BY <1>0, <1>5 DEF RowsInv
    <3> QED BY <3>1, ProgressRow
  <2>3. next[i] = to
    BY <1>5, <2>1
  <2> HIDE DEF to
  <2> QED BY <2>2, <2>3
<1>8. /\ RowsInv' /\ DOMAIN table' = DOMAIN table
      /\ \A i \in DOMAIN table : table'[i].id = table[i].id /\ table'[i].created_at = table[i].created_at
  <2>1. \A i \in DOMAIN next :
           (next[i].processing_token = NULL) = (next[i].processing_started_at = NULL)
    BY <1>0, <1>5, <1>6, <1>7 DEF RowsInv, ClaimsTimed
  <2>2. DOMAIN next \subseteq DOMAIN table
    BY <1>5, <1>6
  <2> QED BY <1>0, <1>2, <1>6, <1>7, <2>1, <2>2, RowsRewritten
<1> QED BY <1>0, <1>8, CopiesStay

LEMMA RecoverKeepsInv ==
    ASSUME StorageInv, NEW before, NEW time \in Nat, CallRecoverAbandoned(before, time)
    PROVE  RowsInv' /\ CopiesInv'
<1>0. RowsInv /\ CopiesInv /\ UNCHANGED copies
  BY InvParts DEF CallRecoverAbandoned
<1> DEFINE where == {i \in DOMAIN table : Abandoned(table[i], before)}
           next == [i \in where |-> With(table[i], RecoveredColumns(time))]
<1>1. table' = With(table, next)
  BY DEF CallRecoverAbandoned, RecoverAbandoned
<1>2. DOMAIN next = where /\ where \subseteq DOMAIN table
  OBVIOUS
<1>3. \A i \in where : next[i] = With(table[i], RecoveredColumns(time))
  OBVIOUS
<1> HIDE DEF where, next
<1>4. \A i \in where :
         /\ IsRow(next[i]) /\ next[i].id = table[i].id /\ next[i].created_at = table[i].created_at
         /\ next[i].processing_token = NULL /\ next[i].processing_started_at = NULL
  <2> SUFFICES ASSUME NEW i \in where
               PROVE  /\ IsRow(next[i]) /\ next[i].id = table[i].id /\ next[i].created_at = table[i].created_at
                      /\ next[i].processing_token = NULL /\ next[i].processing_started_at = NULL
    OBVIOUS
  <2>1. IsRow(table[i])
    BY <1>0, <1>2 DEF RowsInv
  <2> QED BY <1>3, <2>1, RecoveredRow
<1>5. /\ RowsInv' /\ DOMAIN table' = DOMAIN table
      /\ \A i \in DOMAIN table : table'[i].id = table[i].id /\ table'[i].created_at = table[i].created_at
  BY <1>0, <1>1, <1>2, <1>4, RowsRewritten
<1> QED BY <1>0, <1>5, CopiesStay

(* A claim: of the one row with the id, if it is due, by a token that no   *)
(* row has.                                                                *)
LEMMA ClaimRewrites ==
    ASSUME StorageInv, NEW id \in Ids, NEW token \in Tokens, NEW time \in Nat, CallClaim(id, token, time)
    PROVE  /\ RowsInv' /\ DOMAIN table' = DOMAIN table
           /\ \A i \in DOMAIN table : /\ table'[i].id = table[i].id
                                      /\ table'[i].created_at = table[i].created_at
           /\ \A i \in DOMAIN table : table[i].id = id /\ DuePending(table[i], time) =>
                 /\ table'[i] = With(table[i], ClaimColumns(table[i], token, time))
                 /\ table'[i].processing_token = token
<1>0. RowsInv
  BY InvParts
<1> DEFINE where == {i \in DOMAIN table : table[i].id = id /\ DuePending(table[i], time)}
           next == [i \in where |-> With(table[i], ClaimColumns(table[i], token, time))]
<1>1. table' = With(table, next)
  BY DEF CallClaim, Claim
<1>2. DOMAIN next = where /\ where \subseteq DOMAIN table
  OBVIOUS
<1>3. \A i \in where : next[i] = With(table[i], ClaimColumns(table[i], token, time))
  OBVIOUS
<1>4. \A i, j \in where : i = j
  BY <1>0 DEF RowsInv, OneRowEach
<1>5. SameInstant \/ \A i \in DOMAIN table : table[i].processing_started_at # time
  BY DEF CallClaim
<1>6. \A i \in DOMAIN table : table[i].id = id /\ DuePending(table[i], time) => i \in where
  OBVIOUS
<1> HIDE DEF where, next
<1>7. \A i \in where :
         /\ IsRow(next[i]) /\ next[i].id = table[i].id /\ next[i].created_at = table[i].created_at
         /\ next[i].processing_token = token /\ next[i].processing_started_at = time
  <2> SUFFICES ASSUME NEW i \in where
               PROVE  /\ IsRow(next[i]) /\ next[i].id = table[i].id /\ next[i].created_at = table[i].created_at
                      /\ next[i].processing_token = token /\ next[i].processing_started_at = time
    OBVIOUS
  <2>1. IsRow(table[i])
    BY <1>0, <1>2 DEF RowsInv
  <2> QED BY <1>3, <2>1, ClaimedRow
<1>8. token # NULL /\ time # NULL
  BY StorageAssumption
<1>9. /\ RowsInv' /\ DOMAIN table' = DOMAIN table
      /\ \A i \in DOMAIN table : table'[i].id = table[i].id /\ table'[i].created_at = table[i].created_at
  BY <1>0, <1>1, <1>2, <1>4, <1>5, <1>7, <1>8, RowsRewritten
<1>10. \A i \in where : table'[i] = next[i]
  BY <1>1, <1>2 DEF With
<1> QED BY <1>3, <1>6, <1>7, <1>9, <1>10

LEMMA ClaimKeepsInv ==
    ASSUME StorageInv, NEW id \in Ids, NEW token \in Tokens, NEW time \in Nat, CallClaim(id, token, time)
    PROVE  RowsInv' /\ CopiesInv'
<1>0. RowsInv /\ CopiesInv
  BY InvParts
<1>1. /\ RowsInv' /\ DOMAIN table' = DOMAIN table
      /\ \A i \in DOMAIN table : table'[i].id = table[i].id /\ table'[i].created_at = table[i].created_at
  BY ClaimRewrites
<1> DEFINE ours == {i \in DOMAIN table' : table'[i].id = id /\ table'[i].processing_token = token}
<1>2. \/ answer' = Found(<<>>)
      \/ \E order \in Listings(ours) : answer' = Found(At(Tasks(table'), FirstOf(order, 1)))
  BY DEF CallClaim, Claim
<1>3. CASE answer'.tasks = <<>>
  <2>1. UNCHANGED copies
    BY <1>3 DEF CallClaim
  <2> QED BY <1>0, <1>1, <2>1, CopiesStay
<1>4. CASE answer'.tasks # <<>>
  <2>1. Keep(answer'.tasks[1])
    BY <1>4 DEF CallClaim
  <2>2. PICK order \in Listings(ours) : answer'.tasks = At(Tasks(table'), FirstOf(order, 1))
    BY <1>2, <1>4 DEF Found, Answer
  <2>3. \A i, j \in ours : i = j
    BY <1>1 DEF RowsInv, OneRowEach
  <2>4. ours \subseteq DOMAIN table'
    OBVIOUS
  <2> HIDE DEF ours
  <2>5. PICK i \in ours : answer'.tasks[1] = Tasks(table')[i]
    BY <1>4, <2>2, <2>3, FoundAtOnePlace
  <2>6. Keep(MapUploadRow(table'[i])) /\ i \in DOMAIN table'
    BY <2>1, <2>4, <2>5 DEF Tasks
  <2> QED BY <1>0, <1>1, <2>6, CopiesStay
<1> QED BY <1>3, <1>4

LEMMA GetKeepsInv ==
    ASSUME StorageInv, NEW id \in Ids, NEW time \in Nat, CallGet(id, time)
    PROVE  RowsInv' /\ CopiesInv'
<1>0. RowsInv /\ CopiesInv /\ UNCHANGED table
  BY InvParts DEF CallGet, Get
<1>1. RowsInv'
  BY <1>0 DEF RowsInv, OneRowEach, ClaimsTimed, InstantsApart
<1> DEFINE where == {i \in DOMAIN table : table[i].id = id}
<1>2. CASE answer'.tasks = <<>>
  <2>1. UNCHANGED copies
    BY <1>2 DEF CallGet
  <2> QED BY <1>0, <1>1, <2>1, CopiesStay
<1>3. CASE answer'.tasks # <<>>
  <2>1. Keep(answer'.tasks[1])
    BY <1>3 DEF CallGet
  <2>2. PICK order \in Listings(where) : answer' = Found(At(Tasks(table), FirstOf(order, 1)))
    BY DEF CallGet, Get
  <2>3. answer'.tasks = At(Tasks(table), FirstOf(order, 1))
    BY <2>2 DEF Found, Answer
  <2>4. \A i, j \in where : i = j
    BY <1>0 DEF RowsInv, OneRowEach
  <2>5. where \subseteq DOMAIN table
    OBVIOUS
  <2> HIDE DEF where
  <2>6. PICK i \in where : answer'.tasks[1] = Tasks(table)[i]
    BY <1>3, <2>3, <2>4, FoundAtOnePlace
  <2>7. Keep(MapUploadRow(table'[i])) /\ i \in DOMAIN table'
    BY <1>0, <2>1, <2>5, <2>6 DEF Tasks
  <2> QED BY <1>0, <1>1, <2>7, CopiesStay
<1> QED BY <1>2, <1>3

LEMMA DeletionKeepsInv ==
    ASSUME StorageInv, NEW gone, table' = Without(table, gone), UNCHANGED copies
    PROVE  RowsInv' /\ CopiesInv'
<1>0. RowsInv /\ CopiesInv
  BY InvParts
<1>1. RowsInv' /\ DOMAIN table' \subseteq DOMAIN table /\ \A i \in DOMAIN table' : table'[i] = table[i]
  BY <1>0, RowsDeleted
<1> QED BY <1>0, <1>1, CopiesStay

LEMMA ReadingKeepsInv ==
    ASSUME StorageInv, UNCHANGED <<table, copies>>
    PROVE  RowsInv' /\ CopiesInv'
BY InvParts DEF RowsInv, CopiesInv, OneRowEach, ClaimsTimed, InstantsApart, CopiesFollow

-----------------------------------------------------------------------------
(* What a step is: one call of the adapter, at a time.                     *)
SomeCall(time) ==
    \/ \E id \in Ids :
          \/ CallInsert(id, time) \/ CallUpdate(id, time) \/ CallUpdateOwned(id, time)
          \/ CallUpdateProgress(id, time) \/ CallGet(id, time) \/ CallDelete(id, time)
          \/ \E token \in Tokens : CallClaim(id, token, time)
    \/ \E before \in Nat :
          \/ CallRecoverAbandoned(before, time)
          \/ \E limit \in Nat : CallGetRecoverable(before, limit, time)
    \/ \E olderThan \in Int : CallDeleteCompleted(olderThan, time)
    \/ \E limit \in Nat : CallGetPending(limit, time)
    \/ CallGetEarliest(time)
    \/ CallList(time)

LEMMA StepIsCall ==
    ASSUME StorageInv, Next
    PROVE  \E time \in Nat : now' = time /\ SomeCall(time)
<1>1. PICK time \in Times :
         \/ \E id \in Ids :
               \/ CallInsert(id, time) \/ CallUpdate(id, time) \/ CallUpdateOwned(id, time)
               \/ CallUpdateProgress(id, time) \/ CallGet(id, time) \/ CallDelete(id, time)
               \/ \E token \in Tokens : CallClaim(id, token, time)
         \/ \E before \in 0 .. time :
               \/ CallRecoverAbandoned(before, time)
               \/ \E limit \in 0 .. 1 : CallGetRecoverable(before, limit, time)
         \/ \E olderThan \in -1 .. time : CallDeleteCompleted(olderThan, time)
         \/ \E limit \in 1 .. 2 : CallGetPending(limit, time)
         \/ CallGetEarliest(time)
         \/ CallList(time)
  BY DEF Next
<1>2. time \in Nat
  BY InvParts DEF Times
<1>3. now' = time
  BY <1>1 DEF CallInsert, CallUpdate, CallUpdateOwned, CallUpdateProgress, CallGet, CallDelete,
              CallClaim, CallRecoverAbandoned, CallGetRecoverable, CallDeleteCompleted,
              CallGetPending, CallGetEarliest, CallList, Calls
<1> QED BY <1>1, <1>2, <1>3 DEF SomeCall

LEMMA StorageInvInductive ==
    ASSUME StorageInv, [Next]_vars
    PROVE  StorageInv'
<1>1. CASE UNCHANGED vars
  BY <1>1, ReadingKeepsInv, InvParts DEF vars
<1>2. CASE Next
  <2>1. PICK time \in Nat : now' = time /\ SomeCall(time)
    BY <1>2, StepIsCall
  <2>2. SUFFICES RowsInv' /\ CopiesInv'
    BY <2>1, InvParts
  <2>3. ASSUME NEW id \in Ids, CallInsert(id, time) PROVE RowsInv' /\ CopiesInv'
    BY <2>3, InsertKeepsInv
  <2>4. ASSUME NEW id \in Ids, CallUpdate(id, time) PROVE RowsInv' /\ CopiesInv'
    BY <2>4, UpdateKeepsInv
  <2>5. ASSUME NEW id \in Ids, CallUpdateOwned(id, time) PROVE RowsInv' /\ CopiesInv'
    BY <2>5, UpdateOwnedKeepsInv
  <2>6. ASSUME NEW id \in Ids, CallUpdateProgress(id, time) PROVE RowsInv' /\ CopiesInv'
    BY <2>6, UpdateProgressKeepsInv
  <2>7. ASSUME NEW id \in Ids, CallGet(id, time) PROVE RowsInv' /\ CopiesInv'
    BY <2>7, GetKeepsInv
  <2>8. ASSUME NEW id \in Ids, NEW token \in Tokens, CallClaim(id, token, time) PROVE RowsInv' /\ CopiesInv'
    BY <2>8, ClaimKeepsInv
  <2>9. ASSUME NEW id \in Ids, CallDelete(id, time) PROVE RowsInv' /\ CopiesInv'
    BY <2>9, DeletionKeepsInv DEF CallDelete, Delete
  <2>10. ASSUME NEW before \in Nat, CallRecoverAbandoned(before, time) PROVE RowsInv' /\ CopiesInv'
    BY <2>10, RecoverKeepsInv
  <2>11. ASSUME NEW olderThan \in Int, CallDeleteCompleted(olderThan, time) PROVE RowsInv' /\ CopiesInv'
    BY <2>11, DeletionKeepsInv DEF CallDeleteCompleted, DeleteCompleted
  <2>12. ASSUME \/ \E before \in Nat, limit \in Nat : CallGetRecoverable(before, limit, time)
                \/ \E limit \in Nat : CallGetPending(limit, time)
                \/ CallGetEarliest(time)
                \/ CallList(time)
         PROVE RowsInv' /\ CopiesInv'
    <3>1. UNCHANGED <<table, copies>>
      BY <2>12 DEF CallGetRecoverable, GetRecoverable, CallGetPending, GetPending, CallGetEarliest,
                   GetEarliestNextAttemptAt, CallList, List
    <3> QED BY <3>1, ReadingKeepsInv
  <2> QED BY <2>1, <2>3, <2>4, <2>5, <2>6, <2>7, <2>8, <2>9, <2>10, <2>11, <2>12 DEF SomeCall
<1> QED BY <1>1, <1>2

(* Whatever is called, and however old the copy it writes, the table holds *)
(* typed rows, each id once, claims that are timed, and times of creation  *)
(* that are not shared where instants are not.                             *)
THEOREM Invariant == Spec => []StorageInv
<1>1. Init => StorageInv
  <2> SUFFICES ASSUME Init PROVE StorageInv
    OBVIOUS
  <2>1. table = Nothing /\ DOMAIN table = {} /\ now = 0
    BY DEF Init, Nothing
  <2>2. copies = [id \in Ids |-> copies[id]] /\ \A id \in Ids : copies[id] = Nothing
    BY DEF Init
  <2>3. IsFiniteSet(DOMAIN table) /\ table = [i \in DOMAIN table |-> table[i]]
    BY <2>1, FS_EmptySet DEF Nothing
  <2>4. RowsInv
    BY <2>1, <2>3 DEF RowsInv, OneRowEach, ClaimsTimed, InstantsApart
  <2>5. CopiesInv
    BY <2>1, <2>2 DEF CopiesInv, CopiesFollow
  <2> QED BY <2>1, <2>4, <2>5, InvParts
<1> QED BY <1>1, StorageInvInductive, PTL DEF Spec

-----------------------------------------------------------------------------
(* Rows and tasks                                                          *)

LEMMA TasksOfRows ==
    ASSUME NEW f
    PROVE  DOMAIN Tasks(f) = DOMAIN f /\ \A i \in DOMAIN f : Tasks(f)[i] = MapUploadRow(f[i])
BY DEF Tasks

LEMMA TasksWith ==
    ASSUME NEW f, NEW next, NEW to, DOMAIN to = DOMAIN next,
           \A i \in DOMAIN next : MapUploadRow(next[i]) = to[i]
    PROVE  Tasks(With(f, next)) = With(Tasks(f), to)
<1>1. With(f, next) = [i \in DOMAIN f \cup DOMAIN next |-> IF i \in DOMAIN next THEN next[i] ELSE f[i]]
  BY DEF With
<1>2. Tasks(With(f, next)) =
         [i \in DOMAIN f \cup DOMAIN next |-> MapUploadRow(IF i \in DOMAIN next THEN next[i] ELSE f[i])]
  BY <1>1 DEF Tasks
<1>3. With(Tasks(f), to) =
         [i \in DOMAIN f \cup DOMAIN next |-> IF i \in DOMAIN next THEN to[i] ELSE MapUploadRow(f[i])]
  BY TasksOfRows DEF With
<1> QED BY <1>2, <1>3

LEMMA TasksWithout ==
    ASSUME NEW f, NEW gone
    PROVE  Tasks(Without(f, gone)) = Without(Tasks(f), gone)
BY DEF Tasks, Without

LEMMA TasksInserted ==
    ASSUME NEW f, NEW row
    PROVE  Tasks(Inserted(f, row)) = Inserted(Tasks(f), MapUploadRow(row))
<1> DEFINE place == NewPlace(DOMAIN f)
<1>1. /\ Inserted(f, row) = With(f, [i \in {place} |-> row])
      /\ Inserted(Tasks(f), MapUploadRow(row)) = With(Tasks(f), [i \in {place} |-> MapUploadRow(row)])
  BY TasksOfRows DEF Inserted
<1> HIDE DEF place
<1> QED BY <1>1, TasksWith

(* The instance brings its own copies of the operators of StoredTask.      *)
LEMMA SameOperators ==
    /\ \A f, changes : Memory!With(f, changes) = With(f, changes)
    /\ \A f, gone : Memory!Without(f, gone) = Without(f, gone)
    /\ \A task, changes, remove : Memory!CloneTask(task, changes, remove) = CloneTask(task, changes, remove)
    /\ \A task, key, default : Memory!FieldOr(task, key, default) = FieldOr(task, key, default)
    /\ \A f, entry : Memory!Inserted(f, entry) = Inserted(f, entry)
    /\ \A places : Memory!Listings(places) = Listings(places)
    /\ \A order, n : Memory!FirstOf(order, n) = FirstOf(order, n)
    /\ \A f, order : Memory!At(f, order) = At(f, order)
    /\ \A times : Memory!Earliest(times) = Earliest(times)
    /\ \A error : Memory!Throws(error) = Throws(error)
    /\ \A n : Memory!Counted(n) = Counted(n)
    /\ \A yes : Memory!Landed(yes) = Landed(yes)
    /\ \A tasks : Memory!Found(tasks) = Found(tasks)
    /\ Memory!Done = Done /\ Memory!Nothing = Nothing
    /\ \A S : Memory!Cardinality(S) = Cardinality(S)
<1>1. \A f, changes : Memory!With(f, changes) = With(f, changes)
  BY DEF Memory!With, With
<1>2. \A f, gone : Memory!Without(f, gone) = Without(f, gone)
  BY DEF Memory!Without, Without
<1>3. \A task, changes, remove : Memory!CloneTask(task, changes, remove) = CloneTask(task, changes, remove)
  BY <1>1, <1>2 DEF Memory!CloneTask, CloneTask
<1>4. \A task, key, default : Memory!FieldOr(task, key, default) = FieldOr(task, key, default)
  BY DEF Memory!FieldOr, FieldOr
<1>5. \A f, entry : Memory!Inserted(f, entry) = Inserted(f, entry)
  <2>1. \A places : Memory!NewPlace(places) = NewPlace(places)
    BY DEF Memory!NewPlace, NewPlace, Memory!Max, Max
  <2> QED BY <1>1, <2>1 DEF Memory!Inserted, Inserted
<1>0. \A S : Memory!Cardinality(S) = Cardinality(S)
  BY DEF Memory!Cardinality, Cardinality
<1>6. \A places : Memory!Listings(places) = Listings(places)
  BY <1>0 DEF Memory!Listings, Listings
<1>7. \A order, n : Memory!FirstOf(order, n) = FirstOf(order, n)
  BY DEF Memory!FirstOf, FirstOf
<1>8. \A f, order : Memory!At(f, order) = At(f, order)
  BY DEF Memory!At, At
<1>9. \A times : Memory!Earliest(times) = Earliest(times)
  BY DEF Memory!Earliest, Earliest, Memory!Min, Min
<1>10. /\ \A error : Memory!Throws(error) = Throws(error)
       /\ \A n : Memory!Counted(n) = Counted(n)
       /\ \A yes : Memory!Landed(yes) = Landed(yes)
       /\ \A tasks : Memory!Found(tasks) = Found(tasks)
       /\ Memory!Done = Done
  BY DEF Memory!Throws, Throws, Memory!Counted, Counted, Memory!Landed, Landed, Memory!Found, Found,
         Memory!Done, Done, Memory!Answer, Answer
<1>11. Memory!Nothing = Nothing
  BY DEF Memory!Nothing, Nothing
<1> QED BY <1>0, <1>1, <1>2, <1>3, <1>4, <1>5, <1>6, <1>7, <1>8, <1>9, <1>10, <1>11

(* The conditions of the statements are those of the memory adapter.       *)
LEMMA ConditionsAgree ==
    ASSUME NEW row, IsRow(row)
    PROVE  LET task == MapUploadRow(row) IN
           /\ \A time \in Nat : Memory!Due(task, time) <=> DuePending(row, time)
           /\ \A token \in Tokens : Memory!Owned(task, token) <=> row.processing_token = token
           /\ \A before \in Nat : Memory!Stale(task, before) <=> Abandoned(row, before)
<1> DEFINE task == MapUploadRow(row)
<1>1. task.status = row.status
  BY FieldsOfRow
<1>2. /\ "nextAttemptAt" \in DOMAIN task <=> row["next_attempt_at"] # NULL
      /\ "nextAttemptAt" \in DOMAIN task => task["nextAttemptAt"] = row["next_attempt_at"]
      /\ "processingToken" \in DOMAIN task <=> row["processing_token"] # NULL
      /\ "processingToken" \in DOMAIN task => task["processingToken"] = row["processing_token"]
      /\ "processingStartedAt" \in DOMAIN task <=> row["processing_started_at"] # NULL
      /\ "processingStartedAt" \in DOMAIN task => task["processingStartedAt"] = row["processing_started_at"]
  <2>1. /\ {"nextAttemptAt", "processingToken", "processingStartedAt"} \subseteq OptionalTaskKey
        /\ Column["nextAttemptAt"] = "next_attempt_at" /\ Column["processingToken"] = "processing_token"
        /\ Column["processingStartedAt"] = "processing_started_at"
    BY DEF OptionalTaskKey, Column
  <2>2. \A key \in OptionalTaskKey :
           /\ key \in DOMAIN task <=> row[Column[key]] # NULL
           /\ key \in DOMAIN task => task[key] = row[Column[key]]
    BY FieldsOfRow
  <2> HIDE DEF task
  <2> QED BY <2>1, <2>2
<1> HIDE DEF task
<1>3. \A time \in Nat : Memory!Due(task, time) <=> DuePending(row, time)
  BY <1>1, <1>2 DEF Memory!Due, DuePending
<1>4. \A token \in Tokens : Memory!Owned(task, token) <=> row.processing_token = token
  BY <1>2, StorageAssumption DEF Memory!Owned
<1>5. \A before \in Nat : Memory!Stale(task, before) <=> Abandoned(row, before)
  BY <1>1, <1>2 DEF Memory!Stale, Abandoned
<1> QED BY <1>3, <1>4, <1>5 DEF task

LEMMA PlacesAgree ==
    ASSUME RowsInv, NEW id
    PROVE  Memory!Of(id) = {i \in DOMAIN table : table[i].id = id}
<1>1. \A i \in DOMAIN table : Tasks(table)[i].id = table[i].id
  BY TasksOfRows, FieldsOfRow DEF RowsInv
<1> QED BY <1>1, TasksOfRows DEF Memory!Of

(* A driver that reports the rows affected.                                *)
LEMMA AffectedRows ==
    ASSUME RowsInv, Reports, NEW where, where \subseteq DOMAIN table
    PROVE  /\ RowsAffected(where) = Cardinality(where)
           /\ RowsAffected(where) > 0 <=> where # {}
           /\ RowsAffected(where) = 0 <=> where = {}
           /\ Cardinality(where) \in Nat
<1>1. IsFiniteSet(where)
  BY FS_Subset DEF RowsInv
<1> QED BY <1>1, FS_EmptySet, FS_CardinalityType DEF RowsAffected

-----------------------------------------------------------------------------
(* Each call, in both adapters                                             *)

LEMMA InsertAgrees ==
    ASSUME RowsInv, NEW task, IsTask(task), Insert(task)
    PROVE  Memory!Insert(task)
<1>1. Memory!Of(task.id) = {i \in DOMAIN table : table[i].id = task.id}
  BY PlacesAgree
<1>2. CASE \E i \in DOMAIN table : table[i].id = task.id
  <2>1. answer' = Throws("already queued") /\ Tasks(table)' = Tasks(table)
    BY <1>2 DEF Insert
  <2> QED BY <1>1, <1>2, <2>1, SameOperators DEF Memory!Insert
<1>3. CASE ~\E i \in DOMAIN table : table[i].id = task.id
  <2>1. answer' = Done /\ table' = Inserted(table, Encode(task))
    BY <1>3 DEF Insert
  <2>2. Tasks(table)' = Inserted(Tasks(table), task)
    BY <2>1, TasksInserted, Lossless
  <2> QED BY <1>1, <1>3, <2>1, <2>2, SameOperators DEF Memory!Insert
<1> QED BY <1>2, <1>3

(* A whole task written at some places.                                    *)
LEMMA TaskWritten ==
    ASSUME NEW task, IsTask(task), NEW where, table' = With(table, [i \in where |-> Encode(task)])
    PROVE  Tasks(table)' = With(Tasks(table), [i \in where |-> task])
<1>1. Tasks(With(table, [i \in where |-> Encode(task)])) = With(Tasks(table), [i \in where |-> task])
  BY Lossless, TasksWith
<1> QED BY <1>1

LEMMA UpdateAgrees ==
    ASSUME RowsInv, Reports, NEW task, IsTask(task), Update(task)
    PROVE  Memory!Update(task)
<1> DEFINE where == {i \in DOMAIN table : table[i].id = task.id}
<1>1. Memory!Of(task.id) = where
  BY PlacesAgree
<1>2. /\ answer' = IF where = {} THEN Throws("not found") ELSE Done
      /\ table' = With(table, [i \in where |-> Encode(task)])
  BY DEF Update
<1> HIDE DEF where
<1>3. Tasks(table)' = With(Tasks(table), [i \in where |-> task])
  BY <1>2, TaskWritten
<1>4. CASE where = {}
  <2>1. Tasks(table)' = Tasks(table)
    BY <1>2, <1>4, <1>3, TasksOfRows DEF With, Tasks
  <2> QED BY <1>1, <1>2, <1>4, <2>1, SameOperators DEF Memory!Update
<1>5. CASE where # {}
  BY <1>1, <1>2, <1>3, <1>5, SameOperators DEF Memory!Update
<1> QED BY <1>4, <1>5

LEMMA UpdateOwnedAgrees ==
    ASSUME RowsInv, Reports, NEW task, IsTask(task), NEW token \in Tokens, UpdateOwned(task, token)
    PROVE  Memory!UpdateOwned(task, token)
<1> DEFINE where == {i \in DOMAIN table : table[i].id = task.id /\ table[i].processing_token = token}
           owned == {i \in Memory!Of(task.id) : Memory!Owned(Tasks(table)[i], token)}
<1>1. owned = where
  BY PlacesAgree, TasksOfRows, ConditionsAgree DEF RowsInv
<1>2. answer' = Landed(RowsAffected(where) > 0) /\ table' = With(table, [i \in where |-> Encode(task)])
  BY DEF UpdateOwned
<1>3. where \subseteq DOMAIN table
  OBVIOUS
<1>4. Memory!UpdateOwned(task, token) <=>
         /\ answer' = Landed(owned # {})
         /\ Tasks(table)' = With(Tasks(table), [i \in owned |-> task])
  BY SameOperators DEF Memory!UpdateOwned
<1> HIDE DEF where, owned
<1>5. Tasks(table)' = With(Tasks(table), [i \in where |-> task])
  BY <1>2, TaskWritten
<1>6. Landed(RowsAffected(where) > 0) = Landed(where # {})
  BY <1>3, AffectedRows DEF Landed
<1> QED BY <1>1, <1>2, <1>4, <1>5, <1>6

(* Some columns written by hand, at some places.                           *)
LEMMA ColumnsWritten ==
    ASSUME NEW where, NEW set, NEW changes, NEW remove,
           \A i \in where : MapUploadRow(With(table[i], set[i]))
                            = CloneTask(MapUploadRow(table[i]), changes[i], remove),
           where \subseteq DOMAIN table,
           table' = With(table, [i \in where |-> With(table[i], set[i])])
    PROVE  Tasks(table)' = With(Tasks(table),
                                [i \in where |-> CloneTask(Tasks(table)[i], changes[i], remove)])
<1> DEFINE next == [i \in where |-> With(table[i], set[i])]
           to == [i \in where |-> CloneTask(Tasks(table)[i], changes[i], remove)]
<1>1. DOMAIN next = where /\ DOMAIN to = where
  OBVIOUS
<1>2. \A i \in where : MapUploadRow(next[i]) = to[i]
  BY TasksOfRows
<1> HIDE DEF next, to
<1>3. Tasks(With(table, next)) = With(Tasks(table), to)
  BY <1>1, <1>2, TasksWith
<1> QED BY <1>3 DEF next, to

(* total_bytes keeps its value when the update has none.                   *)
LEMMA ProgressChange ==
    ASSUME NEW row, IsRow(row), NEW time \in Nat, NEW total \in {Nothing, [totalBytes |-> 1]}
    PROVE  LET update == With([progress |-> 1, bytesUploaded |-> 1, updatedAt |-> time], total) IN
           MapUploadRow(With(row,
               [progress |-> update.progress, bytes_uploaded |-> update.bytesUploaded,
                total_bytes |-> Coalesce(FieldOr(update, "totalBytes", NULL), row.total_bytes),
                updated_at |-> update.updatedAt]))
           = CloneTask(MapUploadRow(row), update, {})
<1> DEFINE update == With([progress |-> 1, bytesUploaded |-> 1, updatedAt |-> time], total)
           set == [progress |-> update.progress, bytes_uploaded |-> update.bytesUploaded,
                   total_bytes |-> Coalesce(FieldOr(update, "totalBytes", NULL), row.total_bytes),
                   updated_at |-> update.updatedAt]
<1>1. /\ update["progress"] = 1 /\ update["bytesUploaded"] = 1 /\ update["updatedAt"] = time
      /\ DOMAIN update = {"progress", "bytesUploaded", "updatedAt"} \cup DOMAIN total
      /\ DOMAIN total \subseteq {"totalBytes"}
      /\ "totalBytes" \in DOMAIN update => update["totalBytes"] = 1
  BY ProgressUpdate
<1>2. 1 # NULL /\ time # NULL
  BY StorageAssumption
<1>3. /\ set["progress"] = 1 /\ set["bytes_uploaded"] = 1 /\ set["updated_at"] = time
      /\ DOMAIN set = {"progress", "bytes_uploaded", "total_bytes", "updated_at"}
  BY <1>1
<1>4. set["total_bytes"] = IF "totalBytes" \in DOMAIN update THEN 1 ELSE row["total_bytes"]
  BY <1>1, <1>2 DEF FieldOr, Coalesce
<1>5. \A key \in TaskKey :
         /\ Column[key] = "progress" => key = "progress"
         /\ Column[key] = "bytes_uploaded" => key = "bytesUploaded"
         /\ Column[key] = "total_bytes" => key = "totalBytes"
         /\ Column[key] = "updated_at" => key = "updatedAt"
  BY DEF Column, TaskKey, Mandatory, OptionalTaskKey
<1>6. /\ Column["progress"] = "progress" /\ Column["bytesUploaded"] = "bytes_uploaded"
      /\ Column["totalBytes"] = "total_bytes" /\ Column["updatedAt"] = "updated_at"
      /\ {"progress", "bytesUploaded", "totalBytes", "updatedAt"} \subseteq TaskKey
  BY DEF Column, TaskKey, Mandatory, OptionalTaskKey
<1> HIDE DEF update, set
<1>7. DOMAIN update \subseteq TaskKey
  BY <1>1, <1>6
<1>8. \A key \in TaskKey :
         /\ key \in {} => Column[key] \in DOMAIN set /\ set[Column[key]] = NULL
         /\ key \in DOMAIN update \ {} =>
               Column[key] \in DOMAIN set /\ set[Column[key]] = update[key] /\ update[key] # NULL
         /\ key \notin DOMAIN update \cup {} /\ Column[key] \in DOMAIN set =>
               set[Column[key]] = row[Column[key]]
  BY <1>1, <1>2, <1>3, <1>4, <1>5, <1>6
<1>9. DOMAIN set \subseteq Columns
  BY <1>3, ColumnsMatch
<1>10. MapUploadRow(With(row, set)) = CloneTask(MapUploadRow(row), update, {})
  BY <1>7, <1>8, <1>9, ChangeOfRow
<1> QED BY <1>10 DEF update, set

LEMMA UpdateProgressAgrees ==
    ASSUME RowsInv, Reports, NEW id, NEW token \in Tokens, NEW time \in Nat,
           NEW total \in {Nothing, [totalBytes |-> 1]}, NEW update,
           update = With([progress |-> 1, bytesUploaded |-> 1, updatedAt |-> time], total),
           UpdateProgress(id, token, update)
    PROVE  Memory!UpdateProgress(id, token, update)
<1> DEFINE where == {i \in DOMAIN table :
                        table[i].id = id /\ table[i].processing_token = token /\ table[i].status = "uploading"}
           owned == {i \in Memory!Of(id) : Tasks(table)[i].status = "uploading" /\ Memory!Owned(Tasks(table)[i], token)}
           set == [i \in where |->
                     [progress |-> update.progress, bytes_uploaded |-> update.bytesUploaded,
                      total_bytes |-> Coalesce(FieldOr(update, "totalBytes", NULL), table[i].total_bytes),
                      updated_at |-> update.updatedAt]]
           changes == [i \in where |-> update]
<1>1. owned = where
  BY PlacesAgree, TasksOfRows, ConditionsAgree, FieldsOfRow DEF RowsInv
<1>2. /\ answer' = Landed(RowsAffected(where) > 0)
      /\ table' = With(table, [i \in where |-> With(table[i], set[i])])
  BY DEF UpdateProgress
<1>3. where \subseteq DOMAIN table
  OBVIOUS
<1>4. Memory!UpdateProgress(id, token, update) <=>
         /\ answer' = Landed(owned # {})
         /\ Tasks(table)' = With(Tasks(table), [i \in owned |-> CloneTask(Tasks(table)[i], update, {})])
  BY SameOperators DEF Memory!UpdateProgress
<1>5. \A i \in where : MapUploadRow(With(table[i], set[i])) = CloneTask(MapUploadRow(table[i]), changes[i], {})
  BY ProgressChange DEF RowsInv
<1>6. \A i \in where : changes[i] = update
  OBVIOUS
<1> HIDE DEF where, owned, set, changes
<1>7. Tasks(table)' = With(Tasks(table), [i \in where |-> CloneTask(Tasks(table)[i], changes[i], {})])
  BY <1>2, <1>3, <1>5, ColumnsWritten
<1>8. Landed(RowsAffected(where) > 0) = Landed(where # {})
  BY <1>3, AffectedRows DEF Landed
<1> QED BY <1>1, <1>2, <1>4, <1>6, <1>7, <1>8

LEMMA GetAgrees ==
    ASSUME RowsInv, NEW id, Get(id)
    PROVE  Memory!Get(id)
<1> DEFINE where == {i \in DOMAIN table : table[i].id = id}
<1>1. Memory!Of(id) = where
  BY PlacesAgree
<1>2. PICK order \in Listings(where) : answer' = Found(At(Tasks(table), FirstOf(order, 1)))
  BY DEF Get
<1>3. \A i, j \in where : i = j
  BY DEF RowsInv, OneRowEach
<1> HIDE DEF where
<1>4. FirstOf(order, 1) = order
  BY <1>3, ListingOfOne
<1>5. Tasks(table)' = Tasks(table)
  BY DEF Get
<1> QED BY <1>1, <1>2, <1>4, <1>5, SameOperators DEF Memory!Get

LEMMA DeleteAgrees ==
    ASSUME RowsInv, NEW id, Delete(id)
    PROVE  Memory!Delete(id)
BY PlacesAgree, TasksWithout, SameOperators DEF Delete, Memory!Delete

LEMMA RecoveryChange ==
    ASSUME NEW row, IsRow(row), NEW time \in Nat
    PROVE  MapUploadRow(With(row, RecoveredColumns(time)))
           = CloneTask(MapUploadRow(row), [status |-> "pending", updatedAt |-> time, progress |-> 0],
                       {"processingToken", "processingStartedAt", "nextAttemptAt"})
<1> DEFINE set == RecoveredColumns(time)
           changes == [status |-> "pending", updatedAt |-> time, progress |-> 0]
           remove == {"processingToken", "processingStartedAt", "nextAttemptAt"}
<1>1. /\ DOMAIN set = {"status", "updated_at", "progress", "processing_token",
                       "processing_started_at", "next_attempt_at"}
      /\ set["status"] = "pending" /\ set["updated_at"] = time /\ set["progress"] = 0
      /\ set["processing_token"] = NULL /\ set["processing_started_at"] = NULL
      /\ set["next_attempt_at"] = NULL
  BY DEF RecoveredColumns
<1>2. /\ DOMAIN changes = {"status", "updatedAt", "progress"}
      /\ changes["status"] = "pending" /\ changes["updatedAt"] = time /\ changes["progress"] = 0
  OBVIOUS
<1>3. "pending" # NULL /\ time # NULL /\ 0 # NULL
  BY StorageAssumption DEF Status
<1>4. \A key \in TaskKey :
         /\ Column[key] = "status" => key = "status"
         /\ Column[key] = "updated_at" => key = "updatedAt"
         /\ Column[key] = "progress" => key = "progress"
         /\ Column[key] = "processing_token" => key = "processingToken"
         /\ Column[key] = "processing_started_at" => key = "processingStartedAt"
         /\ Column[key] = "next_attempt_at" => key = "nextAttemptAt"
  BY DEF Column, TaskKey, Mandatory, OptionalTaskKey
<1>5. /\ Column["status"] = "status" /\ Column["updatedAt"] = "updated_at"
      /\ Column["progress"] = "progress" /\ Column["processingToken"] = "processing_token"
      /\ Column["processingStartedAt"] = "processing_started_at"
      /\ Column["nextAttemptAt"] = "next_attempt_at"
      /\ {"status", "updatedAt", "progress"} \subseteq TaskKey /\ remove \subseteq OptionalTaskKey
  BY DEF Column, TaskKey, Mandatory, OptionalTaskKey
<1> HIDE DEF set, changes
<1>6. \A key \in TaskKey :
         /\ key \in remove => Column[key] \in DOMAIN set /\ set[Column[key]] = NULL
         /\ key \in DOMAIN changes \ remove =>
               Column[key] \in DOMAIN set /\ set[Column[key]] = changes[key] /\ changes[key] # NULL
         /\ key \notin DOMAIN changes \cup remove /\ Column[key] \in DOMAIN set =>
               set[Column[key]] = row[Column[key]]
  BY <1>1, <1>2, <1>3, <1>4, <1>5
<1>7. DOMAIN set \subseteq Columns /\ DOMAIN changes \subseteq TaskKey /\ remove \subseteq OptionalTaskKey
  BY <1>1, <1>2, <1>5, ColumnsMatch
<1> HIDE DEF remove
<1>8. MapUploadRow(With(row, set)) = CloneTask(MapUploadRow(row), changes, remove)
  BY <1>6, <1>7, ChangeOfRow
<1> QED BY <1>8 DEF set, changes, remove

LEMMA RecoverAgrees ==
    ASSUME RowsInv, Reports, NEW before \in Nat, NEW time \in Nat, RecoverAbandoned(before, time)
    PROVE  Memory!RecoverAbandoned(before, time)
<1> DEFINE where == {i \in DOMAIN table : Abandoned(table[i], before)}
           stale == {i \in DOMAIN Tasks(table) : Memory!Stale(Tasks(table)[i], before)}
           set == [i \in where |-> RecoveredColumns(time)]
           done == [status |-> "pending", updatedAt |-> time, progress |-> 0]
           changes == [i \in where |-> done]
           remove == {"processingToken", "processingStartedAt", "nextAttemptAt"}
<1>1. stale = where
  BY TasksOfRows, ConditionsAgree DEF RowsInv
<1>2. /\ answer' = Counted(RowsAffected(where))
      /\ table' = With(table, [i \in where |-> With(table[i], set[i])])
  BY DEF RecoverAbandoned
<1>3. where \subseteq DOMAIN table
  OBVIOUS
<1>4. Memory!RecoverAbandoned(before, time) <=>
         /\ answer' = Counted(Cardinality(stale))
         /\ Tasks(table)' = With(Tasks(table), [i \in stale |-> CloneTask(Tasks(table)[i], done, remove)])
  BY SameOperators DEF Memory!RecoverAbandoned
<1>5. \A i \in where : MapUploadRow(With(table[i], set[i])) = CloneTask(MapUploadRow(table[i]), changes[i], remove)
  BY RecoveryChange DEF RowsInv
<1>6. \A i \in where : changes[i] = done
  OBVIOUS
<1> HIDE DEF where, stale, set, done, changes, remove
<1>7. Tasks(table)' = With(Tasks(table), [i \in where |-> CloneTask(Tasks(table)[i], changes[i], remove)])
  BY <1>2, <1>3, <1>5, ColumnsWritten
<1>8. RowsAffected(where) = Cardinality(where)
  BY <1>3, AffectedRows
<1> QED BY <1>1, <1>2, <1>4, <1>6, <1>7, <1>8

LEMMA EarliestAgrees ==
    ASSUME RowsInv, GetEarliestNextAttemptAt
    PROVE  Memory!GetEarliestNextAttemptAt
<1> DEFINE where == {i \in DOMAIN table : table[i].status = "pending" /\ table[i].next_attempt_at # NULL}
           scheduled == {i \in DOMAIN Tasks(table) :
                            Tasks(table)[i].status = "pending" /\ "nextAttemptAt" \in DOMAIN Tasks(table)[i]}
<1>1. \A i \in DOMAIN table :
         /\ Tasks(table)[i].status = table[i].status
         /\ "nextAttemptAt" \in DOMAIN Tasks(table)[i] <=> table[i].next_attempt_at # NULL
         /\ "nextAttemptAt" \in DOMAIN Tasks(table)[i] => Tasks(table)[i].nextAttemptAt = table[i].next_attempt_at
  <2> SUFFICES ASSUME NEW i \in DOMAIN table
               PROVE  /\ Tasks(table)[i].status = table[i].status
                      /\ "nextAttemptAt" \in DOMAIN Tasks(table)[i] <=> table[i].next_attempt_at # NULL
                      /\ "nextAttemptAt" \in DOMAIN Tasks(table)[i] =>
                            Tasks(table)[i].nextAttemptAt = table[i].next_attempt_at
    OBVIOUS
  <2>1. IsRow(table[i]) /\ Tasks(table)[i] = MapUploadRow(table[i])
    BY TasksOfRows DEF RowsInv
  <2>2. "nextAttemptAt" \in OptionalTaskKey /\ Column["nextAttemptAt"] = "next_attempt_at"
    BY DEF OptionalTaskKey, Column
  <2> QED BY <2>1, <2>2, FieldsOfRow
<1>2. scheduled = where
  BY <1>1, TasksOfRows
<1>3. {Tasks(table)[i].nextAttemptAt : i \in scheduled} = {table[i].next_attempt_at : i \in where}
  BY <1>1, <1>2
<1>4. answer' = Counted(Earliest({table[i].next_attempt_at : i \in where})) /\ Tasks(table)' = Tasks(table)
  BY DEF GetEarliestNextAttemptAt
<1>5. Memory!GetEarliestNextAttemptAt <=>
         /\ answer' = Counted(Earliest({Tasks(table)[i].nextAttemptAt : i \in scheduled}))
         /\ Tasks(table)' = Tasks(table)
  BY SameOperators DEF Memory!GetEarliestNextAttemptAt
<1> QED BY <1>3, <1>4, <1>5

LEMMA DeleteCompletedAgrees ==
    ASSUME RowsInv, Reports, NEW olderThan \in Int, DeleteCompleted(olderThan)
    PROVE  Memory!DeleteCompleted(olderThan)
<1> DEFINE where == {i \in DOMAIN table : Purgeable(table[i], olderThan)}
           gone == {i \in DOMAIN Tasks(table) :
                       /\ Tasks(table)[i].status = "completed"
                       /\ olderThan # -1 =>
                             FieldOr(Tasks(table)[i], "completedAt", Tasks(table)[i].updatedAt) <= olderThan}
<1>1. \A i \in DOMAIN table :
         /\ Tasks(table)[i].status = table[i].status
         /\ FieldOr(Tasks(table)[i], "completedAt", Tasks(table)[i].updatedAt)
               = Coalesce(table[i].completed_at, table[i].updated_at)
  <2> SUFFICES ASSUME NEW i \in DOMAIN table
               PROVE  /\ Tasks(table)[i].status = table[i].status
                      /\ FieldOr(Tasks(table)[i], "completedAt", Tasks(table)[i].updatedAt)
                            = Coalesce(table[i].completed_at, table[i].updated_at)
    OBVIOUS
  <2>1. IsRow(table[i]) /\ Tasks(table)[i] = MapUploadRow(table[i])
    BY TasksOfRows DEF RowsInv
  <2>2. "completedAt" \in OptionalTaskKey /\ Column["completedAt"] = "completed_at"
    BY DEF OptionalTaskKey, Column
  <2> QED BY <2>1, <2>2, FieldsOfRow DEF FieldOr, Coalesce
<1>2. gone = where
  BY <1>1, TasksOfRows DEF Purgeable
<1>3. answer' = Counted(RowsAffected(where)) /\ table' = Without(table, where) /\ where \subseteq DOMAIN table
  BY DEF DeleteCompleted
<1>4. Memory!DeleteCompleted(olderThan) <=>
         answer' = Counted(Cardinality(gone)) /\ Tasks(table)' = Without(Tasks(table), gone)
  BY SameOperators DEF Memory!DeleteCompleted
<1> HIDE DEF where, gone
<1>5. RowsAffected(where) = Cardinality(where)
  BY <1>3, AffectedRows
<1> QED BY <1>2, <1>3, <1>4, <1>5, TasksWithout

LEMMA ClaimChange ==
    ASSUME NEW row, IsRow(row), NEW token \in Tokens, NEW time \in Nat
    PROVE  MapUploadRow(With(row, ClaimColumns(row, token, time)))
           = Memory!ClaimedAt(MapUploadRow(row), token, time)
<1> DEFINE task == MapUploadRow(row)
           start == Coalesce(row.started_at, time)
           set == ClaimColumns(row, token, time)
           changes == [status |-> "uploading", processingToken |-> token, processingStartedAt |-> time,
                       startedAt |-> start, updatedAt |-> time, progress |-> 0, bytesUploaded |-> 0]
           remove == {"nextAttemptAt"}
<1>1. FieldOr(task, "startedAt", time) = start
  <2>1. "startedAt" \in OptionalTaskKey /\ Column["startedAt"] = "started_at"
    BY DEF OptionalTaskKey, Column
  <2> QED BY <2>1, FieldsOfRow DEF FieldOr, Coalesce
<1>2. Memory!ClaimedAt(task, token, time) = CloneTask(task, changes, remove)
  BY <1>1, SameOperators DEF Memory!ClaimedAt
<1>3. start \in Nat
  <2>1. row["started_at"] \in Kind[Field["started_at"]] \/ row["started_at"] = NULL
    BY ColumnsMatch DEF IsRow
  <2> QED BY <2>1 DEF Coalesce, Kind, Field
<1>4. /\ DOMAIN set = {"status", "processing_token", "processing_started_at", "started_at", "updated_at",
                       "next_attempt_at", "progress", "bytes_uploaded"}
      /\ set["status"] = "uploading" /\ set["processing_token"] = token
      /\ set["processing_started_at"] = time /\ set["started_at"] = start
      /\ set["updated_at"] = time /\ set["next_attempt_at"] = NULL
      /\ set["progress"] = 0 /\ set["bytes_uploaded"] = 0
  BY DEF ClaimColumns
<1> HIDE DEF start
<1>5. /\ DOMAIN changes = {"status", "processingToken", "processingStartedAt", "startedAt", "updatedAt",
                           "progress", "bytesUploaded"}
      /\ changes["status"] = "uploading" /\ changes["processingToken"] = token
      /\ changes["processingStartedAt"] = time /\ changes["startedAt"] = start
      /\ changes["updatedAt"] = time /\ changes["progress"] = 0 /\ changes["bytesUploaded"] = 0
  OBVIOUS
<1>6. "uploading" # NULL /\ token # NULL /\ time # NULL /\ start # NULL /\ 0 # NULL
  BY <1>3, StorageAssumption DEF Status
<1>7. \A key \in TaskKey :
         /\ Column[key] = "status" => key = "status"
         /\ Column[key] = "processing_token" => key = "processingToken"
         /\ Column[key] = "processing_started_at" => key = "processingStartedAt"
         /\ Column[key] = "started_at" => key = "startedAt"
         /\ Column[key] = "updated_at" => key = "updatedAt"
         /\ Column[key] = "next_attempt_at" => key = "nextAttemptAt"
         /\ Column[key] = "progress" => key = "progress"
         /\ Column[key] = "bytes_uploaded" => key = "bytesUploaded"
  BY DEF Column, TaskKey, Mandatory, OptionalTaskKey
<1>8. /\ Column["status"] = "status" /\ Column["processingToken"] = "processing_token"
      /\ Column["processingStartedAt"] = "processing_started_at"
      /\ Column["startedAt"] = "started_at" /\ Column["updatedAt"] = "updated_at"
      /\ Column["nextAttemptAt"] = "next_attempt_at"
      /\ Column["progress"] = "progress" /\ Column["bytesUploaded"] = "bytes_uploaded"
      /\ DOMAIN changes \subseteq TaskKey /\ remove \subseteq OptionalTaskKey
  BY DEF Column, TaskKey, Mandatory, OptionalTaskKey
<1> HIDE DEF set, changes, task
<1>9. \A key \in TaskKey :
         /\ key \in remove => Column[key] \in DOMAIN set /\ set[Column[key]] = NULL
         /\ key \in DOMAIN changes \ remove =>
               Column[key] \in DOMAIN set /\ set[Column[key]] = changes[key] /\ changes[key] # NULL
         /\ key \notin DOMAIN changes \cup remove /\ Column[key] \in DOMAIN set =>
               set[Column[key]] = row[Column[key]]
  BY <1>4, <1>5, <1>6, <1>7, <1>8
<1>10. DOMAIN set \subseteq Columns
  BY <1>4, ColumnsMatch
<1> HIDE DEF remove
<1>11. MapUploadRow(With(row, set)) = CloneTask(MapUploadRow(row), changes, remove)
  BY <1>8, <1>9, <1>10, ChangeOfRow
<1> QED BY <1>2, <1>11 DEF set, task

(* The row it finds afterwards by its token is the one it has claimed.     *)
LEMMA ClaimAgrees ==
    ASSUME StorageInv, Reports, NEW id \in Ids, NEW token \in Tokens, NEW time \in Nat,
           CallClaim(id, token, time)
    PROVE  Memory!Claim(id, token, time)
<1> DEFINE where == {i \in DOMAIN table : table[i].id = id /\ DuePending(table[i], time)}
           free == {i \in Memory!Of(id) : Memory!Due(Tasks(table)[i], time)}
           ours == {i \in DOMAIN table' : table'[i].id = id /\ table'[i].processing_token = token}
           next == [i \in where |-> With(table[i], ClaimColumns(table[i], token, time))]
           to == [i \in where |-> Memory!ClaimedAt(Tasks(table)[i], token, time)]
<1>0. RowsInv
  BY InvParts
<1>1. free = where
  BY <1>0, PlacesAgree, TasksOfRows, ConditionsAgree DEF RowsInv
<1>2. /\ table' = With(table, next)
      /\ IF RowsAffected(where) = 0
            THEN answer' = Found(<<>>)
            ELSE \E order \in Listings(ours) : answer' = Found(At(Tasks(table'), FirstOf(order, 1)))
  BY DEF CallClaim, Claim
<1>3. Memory!Claim(id, token, time) <=>
         /\ Tasks(table)' = With(Tasks(table), [i \in free |-> Memory!ClaimedAt(Tasks(table)[i], token, time)])
         /\ \E order \in Listings(free) : answer' = Found(At(Tasks(table)', order))
  BY SameOperators DEF Memory!Claim
<1>4. \A i, j \in where : i = j
  BY <1>0 DEF RowsInv, OneRowEach
<1>5. /\ OneRowEach' /\ DOMAIN table' = DOMAIN table
      /\ \A i \in DOMAIN table : table'[i].id = table[i].id
      /\ \A i \in where : table'[i].processing_token = token
  BY ClaimRewrites DEF RowsInv
<1>6. where # {} => ours = where
  <2> SUFFICES ASSUME where # {} PROVE ours = where
    OBVIOUS
  <2>1. where \subseteq ours
    BY <1>5
  <2>2. \A i, j \in ours : i = j
    BY <1>5 DEF OneRowEach
  <2> QED BY <2>1, <2>2
<1>7. where \subseteq DOMAIN table /\ DOMAIN next = where /\ DOMAIN to = where
  OBVIOUS
<1>8. \A i \in where : MapUploadRow(next[i]) = to[i]
  BY <1>0, TasksOfRows, ClaimChange DEF RowsInv
<1>9. to = [i \in free |-> Memory!ClaimedAt(Tasks(table)[i], token, time)]
  BY <1>1
<1> HIDE DEF where, free, ours, next, to
<1>10. Tasks(With(table, next)) = With(Tasks(table), to)
  BY <1>7, <1>8, TasksWith
<1>11. \E order \in Listings(where) : answer' = Found(At(Tasks(table)', order))
  <2>1. CASE where = {}
    <3>1. answer' = Found(<<>>)
      BY <1>0, <1>2, <1>7, <2>1, AffectedRows
    <3>2. <<>> \in Listings(where) /\ At(Tasks(table)', <<>>) = <<>>
      BY <2>1, FS_EmptySet DEF Listings, At
    <3> QED BY <3>1, <3>2
  <2>2. CASE where # {}
    <3>1. PICK order \in Listings(where) : answer' = Found(At(Tasks(table'), FirstOf(order, 1)))
      BY <1>0, <1>2, <1>6, <1>7, <2>2, AffectedRows
    <3>2. FirstOf(order, 1) = order
      BY <1>4, ListingOfOne
    <3> QED BY <3>1, <3>2
  <2> QED BY <2>1, <2>2
<1> QED BY <1>1, <1>2, <1>3, <1>9, <1>10, <1>11

(* ORDER BY, where no two rows have the same instant, leaves one order.    *)
LEMMA OrderAgrees ==
    ASSUME RowsInv, NEW where, where \subseteq DOMAIN table, NEW key, NEW column,
           \A i \in where : table[i][column] \in Nat /\ Tasks(table)[i][key] = table[i][column],
           \A i, j \in where : i # j => table[i][column] # table[j][column],
           NEW order \in Ordered(where, column)
    PROVE  order \in Memory!Sorted(where, key)
<1>1. /\ order \in Listings(where)
      /\ \A i, j \in DOMAIN order : i < j => table[order[i]][column] <= table[order[j]][column]
  BY DEF Ordered
<1>2. /\ \A i \in DOMAIN order : order[i] \in where /\ i \in Nat
      /\ \A i, j \in DOMAIN order : order[i] = order[j] => i = j
  BY <1>1 DEF Listings
<1>3. \A i, j \in DOMAIN order : i < j => Tasks(table)[order[i]][key] < Tasks(table)[order[j]][key]
  <2> SUFFICES ASSUME NEW i \in DOMAIN order, NEW j \in DOMAIN order, i < j
               PROVE  Tasks(table)[order[i]][key] < Tasks(table)[order[j]][key]
    OBVIOUS
  <2>1. order[i] # order[j]
    BY <1>2
  <2>2. table[order[i]][column] < table[order[j]][column]
    BY <1>1, <1>2, <2>1
  <2> QED BY <1>2, <2>2
<1> QED BY <1>1, <1>3, SameOperators DEF Memory!Sorted

LEMMA CreationAgrees ==
    ASSUME RowsInv, ~SameInstant, NEW where, where \subseteq DOMAIN table,
           NEW order \in Ordered(where, "created_at")
    PROVE  order \in Memory!Sorted(where, "createdAt")
<1>1. \A i \in where : table[i]["created_at"] \in Nat /\ Tasks(table)[i]["createdAt"] = table[i]["created_at"]
  BY TasksOfRows, FieldsOfRow, IdOfRow DEF RowsInv
<1>2. \A i, j \in where : i # j => table[i]["created_at"] # table[j]["created_at"]
  BY DEF RowsInv, InstantsApart
<1> QED BY <1>1, <1>2, OrderAgrees

LEMMA GetPendingAgrees ==
    ASSUME RowsInv, ~SameInstant, NEW limit, NEW time \in Nat, GetPending(limit, time)
    PROVE  Memory!GetPending(limit, time)
<1> DEFINE where == {i \in DOMAIN table : DuePending(table[i], time)}
           due == {i \in DOMAIN Tasks(table) : Memory!Due(Tasks(table)[i], time)}
<1>1. due = where
  BY TasksOfRows, ConditionsAgree DEF RowsInv
<1>2. PICK order \in Ordered(where, "created_at") : answer' = Found(At(Tasks(table), FirstOf(order, limit)))
  BY DEF GetPending
<1>3. order \in Memory!Sorted(where, "createdAt")
  BY CreationAgrees
<1>4. Memory!GetPending(limit, time) <=>
         /\ \E o \in Memory!Sorted(due, "createdAt") : answer' = Found(At(Tasks(table), FirstOf(o, limit)))
         /\ Tasks(table)' = Tasks(table)
  BY SameOperators DEF Memory!GetPending
<1> HIDE DEF where, due
<1>5. Tasks(table)' = Tasks(table)
  BY DEF GetPending
<1> QED BY <1>1, <1>2, <1>3, <1>4, <1>5

LEMMA ListAgrees ==
    ASSUME RowsInv, ~SameInstant, List
    PROVE  Memory!List
<1>1. PICK order \in Ordered(DOMAIN table, "created_at") : answer' = Found(At(Tasks(table), order))
  BY DEF List
<1>2. order \in Memory!Sorted(DOMAIN Tasks(table), "createdAt")
  BY CreationAgrees, TasksOfRows
<1>3. Tasks(table)' = Tasks(table)
  BY DEF List
<1> QED BY <1>1, <1>2, <1>3, SameOperators DEF Memory!List

(* Without a limit, as long as the rows fit into the default one.          *)
LEMMA GetRecoverableAgrees ==
    ASSUME RowsInv, ~SameInstant, FitsLimit, NEW before \in Nat, NEW limit,
           GetRecoverable(before, limit)
    PROVE  Memory!GetRecoverable(before, limit)
<1> DEFINE where == {i \in DOMAIN table : Abandoned(table[i], before)}
           stale == {i \in DOMAIN Tasks(table) : Memory!Stale(Tasks(table)[i], before)}
<1>1. stale = where
  BY TasksOfRows, ConditionsAgree DEF RowsInv
<1>2. PICK order \in Ordered(where, "processing_started_at") :
         answer' = Found(At(Tasks(table), FirstOf(order, IF limit = 0 THEN DefaultLimit ELSE limit)))
  BY DEF GetRecoverable
<1>3. \A i \in where : /\ table[i]["processing_started_at"] \in Nat
                       /\ Tasks(table)[i]["processingStartedAt"] = table[i]["processing_started_at"]
  <2> SUFFICES ASSUME NEW i \in where
               PROVE  /\ table[i]["processing_started_at"] \in Nat
                      /\ Tasks(table)[i]["processingStartedAt"] = table[i]["processing_started_at"]
    OBVIOUS
  <2>1. IsRow(table[i]) /\ table[i].processing_started_at # NULL /\ Tasks(table)[i] = MapUploadRow(table[i])
    BY TasksOfRows DEF RowsInv, Abandoned
  <2>2. "processingStartedAt" \in OptionalTaskKey /\ Column["processingStartedAt"] = "processing_started_at"
    BY DEF OptionalTaskKey, Column
  <2>3. table[i]["processing_started_at"] \in Kind[Field["processing_started_at"]]
    BY <2>1, ColumnsMatch DEF IsRow
  <2>4. table[i]["processing_started_at"] \in Nat
    BY <2>3 DEF Kind, Field
  <2> QED BY <2>1, <2>2, <2>4, FieldsOfRow
<1>4. where \subseteq DOMAIN table /\ \A i \in where : table[i].processing_started_at # NULL
  BY DEF Abandoned
<1>5. \A i, j \in where : i # j => table[i]["processing_started_at"] # table[j]["processing_started_at"]
  BY <1>4 DEF RowsInv, InstantsApart
<1>6. Memory!GetRecoverable(before, limit) <=>
         /\ \E o \in Memory!Sorted(stale, "processingStartedAt") :
               answer' = Found(At(Tasks(table), IF limit = 0 THEN o ELSE FirstOf(o, limit)))
         /\ Tasks(table)' = Tasks(table)
  BY SameOperators DEF Memory!GetRecoverable
<1> HIDE DEF where, stale
<1>7. order \in Memory!Sorted(where, "processingStartedAt")
  BY <1>3, <1>4, <1>5, OrderAgrees
<1>8. FirstOf(order, DefaultLimit) = order
  <2>1. IsFiniteSet(where) /\ Cardinality(where) <= Cardinality(DOMAIN table)
    BY <1>4, FS_Subset DEF RowsInv
  <2>2. Cardinality(where) \in Nat /\ Cardinality(DOMAIN table) \in Nat /\ DefaultLimit \in Nat
    BY <2>1, FS_CardinalityType, StorageAssumption DEF RowsInv
  <2>3. order \in [1 .. Cardinality(where) -> where]
    BY <1>2 DEF Ordered, Listings
  <2>4. Len(order) = Cardinality(where)
    BY <2>2, <2>3
  <2> QED BY <2>1, <2>2, <2>4 DEF FitsLimit, FirstOf
<1>9. Tasks(table)' = Tasks(table)
  BY DEF GetRecoverable
<1> QED BY <1>1, <1>2, <1>6, <1>7, <1>8, <1>9

-----------------------------------------------------------------------------
(* Each step, in both adapters                                             *)

LEMMA CopyToken ==
    ASSUME StorageInv, NEW id \in Ids, "processingToken" \in DOMAIN copies[id]
    PROVE  copies[id] # Nothing /\ IsTask(copies[id]) /\ copies[id].processingToken \in Tokens
<1>1. copies[id] # Nothing
  BY DEF Nothing
<1>2. IsTask(copies[id])
  BY <1>1, CopyTyped
<1>3. copies[id]["processingToken"] \in Kind["processingToken"]
  BY <1>2 DEF IsTask
<1> QED BY <1>1, <1>2, <1>3 DEF Kind

(* The calls that write what a caller has read.                            *)
LEMMA WritingAgrees ==
    ASSUME StorageInv, Reports, NEW id \in Ids, NEW time \in Nat,
           \/ CallInsert(id, time) \/ CallUpdate(id, time)
           \/ CallUpdateOwned(id, time) \/ CallUpdateProgress(id, time)
    PROVE  Memory!Next
<1>0. RowsInv
  BY InvParts
<1>1. CASE CallInsert(id, time)
  <2> DEFINE task == NewTask(id, time)
  <2>1. call' = [op |-> "insert", task |-> task] /\ Insert(task)
    BY <1>1 DEF CallInsert, Calls
  <2>2. IsTask(task)
    BY NewTaskTyped
  <2> HIDE DEF task
  <2>3. Memory!Insert(task) /\ call'.op = "insert" /\ call'.task = task
    BY <1>0, <2>1, <2>2, InsertAgrees
  <2> QED BY <2>3 DEF Memory!Next, Memory!Serve
<1>2. CASE CallUpdate(id, time)
  <2> DEFINE task == Decided(copies[id], time)
  <2>1. call' = [op |-> "update", task |-> task] /\ Update(task) /\ copies[id] # Nothing
    BY <1>2 DEF CallUpdate, Calls
  <2>2. IsTask(task)
    BY <2>1, CopyTyped, DecidedLetsGo DEF LetsGo
  <2> HIDE DEF task
  <2>3. Memory!Update(task) /\ call'.op = "update" /\ call'.task = task
    BY <1>0, <2>1, <2>2, UpdateAgrees
  <2> QED BY <2>3 DEF Memory!Next, Memory!Serve
<1>3. CASE CallUpdateOwned(id, time)
  <2> DEFINE token == copies[id].processingToken
  <2>1. copies[id] # Nothing /\ IsTask(copies[id]) /\ token \in Tokens
    BY <1>3, CopyToken DEF CallUpdateOwned
  <2>2. PICK task \in Ended(copies[id], time) :
           call' = [op |-> "updateOwned", task |-> task, token |-> token] /\ UpdateOwned(task, token)
    BY <1>3 DEF CallUpdateOwned, Calls
  <2>3. IsTask(task)
    BY <2>1, EndedLetsGo DEF LetsGo
  <2> HIDE DEF token
  <2>4. /\ Memory!UpdateOwned(task, token)
        /\ call'.op = "updateOwned" /\ call'.task = task /\ call'.token = token
    BY <1>0, <2>1, <2>2, <2>3, UpdateOwnedAgrees
  <2> QED BY <2>4 DEF Memory!Next, Memory!Serve
<1>4. CASE CallUpdateProgress(id, time)
  <2> DEFINE token == copies[id].processingToken
             update(total) == With([progress |-> 1, bytesUploaded |-> 1, updatedAt |-> time], total)
  <2>1. token \in Tokens
    BY <1>4, CopyToken DEF CallUpdateProgress
  <2>2. PICK total \in {Nothing, [totalBytes |-> 1]} :
           /\ call' = [op |-> "updateProgress", id |-> id, token |-> token, update |-> update(total)]
           /\ UpdateProgress(id, token, update(total))
    BY <1>4 DEF CallUpdateProgress, Calls
  <2> HIDE DEF token
  <2>3. Memory!UpdateProgress(id, token, update(total))
    BY <1>0, <2>1, <2>2, UpdateProgressAgrees
  <2>4. call'.op = "updateProgress" /\ call'.id = id /\ call'.token = token /\ call'.update = update(total)
    BY <2>2
  <2> HIDE DEF update
  <2> QED BY <2>3, <2>4 DEF Memory!Next, Memory!Serve
<1> QED BY <1>1, <1>2, <1>3, <1>4

(* The calls that change rows by their conditions.                         *)
LEMMA ChangingAgrees ==
    ASSUME StorageInv, Reports, NEW time \in Nat,
           \/ \E id \in Ids : CallDelete(id, time) \/ \E token \in Tokens : CallClaim(id, token, time)
           \/ \E before \in Nat : CallRecoverAbandoned(before, time)
           \/ \E olderThan \in Int : CallDeleteCompleted(olderThan, time)
    PROVE  Memory!Next
<1>0. RowsInv
  BY InvParts
<1>1. ASSUME NEW id \in Ids, CallDelete(id, time) PROVE Memory!Next
  <2>1. call' = [op |-> "delete", id |-> id] /\ Memory!Delete(id)
    BY <1>0, <1>1, DeleteAgrees DEF CallDelete, Calls
  <2>2. call'.op = "delete" /\ call'.id = id
    BY <2>1
  <2> QED BY <2>1, <2>2 DEF Memory!Next, Memory!Serve
<1>2. ASSUME NEW id \in Ids, NEW token \in Tokens, CallClaim(id, token, time) PROVE Memory!Next
  <2>1. call' = [op |-> "claim", id |-> id, token |-> token, now |-> time] /\ Memory!Claim(id, token, time)
    BY <1>2, ClaimAgrees DEF CallClaim, Calls
  <2>2. call'.op = "claim" /\ call'.id = id /\ call'.token = token /\ call'.now = time
    BY <2>1
  <2> QED BY <2>1, <2>2 DEF Memory!Next, Memory!Serve
<1>3. ASSUME NEW before \in Nat, CallRecoverAbandoned(before, time) PROVE Memory!Next
  <2>1. /\ call' = [op |-> "recoverAbandoned", before |-> before, now |-> time]
        /\ Memory!RecoverAbandoned(before, time)
    BY <1>0, <1>3, RecoverAgrees DEF CallRecoverAbandoned, Calls
  <2>2. call'.op = "recoverAbandoned" /\ call'.before = before /\ call'.now = time
    BY <2>1
  <2> QED BY <2>1, <2>2 DEF Memory!Next, Memory!Serve
<1>4. ASSUME NEW olderThan \in Int, CallDeleteCompleted(olderThan, time) PROVE Memory!Next
  <2>1. call' = [op |-> "deleteCompleted", before |-> olderThan] /\ Memory!DeleteCompleted(olderThan)
    BY <1>0, <1>4, DeleteCompletedAgrees DEF CallDeleteCompleted, Calls
  <2>2. call'.op = "deleteCompleted" /\ call'.before = olderThan
    BY <2>1
  <2> QED BY <2>1, <2>2 DEF Memory!Next, Memory!Serve
<1> QED BY <1>1, <1>2, <1>3, <1>4

(* The calls that read one row, or a minimum.                              *)
LEMMA ReadingAgrees ==
    ASSUME StorageInv, NEW time \in Nat,
           (\E id \in Ids : CallGet(id, time)) \/ CallGetEarliest(time)
    PROVE  Memory!Next
<1>0. RowsInv
  BY InvParts
<1>1. ASSUME NEW id \in Ids, CallGet(id, time) PROVE Memory!Next
  <2>1. call' = [op |-> "get", id |-> id] /\ Memory!Get(id)
    BY <1>0, <1>1, GetAgrees DEF CallGet, Calls
  <2>2. call'.op = "get" /\ call'.id = id
    BY <2>1
  <2> QED BY <2>1, <2>2 DEF Memory!Next, Memory!Serve
<1>2. CASE CallGetEarliest(time)
  <2>1. call' = [op |-> "getEarliestNextAttemptAt"] /\ Memory!GetEarliestNextAttemptAt
    BY <1>0, <1>2, EarliestAgrees DEF CallGetEarliest, Calls
  <2>2. call'.op = "getEarliestNextAttemptAt"
    BY <2>1
  <2> QED BY <2>1, <2>2 DEF Memory!Next, Memory!Serve
<1> QED BY <1>1, <1>2

(* The calls that list rows in an order.                                   *)
LEMMA ListingAgrees ==
    ASSUME StorageInv, ~SameInstant, FitsLimit, NEW time \in Nat,
           \/ \E before, limit \in Nat : CallGetRecoverable(before, limit, time)
           \/ \E limit \in Nat : CallGetPending(limit, time)
           \/ CallList(time)
    PROVE  Memory!Next
<1>0. RowsInv
  BY InvParts
<1>1. ASSUME NEW before \in Nat, NEW limit \in Nat, CallGetRecoverable(before, limit, time) PROVE Memory!Next
  <2>1. /\ call' = [op |-> "getRecoverable", now |-> before, limit |-> limit]
        /\ Memory!GetRecoverable(before, limit)
    BY <1>0, <1>1, GetRecoverableAgrees DEF CallGetRecoverable, Calls
  <2>2. call'.op = "getRecoverable" /\ call'.now = before /\ call'.limit = limit
    BY <2>1
  <2> QED BY <2>1, <2>2 DEF Memory!Next, Memory!Serve
<1>2. ASSUME NEW limit \in Nat, CallGetPending(limit, time) PROVE Memory!Next
  <2>1. call' = [op |-> "getPending", limit |-> limit, now |-> time] /\ Memory!GetPending(limit, time)
    BY <1>0, <1>2, GetPendingAgrees DEF CallGetPending, Calls
  <2>2. call'.op = "getPending" /\ call'.limit = limit /\ call'.now = time
    BY <2>1
  <2> QED BY <2>1, <2>2 DEF Memory!Next, Memory!Serve
<1>3. CASE CallList(time)
  <2>1. call' = [op |-> "list"] /\ Memory!List
    BY <1>0, <1>3, ListAgrees DEF CallList, Calls
  <2>2. call'.op = "list"
    BY <2>1
  <2> QED BY <2>1, <2>2 DEF Memory!Next, Memory!Serve
<1> QED BY <1>1, <1>2, <1>3

LEMMA ListingNames ==
    ASSUME NEW time \in Nat,
           \/ \E before, limit \in Nat : CallGetRecoverable(before, limit, time)
           \/ \E limit \in Nat : CallGetPending(limit, time)
           \/ CallList(time)
    PROVE  call'.op \in {"getPending", "getRecoverable", "list"}
BY DEF CallGetRecoverable, CallGetPending, CallList, Calls

LEMMA StepAgrees ==
    ASSUME StorageInv, FitsLimit, Reports, ~SameInstant, [Next]_vars
    PROVE  [Memory!Next]_<<Tasks(table), call, answer>>
<1>1. CASE UNCHANGED vars
  BY <1>1 DEF vars
<1>2. CASE Next
  <2>1. PICK time \in Nat : now' = time /\ SomeCall(time)
    BY <1>2, StepIsCall
  <2> QED BY <2>1, WritingAgrees, ChangingAgrees, ReadingAgrees, ListingAgrees DEF SomeCall
<1> QED BY <1>1, <1>2

(* With a driver that reports the rows affected, no two rows of one        *)
(* instant and no more rows than the default limit, whatever is called and *)
(* however old the copy it writes: SQLite answers and leaves what the      *)
(* memory adapter would.                                                   *)
THEOREM Refinement ==
    ASSUME Reports, ~SameInstant
    PROVE  Spec /\ []FitsLimit => ImplementsMemory
<1>1. Init => Memory!Init
  <2>1. Tasks(Nothing) = Nothing
    BY DEF Tasks, Nothing
  <2> QED BY <2>1, SameOperators DEF Init, Memory!Init
<1>2. StorageInv /\ FitsLimit /\ [Next]_vars => [Memory!Next]_<<Tasks(table), call, answer>>
  BY StepAgrees
<1> QED BY <1>1, <1>2, Invariant, PTL DEF Spec, ImplementsMemory, Memory!Spec

(* Two rows of one instant, or more rows than the default limit, can be    *)
(* told only by a call that lists rows: with a driver that reports the     *)
(* rows affected, every other call answers and leaves what the memory      *)
(* adapter would.                                                          *)
THEOREM OnlyListingsDiffer ==
    ASSUME Reports
    PROVE  Spec => [][call'.op \in {"getPending", "getRecoverable", "list"} \/ Memory!Next]_vars
<1>1. StorageInv /\ [Next]_vars =>
         [call'.op \in {"getPending", "getRecoverable", "list"} \/ Memory!Next]_vars
  <2> SUFFICES ASSUME StorageInv, Next
               PROVE  call'.op \in {"getPending", "getRecoverable", "list"} \/ Memory!Next
    OBVIOUS
  <2>1. PICK time \in Nat : now' = time /\ SomeCall(time)
    BY StepIsCall
  <2> QED BY <2>1, WritingAgrees, ChangingAgrees, ReadingAgrees, ListingNames DEF SomeCall
<1> QED BY <1>1, Invariant, PTL DEF Spec
==============================================================================
