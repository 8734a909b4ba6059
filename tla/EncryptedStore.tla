--------------------------- MODULE EncryptedStore ---------------------------
(***************************************************************************)
(* The save path and the caches of EncryptedStore (T2Crypto/               *)
(* EncryptedStore.m), a Core Data incremental store over one SQLCipher     *)
(* connection: handing out object identifiers, serving and counting        *)
(* faults, and a save request run statement by statement inside            *)
(* performInTransaction, with the ways SQLite lets a statement fail.       *)
(*                                                                         *)
(* One root entity's table is modelled.  Core Data calls a store under its *)
(* coordinator's lock, so other contexts never run inside a save; the one  *)
(* that saves may fire a fault there.  A context is seen through the calls *)
(* it makes (register, fault, save, unregister).                           *)
(* Many-to-many rows are written in module StoreRelations.                 *)
(***************************************************************************)
EXTENDS StoreData

CONSTANTS
  MaxRegistrations,  \* bound on the contexts that hold one object
  MaxVersion,        \* bound on the version of a cached node
  NoNode,            \* marks an identifier without a cached node
  Failures           \* the ways SQLite calls may fail, see FailureKinds

(***************************************************************************)
(* "busy"          BEGIN EXCLUSIVE returns an error                        *)
(* "statement"     an INSERT, UPDATE or DELETE fails, alone                *)
(* "autorollback"  one fails with FULL, IOERR or NOMEM: SQLite rolls the   *)
(*                 whole transaction back and returns to autocommit mode   *)
(* "commit"        COMMIT fails and SQLite rolls back                      *)
(* "prepare"       BEGIN, COMMIT or ROLLBACK cannot be prepared: the       *)
(*                 statement is NULL, and finalizing NULL returns OK       *)
(* "read"          SELECT MAX(__objectID) fails                            *)
(***************************************************************************)
FailureKinds ==
  {"busy", "statement", "autorollback", "commit", "prepare", "read"}

ASSUME StoreAssumption ==
  /\ MaxRegistrations \in Nat
  /\ MaxVersion \in Nat
  /\ Failures \subseteq FailureKinds

Node == [version : Nat \ {0}, values : Row]

ASSUME NodeAssumption == NoNode \notin Node

VARIABLES
  \* The database file, and the connection's view of it.
  disk,              \* the committed rows
  rows,              \* the rows this connection sees
  inTransaction,     \* sqlite3_get_autocommit() = 0
  \* The store object.
  objectIDCache,     \* last identifier handed out; 0 when the cache is empty
  objectCountCache,  \* registrations of each object
  nodeCache,         \* the node objects served for faults
  \* The save in progress (executeRequest:, one at a time).
  stage,             \* "idle", "begin" or "block"
  request,           \* what it asks for each object
  pending,           \* the objects whose statement has not run yet
  failed,            \* some handler of the block returned NO
  reply,             \* what the last request was answered
  localNodeCache,    \* the objects in the save's copy of nodeCache; the node
                     \* objects themselves are shared with nodeCache
  \* What the contexts know.
  allocated,         \* identifiers of inserted objects not saved yet
  served,            \* nodes served since the object was last unregistered,
                     \* or a save took its node out of the cache
  spoiled            \* objects whose cached node may be out of step: a failed
                     \* save updated it, or it belongs to a deleted object
                     \* whose identifier was handed out again

connection == <<disk, rows, inTransaction>>
caches     == <<objectIDCache, objectCountCache, nodeCache>>
save       == <<stage, request, pending, failed, reply, localNodeCache>>
contexts   == <<allocated, served, spoiled>>
vars       == <<connection, caches, save, contexts>>

TypeOK ==
  /\ disk \in Table
  /\ rows \in Table
  /\ inTransaction \in BOOLEAN
  /\ objectIDCache \in Nat
  /\ objectCountCache \in [Ids -> Nat]
  /\ nodeCache \in [Ids -> Node \cup {NoNode}]
  /\ stage \in {"idle", "begin", "block"}
  /\ request \in Requests
  /\ pending \in SUBSET Ids
  /\ failed \in BOOLEAN
  /\ reply \in {"none", "pending", "saved", "failed"}
  /\ localNodeCache \in SUBSET Ids
  /\ allocated \in SUBSET Ids
  /\ served \in [Ids -> SUBSET Node]
  /\ spoiled \in SUBSET Ids

\* A store object just opened on an empty file.
Init ==
  /\ disk = EmptyTable
  /\ rows = EmptyTable
  /\ inTransaction = FALSE
  /\ objectIDCache = 0
  /\ objectCountCache = [i \in Ids |-> 0]
  /\ nodeCache = [i \in Ids |-> NoNode]
  /\ stage = "idle"
  /\ request = NoRequest
  /\ pending = {}
  /\ failed = FALSE
  /\ reply = "none"
  /\ localNodeCache = {}
  /\ allocated = {}
  /\ served = [i \in Ids |-> {}]
  /\ spoiled = {}
-----------------------------------------------------------------------------
(***************************************************************************)
(* Object identifiers (obtainPermanentIDsForObjects:).                     *)
(***************************************************************************)

\* SELECT MAX(__objectID): 0 for an empty table.
IsMaximumRow(m, table) ==
  /\ m # 0 => table[m] # NoRow
  /\ \A i \in Ids : table[i] # NoRow => i <= m

\* Mutant: a store opened again counts from 1, without asking the table.
IsLastObjectIDForgetsTable(last, readFails) == last = objectIDCache

\* The value maximumObjectIDInTable adds one to.  A read that fails leaves
\* it nil, which counts as 0.
IsLastObjectID(last, readFails) ==
  IF objectIDCache # 0 THEN last = objectIDCache
  ELSE IF readFails THEN last = 0 ELSE IsMaximumRow(last, rows)

ObtainPermanentID ==
  /\ stage = "idle"
  /\ \E readFails \in BOOLEAN, next \in Ids :
       /\ readFails => "read" \in Failures
       /\ IsLastObjectID(next - 1, readFails)
       /\ objectIDCache' = next
       /\ allocated' = allocated \cup {next}
       /\ spoiled' = IF nodeCache[next] = NoNode THEN spoiled
                                                 ELSE spoiled \cup {next}
  /\ UNCHANGED <<connection, objectCountCache, nodeCache, save, served>>
-----------------------------------------------------------------------------
(***************************************************************************)
(* Faults and registrations.                                               *)
(***************************************************************************)

\* A context registers an object it fetched, or one another context holds.
DidRegister(i) ==
  /\ stage = "idle"
  /\ rows[i] # NoRow \/ objectCountCache[i] > 0
  /\ objectCountCache[i] < MaxRegistrations
  /\ objectCountCache' = [objectCountCache EXCEPT ![i] = @ + 1]
  /\ UNCHANGED <<connection, objectIDCache, nodeCache, save, contexts>>

\* Mutant: an object that is not registered is counted down too.
DidUnregisterUnguarded(i) ==
  /\ stage = "idle"
  /\ objectCountCache' = [objectCountCache EXCEPT ![i] = @ - 1]
  /\ UNCHANGED <<connection, objectIDCache, nodeCache, save, contexts>>

\* Mutant: the first context to let go already takes the node out.
DidUnregisterDropsNode(i) ==
  /\ stage = "idle"
  /\ objectCountCache[i] > 0
  /\ objectCountCache' = [objectCountCache EXCEPT ![i] = @ - 1]
  /\ nodeCache' = [nodeCache EXCEPT ![i] = NoNode]
  /\ served' = IF objectCountCache[i] = 1 THEN [served EXCEPT ![i] = {}] ELSE served
  /\ UNCHANGED <<connection, objectIDCache, save, allocated, spoiled>>

\* The last context to let go of an object takes its node out of the cache.
DidUnregister(i) ==
  /\ stage = "idle"
  /\ objectCountCache[i] > 0
  /\ objectCountCache' = [objectCountCache EXCEPT ![i] = @ - 1]
  /\ IF objectCountCache[i] = 1
     THEN /\ nodeCache' = [nodeCache EXCEPT ![i] = NoNode]
          /\ served' = [served EXCEPT ![i] = {}]
          /\ spoiled' = spoiled \ {i}
     ELSE UNCHANGED <<nodeCache, served, spoiled>>
  /\ UNCHANGED <<connection, objectIDCache, save, allocated>>

\* The node newValuesForObjectWithID answers: the cached one, or version 1 of
\* the row.
FaultNode(i) ==
  IF nodeCache[i] # NoNode THEN nodeCache[i]
                           ELSE [version |-> 1, values |-> rows[i]]

ServeFault(i) ==
  /\ objectCountCache[i] > 0
  /\ nodeCache[i] # NoNode \/ rows[i] # NoRow
  /\ nodeCache' = [nodeCache EXCEPT ![i] = FaultNode(i)]
  /\ served' = [served EXCEPT ![i] = @ \cup {FaultNode(i)}]
  /\ UNCHANGED <<connection, objectIDCache, objectCountCache, save,
                 allocated, spoiled>>

NewValuesForObject(i) == stage = "idle" /\ ServeFault(i)
-----------------------------------------------------------------------------
(***************************************************************************)
(* Saving.  Core Data inserts the objects it obtained identifiers for, and *)
(* updates and deletes objects that are registered; another context may    *)
(* have deleted them in the meantime.                                      *)
(***************************************************************************)
VersionBelow(node, bound) == node # NoNode => node.version < bound

Savable(req) ==
  /\ OfType(req, "insert") \subseteq allocated
  /\ \A i \in OfType(req, "update") \cup OfType(req, "delete") :
       i \notin allocated /\ objectCountCache[i] > 0
  /\ \A i \in OfType(req, "update") : VersionBelow(nodeCache[i], MaxVersion)

ExecuteSaveRequest(req) ==
  /\ stage = "idle"
  /\ req # NoRequest
  /\ Savable(req)
  /\ stage' = "begin"
  /\ request' = req
  /\ pending' = Ids \ OfType(req, "keep")
  /\ failed' = FALSE
  /\ reply' = "pending"
  /\ localNodeCache' = {i \in Ids : nodeCache[i] # NoNode}
  /\ UNCHANGED <<connection, caches, contexts>>

\* The nodes of nodeCache that the save's copy has not: they were cached since.
LateNodes == {i \in Ids \ localNodeCache : nodeCache[i] # NoNode}

\* performInTransaction answers.  The versions the block gave to nodes are kept
\* either way, as the node objects are shared; but after a save that succeeded
\* the copy takes the place of nodeCache, without the late nodes.
Answer(answer) ==
  /\ stage' = "idle"
  /\ reply' = answer
  /\ request' = NoRequest
  /\ pending' = {}
  /\ failed' = FALSE
  /\ localNodeCache' = {}
  /\ UNCHANGED <<objectIDCache, objectCountCache>>
  /\ IF answer = "saved"
     THEN /\ nodeCache' = [i \in Ids |-> IF i \in LateNodes THEN NoNode
                                                          ELSE nodeCache[i]]
          /\ served' = [i \in Ids |-> IF i \in LateNodes THEN {} ELSE served[i]]
          /\ allocated' = allocated \ OfType(request, "insert")
          /\ UNCHANGED spoiled
     ELSE /\ spoiled' = spoiled \cup
                          {i \in OfType(request, "update") : nodeCache[i] # NoNode}
          /\ UNCHANGED <<nodeCache, served, allocated>>

BeginTransaction ==
  /\ stage = "begin"
  /\ \/ ~inTransaction /\ inTransaction' = TRUE
     \/ "prepare" \in Failures /\ UNCHANGED inTransaction
  /\ stage' = "block"
  /\ UNCHANGED <<disk, rows, caches, request, pending, failed, reply,
                 localNodeCache, contexts>>

\* BEGIN fails when a transaction is still open, or the file is locked.
BeginFails ==
  /\ stage = "begin"
  /\ inTransaction \/ "busy" \in Failures
  /\ Answer("failed")
  /\ UNCHANGED connection
-----------------------------------------------------------------------------
(***************************************************************************)
(* The block: the insert handler, then the update handler, then the delete *)
(* handler, each over its objects in no particular order.  A handler stops *)
(* at its first failure, and the next one runs all the same.               *)
(***************************************************************************)
Pending(t) == pending \cap OfType(request, t)

CurrentHandler ==
  CASE Pending("insert") # {} -> "insert"
    [] Pending("insert") = {} /\ Pending("update") # {} -> "update"
    [] OTHER -> "delete"

InHandler(t) == stage = "block" /\ pending # {} /\ CurrentHandler = t

\* A statement outside a transaction is durable at once.
Write(i, new) ==
  /\ rows' = [rows EXCEPT ![i] = new]
  /\ disk' = IF inTransaction THEN disk ELSE rows'
  /\ UNCHANGED inTransaction

Done(i) ==
  /\ pending' = pending \ {i}
  /\ UNCHANGED <<stage, request, failed, reply, localNodeCache>>

InsertObject(i) ==
  /\ InHandler("insert")
  /\ i \in Pending("insert")
  /\ rows[i] = NoRow
  /\ Write(i, request[i].row)
  /\ Done(i)
  /\ UNCHANGED <<caches, contexts>>

\* Mutant: a node that takes the new version and keeps its values.
UpdateNodeKeepsValues(node, ch) == [node EXCEPT !.version = @ + 1]

\* updateWithChangedValues:, on the node object both dictionaries hold.
UpdateNode(node, ch) ==
  [version |-> node.version + 1, values |-> Merge(node.values, ch)]

\* An UPDATE that matches no row succeeds.  With no changed column no
\* statement runs, and the node takes a new version all the same.
UpdateObject(i) ==
  /\ InHandler("update")
  /\ i \in Pending("update")
  /\ Write(i, ApplyOp(request[i], rows[i]))
  /\ nodeCache' = IF i \notin localNodeCache THEN nodeCache
                  ELSE [nodeCache EXCEPT ![i] = UpdateNode(@, request[i].changes)]
  /\ Done(i)
  /\ UNCHANGED <<objectIDCache, objectCountCache, contexts>>

DeleteObject(i) ==
  /\ InHandler("delete")
  /\ i \in Pending("delete")
  /\ Write(i, NoRow)
  /\ Done(i)
  /\ UNCHANGED <<caches, contexts>>

RunsStatement(i) ==
  request[i].type = "update" => ChangedKeys(request[i].changes) # {}

\* To find the order of an object it writes in the inverse relationship, a
\* handler asks the object a to-one relationship points to for a value; if that
\* one is a fault, Core Data fires it.
FaultInSave(i) ==
  /\ \E j \in Pending("insert") \cup Pending("update") :
       InHandler(request[j].type) /\ RunsStatement(j)
  /\ request[i].type = "keep"
  /\ ServeFault(i)

\* Mutants: a failure that is not reported, or that is tried again.
StopHandlerSilently(t) ==
  /\ pending' = pending \ OfType(request, t)
  /\ UNCHANGED <<stage, request, failed, reply, localNodeCache>>
StopHandlerRetries(t) ==
  /\ failed' = TRUE
  /\ UNCHANGED <<stage, request, pending, reply, localNodeCache>>

\* The handler of operation t gives up.
StopHandler(t) ==
  /\ failed' = TRUE
  /\ pending' = pending \ OfType(request, t)
  /\ UNCHANGED <<stage, request, reply, localNodeCache>>

\* A statement fails and the transaction goes on: the PRIMARY KEY refuses an
\* identifier that has a row, or the statement fails for its own reasons.
StatementFails(i) ==
  /\ InHandler(request[i].type)
  /\ i \in pending
  /\ RunsStatement(i)
  /\ \/ request[i].type = "insert" /\ rows[i] # NoRow
     \/ Failures \cap {"statement", "prepare"} # {}
  /\ StopHandler(request[i].type)
  /\ UNCHANGED <<connection, caches, contexts>>

\* A statement fails and takes the transaction with it.
StatementRollsBack(i) ==
  /\ InHandler(request[i].type)
  /\ i \in pending
  /\ RunsStatement(i)
  /\ "autorollback" \in Failures
  /\ rows' = disk
  /\ inTransaction' = FALSE
  /\ StopHandler(request[i].type)
  /\ UNCHANGED <<disk, caches, contexts>>
-----------------------------------------------------------------------------
(***************************************************************************)
(* The end of the transaction: COMMIT when no handler failed, ROLLBACK     *)
(* otherwise.  Either is an error when no transaction is open.             *)
(***************************************************************************)
BlockDone == stage = "block" /\ pending = {}

Commit ==
  /\ BlockDone
  /\ ~failed
  /\ inTransaction
  /\ disk' = rows
  /\ inTransaction' = FALSE
  /\ Answer("saved")
  /\ UNCHANGED rows

\* Mutant: a failed block returns without ending its transaction.
RollbackForgotten ==
  /\ BlockDone
  /\ inTransaction
  /\ failed
  /\ Answer("failed")
  /\ UNCHANGED connection

\* ROLLBACK, or a COMMIT that fails and rolls back.
Rollback ==
  /\ BlockDone
  /\ inTransaction
  /\ failed \/ "commit" \in Failures
  /\ rows' = disk
  /\ inTransaction' = FALSE
  /\ Answer("failed")
  /\ UNCHANGED disk

NoTransactionToEnd ==
  /\ BlockDone
  /\ ~inTransaction
  /\ Answer("failed")
  /\ UNCHANGED connection

\* The statement is NULL, so its finalize reports OK and the transaction,
\* if there is one, stays open.
EndNotPrepared ==
  /\ BlockDone
  /\ "prepare" \in Failures
  /\ Answer(IF failed THEN "failed" ELSE "saved")
  /\ UNCHANGED connection
-----------------------------------------------------------------------------
\* The process dies, or the store is deallocated, and the file is opened
\* again: SQLite recovers the committed rows and every cache is empty.
Reopen ==
  /\ rows' = disk
  /\ inTransaction' = FALSE
  /\ objectIDCache' = 0
  /\ objectCountCache' = [i \in Ids |-> 0]
  /\ nodeCache' = [i \in Ids |-> NoNode]
  /\ stage' = "idle"
  /\ request' = NoRequest
  /\ pending' = {}
  /\ failed' = FALSE
  /\ reply' = "none"
  /\ localNodeCache' = {}
  /\ allocated' = {}
  /\ served' = [i \in Ids |-> {}]
  /\ spoiled' = {}
  /\ UNCHANGED disk

Statement(i) ==
  \/ InsertObject(i)
  \/ UpdateObject(i)
  \/ DeleteObject(i)
  \/ StatementFails(i)
  \/ StatementRollsBack(i)

EndTransaction ==
  \/ Commit
  \/ Rollback
  \/ NoTransactionToEnd
  \/ EndNotPrepared

SaveStep ==
  \/ BeginTransaction
  \/ BeginFails
  \/ \E i \in Ids : Statement(i) \/ FaultInSave(i)
  \/ EndTransaction

Next ==
  \/ ObtainPermanentID
  \/ \E i \in Ids : DidRegister(i) \/ DidUnregister(i) \/ NewValuesForObject(i)
  \/ \E req \in Requests : ExecuteSaveRequest(req)
  \/ SaveStep
  \/ Reopen

Spec == Init /\ [][Next]_vars

\* executeRequest: runs to its end on the caller's thread.
FairSpec == Spec /\ WF_vars(SaveStep)
-----------------------------------------------------------------------------
(***************************************************************************)
(* Properties.                                                             *)
(***************************************************************************)
Abstract == INSTANCE AtomicStore WITH store <- disk

\* Saves are atomic and durable: the rows on disk change only in whole
\* requests, at the moment a save is answered "saved"; a save answered
\* "failed", or cut short by a crash, leaves them alone, and no insert lands
\* on an existing row (handleSaveChangesRequest, performInTransaction).
ImplementsAtomicStore == Abstract!Spec

\* A cached node answers a fault with what the row holds, unless it is spoiled
\* or the row is gone (nodeCache is kept in step by updateWithChangedValues
\* and never read again from the table while an object stays registered).
CacheCoherent ==
  stage = "idle" =>
    \A i \in Ids \ spoiled :
      nodeCache[i] # NoNode /\ rows[i] # NoRow => nodeCache[i].values = rows[i]

\* The version is all a context has to notice that an object it read was
\* saved by another one: while an object stays registered, two nodes served
\* with the same version have the same values, whatever saves failed between
\* (version+1 in updateWithChangedValues, objectCountCache).  A node cached
\* during a save is the exception: the save drops it, and the versions served
\* from then on start at 1 again and say nothing of those served before.
VersionsIdentifyValues ==
  \A i \in Ids : \A n, m \in served[i] :
    n.version = m.version => n.values = m.values

\* An identifier handed out for a new object has no row between saves, so the
\* PRIMARY KEY never refuses the object, not even after failed attempts to
\* save it (maximumObjectIDInTable, objectIDCache).
AllocatedIdsAreFree ==
  stage = "idle" => \A i \in allocated : rows[i] = NoRow

\* performInTransaction ends the transaction it began: once it has answered,
\* the connection has no transaction open, and faults read committed rows.
TransactionEnded ==
  stage = "idle" => ~inTransaction /\ rows = disk

\* performInTransaction runs its block inside the transaction it began: as
\* long as a statement of the block is still to run, the transaction is open.
BlockRunsInTransaction ==
  stage = "block" /\ pending # {} => inTransaction

\* What a request asks of one row is there after the answer "saved".
Honoured(op, old, new) ==
  CASE op.type = "insert" -> old = NoRow /\ new = op.row
    [] op.type = "update" -> new = ApplyOp(op, old)
    [] op.type = "delete" -> new = NoRow
    [] OTHER -> new = old

\* A save is answered "saved" only when the rows on disk at that moment carry
\* all of it, even when SQLite rolls transactions back on its own (the block's
\* insert && update && delete, and the error of a COMMIT without transaction).
SavedIsDurable ==
  [][reply = "pending" /\ reply' = "saved" =>
       \A i \in Ids : Honoured(request[i], disk[i], disk'[i])]_vars

\* Every save request is answered (or the process dies first).
SavesAreAnswered == stage # "idle" ~> stage = "idle"
-----------------------------------------------------------------------------
(***************************************************************************)
(* The inductive invariants behind the properties, proved in module        *)
(* EncryptedStore_proofs.                                                  *)
(***************************************************************************)

\* The save's copy of the node cache has cached nodes only, and those of all the
\* objects the request asks something for.
CopyInv ==
  /\ stage = "idle" => localNodeCache = {}
  /\ \A i \in localNodeCache : nodeCache[i] # NoNode
  /\ stage # "idle" =>
       \A i \in Ids : request[i].type # "keep" /\ nodeCache[i] # NoNode
                        => i \in localNodeCache

\* A request is pending exactly while a save runs.
RequestInv ==
  /\ stage = "idle" => reply # "pending" /\ request = NoRequest
  /\ stage # "idle" => reply = "pending"
  /\ stage = "begin" => ~failed /\ pending = Ids \ OfType(request, "keep")

\* Unless BEGIN or COMMIT were skipped, a transaction is open only inside the
\* block, and the block loses it only to a failure.
TransactionInv ==
  /\ stage # "block" => ~inTransaction
  /\ stage = "block" /\ ~failed => inTransaction
  /\ ~inTransaction => rows = disk

\* While no handler has failed, the connection sees the committed rows with
\* the statements that ran applied to them, and every insert found its place.
BlockInv ==
  stage = "block" /\ ~failed =>
    \A i \in Ids :
      /\ i \in pending => rows[i] = disk[i]
      /\ i \notin pending => /\ rows[i] = ApplyOp(request[i], disk[i])
                             /\ request[i].type = "insert" => disk[i] = NoRow

SaveInv == RequestInv /\ TransactionInv /\ BlockInv

\* The cached node is never behind a node that was served, and has the values
\* of every served node of its version.
ServedInv ==
  \A i \in Ids : \A n \in served[i] :
    /\ nodeCache[i] # NoNode
    /\ n.version <= nodeCache[i].version
    /\ n.version = nodeCache[i].version => n.values = nodeCache[i].values

\* A save inserts allocated identifiers, and updates and deletes others.
SplitInv ==
  \A i \in Ids : IF i \in allocated THEN request[i].type \in {"insert", "keep"}
                                    ELSE request[i].type # "insert"

\* The connection sees another row than the committed one only where the save
\* in progress wrote it.
ViewInv ==
  \A i \in Ids :
    \/ rows[i] = disk[i]
    \/ /\ stage = "block" /\ inTransaction /\ request[i].type # "keep"
       /\ request[i].type = "insert" => disk[i] = NoRow

Trusted(i) == i \notin spoiled /\ nodeCache[i] # NoNode

\* A trusted node has the values of the row, committed or, for an object being
\* updated by a save that has not failed, the one the connection sees.
NodeInv ==
  \A i \in Ids : Trusted(i) =>
    /\ i \in allocated => disk[i] # NoRow
    /\ disk[i] # NoRow /\ request[i].type # "update"
         => nodeCache[i].values = disk[i]
    /\ stage # "idle" /\ ~failed /\ rows[i] # NoRow /\ request[i].type = "update"
         => nodeCache[i].values = rows[i]

CacheInv == SplitInv /\ ViewInv /\ NodeInv

\* A block without its transaction has no insert left to run: the failure that
\* took the transaction came in the insert handler, which stopped, or later.
InsertInv == stage = "block" /\ ~inTransaction => Pending("insert") = {}

\* No row lies beyond the last identifier handed out, and an allocated
\* identifier has no committed row.
IdsInv ==
  /\ objectIDCache = 0 => allocated = {}
  /\ objectIDCache # 0 =>
       \A i \in Ids : rows[i] # NoRow \/ disk[i] # NoRow \/ i \in allocated
                        => i <= objectIDCache
  /\ \A i \in allocated : disk[i] = NoRow
==============================================================================
