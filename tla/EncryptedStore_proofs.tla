------------------------ MODULE EncryptedStore_proofs ------------------------
(***************************************************************************)
(* Proofs about EncryptedStore, for every table size, set of columns and   *)
(* values, bound, and set of SQLite failures named in each theorem.        *)
(***************************************************************************)
EXTENDS EncryptedStore, TLAPS

(***************************************************************************)
(* The data: what each operation of a request carries, and what it makes   *)
(* of a row.                                                               *)
(***************************************************************************)

\* An operation is of one of four types, and carries a row or changes.
LEMMA OpShape ==
  ASSUME NEW op \in Ops
  PROVE  /\ op.type \in {"insert", "update", "delete", "keep"}
         /\ op.type = "insert" => op.row \in Row
         /\ op.type = "update" => op.changes \in Changes
BY DEF Ops, Insert, Update, Delete, Keep

\* Changes merge into a row.
LEMMA MergeType ==
  ASSUME NEW row \in Row, NEW ch \in Changes
  PROVE  Merge(row, ch) \in Row
BY DEF Merge, Row, Changes

\* Any operation turns a row, or its absence, into a row or its absence.
LEMMA ApplyOpType ==
  ASSUME NEW op \in Ops, NEW old \in Row \cup {NoRow}
  PROVE  ApplyOp(op, old) \in Row \cup {NoRow}
<1>1. CASE op.type = "insert"
  BY <1>1, OpShape DEF ApplyOp
<1>2. CASE op.type = "update"
  <2>1. CASE old = NoRow
    BY <1>2, <2>1 DEF ApplyOp
  <2>2. CASE old # NoRow
    <3>1. ApplyOp(op, old) = Merge(old, op.changes)
      BY <1>2, <2>2 DEF ApplyOp
    <3> QED
      BY <1>2, <2>2, <3>1, OpShape, MergeType
  <2> QED BY <2>1, <2>2
<1>3. CASE op.type = "delete"
  BY <1>3 DEF ApplyOp
<1>4. CASE op.type = "keep"
  BY <1>4 DEF ApplyOp
<1> QED BY <1>1, <1>2, <1>3, <1>4, OpShape

\* The request that asks for nothing is a request.
LEMMA NoRequestType == NoRequest \in Requests
BY DEF NoRequest, Requests, Ops

\* A cached node keeps its shape when changes are merged into it.
LEMMA UpdateNodeType ==
  ASSUME NEW node \in Node, NEW ch \in Changes
  PROVE  UpdateNode(node, ch) \in Node
<1>1. node.version + 1 \in Nat \ {0} /\ node.values \in Row
  BY DEF Node
<1>2. Merge(node.values, ch) \in Row
  BY <1>1, MergeType
<1> QED BY <1>1, <1>2 DEF UpdateNode, Node
-----------------------------------------------------------------------------
(***************************************************************************)
(* Type correctness.                                                       *)
(***************************************************************************)

\* Answering a request keeps the variables of the save and the contexts typed.
LEMMA AnswerType ==
  ASSUME TypeOK, NEW answer \in {"saved", "failed"}, Answer(answer)
  PROVE  /\ UNCHANGED <<objectIDCache, objectCountCache>>
         /\ nodeCache' \in [Ids -> Node \cup {NoNode}]
         /\ served' \in [Ids -> SUBSET Node]
         /\ localNodeCache' \in SUBSET Ids
         /\ stage' = "idle"
         /\ request' \in Requests
         /\ pending' \in SUBSET Ids
         /\ failed' \in BOOLEAN
         /\ reply' = answer
         /\ allocated' \in SUBSET Ids
         /\ spoiled' \in SUBSET Ids
<1>1. request' \in Requests
  BY NoRequestType DEF Answer
<1>2. /\ allocated' \in SUBSET Ids /\ spoiled' \in SUBSET Ids
      /\ nodeCache' \in [Ids -> Node \cup {NoNode}]
      /\ served' \in [Ids -> SUBSET Node]
  <2>1. CASE answer = "saved"
    BY <2>1 DEF TypeOK, Answer
  <2>2. CASE answer = "failed"
    BY <2>2 DEF TypeOK, Answer, OfType
  <2> QED BY <2>1, <2>2
<1> QED BY <1>1, <1>2 DEF Answer

\* The statement of one object leaves a table with a row or none for it.
LEMMA WriteType ==
  ASSUME TypeOK, NEW i \in Ids, NEW new \in Row \cup {NoRow}, Write(i, new)
  PROVE  rows' \in Table /\ disk' \in Table /\ inTransaction' \in BOOLEAN
<1>1. rows' \in Table
  BY DEF TypeOK, Write, Table
<1> QED BY <1>1 DEF TypeOK, Write

\* Serving a fault caches a node.
LEMMA FaultType ==
  ASSUME TypeOK, NEW i \in Ids, ServeFault(i)
  PROVE  /\ FaultNode(i) \in Node
         /\ nodeCache' \in [Ids -> Node \cup {NoNode}]
         /\ served' \in [Ids -> SUBSET Node]
<1>1. FaultNode(i) \in Node
  BY DEF TypeOK, ServeFault, FaultNode, Node, Table
<1> QED BY <1>1 DEF TypeOK, ServeFault

\* The updated object of a request has changes for its node.
LEMMA UpdateShape ==
  ASSUME TypeOK, NEW i \in Ids, UpdateObject(i)
  PROVE  request[i] \in Ops /\ request[i].changes \in Changes
BY OpShape DEF TypeOK, UpdateObject, Pending, OfType, Requests

\* A node that an update reaches through the save's copy is cached, and stays so.
LEMMA UpdatedNodeType ==
  ASSUME TypeOK, CopyInv, NEW i \in Ids, UpdateObject(i), i \in localNodeCache
  PROVE  /\ nodeCache[i] \in Node
         /\ nodeCache'[i] = UpdateNode(nodeCache[i], request[i].changes)
         /\ nodeCache'[i] \in Node
<1>1. nodeCache[i] \in Node
  BY DEF TypeOK, CopyInv
<1>2. nodeCache'[i] = UpdateNode(nodeCache[i], request[i].changes)
  BY DEF TypeOK, UpdateObject
<1> QED BY <1>1, <1>2, UpdateShape, UpdateNodeType

\* Steps that leave the save, its copy and the node cache alone keep the copy
\* within the cache.
LEMMA CopyFrame ==
  ASSUME CopyInv, UNCHANGED <<nodeCache, localNodeCache, request>>,
         stage = "idle" <=> stage' = "idle"
  PROVE  CopyInv'
BY DEF CopyInv

\* An answer does away with the copy.
LEMMA AnswerEndsCopy ==
  ASSUME NEW answer \in {"saved", "failed"}, Answer(answer)
  PROVE  CopyInv'
BY DEF Answer, CopyInv

\* The copy stays within the node cache while a save runs.
LEMMA CopyStep ==
  ASSUME TypeOK, CopyInv, [Next]_vars
  PROVE  CopyInv'
<1>1. CASE ObtainPermanentID
  BY <1>1, CopyFrame DEF ObtainPermanentID, save
<1>2. ASSUME NEW i \in Ids, DidRegister(i) PROVE CopyInv'
  BY <1>2, CopyFrame DEF DidRegister, save
<1>3. ASSUME NEW i \in Ids, DidUnregister(i) PROVE CopyInv'
  BY <1>3 DEF DidUnregister, save, CopyInv
<1>4. ASSUME NEW i \in Ids, NewValuesForObject(i) PROVE CopyInv'
  BY <1>4 DEF NewValuesForObject, ServeFault, save, CopyInv
<1>5. ASSUME NEW req \in Requests, ExecuteSaveRequest(req) PROVE CopyInv'
  BY <1>5 DEF ExecuteSaveRequest, caches, CopyInv
<1>6. CASE BeginTransaction
  BY <1>6, CopyFrame DEF BeginTransaction, caches
<1>7. ASSUME NEW i \in Ids, FaultInSave(i) PROVE CopyInv'
  <2>1. /\ request[i].type = "keep" /\ UNCHANGED save
        /\ nodeCache' = [nodeCache EXCEPT ![i] = FaultNode(i)]
    BY <1>7 DEF FaultInSave, ServeFault
  <2>2. FaultNode(i) # NoNode
    BY <1>7, FaultType, NodeAssumption DEF FaultInSave
  <2> QED BY <2>1, <2>2 DEF CopyInv, TypeOK, save
<1>8. ASSUME NEW i \in Ids, UpdateObject(i) PROVE CopyInv'
  <2>1. UNCHANGED <<stage, request, localNodeCache>>
    BY <1>8 DEF UpdateObject, Done
  <2>2. CASE i \notin localNodeCache
    BY <1>8, <2>1, <2>2, CopyFrame DEF UpdateObject
  <2>3. CASE i \in localNodeCache
    <3>1. nodeCache'[i] # NoNode /\ nodeCache[i] # NoNode
      BY <1>8, <2>3, UpdatedNodeType, NodeAssumption
    <3>2. \A j \in Ids \ {i} : nodeCache'[j] = nodeCache[j]
      BY <1>8, <2>3 DEF UpdateObject, TypeOK
    <3> QED BY <2>1, <3>1, <3>2 DEF CopyInv, TypeOK
  <2> QED BY <2>2, <2>3
<1>9. ASSUME NEW i \in Ids,
             \/ InsertObject(i) \/ DeleteObject(i)
             \/ StatementFails(i) \/ StatementRollsBack(i)
      PROVE  CopyInv'
  BY <1>9, CopyFrame
     DEF InsertObject, DeleteObject, StatementFails, StatementRollsBack, Done,
         StopHandler, caches
<1>10. CASE BeginFails \/ EndTransaction
  BY <1>10, AnswerEndsCopy
     DEF BeginFails, EndTransaction, Commit, Rollback, NoTransactionToEnd,
         EndNotPrepared
<1>11. CASE Reopen
  BY <1>11 DEF Reopen, CopyInv
<1>12. CASE UNCHANGED vars
  BY <1>12, CopyFrame DEF vars, caches, save
<1> QED
  BY <1>1, <1>2, <1>3, <1>4, <1>5, <1>6, <1>7, <1>8, <1>9, <1>10, <1>11, <1>12
     DEF Next, SaveStep, Statement

\* Each step keeps the types.
LEMMA TypeStep ==
  ASSUME TypeOK, CopyInv, [Next]_vars
  PROVE  TypeOK'
<1>1. CASE ObtainPermanentID
  BY <1>1 DEF TypeOK, ObtainPermanentID, connection, save, Ids
<1>2. ASSUME NEW i \in Ids, DidRegister(i) PROVE TypeOK'
  BY <1>2 DEF TypeOK, DidRegister, connection, save, contexts
<1>3. ASSUME NEW i \in Ids, DidUnregister(i) PROVE TypeOK'
  <2>1. objectCountCache' \in [Ids -> Nat]
    BY <1>3 DEF TypeOK, DidUnregister
  <2>2. /\ nodeCache' \in [Ids -> Node \cup {NoNode}]
        /\ served' \in [Ids -> SUBSET Node]
        /\ spoiled' \in SUBSET Ids
    BY <1>3 DEF TypeOK, DidUnregister
  <2> QED BY <1>3, <2>1, <2>2 DEF TypeOK, DidUnregister, connection, save
<1>4. ASSUME NEW i \in Ids, NewValuesForObject(i) \/ FaultInSave(i)
      PROVE  TypeOK'
  <2>1. ServeFault(i)
    BY <1>4 DEF NewValuesForObject, FaultInSave
  <2> QED BY <2>1, FaultType DEF TypeOK, ServeFault, connection, save
<1>5. ASSUME NEW req \in Requests, ExecuteSaveRequest(req) PROVE TypeOK'
  BY <1>5 DEF TypeOK, ExecuteSaveRequest, connection, caches, contexts
<1>6. CASE BeginTransaction
  BY <1>6 DEF TypeOK, BeginTransaction, caches, contexts
<1>7. CASE BeginFails
  BY <1>7, AnswerType DEF TypeOK, BeginFails, connection, caches
<1>8. ASSUME NEW i \in Ids, InsertObject(i) PROVE TypeOK'
  <2>1. request[i].row \in Row
    BY <1>8, OpShape DEF TypeOK, InsertObject, Pending, OfType, Requests
  <2>2. rows' \in Table /\ disk' \in Table /\ inTransaction' \in BOOLEAN
    BY <1>8, <2>1, WriteType DEF InsertObject
  <2> QED
    BY <1>8, <2>2 DEF TypeOK, InsertObject, Done, caches, contexts
<1>9. ASSUME NEW i \in Ids, UpdateObject(i) PROVE TypeOK'
  <2>1. ApplyOp(request[i], rows[i]) \in Row \cup {NoRow}
    BY <1>9, UpdateShape, ApplyOpType DEF TypeOK, Table
  <2>2. rows' \in Table /\ disk' \in Table /\ inTransaction' \in BOOLEAN
    BY <1>9, <2>1, WriteType DEF UpdateObject
  <2>3. nodeCache' \in [Ids -> Node \cup {NoNode}]
    <3>1. CASE i \notin localNodeCache
      BY <1>9, <3>1 DEF TypeOK, UpdateObject
    <3>2. CASE i \in localNodeCache
      BY <1>9, <3>2, UpdatedNodeType DEF TypeOK, UpdateObject
    <3> QED BY <3>1, <3>2
  <2> QED
    BY <1>9, <2>2, <2>3 DEF TypeOK, UpdateObject, Done, contexts
<1>10. ASSUME NEW i \in Ids, DeleteObject(i) PROVE TypeOK'
  <2>1. rows' \in Table /\ disk' \in Table /\ inTransaction' \in BOOLEAN
    BY <1>10, WriteType DEF DeleteObject
  <2> QED
    BY <1>10, <2>1 DEF TypeOK, DeleteObject, Done, caches, contexts
<1>11. ASSUME NEW i \in Ids, StatementFails(i) PROVE TypeOK'
  BY <1>11 DEF TypeOK, StatementFails, StopHandler, connection, caches, contexts
<1>12. ASSUME NEW i \in Ids, StatementRollsBack(i) PROVE TypeOK'
  BY <1>12 DEF TypeOK, StatementRollsBack, StopHandler, caches, contexts
<1>13. CASE Commit
  BY <1>13, AnswerType DEF TypeOK, Commit, caches
<1>14. CASE Rollback
  BY <1>14, AnswerType DEF TypeOK, Rollback, caches
<1>15. CASE NoTransactionToEnd
  BY <1>15, AnswerType DEF TypeOK, NoTransactionToEnd, connection, caches
<1>16. CASE EndNotPrepared
  BY <1>16, AnswerType DEF TypeOK, EndNotPrepared, connection, caches
<1>17. CASE Reopen
  BY <1>17, NoRequestType DEF TypeOK, Reopen
<1>18. CASE UNCHANGED vars
  BY <1>18 DEF TypeOK, vars, connection, caches, save, contexts
<1> QED
  BY <1>1, <1>2, <1>3, <1>4, <1>5, <1>6, <1>7, <1>8, <1>9, <1>10, <1>11,
     <1>12, <1>13, <1>14, <1>15, <1>16, <1>17, <1>18
     DEF Next, SaveStep, Statement, EndTransaction

\* Every variable of the store keeps its type, whatever fails, and the save's
\* copy of the node cache stays within it.
LEMMA TypesAndCopies == Spec => [](TypeOK /\ CopyInv)
<1>1. Init => TypeOK
  <2> SUFFICES ASSUME Init PROVE TypeOK
    OBVIOUS
  <2>1. disk \in Table /\ rows \in Table
    BY DEF Init, Table, EmptyTable
  <2>2. nodeCache \in [Ids -> Node \cup {NoNode}]
    BY DEF Init
  <2>3. served \in [Ids -> SUBSET Node]
    BY DEF Init
  <2>4. objectCountCache \in [Ids -> Nat]
    BY DEF Init
  <2> QED BY <2>1, <2>2, <2>3, <2>4, NoRequestType DEF Init, TypeOK
<1>2. Init => CopyInv
  BY DEF Init, CopyInv
<1>3. TypeOK /\ CopyInv /\ [Next]_vars => TypeOK' /\ CopyInv'
  BY TypeStep, CopyStep
<1> QED BY <1>1, <1>2, <1>3, PTL DEF Spec

\* Every variable of the store keeps its type, whatever fails.
THEOREM TypeCorrect == Spec => []TypeOK
BY TypesAndCopies, PTL
-----------------------------------------------------------------------------
(***************************************************************************)
(* Versions.  A node object stays in the cache while its object is         *)
(* registered, unless a save drops it, and each update gives it the next   *)
(* version, so no version is served with two contents in between.          *)
(***************************************************************************)

\* Only these actions touch what is cached or served.
LEMMA ServedFrame ==
  ASSUME ServedInv, VersionsIdentifyValues, UNCHANGED <<nodeCache, served>>
  PROVE  ServedInv' /\ VersionsIdentifyValues'
BY DEF ServedInv, VersionsIdentifyValues

\* Whatever SQLite calls fail, two nodes served with the same version while
\* their object stays registered, and no save drops its node, have the same
\* values.
THEOREM VersionsAgree == Spec => []VersionsIdentifyValues
<1> DEFINE Inv == ServedInv /\ VersionsIdentifyValues
<1>1. Init => Inv
  BY DEF Init, ServedInv, VersionsIdentifyValues
<1>2. TypeOK /\ CopyInv /\ Inv /\ [Next]_vars => Inv'
  <2> SUFFICES ASSUME TypeOK, CopyInv, ServedInv, VersionsIdentifyValues,
                      [Next]_vars
               PROVE  Inv'
    OBVIOUS
  <2>1. CASE ObtainPermanentID
    BY <2>1, ServedFrame DEF ObtainPermanentID
  <2>2. ASSUME NEW i \in Ids, DidRegister(i) PROVE Inv'
    BY <2>2, ServedFrame DEF DidRegister, contexts
  <2>3. ASSUME NEW i \in Ids, DidUnregister(i) PROVE Inv'
    <3>1. CASE objectCountCache[i] = 1
      <4>1. /\ served'[i] = {}
            /\ \A j \in Ids \ {i} : /\ served'[j] = served[j]
                                    /\ nodeCache'[j] = nodeCache[j]
        BY <2>3, <3>1 DEF DidUnregister, TypeOK
      <4> QED BY <4>1 DEF ServedInv, VersionsIdentifyValues
    <3>2. CASE objectCountCache[i] # 1
      BY <2>3, <3>2, ServedFrame DEF DidUnregister
    <3> QED BY <3>1, <3>2
  <2>4. ASSUME NEW i \in Ids, NewValuesForObject(i) \/ FaultInSave(i) PROVE Inv'
    <3> ServeFault(i)
      BY <2>4 DEF NewValuesForObject, FaultInSave
    <3>1. /\ nodeCache'[i] = FaultNode(i)
          /\ served'[i] = served[i] \cup {FaultNode(i)}
          /\ \A j \in Ids \ {i} : /\ served'[j] = served[j]
                                  /\ nodeCache'[j] = nodeCache[j]
      BY DEF ServeFault, TypeOK
    <3>2. FaultNode(i) # NoNode /\ FaultNode(i) \in Node
      BY FaultType, NodeAssumption
    <3>3. \A n \in served[i] : nodeCache[i] # NoNode /\ FaultNode(i) = nodeCache[i]
      BY DEF ServedInv, FaultNode
    <3>4. ServedInv'
      <4>1. \A n \in served'[i] :
              /\ n.version <= FaultNode(i).version
              /\ n.version = FaultNode(i).version => n.values = FaultNode(i).values
        <5>1. FaultNode(i).version <= FaultNode(i).version
          BY <3>2 DEF Node
        <5> QED BY <3>1, <3>3, <5>1 DEF ServedInv
      <4> QED BY <3>1, <3>2, <4>1 DEF ServedInv
    <3>5. VersionsIdentifyValues'
      <4>1. \A n, m \in served'[i] : n.version = m.version => n.values = m.values
        BY <3>1, <3>3 DEF ServedInv, VersionsIdentifyValues
      <4> QED BY <3>1, <4>1 DEF VersionsIdentifyValues
    <3> QED BY <3>4, <3>5
  <2>5. ASSUME NEW req \in Requests, ExecuteSaveRequest(req) PROVE Inv'
    BY <2>5, ServedFrame DEF ExecuteSaveRequest, caches, contexts
  <2>6. CASE BeginTransaction
    BY <2>6, ServedFrame DEF BeginTransaction, caches, contexts
  <2>7. ASSUME NEW i \in Ids, UpdateObject(i) PROVE Inv'
    <3>1. served' = served
      BY <2>7 DEF UpdateObject, contexts
    <3>2. CASE i \notin localNodeCache
      BY <2>7, <3>1, <3>2, ServedFrame DEF UpdateObject
    <3>3. CASE i \in localNodeCache
      <4>1. nodeCache[i].version \in Nat
        BY <2>7, <3>3, UpdatedNodeType DEF Node
      <4>2. /\ nodeCache'[i] = UpdateNode(nodeCache[i], request[i].changes)
            /\ \A j \in Ids \ {i} : nodeCache'[j] = nodeCache[j]
        BY <2>7, <3>3 DEF UpdateObject, TypeOK
      <4>3. nodeCache'[i].version = nodeCache[i].version + 1
        BY <4>2 DEF UpdateNode
      <4>4. nodeCache'[i] # NoNode
        BY <2>7, <3>3, UpdatedNodeType, NodeAssumption
      <4>5. \A n \in served[i] : n.version \in Nat /\ n.version <= nodeCache[i].version
        BY DEF ServedInv, TypeOK, Node
      <4>6. \A n \in served[i] : n.version < nodeCache'[i].version
        BY <4>1, <4>3, <4>5
      <4>7. \A n \in served[i] : n.version <= nodeCache'[i].version
                                   /\ n.version # nodeCache'[i].version
        BY <4>1, <4>3, <4>5, <4>6
      <4>8. ServedInv'
        BY <3>1, <4>2, <4>4, <4>7 DEF ServedInv
      <4> QED BY <3>1, <4>8 DEF VersionsIdentifyValues
    <3> QED BY <3>2, <3>3
  <2>8. ASSUME NEW i \in Ids,
               \/ InsertObject(i) \/ DeleteObject(i)
               \/ StatementFails(i) \/ StatementRollsBack(i)
        PROVE  Inv'
    BY <2>8, ServedFrame
       DEF InsertObject, DeleteObject, StatementFails, StatementRollsBack,
           caches, contexts
  <2>9. CASE BeginFails \/ EndTransaction
    <3>1. PICK answer \in {"saved", "failed"} : Answer(answer)
      BY <2>9 DEF BeginFails, EndTransaction, Commit, Rollback,
                  NoTransactionToEnd, EndNotPrepared
    <3>2. CASE answer = "failed"
      BY <3>1, <3>2, ServedFrame DEF Answer
    <3>3. CASE answer = "saved"
      <4>1. \A i \in Ids : \/ served'[i] = {}
                           \/ served'[i] = served[i] /\ nodeCache'[i] = nodeCache[i]
        BY <3>1, <3>3 DEF Answer
      <4> QED BY <4>1 DEF ServedInv, VersionsIdentifyValues
    <3> QED BY <3>2, <3>3
  <2>10. CASE Reopen
    BY <2>10 DEF Reopen, ServedInv, VersionsIdentifyValues
  <2>11. CASE UNCHANGED vars
    BY <2>11, ServedFrame DEF vars, caches, contexts
  <2> QED
    BY <2>1, <2>2, <2>3, <2>4, <2>5, <2>6, <2>7, <2>8, <2>9, <2>10, <2>11
       DEF Next, SaveStep, Statement
<1> QED BY <1>1, <1>2, TypesAndCopies, PTL DEF Spec
-----------------------------------------------------------------------------
(***************************************************************************)
(* The transaction around a save.                                          *)
(***************************************************************************)

\* The steps that leave the connection and the save alone keep its invariant.
LEMMA SaveFrame ==
  ASSUME SaveInv, UNCHANGED <<connection, save>>
  PROVE  SaveInv'
BY DEF SaveInv, RequestInv, TransactionInv, BlockInv, connection, save, OfType

\* So does an answer that leaves no transaction open.
LEMMA AnswerEndsSave ==
  ASSUME NEW answer \in {"saved", "failed"}, Answer(answer),
         ~inTransaction', rows' = disk'
  PROVE  SaveInv'
BY DEF Answer, SaveInv, RequestInv, TransactionInv, BlockInv

\* In its block, a save that has not failed keeps the invariant when one more
\* statement turns the row of its object into what the request asks for.
LEMMA StatementRuns ==
  ASSUME TypeOK, SaveInv, stage = "block", NEW i \in pending,
         request[i].type = "insert" => rows[i] = NoRow,
         Write(i, ApplyOp(request[i], rows[i])), Done(i)
  PROVE  SaveInv'
<1>1. RequestInv'
  BY DEF SaveInv, RequestInv, Done
<1>2. TransactionInv'
  BY DEF SaveInv, TransactionInv, Write, Done
<1>3. BlockInv'
  <2> SUFFICES ASSUME ~failed, NEW j \in Ids
               PROVE  /\ j \in pending' => rows'[j] = disk[j]
                      /\ j \notin pending' =>
                           /\ rows'[j] = ApplyOp(request[j], disk[j])
                           /\ request[j].type = "insert" => disk[j] = NoRow
    <3>1. disk' = disk \/ failed
      BY DEF SaveInv, TransactionInv, Write
    <3> QED BY <3>1 DEF BlockInv, Done
  <2>1. i \in Ids /\ rows[i] = disk[i]
    BY DEF TypeOK, SaveInv, BlockInv
  <2>2. CASE j = i
    BY <2>1, <2>2 DEF Write, Done, TypeOK, Table
  <2>3. CASE j # i
    BY <2>1, <2>3 DEF SaveInv, BlockInv, Write, Done, TypeOK, Table
  <2> QED BY <2>2, <2>3
<1> QED BY <1>1, <1>2, <1>3 DEF SaveInv

\* As long as BEGIN and COMMIT can be prepared, the connection shows the
\* committed rows outside a save and those with the statements run in a save.
LEMMA SaveInvariant ==
  ASSUME "prepare" \notin Failures
  PROVE  Spec => []SaveInv
<1>1. Init => SaveInv
  BY DEF Init, SaveInv, RequestInv, TransactionInv, BlockInv
<1>2. TypeOK /\ SaveInv /\ [Next]_vars => SaveInv'
  <2> SUFFICES ASSUME TypeOK, SaveInv, [Next]_vars PROVE SaveInv'
    OBVIOUS
  <2>1. CASE ObtainPermanentID
    BY <2>1, SaveFrame DEF ObtainPermanentID
  <2>2. ASSUME NEW i \in Ids,
               \/ DidRegister(i) \/ DidUnregister(i)
               \/ NewValuesForObject(i) \/ FaultInSave(i)
        PROVE  SaveInv'
    BY <2>2, SaveFrame
       DEF DidRegister, DidUnregister, NewValuesForObject, FaultInSave, ServeFault
  <2>3. ASSUME NEW req \in Requests, ExecuteSaveRequest(req) PROVE SaveInv'
    <3>1. rows' = rows /\ disk' = disk /\ inTransaction' = inTransaction
      BY <2>3 DEF ExecuteSaveRequest, connection
    <3>2. pending' = Ids \ OfType(req, "keep") /\ request' = req
      BY <2>3 DEF ExecuteSaveRequest
    <3> QED
      BY <2>3, <3>1, <3>2
         DEF ExecuteSaveRequest, SaveInv, RequestInv, TransactionInv, BlockInv, OfType
  <2>4. CASE BeginTransaction
    <3>1. /\ inTransaction' = TRUE /\ rows' = disk /\ disk' = disk
          /\ ~failed /\ pending = Ids \ OfType(request, "keep")
          /\ UNCHANGED <<request, pending, failed, reply>> /\ stage' = "block"
          /\ rows = disk
      BY <2>4 DEF BeginTransaction, SaveInv, TransactionInv, RequestInv
    <3>2. \A i \in Ids : i \notin pending => request[i].type = "keep"
      BY <3>1 DEF OfType
    <3>3. \A i \in Ids : i \notin pending => ApplyOp(request[i], disk[i]) = disk[i]
      BY <3>2 DEF ApplyOp
    <3>4. BlockInv'
      BY <3>1, <3>2, <3>3 DEF BlockInv
    <3> QED
      BY <2>4, <3>1, <3>4 DEF BeginTransaction, SaveInv, RequestInv, TransactionInv
  <2>5. CASE BeginFails
    <3>1. ~inTransaction /\ rows = disk
      BY <2>5 DEF BeginFails, SaveInv, TransactionInv
    <3> QED BY <2>5, <3>1, AnswerEndsSave DEF BeginFails, connection
  <2>6. ASSUME NEW i \in Ids, InsertObject(i) PROVE SaveInv'
    <3>1. /\ stage = "block" /\ i \in pending /\ request[i].type = "insert"
          /\ rows[i] = NoRow
          /\ Write(i, request[i].row) /\ Done(i)
      BY <2>6 DEF InsertObject, InHandler, Pending, OfType
    <3>2. request[i].row = ApplyOp(request[i], rows[i])
      BY <3>1 DEF ApplyOp
    <3> QED BY <3>1, <3>2, StatementRuns
  <2>7. ASSUME NEW i \in Ids, UpdateObject(i) PROVE SaveInv'
    <3>1. /\ stage = "block" /\ i \in pending /\ request[i].type = "update"
          /\ Write(i, ApplyOp(request[i], rows[i])) /\ Done(i)
      BY <2>7 DEF UpdateObject, InHandler, Pending, OfType
    <3> QED BY <3>1, StatementRuns
  <2>8. ASSUME NEW i \in Ids, DeleteObject(i) PROVE SaveInv'
    <3>1. /\ stage = "block" /\ i \in pending /\ request[i].type = "delete"
          /\ Write(i, NoRow) /\ Done(i)
      BY <2>8 DEF DeleteObject, InHandler, Pending, OfType
    <3>2. NoRow = ApplyOp(request[i], rows[i])
      BY <3>1 DEF ApplyOp
    <3> QED BY <3>1, <3>2, StatementRuns
  <2>9. ASSUME NEW i \in Ids, StatementFails(i) PROVE SaveInv'
    BY <2>9
       DEF StatementFails, StopHandler, InHandler, connection,
           SaveInv, RequestInv, TransactionInv, BlockInv
  <2>10. ASSUME NEW i \in Ids, StatementRollsBack(i) PROVE SaveInv'
    BY <2>10
       DEF StatementRollsBack, StopHandler, InHandler,
           SaveInv, RequestInv, TransactionInv, BlockInv
  <2>11. CASE Commit
    BY <2>11, AnswerEndsSave DEF Commit
  <2>12. CASE Rollback
    BY <2>12, AnswerEndsSave DEF Rollback
  <2>13. CASE NoTransactionToEnd
    BY <2>13, AnswerEndsSave
       DEF NoTransactionToEnd, connection, SaveInv, TransactionInv
  <2>14. CASE EndNotPrepared
    BY <2>14 DEF EndNotPrepared
  <2>15. CASE Reopen
    BY <2>15 DEF Reopen, SaveInv, RequestInv, TransactionInv, BlockInv
  <2>16. CASE UNCHANGED vars
    BY <2>16, SaveFrame DEF vars
  <2> QED
    BY <2>1, <2>2, <2>3, <2>4, <2>5, <2>6, <2>7, <2>8, <2>9, <2>10, <2>11,
       <2>12, <2>13, <2>14, <2>15, <2>16
       DEF Next, SaveStep, Statement, EndTransaction
<1> QED BY <1>1, <1>2, TypeCorrect, PTL DEF Spec

\* performInTransaction leaves no transaction open and no uncommitted row in
\* sight, even when SQLite rolls back on its own.
THEOREM TransactionsEnd ==
  ASSUME "prepare" \notin Failures
  PROVE  Spec => []TransactionEnded
<1>1. SaveInv => TransactionEnded
  BY DEF SaveInv, TransactionInv, TransactionEnded
<1> QED BY <1>1, SaveInvariant, PTL
-----------------------------------------------------------------------------
(***************************************************************************)
(* The answers to a save.                                                  *)
(***************************************************************************)

\* A COMMIT that succeeds makes the whole request durable, and each of its
\* inserts has found a free identifier.
LEMMA CommitAppliesRequest ==
  ASSUME TypeOK, SaveInv, Commit
  PROVE  disk' = Apply(request, disk) /\ InsertsFit(request, disk)
<1>1. \A i \in Ids : /\ rows[i] = ApplyOp(request[i], disk[i])
                     /\ request[i].type = "insert" => disk[i] = NoRow
  BY DEF Commit, BlockDone, SaveInv, BlockInv
<1>2. disk' = [i \in Ids |-> rows[i]]
  BY DEF Commit, TypeOK, Table
<1> QED BY <1>1, <1>2 DEF Apply, InsertsFit, OfType

\* A save answered "saved" is on disk in full at that moment, even when
\* SQLite rolls transactions back on its own.
THEOREM SavedMeansDurable ==
  ASSUME "prepare" \notin Failures
  PROVE  Spec => SavedIsDurable
<1>1. ASSUME TypeOK, SaveInv, [Next]_vars,
             reply = "pending", reply' = "saved"
      PROVE  \A i \in Ids : Honoured(request[i], disk[i], disk'[i])
  <2>1. Commit
    BY <1>1
       DEF Next, SaveStep, Statement, EndTransaction, vars, save, Done,
           ObtainPermanentID, DidRegister, DidUnregister, NewValuesForObject,
           FaultInSave, ServeFault,
           ExecuteSaveRequest, BeginTransaction, BeginFails, InsertObject,
           UpdateObject, DeleteObject, StatementFails, StatementRollsBack,
           StopHandler, Rollback, NoTransactionToEnd, EndNotPrepared, Answer,
           Reopen
  <2>2. disk' = Apply(request, disk) /\ InsertsFit(request, disk)
    BY <1>1, <2>1, CommitAppliesRequest
  <2>3. \A i \in Ids : disk'[i] = ApplyOp(request[i], disk[i])
    BY <2>2 DEF Apply
  <2> SUFFICES ASSUME NEW i \in Ids
               PROVE  Honoured(request[i], disk[i], disk'[i])
    OBVIOUS
  <2>4. request[i].type \in {"insert", "update", "delete", "keep"}
    BY <1>1, OpShape DEF TypeOK, Requests
  <2>5. CASE request[i].type = "insert"
    BY <2>2, <2>3, <2>5 DEF Honoured, ApplyOp, InsertsFit, OfType
  <2>6. CASE request[i].type = "update"
    BY <2>3, <2>6 DEF Honoured
  <2>7. CASE request[i].type \in {"delete", "keep"}
    BY <2>3, <2>7 DEF Honoured, ApplyOp
  <2> QED BY <2>4, <2>5, <2>6, <2>7
<1> QED BY <1>1, TypeCorrect, SaveInvariant, PTL DEF Spec, SavedIsDurable

\* The failures that leave the transaction in the hands of the code.
TransactionIsSafe == "prepare" \notin Failures /\ "autorollback" \notin Failures

\* Then the block runs in its transaction from the first statement to the last.
LEMMA BlockStaysInTransaction ==
  ASSUME TransactionIsSafe
  PROVE  Spec => [](stage = "block" => inTransaction)
<1> DEFINE Inv == stage = "block" => inTransaction
<1>1. Init => Inv
  BY DEF Init
<1>2. Inv /\ [Next]_vars => Inv'
  <2> SUFFICES ASSUME Inv, [Next]_vars PROVE Inv'
    OBVIOUS
  <2>1. CASE UNCHANGED <<connection, stage>>
    BY <2>1 DEF connection
  <2>2. CASE stage' # "block"
    BY <2>2
  <2>3. CASE BeginTransaction
    BY <2>3 DEF BeginTransaction, TransactionIsSafe
  <2>4. ASSUME NEW i \in Ids, InsertObject(i) \/ UpdateObject(i) \/ DeleteObject(i)
        PROVE  Inv'
    BY <2>4 DEF InsertObject, UpdateObject, DeleteObject, Write, Done
  <2> QED
    BY <2>1, <2>2, <2>3, <2>4
       DEF Next, SaveStep, Statement, EndTransaction, vars, save, TransactionIsSafe,
           ObtainPermanentID, DidRegister, DidUnregister, NewValuesForObject,
           FaultInSave, ServeFault,
           ExecuteSaveRequest, BeginFails, StatementFails, StatementRollsBack,
           StopHandler, Commit, Rollback, NoTransactionToEnd, EndNotPrepared,
           Answer, Reopen
<1> QED BY <1>1, <1>2, PTL DEF Spec

\* Both modules speak of the same requests, and of the same effect on a table.
LEMMA AbstractData ==
  /\ Abstract!Requests = Requests
  /\ Abstract!NoRequest = NoRequest
  /\ \A req, table :
       /\ Abstract!Apply(req, table) = Apply(req, table)
       /\ InsertsFit(req, table) => Abstract!InsertsFit(req, table)
<1>1. Abstract!Ids = Ids /\ Abstract!Row = Row /\ Abstract!Changes = Changes
  BY DEF Ids, Abstract!Ids, Row, Abstract!Row, Changes, Abstract!Changes
<1>2. Abstract!Ops = Ops
  BY <1>1 DEF Ops, Abstract!Ops, Insert, Abstract!Insert, Update, Abstract!Update,
              Delete, Abstract!Delete, Keep, Abstract!Keep
<1>3. \A op, old : Abstract!ApplyOp(op, old) = ApplyOp(op, old)
  BY DEF ApplyOp, Abstract!ApplyOp, Merge, Abstract!Merge
<1>4. \A req, table : Abstract!Apply(req, table) = Apply(req, table)
  BY <1>1, <1>3 DEF Apply, Abstract!Apply
<1> QED
  BY <1>1, <1>2, <1>4
     DEF Requests, Abstract!Requests, NoRequest, Abstract!NoRequest,
         Keep, Abstract!Keep, InsertsFit, Abstract!InsertsFit,
         OfType, Abstract!OfType

\* As long as SQLite does not roll back on its own and BEGIN and COMMIT can be
\* prepared, saves are atomic and durable: the store implements AtomicStore.
THEOREM Atomicity ==
  ASSUME TransactionIsSafe
  PROVE  Spec => ImplementsAtomicStore
<1> DEFINE InBlock == stage = "block" => inTransaction
<1>1. Init => Abstract!Init
  BY DEF Init, Abstract!Init, EmptyTable, Abstract!EmptyTable,
         NoRequest, Abstract!NoRequest, Keep, Abstract!Keep, Ids, Abstract!Ids
<1>2. TypeOK /\ SaveInv /\ InBlock /\ [Next]_vars => [Abstract!Next]_(Abstract!vars)
  <2> SUFFICES ASSUME TypeOK, SaveInv, InBlock, [Next]_vars
               PROVE  Abstract!Next \/ UNCHANGED <<disk, request, reply>>
    BY DEF Abstract!vars
  <2>1. ASSUME NEW req \in Requests, ExecuteSaveRequest(req) PROVE Abstract!Next
    BY <2>1, AbstractData
       DEF ExecuteSaveRequest, SaveInv, RequestInv, connection,
           Abstract!Next, Abstract!Submit
  <2>2. CASE Commit
    BY <2>2, CommitAppliesRequest, AbstractData
       DEF Commit, BlockDone, Answer, SaveInv, RequestInv,
           Abstract!Next, Abstract!Succeed
  <2>3. CASE BeginFails \/ Rollback
    BY <2>3, AbstractData
       DEF BeginFails, Rollback, BlockDone, Answer, SaveInv, RequestInv, connection,
           Abstract!Next, Abstract!Fail
  <2>4. CASE Reopen
    BY <2>4, AbstractData DEF Reopen, Abstract!Next, Abstract!Restart
  <2>5. CASE ~ \/ \E req \in Requests : ExecuteSaveRequest(req)
               \/ Commit \/ BeginFails \/ Rollback \/ Reopen
    <3>1. NoTransactionToEnd \/ EndNotPrepared => FALSE
      BY DEF NoTransactionToEnd, EndNotPrepared, BlockDone, TransactionIsSafe
    <3>2. ASSUME NEW i \in Ids, InsertObject(i) \/ UpdateObject(i) \/ DeleteObject(i)
          PROVE  UNCHANGED <<disk, request, reply>>
      BY <3>2 DEF InsertObject, UpdateObject, DeleteObject, InHandler, Write, Done
    <3> QED
      BY <2>5, <3>1, <3>2
         DEF Next, SaveStep, Statement, EndTransaction, vars, save, connection,
             ObtainPermanentID, DidRegister, DidUnregister, NewValuesForObject,
             FaultInSave, ServeFault,
             BeginTransaction, StatementFails, StatementRollsBack, StopHandler
  <2> QED BY <2>1, <2>2, <2>3, <2>4, <2>5
<1> QED
  BY <1>1, <1>2, TypeCorrect, SaveInvariant, BlockStaysInTransaction, PTL
     DEF Spec, ImplementsAtomicStore, Abstract!Spec, TransactionIsSafe
-----------------------------------------------------------------------------
(***************************************************************************)
(* The node cache.                                                         *)
(***************************************************************************)

\* What a save asks for: inserts of allocated identifiers, and nothing else
\* of them.
LEMMA SplitInvariant ==
  ASSUME "prepare" \notin Failures
  PROVE  Spec => []SplitInv
<1>1. Init => SplitInv
  BY DEF Init, SplitInv, NoRequest, Keep
<1>2. TypeOK /\ SaveInv /\ SplitInv /\ [Next]_vars => SplitInv'
  <2> SUFFICES ASSUME TypeOK, SaveInv, SplitInv, [Next]_vars PROVE SplitInv'
    OBVIOUS
  <2>1. CASE UNCHANGED <<request, allocated>>
    BY <2>1 DEF SplitInv
  <2>2. CASE request' = NoRequest
    BY <2>2 DEF SplitInv, NoRequest, Keep
  <2>3. CASE ObtainPermanentID
    <3>1. request' = NoRequest
      BY <2>3 DEF ObtainPermanentID, save, SaveInv, RequestInv
    <3> QED BY <3>1, <2>2
  <2>4. ASSUME NEW req \in Requests, ExecuteSaveRequest(req) PROVE SplitInv'
    <3>1. request' = req /\ allocated' = allocated /\ Savable(req)
      BY <2>4 DEF ExecuteSaveRequest, contexts
    <3>2. \A i \in Ids : req[i].type \in {"insert", "update", "delete", "keep"}
      BY OpShape DEF Requests
    <3> QED BY <3>1, <3>2 DEF SplitInv, Savable, OfType
  <2> QED
    BY <2>1, <2>2, <2>3, <2>4
       DEF Next, SaveStep, Statement, EndTransaction, vars, save, contexts, Done,
           DidRegister, DidUnregister, NewValuesForObject, FaultInSave, ServeFault,
           BeginTransaction,
           BeginFails, InsertObject, UpdateObject, DeleteObject, StatementFails,
           StatementRollsBack, StopHandler, Commit, Rollback,
           NoTransactionToEnd, EndNotPrepared, Answer, Reopen
<1> QED BY <1>1, <1>2, TypeCorrect, SaveInvariant, PTL DEF Spec

\* What the connection sees beside the committed rows.
LEMMA ViewInvariant ==
  ASSUME "prepare" \notin Failures
  PROVE  Spec => []ViewInv
<1>1. Init => ViewInv
  BY DEF Init, ViewInv
<1>2. TypeOK /\ SaveInv /\ ViewInv /\ [Next]_vars => ViewInv'
  <2> SUFFICES ASSUME TypeOK, SaveInv, ViewInv, [Next]_vars PROVE ViewInv'
    OBVIOUS
  <2>1. CASE rows' = disk'
    BY <2>1 DEF ViewInv
  <2>2. CASE UNCHANGED <<connection, stage, request>>
    BY <2>2 DEF ViewInv, connection
  <2>3. CASE stage # "block" /\ rows' = rows /\ disk' = disk
    BY <2>1, <2>3 DEF SaveInv, TransactionInv
  <2>4. ASSUME NEW i \in Ids, NEW new, Write(i, new), Done(i), stage = "block",
               request[i].type # "keep",
               request[i].type = "insert" => rows[i] = NoRow
        PROVE  ViewInv'
    <3>1. CASE ~inTransaction
      BY <2>1, <2>4, <3>1 DEF Write
    <3>2. CASE inTransaction
      <4>1. disk' = disk /\ inTransaction' /\ stage' = "block" /\ request' = request
        BY <2>4, <3>2 DEF Write, Done
      <4>2. \A j \in Ids \ {i} : rows'[j] = rows[j]
        BY <2>4 DEF Write, TypeOK, Table
      <4>3. request[i].type = "insert" => disk[i] = NoRow
        BY <2>4 DEF ViewInv
      <4> QED BY <2>4, <4>1, <4>2, <4>3 DEF ViewInv
    <3> QED BY <3>1, <3>2
  <2>5. ASSUME NEW i \in Ids, InsertObject(i) \/ UpdateObject(i) \/ DeleteObject(i)
        PROVE  ViewInv'
    BY <2>4, <2>5 DEF InsertObject, UpdateObject, DeleteObject, InHandler, Pending, OfType
  <2>6. CASE NoTransactionToEnd \/ EndNotPrepared
    <3>1. rows' = disk'
      BY <2>6 DEF NoTransactionToEnd, EndNotPrepared, connection,
                  SaveInv, TransactionInv
    <3> QED BY <2>1, <3>1
  <2> QED
    BY <2>1, <2>2, <2>3, <2>5, <2>6
       DEF Next, SaveStep, Statement, EndTransaction, vars, save, connection,
           ObtainPermanentID, DidRegister, DidUnregister, NewValuesForObject,
           FaultInSave, ServeFault,
           ExecuteSaveRequest, BeginTransaction, BeginFails, StatementFails,
           StatementRollsBack, StopHandler, Commit, Rollback, Reopen
<1> QED BY <1>1, <1>2, TypeCorrect, SaveInvariant, PTL DEF Spec

\* Trusted nodes follow their rows.
LEMMA NodeInvariant ==
  ASSUME "prepare" \notin Failures
  PROVE  Spec => []NodeInv
<1>1. Init => NodeInv
  BY DEF Init, NodeInv, Trusted
<1>2. TypeOK /\ CopyInv /\ SaveInv /\ CacheInv /\ [Next]_vars => NodeInv'
  <2> SUFFICES ASSUME TypeOK, CopyInv, SaveInv, CacheInv, [Next]_vars
               PROVE  NodeInv'
    OBVIOUS
  <2> USE DEF CacheInv
  <2>1. CASE UNCHANGED <<nodeCache, spoiled, allocated, disk, rows, request,
                         stage, failed>>
    BY <2>1 DEF NodeInv, Trusted
  <2>2. CASE ObtainPermanentID
    <3>1. UNCHANGED <<disk, rows, nodeCache, request, stage, failed>>
      BY <2>2 DEF ObtainPermanentID, connection, save
    <3>2. ASSUME NEW i \in Ids, Trusted(i)' PROVE Trusted(i) /\ (i \in allocated' => i \in allocated)
      BY <2>2, <3>1, <3>2 DEF ObtainPermanentID, Trusted
    <3> QED BY <3>1, <3>2 DEF NodeInv
  <2>3. ASSUME NEW i \in Ids, DidUnregister(i) PROVE NodeInv'
    <3>1. UNCHANGED <<disk, rows, allocated, request, stage, failed>>
      BY <2>3 DEF DidUnregister, connection, save
    <3>2. ASSUME NEW j \in Ids, Trusted(j)'
          PROVE  Trusted(j) /\ nodeCache'[j] = nodeCache[j]
      BY <2>3, <3>2 DEF DidUnregister, Trusted, TypeOK
    <3> QED BY <3>1, <3>2 DEF NodeInv
  <2>4. ASSUME NEW i \in Ids, NewValuesForObject(i) \/ FaultInSave(i)
        PROVE  NodeInv'
    <3> ServeFault(i)
      BY <2>4 DEF NewValuesForObject, FaultInSave
    <3>1. UNCHANGED <<disk, rows, allocated, request, stage, failed, spoiled>>
      BY DEF ServeFault, connection, save
    <3>2. /\ nodeCache'[i] = FaultNode(i)
          /\ \A j \in Ids \ {i} : nodeCache'[j] = nodeCache[j]
      BY DEF ServeFault, TypeOK
    <3>3. rows[i] = disk[i] /\ request[i].type # "update"
      BY <2>4 DEF NewValuesForObject, FaultInSave, SaveInv, TransactionInv,
                  RequestInv, NoRequest, Keep, ViewInv
    <3>4. CASE nodeCache[i] # NoNode
      BY <3>1, <3>2, <3>4 DEF NodeInv, Trusted, FaultNode
    <3>5. CASE nodeCache[i] = NoNode
      <4>1. disk[i] # NoRow /\ nodeCache'[i].values = disk[i]
        BY <3>2, <3>3, <3>5 DEF ServeFault, FaultNode
      <4> QED BY <3>1, <3>2, <3>3, <4>1 DEF NodeInv, Trusted
    <3> QED BY <3>4, <3>5
  <2>5. ASSUME NEW req \in Requests, ExecuteSaveRequest(req) PROVE NodeInv'
    <3>1. /\ UNCHANGED <<disk, rows, allocated, nodeCache, spoiled>>
          /\ stage = "idle" /\ rows = disk /\ request = NoRequest
      BY <2>5 DEF ExecuteSaveRequest, connection, caches, contexts,
                  SaveInv, TransactionInv, RequestInv
    <3>2. \A i \in Ids : request[i].type # "update"
      BY <3>1 DEF NoRequest, Keep
    <3> QED BY <3>1, <3>2 DEF NodeInv, Trusted
  <2>6. CASE BeginTransaction
    <3>1. /\ UNCHANGED <<nodeCache, spoiled, allocated, disk, rows, request, failed>>
          /\ stage = "begin"
      BY <2>6 DEF BeginTransaction, caches, contexts
    <3> QED BY <3>1 DEF NodeInv, Trusted
  <2>7. CASE Answer("failed") /\ disk' = disk
    <3>1. /\ UNCHANGED <<nodeCache, allocated>> /\ stage' = "idle"
          /\ spoiled' = spoiled \cup
                          {i \in OfType(request, "update") : nodeCache[i] # NoNode}
      BY <2>7 DEF Answer
    <3>2. ASSUME NEW i \in Ids, Trusted(i)'
          PROVE  Trusted(i) /\ request[i].type # "update"
      BY <3>1, <3>2 DEF Trusted, OfType
    <3> QED BY <2>7, <3>1, <3>2 DEF NodeInv
  <2>8. ASSUME NEW i \in Ids, InsertObject(i) PROVE NodeInv'
    <3>1. /\ UNCHANGED <<nodeCache, spoiled, allocated, request, stage, failed>>
          /\ Write(i, request[i].row) /\ rows[i] = NoRow
          /\ request[i].type = "insert" /\ i \in allocated
      BY <2>8 DEF InsertObject, Done, caches, contexts, Pending, OfType, SplitInv
    <3>2. CASE inTransaction
      BY <3>1, <3>2 DEF Write, NodeInv, Trusted, TypeOK, Table
    <3>3. CASE ~inTransaction
      <4>1. disk[i] = NoRow
        BY <3>1, <3>3 DEF SaveInv, TransactionInv
      <4>2. ~Trusted(i)
        BY <3>1, <4>1 DEF NodeInv
      <4>3. \A j \in Ids \ {i} : disk'[j] = disk[j] /\ rows'[j] = rows[j]
        BY <3>1, <3>3 DEF Write, SaveInv, TransactionInv, TypeOK, Table
      <4> QED BY <3>1, <4>2, <4>3 DEF NodeInv, Trusted
    <3> QED BY <3>2, <3>3
  <2>9. ASSUME NEW i \in Ids, UpdateObject(i) PROVE NodeInv'
    <3>1. /\ UNCHANGED <<spoiled, allocated, request, stage, failed>>
          /\ Write(i, ApplyOp(request[i], rows[i])) /\ stage = "block"
          /\ request[i].type = "update" /\ i \notin allocated
      BY <2>9 DEF UpdateObject, InHandler, Done, contexts, Pending, OfType, SplitInv
    <3>2. \A j \in Ids \ {i} : nodeCache'[j] = nodeCache[j]
      BY <2>9 DEF UpdateObject, TypeOK
    <3>3. \A j \in Ids \ {i} : disk'[j] = disk[j] /\ rows'[j] = rows[j]
      BY <3>1 DEF Write, SaveInv, TransactionInv, TypeOK, Table
    <3>4. ASSUME Trusted(i)', ~failed, rows'[i] # NoRow
          PROVE  nodeCache'[i].values = rows'[i]
      <4>1. rows'[i] = ApplyOp(request[i], rows[i])
        BY <3>1 DEF Write, TypeOK, Table
      <4>2. rows[i] # NoRow /\ rows'[i] = Merge(rows[i], request[i].changes)
        BY <3>1, <3>4, <4>1 DEF ApplyOp
      <4>3. nodeCache[i] # NoNode /\ i \in localNodeCache
        BY <2>9, <3>1, <3>4 DEF UpdateObject, Trusted, CopyInv
      <4>4. nodeCache[i].values = rows[i]
        BY <3>1, <3>4, <4>2, <4>3 DEF NodeInv, Trusted
      <4>5. nodeCache'[i] = UpdateNode(nodeCache[i], request[i].changes)
        BY <2>9, <4>3 DEF UpdateObject, TypeOK
      <4> QED BY <4>2, <4>4, <4>5 DEF UpdateNode
    <3> QED BY <3>1, <3>2, <3>3, <3>4 DEF NodeInv, Trusted
  <2>10. ASSUME NEW i \in Ids, DeleteObject(i) PROVE NodeInv'
    <3>1. /\ UNCHANGED <<nodeCache, spoiled, allocated, request, stage, failed>>
          /\ Write(i, NoRow)
          /\ request[i].type = "delete" /\ i \notin allocated
      BY <2>10 DEF DeleteObject, Done, caches, contexts, Pending, OfType, SplitInv
    <3>2. \A j \in Ids \ {i} : disk'[j] = disk[j] /\ rows'[j] = rows[j]
      BY <3>1 DEF Write, SaveInv, TransactionInv, TypeOK, Table
    <3>3. disk'[i] = disk[i] \/ disk'[i] = NoRow
      BY <3>1 DEF Write, TypeOK, Table
    <3> QED BY <3>1, <3>2, <3>3 DEF NodeInv, Trusted
  <2>11. ASSUME NEW i \in Ids, StatementFails(i) \/ StatementRollsBack(i) PROVE NodeInv'
    <3>1. /\ UNCHANGED <<nodeCache, spoiled, allocated, disk, request, stage>>
          /\ failed'
      BY <2>11 DEF StatementFails, StatementRollsBack, StopHandler, connection,
                   caches, contexts
    <3> QED BY <3>1 DEF NodeInv, Trusted
  <2>12. CASE Commit
    <3>1. /\ UNCHANGED spoiled /\ stage' = "idle"
          /\ allocated' = allocated \ OfType(request, "insert")
          /\ disk' = rows /\ stage = "block" /\ ~failed /\ pending = {}
      BY <2>12 DEF Commit, BlockDone, Answer
    <3>2. \A i \in Ids : request[i].type \in {"insert", "update", "delete", "keep"}
      BY OpShape DEF TypeOK, Requests
    <3>3. ASSUME NEW i \in Ids, i \in allocated' PROVE rows[i] = disk[i]
      BY <3>1, <3>3 DEF SplitInv, ViewInv, OfType
    <3>4. ASSUME NEW i \in Ids, Trusted(i), rows[i] # NoRow
          PROVE  nodeCache[i].values = rows[i]
      <4>1. CASE request[i].type = "update"
        BY <3>1, <3>4, <4>1 DEF NodeInv
      <4>2. CASE request[i].type = "keep"
        BY <3>4, <4>2 DEF NodeInv, ViewInv
      <4>3. CASE request[i].type = "insert"
        <5>1. i \in allocated /\ disk[i] # NoRow
          BY <3>4, <4>3 DEF SplitInv, NodeInv
        <5> QED BY <3>4, <4>3, <5>1 DEF NodeInv, ViewInv
      <4>4. CASE request[i].type = "delete"
        BY <3>1, <3>4, <4>4 DEF SaveInv, BlockInv, ApplyOp
      <4> QED BY <3>2, <4>1, <4>2, <4>3, <4>4
    <3>5. \A i \in Ids : Trusted(i)' => Trusted(i) /\ nodeCache'[i] = nodeCache[i]
      BY <2>12, <3>1 DEF Commit, Answer, Trusted
    <3> QED BY <3>1, <3>3, <3>4, <3>5 DEF NodeInv
  <2>13. CASE Reopen
    BY <2>13 DEF Reopen, NodeInv, Trusted
  <2> QED
    BY <2>1, <2>2, <2>3, <2>4, <2>5, <2>6, <2>7, <2>8, <2>9, <2>10, <2>11,
       <2>12, <2>13
       DEF Next, SaveStep, Statement, EndTransaction, vars, save, caches,
           contexts, connection, DidRegister, BeginFails, Rollback,
           NoTransactionToEnd, EndNotPrepared
<1> QED
  BY <1>1, <1>2, TypesAndCopies, SaveInvariant, SplitInvariant, ViewInvariant, PTL
     DEF Spec, CacheInv

\* As long as BEGIN and COMMIT can be prepared, a cached node that no failed
\* save touched has the values of its row, in the presence of every other
\* failure, SQLite's own rollbacks included.
THEOREM CacheFollowsRows ==
  ASSUME "prepare" \notin Failures
  PROVE  Spec => []CacheCoherent
<1>1. SaveInv /\ NodeInv => CacheCoherent
  <2> SUFFICES ASSUME SaveInv, NodeInv, stage = "idle",
                      NEW i \in Ids \ spoiled,
                      nodeCache[i] # NoNode, rows[i] # NoRow
               PROVE  nodeCache[i].values = rows[i]
    BY DEF CacheCoherent
  <2>1. rows = disk /\ request[i].type # "update"
    BY DEF SaveInv, TransactionInv, RequestInv, NoRequest, Keep
  <2> QED BY <2>1 DEF NodeInv, Trusted
<1> QED BY <1>1, SaveInvariant, NodeInvariant, PTL
-----------------------------------------------------------------------------
(***************************************************************************)
(* Object identifiers.                                                     *)
(***************************************************************************)

\* Once SQLite has rolled the transaction back, the save inserts nothing more.
LEMMA InsertsInTransaction ==
  ASSUME "prepare" \notin Failures
  PROVE  Spec => []InsertInv
<1>1. Init => InsertInv
  BY DEF Init, InsertInv
<1>2. InsertInv /\ [Next]_vars => InsertInv'
  <2> SUFFICES ASSUME InsertInv, [Next]_vars PROVE InsertInv'
    OBVIOUS
  <2>1. CASE stage' # "block" \/ inTransaction'
    BY <2>1 DEF InsertInv
  <2>2. CASE /\ stage' = stage /\ request' = request
             /\ inTransaction' = inTransaction /\ pending' \subseteq pending
    BY <2>2 DEF InsertInv, Pending, OfType
  <2>3. ASSUME NEW i \in Ids, StatementRollsBack(i) PROVE InsertInv'
    <3>1. /\ request' = request
          /\ pending' = pending \ OfType(request, request[i].type)
          /\ CurrentHandler = request[i].type
      BY <2>3 DEF StatementRollsBack, StopHandler, InHandler
    <3>2. CASE request[i].type = "insert"
      BY <3>1, <3>2 DEF InsertInv, Pending, OfType
    <3>3. CASE request[i].type # "insert"
      <4>1. Pending("insert") = {}
        BY <3>1, <3>3 DEF CurrentHandler
      <4> QED BY <3>1, <4>1 DEF InsertInv, Pending, OfType
    <3> QED BY <3>2, <3>3
  <2>4. CASE BeginTransaction
    BY <2>1, <2>4 DEF BeginTransaction
  <2>5. ASSUME NEW i \in Ids, InsertObject(i) \/ UpdateObject(i) \/ DeleteObject(i)
        PROVE  InsertInv'
    BY <2>2, <2>5 DEF InsertObject, UpdateObject, DeleteObject, Write, Done
  <2>6. ASSUME NEW i \in Ids, StatementFails(i) PROVE InsertInv'
    BY <2>2, <2>6 DEF StatementFails, StopHandler, connection
  <2> QED
    BY <2>1, <2>2, <2>3, <2>4, <2>5, <2>6
       DEF Next, SaveStep, Statement, EndTransaction, vars, save, connection,
           ObtainPermanentID, DidRegister, DidUnregister, NewValuesForObject,
           FaultInSave, ServeFault,
           ExecuteSaveRequest, BeginFails, Commit, Rollback,
           NoTransactionToEnd, EndNotPrepared, Answer, Reopen
<1> QED BY <1>1, <1>2, PTL DEF Spec

\* As long as SELECT MAX works and BEGIN and COMMIT can be prepared, an
\* identifier handed out stays free until its object is saved, even when SQLite
\* rolls back on its own and the block goes on without its transaction.
THEOREM IdentifiersAreFree ==
  ASSUME "prepare" \notin Failures, "read" \notin Failures
  PROVE  Spec => []AllocatedIdsAreFree
<1>1. Init => IdsInv
  BY DEF Init, IdsInv, EmptyTable
<1>2. TypeOK /\ SaveInv /\ SplitInv /\ ViewInv /\ InsertInv /\ IdsInv /\ [Next]_vars
        => IdsInv'
  <2> SUFFICES ASSUME TypeOK, SaveInv, SplitInv, ViewInv, InsertInv, IdsInv,
                      [Next]_vars
               PROVE  IdsInv'
    OBVIOUS
  <2>1. CASE UNCHANGED <<disk, objectIDCache, allocated>>
              /\ (rows' = rows \/ rows' = disk)
    BY <2>1 DEF IdsInv
  <2>2. CASE ObtainPermanentID
    <3>1. PICK next \in Ids :
            /\ IsLastObjectID(next - 1, FALSE)
            /\ objectIDCache' = next
            /\ allocated' = allocated \cup {next}
      BY <2>2 DEF ObtainPermanentID
    <3>2. rows = disk /\ rows' = rows /\ disk' = disk
      BY <2>2 DEF ObtainPermanentID, connection, SaveInv, TransactionInv
    <3>3. next \in Nat /\ next # 0 /\ \A i \in Ids : i \in Nat
      BY DataAssumption DEF Ids
    <3>4. CASE objectIDCache # 0
      <4>1. objectIDCache = next - 1
        BY <3>1, <3>4 DEF IsLastObjectID
      <4>2. \A i \in Ids : rows[i] # NoRow \/ i \in allocated => i <= next - 1
        BY <3>4, <4>1 DEF IdsInv
      <4>3. rows[next] = NoRow /\ \A i \in Ids : i <= next - 1 => i <= next
        BY <3>3, <4>2
      <4> QED BY <3>1, <3>2, <3>3, <4>2, <4>3 DEF IdsInv
    <3>5. CASE objectIDCache = 0
      <4>1. \A i \in Ids : rows[i] # NoRow => i <= next - 1
        BY <3>1, <3>5 DEF IsLastObjectID, IsMaximumRow
      <4>2. rows[next] = NoRow /\ \A i \in Ids : i <= next - 1 => i <= next
        BY <3>3, <4>1
      <4>3. allocated = {}
        BY <3>5 DEF IdsInv
      <4> QED BY <3>1, <3>2, <3>3, <4>1, <4>2, <4>3 DEF IdsInv
    <3> QED BY <3>4, <3>5
  <2>3. ASSUME NEW i \in Ids, InsertObject(i) PROVE IdsInv'
    <3>1. /\ i \in allocated /\ disk' = disk
          /\ UNCHANGED <<objectIDCache, allocated>>
          /\ \A j \in Ids \ {i} : rows'[j] = rows[j]
      BY <2>3 DEF InsertObject, InHandler, Pending, OfType, SplitInv, InsertInv,
                  Write, Done, caches, contexts, TypeOK, Table
    <3> QED BY <3>1 DEF IdsInv
  <2>4. ASSUME NEW i \in Ids, UpdateObject(i) \/ DeleteObject(i) PROVE IdsInv'
    <3>1. /\ disk' = disk \/ (disk' = rows' /\ rows = disk)
          /\ UNCHANGED <<objectIDCache, allocated>>
          /\ \A j \in Ids \ {i} : rows'[j] = rows[j]
      BY <2>4 DEF UpdateObject, DeleteObject, InHandler, Write, Done, SaveInv,
                  TransactionInv, caches, contexts, TypeOK, Table
    <3>2. rows[i] = NoRow => rows'[i] = NoRow
      BY <2>4 DEF UpdateObject, DeleteObject, Write, ApplyOp, Pending, OfType,
                  TypeOK, Table
    <3>3. \A j \in Ids : rows[j] = NoRow => rows'[j] = NoRow
      BY <3>1, <3>2
    <3>4. ASSUME NEW j \in Ids, disk[j] = NoRow PROVE disk'[j] = NoRow
      BY <3>1, <3>3, <3>4
    <3> QED BY <3>1, <3>3, <3>4, <2>4 DEF IdsInv, TypeOK
  <2>5. CASE Commit
    <3>1. /\ disk' = rows /\ rows' = rows /\ objectIDCache' = objectIDCache
          /\ allocated' = allocated \ OfType(request, "insert")
      BY <2>5 DEF Commit, Answer, caches
    <3>2. ASSUME NEW i \in allocated' PROVE rows[i] = disk[i]
      BY <3>1, <3>2 DEF SplitInv, ViewInv, OfType, TypeOK
    <3> QED BY <3>1, <3>2 DEF IdsInv
  <2>6. CASE Reopen
    BY <2>6 DEF Reopen, IdsInv
  <2>7. CASE NoTransactionToEnd \/ EndNotPrepared
    BY <2>1, <2>7 DEF NoTransactionToEnd, EndNotPrepared, Answer, connection, caches
  <2> QED
    BY <2>1, <2>2, <2>3, <2>4, <2>5, <2>6, <2>7
       DEF Next, SaveStep, Statement, EndTransaction, vars, connection, caches,
           contexts, DidRegister, DidUnregister, NewValuesForObject,
           FaultInSave, ServeFault,
           ExecuteSaveRequest, BeginTransaction, BeginFails, StatementFails,
           StatementRollsBack, Rollback, Answer
<1>3. TypeOK /\ SaveInv /\ IdsInv => AllocatedIdsAreFree
  BY DEF SaveInv, TransactionInv, IdsInv, AllocatedIdsAreFree
<1> QED
  BY <1>1, <1>2, <1>3, TypeCorrect, SaveInvariant, SplitInvariant, ViewInvariant,
     InsertsInTransaction, PTL DEF Spec
==============================================================================
