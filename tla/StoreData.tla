------------------------------ MODULE StoreData ------------------------------
(***************************************************************************)
(* The data a save request moves between Core Data and the encrypted       *)
(* store: rows of one root entity's table (every sub-entity of a root      *)
(* shares its table, EncryptedStore.m tableNameForEntity), the changes of  *)
(* an updated object, and a save request as one operation per object.      *)
(* Object identifiers are the __objectID column: 1, 2, ..., MaxId.         *)
(***************************************************************************)
EXTENDS Naturals

CONSTANTS
  MaxId,      \* bound on the object identifiers handed out
  Attrs,      \* attributes and to-one foreign keys: one column each
  Values,     \* what a column can hold; SQL NULL is one of the values
  Unchanged,  \* marks an attribute absent from [object changedValues]
  NoRow       \* marks an identifier that has no row

ASSUME DataAssumption ==
  /\ MaxId \in Nat
  /\ Unchanged \notin Values
  /\ NoRow \notin [Attrs -> Values]

Ids == 1 .. MaxId

Row == [Attrs -> Values]

Table == [Ids -> Row \cup {NoRow}]

EmptyTable == [i \in Ids |-> NoRow]

\* [object changedValues]: the new value of each attribute that changed.
Changes == [Attrs -> Values \cup {Unchanged}]

ChangedKeys(ch) == {a \in Attrs : ch[a] # Unchanged}

\* A row, or a cached node's values, after the changes.
Merge(row, ch) ==
  [a \in Attrs |-> IF ch[a] = Unchanged THEN row[a] ELSE ch[a]]

(***************************************************************************)
(* A save request (NSSaveChangesRequest): its inserted, updated and        *)
(* deleted objects are disjoint sets, so it is a function that gives each  *)
(* identifier its operation.                                               *)
(***************************************************************************)
Insert(row) == [type |-> "insert", row |-> row]
Update(ch)  == [type |-> "update", changes |-> ch]
Delete      == [type |-> "delete"]
Keep        == [type |-> "keep"]

Ops == {Insert(row) : row \in Row} \cup {Update(ch) : ch \in Changes}
         \cup {Delete, Keep}

Requests == [Ids -> Ops]

NoRequest == [i \in Ids |-> Keep]

OfType(req, t) == {i \in Ids : req[i].type = t}

\* What one operation makes of one row. Updating an absent row changes nothing.
ApplyOp(op, old) ==
  CASE op.type = "insert" -> op.row
    [] op.type = "update" -> IF old = NoRow THEN NoRow ELSE Merge(old, op.changes)
    [] op.type = "delete" -> NoRow
    [] OTHER -> old

Apply(req, table) == [i \in Ids |-> ApplyOp(req[i], table[i])]

\* No inserted object has the identifier of a row that is already there.
InsertsFit(req, table) == \A i \in OfType(req, "insert") : table[i] = NoRow
==============================================================================
