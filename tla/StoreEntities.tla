--------------------------- MODULE StoreEntities ---------------------------
(***************************************************************************)
(* Entities in one table each tree, in EncryptedStore                      *)
(* (T2Crypto/EncryptedStore.m): what saves write, what the FROM clause of  *)
(* a fetch joins, what an answer makes of the rows that its WHERE clause   *)
(* selects, and what the faults fired on the objects read.                 *)
(*                                                                         *)
(* Entities form trees.  Every entity of a tree shares the table of its    *)
(* root, whose rows say by __entityType which entity they are of.  Between *)
(* two trees there is a relationship: entity Source has a to-one           *)
(* relationship owner to entity Destination, whose inverse is items.       *)
(*                                                                         *)
(* The condition of a fetch is left open but for the restriction to its    *)
(* entity: StoreFetch says how predicates become conditions.               *)
(***************************************************************************)
EXTENDS Naturals, FiniteSets

CONSTANTS
  ItemIds,      \* the identifiers of the table of Source
  OwnerIds,     \* the identifiers of the table of Destination
  Values,       \* what the attribute a of an object can be
  Entities,
  Parent,       \* the superentity of each entity, or NoEntity
  Source,       \* the entity that has the relationship owner
  Destination,  \* the entity at its other end
  NoEntity, Null

SubentitiesOf(e) == {s \in Entities : Parent[s] = e}

\* e and the entities below it: what every set has that has e and, with an
\* entity, its subentities.
EntityIds ==
  [e \in Entities |->
     {s \in Entities :
        \A below \in SUBSET Entities :
          e \in below /\ (\A x \in below : SubentitiesOf(x) \subseteq below)
            => s \in below}]

\* The base entity: the one above e that has no superentity.
Root == [e \in Entities |->
           CHOOSE r \in Entities : Parent[r] = NoEntity /\ e \in EntityIds[r]]

NeedsEntityTypeColumn(e) == SubentitiesOf(e) # {} \/ Parent[e] # NoEntity

ItemTree == Root[Source]
OwnerTree == Root[Destination]
Trees == {ItemTree, OwnerTree}
InTree(t) == {e \in Entities : Root[e] = t}

\* The paths of a predicate or a sort key that the entity has properties for:
\* attributes and relationships, its own and those of what it is related to.
PathsOf(e) ==
  {"a"} \cup (IF e \in EntityIds[Source] THEN {"owner", "owner.a"} ELSE {})
        \cup (IF e \in EntityIds[Destination] THEN {"items.a", "items.@count"} ELSE {})

\* The superentities of a model lead to an entity without one.
ASSUME ModelAssumption ==
  /\ IsFiniteSet(ItemIds) /\ IsFiniteSet(OwnerIds) /\ IsFiniteSet(Entities)
  /\ Null \notin ItemIds \cup OwnerIds \cup Values
  /\ NoEntity \notin Entities
  /\ Parent \in [Entities -> Entities \cup {NoEntity}]
  /\ \A e \in Entities : \E r \in Entities : Parent[r] = NoEntity /\ e \in EntityIds[r]
  /\ {Source, Destination} \subseteq Entities
  /\ OwnerTree # ItemTree

IdsOf(t) == IF t = ItemTree THEN ItemIds ELSE OwnerIds

VARIABLES
  objects,  \* the saved objects of each tree, as the contexts know them
  rows      \* the rows of its table

vars == <<objects, rows>>

Absent == [there |-> FALSE]
Object(e, v, o) == [there |-> TRUE, entity |-> e, a |-> v, owner |-> o]
Row(type, v, o) == [there |-> TRUE, type |-> type, a |-> v, owner |-> o]

ObjectIds(t) == {i \in IdsOf(t) : objects[t][i].there}
RowIds(t) == {i \in IdsOf(t) : rows[t][i].there}

\* The owners an object of entity e can be given.
OwnersFor(e) ==
  {Null} \cup (IF e \in EntityIds[Source]
               THEN {o \in ObjectIds(OwnerTree) :
                       objects[OwnerTree][o].entity \in EntityIds[Destination]}
               ELSE {})

Init ==
  /\ objects = [t \in Trees |-> [i \in IdsOf(t) |-> Absent]]
  /\ rows = [t \in Trees |-> [i \in IdsOf(t) |-> Absent]]

(***************************************************************************)
(* Saves.  Only an entity with a superentity writes __entityType.          *)
(***************************************************************************)
\* Mutant: no object's type is written.
EntityTypeForgotten(e) == NoEntity

EntityTypeWritten(e) == IF Parent[e] # NoEntity THEN e ELSE NoEntity

Insert(e, i, v, o) ==
  /\ ~rows[Root[e]][i].there
  /\ o \in OwnersFor(e)
  /\ objects' = [objects EXCEPT ![Root[e]][i] = Object(e, v, o)]
  /\ rows' = [rows EXCEPT ![Root[e]][i] = Row(EntityTypeWritten(e), v, o)]

\* Mutant: only attributes are written.
UpdateAttributes(t, i, v, o) == rows' = [rows EXCEPT ![t][i] = Row(@.type, v, @.owner)]

\* The columns of the changed properties; __entityType is not one of them.
UpdateRow(t, i, v, o) == rows' = [rows EXCEPT ![t][i] = Row(@.type, v, o)]

Update(t, i, v, o) ==
  /\ i \in ObjectIds(t)
  /\ o \in OwnersFor(objects[t][i].entity)
  /\ objects' = [objects EXCEPT ![t][i] = Object(@.entity, v, o)]
  /\ UpdateRow(t, i, v, o)

\* Core Data nullifies the owner of the items of a deleted owner in the same
\* save: x is such an item, if it is of tree u and the owner is i of tree t.
IsNullified(u, x, t, i) == t = OwnerTree /\ u = ItemTree /\ x.there /\ x.owner = i

ObjectsWithout(t, i) ==
  [u \in Trees |-> [k \in IdsOf(u) |->
     LET x == objects[u][k]
     IN  IF u = t /\ k = i THEN Absent
         ELSE IF IsNullified(u, x, t, i) THEN Object(x.entity, x.a, Null) ELSE x]]

RowsWithout(t, i) ==
  [u \in Trees |-> [k \in IdsOf(u) |->
     LET r == rows[u][k]
     IN  IF u = t /\ k = i THEN Absent
         ELSE IF IsNullified(u, r, t, i) THEN Row(r.type, r.a, Null) ELSE r]]

Delete(t, i) ==
  /\ i \in ObjectIds(t)
  /\ objects' = ObjectsWithout(t, i)
  /\ rows' = RowsWithout(t, i)

Next ==
  \E t \in Trees : \E i \in IdsOf(t) :
    \/ \E v \in Values \cup {Null}, o \in OwnerIds \cup {Null} :
         \/ \E e \in InTree(t) : Insert(e, i, v, o)
         \/ Update(t, i, v, o)
    \/ Delete(t, i)

Spec == Init /\ [][Next]_vars
-----------------------------------------------------------------------------
(***************************************************************************)
(* The FROM clause.  One joined row holds a row of the entity's table and  *)
(* the row each relationship of the request's paths leads to; a LEFT OUTER *)
(* JOIN keeps rows that lead nowhere.  Each relationship is joined once,   *)
(* however many comparisons use it.  Any join makes the request DISTINCT.  *)
(***************************************************************************)
Joins(paths) == paths \cap {"owner.a", "items.a"}

\* Mutant: only a to-one relationship makes the request DISTINCT.
DistinctForToOne(paths) == "owner.a" \in paths

ReturnsDistinctResults(paths) == Joins(paths) # {}

ItemRowsOf(o) == {i \in RowIds(ItemTree) : rows[ItemTree][i].owner = o}

\* Mutant: an INNER JOIN.
InnerJoin(ids) == ids

OuterJoin(ids) == IF ids = {} THEN {Null} ELSE ids

\* Mutant: the join has no condition.
OwnersJoinedWithAll(paths, i) ==
  IF "owner.a" \in Joins(paths) THEN OuterJoin(RowIds(OwnerTree)) ELSE {Null}

OwnersJoined(paths, i) ==
  IF "owner.a" \in Joins(paths)
  THEN OuterJoin({rows[ItemTree][i].owner} \cap RowIds(OwnerTree))
  ELSE {Null}

ItemsJoined(paths, i) ==
  IF "items.a" \in Joins(paths) THEN OuterJoin(ItemRowsOf(i)) ELSE {Null}

JoinedRows(e, paths) ==
  UNION {{[self |-> i, owner |-> o, item |-> k] :
            o \in OwnersJoined(paths, i), k \in ItemsJoined(paths, i)} :
         i \in RowIds(Root[e])}

\* Mutant: subentities are fetched whether the request includes them or not.
TypesOfTree(e, subentities) == EntityIds[e]

\* What the WHERE clause restricts __entityType to, if e has a superentity.
TypesFetched(e, subentities) == IF subentities THEN EntityIds[e] ELSE {e}

IsOfType(e, subentities, i) ==
  Parent[e] # NoEntity => rows[Root[e]][i].type \in TypesFetched(e, subentities)

\* The joined rows that a condition can select.
Selectable(e, subentities, paths) ==
  {env \in JoinedRows(e, paths) : IsOfType(e, subentities, env.self)}

(***************************************************************************)
(* The answers.  Objects are given the entity of their row's type, if the  *)
(* entity has types and the query is not DISTINCT.                         *)
(***************************************************************************)
ResolvedEntity(type, e) == IF type = NoEntity THEN e ELSE type

EntityToFetch(e, paths, i) ==
  IF NeedsEntityTypeColumn(e) /\ ~ReturnsDistinctResults(paths)
  THEN ResolvedEntity(rows[Root[e]][i].type, e)
  ELSE e

Found(selected) == {env.self : env \in selected}

\* The objects of the answer, and how many objects it lists.
Answer(e, paths, selected) ==
  [objects |-> {[id |-> i, entity |-> EntityToFetch(e, paths, i)] : i \in Found(selected)},
   length |-> Cardinality(IF ReturnsDistinctResults(paths) THEN Found(selected)
                          ELSE selected)]

\* SELECT COUNT(-), which is never DISTINCT.
CountAnswer(selected) == Cardinality(selected)

(***************************************************************************)
(* The faults fired on an object of the tree of Source: its row, read with *)
(* an INNER JOIN for the type of its owner where owners have types.        *)
(***************************************************************************)
NoNode == [there |-> FALSE]

OwnerRow(i) == rows[OwnerTree][rows[ItemTree][i].owner]

TypeJoinMatches(i) ==
  NeedsEntityTypeColumn(Destination) => rows[ItemTree][i].owner \in RowIds(OwnerTree)

\* Mutant: the type is that of the item itself, as in the to-one branch of
\* newValueForRelationship: (EncryptedStore.m:537).
OwnerEntityOfItem(i) ==
  IF rows[ItemTree][i].owner = Null THEN Null
  ELSE ResolvedEntity(rows[ItemTree][i].type, Destination)

OwnerEntityRead(i) ==
  IF rows[ItemTree][i].owner = Null THEN Null
  ELSE IF NeedsEntityTypeColumn(Destination)
       THEN ResolvedEntity(OwnerRow(i).type, Destination)
       ELSE Destination

\* Only entities from Source on have the relationship among their properties.
NewValues(e, i) ==
  IF ~rows[ItemTree][i].there \/ (e \in EntityIds[Source] /\ ~TypeJoinMatches(i))
  THEN NoNode
  ELSE [there |-> TRUE, a |-> rows[ItemTree][i].a,
        owner |-> IF e \in EntityIds[Source] THEN rows[ItemTree][i].owner ELSE Null,
        ownerEntity |-> IF e \in EntityIds[Source] THEN OwnerEntityRead(i) ELSE Null]

\* The items of owner o: newValueForRelationship: for a one-to-many.
NewItems(o) ==
  {[id |-> i,
    entity |-> IF NeedsEntityTypeColumn(Source)
               THEN ResolvedEntity(rows[ItemTree][i].type, Source) ELSE Source] :
   i \in ItemRowsOf(o)}
-----------------------------------------------------------------------------
ItemsOf(o) == {i \in ObjectIds(ItemTree) : objects[ItemTree][i].owner = o}

(***************************************************************************)
(* Type invariant: the tables hold the objects of the contexts, with the   *)
(* type of each object that has a superentity, and no dangling owner.      *)
(***************************************************************************)
AreTables(tables) ==
  DOMAIN tables = Trees /\ \A t \in Trees : DOMAIN tables[t] = IdsOf(t)

TypeOK ==
  /\ AreTables(objects) /\ AreTables(rows)
  /\ \A t \in Trees : \A i \in IdsOf(t) :
       \/ objects[t][i] = Absent /\ rows[t][i] = Absent
       \/ \E e \in InTree(t), v \in Values \cup {Null}, o \in OwnerIds \cup {Null} :
            /\ objects[t][i] = Object(e, v, o)
            /\ o \in OwnersFor(e)
            /\ rows[t][i] = Row(IF Parent[e] = NoEntity THEN NoEntity ELSE e, v, o)

\* The rows that some fetch of entity e with these paths can select, with or
\* without the subentities of e.
Selections(e, paths) ==
  UNION {SUBSET Selectable(e, subentities, paths) : subentities \in BOOLEAN}

Fetchable == InTree(ItemTree) \cup InTree(OwnerTree)

\* An answer lists each object once, whatever it was joined with and whatever
\* the condition selects (setReturnsDistinctResults:, EncryptedStore.m:2221).
ObjectsAreListedOnce ==
  \A e \in Fetchable : \A paths \in SUBSET Joins(PathsOf(e)) :
    \A selected \in Selections(e, paths) :
      LET answer == Answer(e, paths, selected)
      IN  answer.length = Cardinality(answer.objects)

\* An object is returned under the entity it was saved with, so that a context
\* knows it by one identifier only.  DISTINCT queries do not ask for the type.
EntitiesAreOwn ==
  \A e \in Fetchable : \A selected \in Selections(e, {}) :
    \A f \in Answer(e, {}, selected).objects : f.entity = objects[Root[e]][f.id].entity

\* A count is the number of objects the same request fetches, unless it joins
\* a to-many relationship: SELECT COUNT counts joined rows.
CountIsNumberFetched ==
  \A e \in Fetchable : \A paths \in SUBSET Joins(PathsOf(e)) :
    \A selected \in Selections(e, paths) :
      "items.a" \notin paths => CountAnswer(selected) = Answer(e, paths, selected).length

(***************************************************************************)
(* What the faults of an object read is what was saved: its attribute, its *)
(* owner under the owner's own entity, and an owner's items under theirs.  *)
(* The exception is an item without an owner where owners have types: the  *)
(* INNER JOIN finds no row (EncryptedStore.m:461).                         *)
(***************************************************************************)
SavedNode(x) ==
  [there |-> TRUE, a |-> x.a, owner |-> x.owner,
   ownerEntity |-> IF x.owner = Null THEN Null ELSE objects[OwnerTree][x.owner].entity]

FaultsReadBack ==
  /\ \A i \in ObjectIds(ItemTree) :
       LET x == objects[ItemTree][i]
       IN  \/ NewValues(x.entity, i) = SavedNode(x)
           \/ /\ x.entity \in EntityIds[Source]
              /\ x.owner = Null
              /\ NeedsEntityTypeColumn(Destination)
  /\ \A o \in ObjectIds(OwnerTree) :
       NewItems(o) = {[id |-> i, entity |-> objects[ItemTree][i].entity] :
                        i \in ItemsOf(o)}
=============================================================================
