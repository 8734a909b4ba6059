------------------------- MODULE StoreFetch_proofs -------------------------
(***************************************************************************)
(* Theorems about StoreEntities and StoreFetch, for every model of two     *)
(* trees that a relationship connects and any number of objects.  The      *)
(* tables hold the objects, faults read them back, and answers list and    *)
(* count them, each under its own entity, whatever condition a fetch       *)
(* states.  For every request, however its predicate is put together: it   *)
(* selects nothing but rows of its entity; an exact one finds nothing but  *)
(* the objects its predicate is true of, an exhaustive one finds them all. *)
(***************************************************************************)
EXTENDS StoreFetch, FiniteSetTheorems, SequenceTheorems, WellFoundedInduction, TLAPS

(***************************************************************************)
(* The trees of entities.  EntityIds is the least set of its kind: what a  *)
(* set of that kind has in common is true of the entities below another.   *)
(***************************************************************************)

\* EntityIds is the least set of its kind.
LEMMA LeastBelow ==
  ASSUME NEW e \in Entities, NEW below \in SUBSET Entities, e \in below,
         \A x \in below : SubentitiesOf(x) \subseteq below
  PROVE  EntityIds[e] \subseteq below
<1>1. EntityIds[e] =
        {s \in Entities :
           \A b \in SUBSET Entities :
             e \in b /\ (\A x \in b : SubentitiesOf(x) \subseteq b) => s \in b}
  BY DEF EntityIds
<1> QED BY <1>1

\* Below an entity only subentities are found, and with each its own.
LEMMA BelowEntity ==
  ASSUME NEW e \in Entities
  PROVE  /\ e \in EntityIds[e] /\ EntityIds[e] \subseteq Entities
         /\ \A s \in EntityIds[e] : SubentitiesOf(s) \subseteq EntityIds[e]
         /\ \A s \in EntityIds[e] : s = e \/ Parent[s] # NoEntity
         /\ ~ NeedsEntityTypeColumn(e) => EntityIds[e] = {e}
<1>1. EntityIds[e] =
        {s \in Entities :
           \A b \in SUBSET Entities :
             e \in b /\ (\A x \in b : SubentitiesOf(x) \subseteq b) => s \in b}
  BY DEF EntityIds
<1>2. e \in EntityIds[e] /\ EntityIds[e] \subseteq Entities
  BY <1>1
<1>3. \A s \in EntityIds[e] : SubentitiesOf(s) \subseteq EntityIds[e]
  BY <1>1 DEF SubentitiesOf
<1>4. ASSUME NEW s \in EntityIds[e] PROVE s = e \/ Parent[s] # NoEntity
  <2> DEFINE below == {x \in Entities : x = e \/ Parent[x] # NoEntity}
  <2>1. \A x \in below : SubentitiesOf(x) \subseteq below
    BY ModelAssumption DEF SubentitiesOf
  <2> QED BY <1>4, <2>1, LeastBelow
<1>5. ASSUME ~ NeedsEntityTypeColumn(e) PROVE EntityIds[e] = {e}
  <2>1. SubentitiesOf(e) = {}
    BY <1>5 DEF NeedsEntityTypeColumn
  <2> DEFINE below == {e}
  <2>2. \A x \in below : SubentitiesOf(x) \subseteq below
    BY <2>1
  <2>3. EntityIds[e] \subseteq below
    BY <2>2, LeastBelow
  <2> QED BY <1>2, <2>3
<1> QED BY <1>2, <1>3, <1>4, <1>5

\* The base entity has no superentity, and is its own.
LEMMA BaseEntity ==
  ASSUME NEW e \in Entities
  PROVE  /\ Root[e] \in Entities /\ Parent[Root[e]] = NoEntity /\ e \in EntityIds[Root[e]]
         /\ Parent[e] = NoEntity => Root[e] = e
<1>1. Root[e] = CHOOSE r \in Entities : Parent[r] = NoEntity /\ e \in EntityIds[r]
  BY DEF Root
<1>2. Root[e] \in Entities /\ Parent[Root[e]] = NoEntity /\ e \in EntityIds[Root[e]]
  BY <1>1, ModelAssumption
<1>3. Parent[e] = NoEntity => Root[e] = e
  BY <1>2, BelowEntity
<1> QED BY <1>2, <1>3

\* Whatever is below an entity, but the entity, has its superentity there.
LEMMA AboveBelow ==
  ASSUME NEW e \in Entities, NEW s \in EntityIds[e]
  PROVE  s = e \/ Parent[s] \in EntityIds[e]
<1> DEFINE below == {x \in EntityIds[e] : x = e \/ Parent[x] \in EntityIds[e]}
<1>1. EntityIds[e] \subseteq Entities /\ e \in EntityIds[e]
  BY BelowEntity
<1>2. below \in SUBSET Entities /\ e \in below
  BY <1>1
<1>3. \A x \in below : SubentitiesOf(x) \subseteq below
  BY BelowEntity DEF SubentitiesOf
<1>4. s \in below
  BY <1>2, <1>3, LeastBelow
<1> QED BY <1>4

\* An entity is below one base entity only.
LEMMA OneBaseEntity ==
  ASSUME NEW r \in Entities, Parent[r] = NoEntity, NEW s \in EntityIds[r]
  PROVE  Root[s] = r
<1> DEFINE b == Root[s]
           below == EntityIds[r] \ EntityIds[b]
<1>1. /\ s \in Entities /\ b \in Entities /\ Parent[b] = NoEntity /\ s \in EntityIds[b]
      /\ EntityIds[r] \subseteq Entities /\ r \in EntityIds[r]
  BY BelowEntity, BaseEntity
<1>2. ASSUME r # b PROVE FALSE
  <2>1. r \notin EntityIds[b]
    BY <1>1, <1>2, BelowEntity
  <2>2. below \in SUBSET Entities /\ r \in below
    BY <1>1, <2>1
  <2>3. ASSUME NEW x \in below, NEW c \in SubentitiesOf(x) PROVE c \in below
    <3>1. c \in EntityIds[r] /\ Parent[c] = x
      BY <2>3, BelowEntity DEF SubentitiesOf
    <3>2. x # NoEntity
      BY <1>1, ModelAssumption
    <3>3. c \notin EntityIds[b]
      BY <1>1, <3>1, <3>2, AboveBelow
    <3> QED BY <3>1, <3>3
  <2>4. \A x \in below : SubentitiesOf(x) \subseteq below
    BY <2>3
  <2>5. EntityIds[r] \subseteq below
    BY <2>2, <2>4, LeastBelow
  <2> QED BY <1>1, <2>5
<1> QED BY <1>2

\* A set of numbers that is not empty has a least one.
LEMMA LeastNumber ==
  ASSUME NEW T \in SUBSET Nat, T # {}
  PROVE  \E n \in T : \A m \in T : n <= m
<1> DEFINE Less == {ss \in Nat \X Nat : ss[1] < ss[2]}
<1>1. IsWellFoundedOn(Less, Nat)
  BY NatLessThanWellFounded DEF OpToRel
<1> HIDE DEF Less
<1>2. PICK n \in T : \A m \in T : ~ (<<m, n>> \in Less)
  BY <1>1, WFMin
<1>3. \A m \in T : m < n => <<m, n>> \in Less
  BY DEF Less
<1>4. ASSUME NEW m \in T PROVE n <= m
  <2>1. ~ (m < n)
    BY <1>2, <1>3
  <2> QED BY <2>1
<1> QED BY <1>4

\* Nothing below a subentity is the entity itself.
LEMMA NoCycle ==
  ASSUME NEW e \in Entities, NEW s \in SubentitiesOf(e)
  PROVE  e \notin EntityIds[s]
<1> SUFFICES ASSUME e \in EntityIds[s] PROVE FALSE
  OBVIOUS
<1> DEFINE b == Root[e]
           below == EntityIds[b] \ EntityIds[s]
<1>1. s \in Entities /\ Parent[s] = e /\ e # NoEntity
  BY ModelAssumption DEF SubentitiesOf
<1>2. /\ b \in Entities /\ Parent[b] = NoEntity /\ e \in EntityIds[b]
      /\ b \in EntityIds[b] /\ EntityIds[b] \subseteq Entities
  BY BaseEntity, BelowEntity
<1>3. b \notin EntityIds[s]
  BY <1>1, <1>2, BelowEntity
<1>4. below \in SUBSET Entities /\ b \in below
  BY <1>2, <1>3
<1>5. ASSUME NEW x \in below, NEW c \in SubentitiesOf(x) PROVE c \in below
  <2>1. c \in EntityIds[b] /\ Parent[c] = x
    BY <1>2, <1>5, BelowEntity DEF SubentitiesOf
  <2>2. c \notin EntityIds[s]
    BY <1>1, <1>5, <2>1, AboveBelow
  <2> QED BY <2>1, <2>2
<1>6. \A x \in below : SubentitiesOf(x) \subseteq below
  BY <1>5
<1>7. EntityIds[b] \subseteq below
  BY <1>2, <1>4, <1>6, LeastBelow
<1> QED BY <1>2, <1>7

\* What the code's recursions compute, of EntityIds and Root instead of themselves.
LEMMA OneStep ==
  ASSUME NEW e \in Entities
  PROVE  /\ Root[e] = IF Parent[e] = NoEntity THEN e ELSE Root[Parent[e]]
         /\ EntityIds[e] = {e} \cup UNION {EntityIds[s] : s \in SubentitiesOf(e)}
<1>1. Parent[e] = NoEntity => Root[e] = e
  BY BaseEntity
<1>2. ASSUME Parent[e] # NoEntity PROVE Root[e] = Root[Parent[e]]
  <2> DEFINE p == Parent[e]
             r == Root[p]
  <2>1. p \in Entities
    BY <1>2, ModelAssumption
  <2>2. r \in Entities /\ Parent[r] = NoEntity /\ p \in EntityIds[r]
    BY <2>1, BaseEntity
  <2>3. e \in EntityIds[r]
    BY <2>2, BelowEntity DEF SubentitiesOf
  <2> QED BY <2>2, <2>3, OneBaseEntity
<1> DEFINE below == {e} \cup UNION {EntityIds[s] : s \in SubentitiesOf(e)}
<1>3. below \subseteq EntityIds[e]
  <2>1. EntityIds[e] \in SUBSET Entities /\ e \in EntityIds[e]
    BY BelowEntity
  <2>2. ASSUME NEW s \in SubentitiesOf(e) PROVE EntityIds[s] \subseteq EntityIds[e]
    <3>1. s \in EntityIds[e] /\ s \in Entities
      BY <2>1, BelowEntity
    <3> QED BY <2>1, <3>1, BelowEntity, LeastBelow
  <2> QED BY <2>1, <2>2
<1>4. EntityIds[e] \subseteq below
  <2>1. \A s \in SubentitiesOf(e) : s \in Entities
    BY DEF SubentitiesOf
  <2>2. below \in SUBSET Entities /\ e \in below
    BY <2>1, BelowEntity
  <2>3. ASSUME NEW x \in below PROVE SubentitiesOf(x) \subseteq below
    BY <2>1, <2>3, BelowEntity
  <2> HIDE DEF below
  <2> QED BY <2>2, <2>3, LeastBelow
<1> QED BY <1>1, <1>2, <1>3, <1>4

\* The recursions have the values they compute.
LEMMA RecursionsEqual ==
  ASSUME NEW e \in Entities
  PROVE  /\ RootForEntity[e] = IF Parent[e] = NoEntity THEN e ELSE RootForEntity[Parent[e]]
         /\ EntityIdsForEntity[e]
              = {e} \cup UNION {EntityIdsForEntity[s] : s \in SubentitiesOf(e)}
<1> DEFINE Up(f) ==
             f = [x \in Entities |-> IF Parent[x] = NoEntity THEN x ELSE f[Parent[x]]]
           Down(f) ==
             f = [x \in Entities |-> {x} \cup UNION {f[s] : s \in SubentitiesOf(x)}]
<1>1. Up(Root)
  <2>1. Root = [x \in Entities |-> Root[x]]
    BY DEF Root
  <2> QED BY <2>1, OneStep
<1>2. Down(EntityIds)
  <2>1. EntityIds = [x \in Entities |-> EntityIds[x]]
    BY DEF EntityIds
  <2> QED BY <2>1, OneStep
<1>3. /\ RootForEntity = CHOOSE f : Up(f)
      /\ EntityIdsForEntity = CHOOSE f : Down(f)
  BY DEF RootForEntity, EntityIdsForEntity
<1> HIDE DEF Up, Down
<1>4. Up(RootForEntity) /\ Down(EntityIdsForEntity)
  BY <1>1, <1>2, <1>3
<1> QED BY <1>4 DEF Up, Down

\* In every model, the recursions of the code end at the base entity and collect
\* all that is below an entity (rootForEntity:, entityIdsForEntity:).
THEOREM Hierarchy == HierarchyIsComputed
<1>1. ASSUME NEW e \in Entities PROVE Root[e] = RootForEntity[e]
  <2> DEFINE b == Root[e]
             below == {x \in EntityIds[b] : RootForEntity[x] = b}
  <2>1. /\ b \in Entities /\ Parent[b] = NoEntity /\ e \in EntityIds[b]
        /\ b \in EntityIds[b] /\ EntityIds[b] \subseteq Entities
    BY BaseEntity, BelowEntity
  <2>2. below \in SUBSET Entities /\ b \in below
    BY <2>1, RecursionsEqual
  <2>3. ASSUME NEW x \in below, NEW c \in SubentitiesOf(x) PROVE c \in below
    <3>1. c \in EntityIds[b] /\ c \in Entities /\ Parent[c] = x /\ x # NoEntity
      BY <2>1, <2>3, BelowEntity, ModelAssumption DEF SubentitiesOf
    <3>2. RootForEntity[c] = RootForEntity[x]
      BY <3>1, RecursionsEqual
    <3> QED BY <3>1, <3>2
  <2>4. \A x \in below : SubentitiesOf(x) \subseteq below
    BY <2>3
  <2>5. EntityIds[b] \subseteq below
    <3> HIDE DEF below, b
    <3> QED BY <2>1, <2>2, <2>4, LeastBelow
  <2> QED BY <2>1, <2>5
<1> DEFINE Wrong == {e \in Entities : EntityIds[e] # EntityIdsForEntity[e]}
           Sizes == {Cardinality(EntityIds[e]) : e \in Wrong}
<1>2. ASSUME NEW e \in Entities
      PROVE  IsFiniteSet(EntityIds[e]) /\ Cardinality(EntityIds[e]) \in Nat
  <2>1. EntityIds[e] \in SUBSET Entities
    BY BelowEntity
  <2> QED BY <2>1, ModelAssumption, FS_Subset, FS_CardinalityType
<1>3. ASSUME Wrong # {} PROVE FALSE
  <2>1. Sizes \in SUBSET Nat /\ Sizes # {}
    BY <1>2, <1>3
  <2>2. PICK n \in Sizes : \A m \in Sizes : n <= m
    BY <2>1, LeastNumber
  <2>3. PICK e \in Wrong : n = Cardinality(EntityIds[e])
    BY <2>2
  <2>4. ASSUME NEW s \in SubentitiesOf(e)
        PROVE  s \in Entities /\ Cardinality(EntityIds[s]) < Cardinality(EntityIds[e])
    <3>1. s \in Entities /\ e \in EntityIds[e]
      BY <2>3, BelowEntity DEF SubentitiesOf
    <3>2. EntityIds[s] \subseteq EntityIds[e] /\ e \notin EntityIds[s]
      BY <2>3, <2>4, OneStep, NoCycle
    <3> QED BY <1>2, <2>3, <3>1, <3>2, FS_Subset
  <2>5. ASSUME NEW s \in SubentitiesOf(e) PROVE EntityIds[s] = EntityIdsForEntity[s]
    BY <1>2, <2>2, <2>3, <2>4, <2>5
  <2>6. {EntityIds[s] : s \in SubentitiesOf(e)} = {EntityIdsForEntity[s] : s \in SubentitiesOf(e)}
    BY <2>5
  <2>7. EntityIds[e] = EntityIdsForEntity[e]
    BY <2>3, <2>6, OneStep, RecursionsEqual
  <2> QED BY <2>3, <2>7
<1> QED BY <1>1, <1>3 DEF HierarchyIsComputed

\* The relationship leads from one tree to the other.
LEMMA RelatedTrees ==
  /\ \A s \in EntityIds[Source] : s \in InTree(ItemTree)
  /\ \A s \in EntityIds[Destination] : s \in InTree(OwnerTree)
<1>1. ASSUME NEW e \in Entities, NEW s \in EntityIds[e] PROVE s \in InTree(Root[e])
  <2>1. Root[e] \in Entities /\ Parent[Root[e]] = NoEntity /\ e \in EntityIds[Root[e]]
    BY BaseEntity
  <2>2. EntityIds[e] \subseteq EntityIds[Root[e]]
    BY <2>1, LeastBelow, BelowEntity
  <2> QED BY <1>1, <2>1, <2>2, OneBaseEntity, BelowEntity DEF InTree
<1> QED BY <1>1, ModelAssumption DEF ItemTree, OwnerTree

\* The identifiers of the two tables.
LEMMA TwoTables ==
  /\ ItemTree # OwnerTree /\ Trees = {ItemTree, OwnerTree}
  /\ IdsOf(ItemTree) = ItemIds /\ IdsOf(OwnerTree) = OwnerIds
  /\ Source \in InTree(ItemTree) /\ Destination \in InTree(OwnerTree)
BY ModelAssumption DEF Trees, IdsOf, InTree, ItemTree, OwnerTree
-----------------------------------------------------------------------------
(***************************************************************************)
(* The tables.                                                             *)
(***************************************************************************)

\* What the contexts know of an object and its row agree.
IsSaved(t, x, r, owners) ==
  \/ x = Absent /\ r = Absent
  \/ \E e \in InTree(t), v \in Values \cup {Null}, o \in OwnerIds \cup {Null} :
       /\ x = Object(e, v, o)
       /\ o = Null \/ (e \in EntityIds[Source] /\ o \in owners)
       /\ r = Row(EntityTypeWritten(e), v, o)

\* The objects that can be owners.
Owners == {o \in ObjectIds(OwnerTree) : objects[OwnerTree][o].entity \in EntityIds[Destination]}

\* The type invariant, object by object.
LEMMA TypeOKSaved ==
  /\ TypeOK <=> /\ AreTables(objects) /\ AreTables(rows)
                /\ \A t \in Trees : \A i \in IdsOf(t) :
                     IsSaved(t, objects[t][i], rows[t][i], Owners)
  /\ TypeOK' <=> /\ AreTables(objects') /\ AreTables(rows')
                 /\ \A t \in Trees : \A i \in IdsOf(t) :
                      IsSaved(t, objects'[t][i], rows'[t][i], Owners')
<1>1. Null \notin OwnerIds
  BY ModelAssumption
<1>2. \A e : /\ OwnersFor(e) = {Null} \cup (IF e \in EntityIds[Source] THEN Owners ELSE {})
             /\ OwnersFor(e)' = {Null} \cup (IF e \in EntityIds[Source] THEN Owners' ELSE {})
  BY DEF OwnersFor, Owners
<1>3. \A e : EntityTypeWritten(e) = IF Parent[e] = NoEntity THEN NoEntity ELSE e
  BY DEF EntityTypeWritten
<1>4. \A e, o : /\ o = Null \/ (e \in EntityIds[Source] /\ o \in Owners) <=> o \in OwnersFor(e)
                /\ o = Null \/ (e \in EntityIds[Source] /\ o \in Owners') <=> o \in OwnersFor(e)'
  BY <1>2
<1>5. TypeOK <=> /\ AreTables(objects) /\ AreTables(rows)
                 /\ \A t \in Trees : \A i \in IdsOf(t) :
                      IsSaved(t, objects[t][i], rows[t][i], Owners)
  BY <1>3, <1>4 DEF TypeOK, IsSaved
<1>6. TypeOK' <=> /\ AreTables(objects') /\ AreTables(rows')
                  /\ \A t \in Trees : \A i \in IdsOf(t) :
                       IsSaved(t, objects'[t][i], rows'[t][i], Owners')
  BY <1>3, <1>4 DEF TypeOK, IsSaved
<1> QED BY <1>5, <1>6

\* A row is there exactly if the object is.
LEMMA SavedRow ==
  ASSUME NEW t, NEW x, NEW r, NEW owners, IsSaved(t, x, r, owners)
  PROVE  /\ x.there \in BOOLEAN /\ r.there = x.there
         /\ ~ x.there => x = Absent /\ r = Absent
         /\ x.there =>
              /\ x.entity \in InTree(t) /\ x.entity \in Entities
              /\ x.a \in Values \cup {Null} /\ x.owner \in OwnerIds \cup {Null}
              /\ x.owner # Null => x.entity \in EntityIds[Source] /\ x.owner \in owners
              /\ x = Object(x.entity, x.a, x.owner)
              /\ r = Row(EntityTypeWritten(x.entity), x.a, x.owner)
              /\ r.type = EntityTypeWritten(x.entity) /\ r.a = x.a /\ r.owner = x.owner
<1>1. CASE x = Absent /\ r = Absent
  BY <1>1 DEF Absent
<1>2. CASE \E e \in InTree(t), v \in Values \cup {Null}, o \in OwnerIds \cup {Null} :
             /\ x = Object(e, v, o)
             /\ o = Null \/ (e \in EntityIds[Source] /\ o \in owners)
             /\ r = Row(EntityTypeWritten(e), v, o)
  <2>1. PICK e \in InTree(t), v \in Values \cup {Null}, o \in OwnerIds \cup {Null} :
             /\ x = Object(e, v, o)
             /\ o = Null \/ (e \in EntityIds[Source] /\ o \in owners)
             /\ r = Row(EntityTypeWritten(e), v, o)
    BY <1>2
  <2>2. x.there /\ x.entity = e /\ x.a = v /\ x.owner = o
    BY <2>1 DEF Object
  <2>3. r.there /\ r.type = EntityTypeWritten(e) /\ r.a = v /\ r.owner = o
    BY <2>1 DEF Row
  <2>4. e \in Entities
    BY DEF InTree
  <2>5. x.there = TRUE /\ r.there = TRUE
    BY <2>1 DEF Object, Row
  <2> QED BY <2>1, <2>2, <2>3, <2>4, <2>5
<1> QED BY <1>1, <1>2 DEF IsSaved

\* An object is inserted where no row is, with an owner that is there.
LEMMA InsertType ==
  ASSUME TypeOK, NEW e \in Entities, NEW t \in Trees, Root[e] = t, NEW i \in IdsOf(t),
         NEW v \in Values \cup {Null}, NEW o \in OwnerIds \cup {Null}, Insert(e, i, v, o)
  PROVE  TypeOK'
<1>1. /\ objects' = [objects EXCEPT ![t][i] = Object(e, v, o)]
      /\ rows' = [rows EXCEPT ![t][i] = Row(EntityTypeWritten(e), v, o)]
      /\ ~ rows[t][i].there /\ o \in OwnersFor(e)
  BY DEF Insert
<1>2. AreTables(objects) /\ AreTables(rows)
  BY TypeOKSaved, TwoTables
<1>3. ~ objects[t][i].there
  BY <1>1, TypeOKSaved, SavedRow
<1>4. \A u \in Trees : \A k \in IdsOf(u) :
        /\ objects'[u][k] = IF u = t /\ k = i THEN Object(e, v, o) ELSE objects[u][k]
        /\ rows'[u][k] = IF u = t /\ k = i THEN Row(EntityTypeWritten(e), v, o) ELSE rows[u][k]
  BY <1>1, <1>2 DEF AreTables
<1>5. Owners \subseteq Owners'
  BY <1>3, <1>4, TwoTables DEF Owners, ObjectIds
<1>6. ASSUME NEW u \in Trees, NEW k \in IdsOf(u)
      PROVE  IsSaved(u, objects'[u][k], rows'[u][k], Owners')
  <2>1. CASE u = t /\ k = i
    <3>1. e \in InTree(t)
      BY DEF InTree
    <3>2. o = Null \/ (e \in EntityIds[Source] /\ o \in Owners)
      BY <1>1 DEF OwnersFor, Owners
    <3> QED BY <1>4, <1>5, <2>1, <3>1, <3>2 DEF IsSaved
  <2>2. CASE ~ (u = t /\ k = i)
    <3>1. IsSaved(u, objects[u][k], rows[u][k], Owners)
      BY TypeOKSaved
    <3> QED BY <1>4, <1>5, <2>2, <3>1 DEF IsSaved
  <2> QED BY <2>1, <2>2
<1>7. AreTables(objects') /\ AreTables(rows')
  BY <1>1, <1>2 DEF AreTables
<1> QED BY <1>6, <1>7, TypeOKSaved

\* An update keeps the entity of the object, and the type of its row.
LEMMA UpdateType ==
  ASSUME TypeOK, NEW t \in Trees, NEW i \in IdsOf(t),
         NEW v \in Values \cup {Null}, NEW o \in OwnerIds \cup {Null}, Update(t, i, v, o)
  PROVE  TypeOK'
<1> DEFINE e == objects[t][i].entity
<1>1. /\ objects' = [objects EXCEPT ![t][i] = Object(e, v, o)]
      /\ rows' = [rows EXCEPT ![t][i] = Row(rows[t][i].type, v, o)]
      /\ objects[t][i].there /\ o \in OwnersFor(e)
  BY DEF Update, UpdateRow, ObjectIds
<1>2. AreTables(objects) /\ AreTables(rows)
  BY TypeOKSaved
<1>3. e \in InTree(t) /\ rows[t][i].type = EntityTypeWritten(e)
  BY <1>1, TypeOKSaved, SavedRow
<1> HIDE DEF e
<1>4. AreTables(objects') /\ AreTables(rows')
  BY <1>1, <1>2 DEF AreTables
<1>5. \A u \in Trees : \A k \in IdsOf(u) :
        /\ objects'[u][k] = IF u = t /\ k = i THEN Object(e, v, o) ELSE objects[u][k]
        /\ rows'[u][k] = IF u = t /\ k = i THEN Row(EntityTypeWritten(e), v, o) ELSE rows[u][k]
  BY <1>1, <1>2, <1>3 DEF AreTables
<1>6. Owners \subseteq Owners'
  <2>1. Object(e, v, o).there /\ Object(e, v, o).entity = objects[t][i].entity
    BY DEF Object, e
  <2> QED BY <1>5, <2>1, TwoTables DEF Owners, ObjectIds
<1>7. ASSUME NEW u \in Trees, NEW k \in IdsOf(u)
      PROVE  IsSaved(u, objects'[u][k], rows'[u][k], Owners')
  <2>1. CASE u = t /\ k = i
    <3>1. o = Null \/ (e \in EntityIds[Source] /\ o \in Owners)
      BY <1>1 DEF OwnersFor, Owners
    <3> QED BY <1>3, <1>5, <1>6, <2>1, <3>1 DEF IsSaved
  <2>2. CASE ~ (u = t /\ k = i)
    <3>1. IsSaved(u, objects[u][k], rows[u][k], Owners)
      BY TypeOKSaved
    <3> QED BY <1>5, <1>6, <2>2, <3>1 DEF IsSaved
  <2> QED BY <2>1, <2>2
<1> QED BY <1>4, <1>7, TypeOKSaved

\* A deletion leaves no object with the deleted one as its owner.
LEMMA DeleteType ==
  ASSUME TypeOK, NEW t \in Trees, NEW i \in IdsOf(t), Delete(t, i)
  PROVE  TypeOK'
<1>1. AreTables(objects') /\ AreTables(rows')
  BY DEF Delete, ObjectsWithout, RowsWithout, AreTables
<1>2. ASSUME NEW u \in Trees, NEW k \in IdsOf(u)
      PROVE  /\ objects'[u][k] =
                  IF u = t /\ k = i THEN Absent
                  ELSE IF IsNullified(u, objects[u][k], t, i)
                       THEN Object(objects[u][k].entity, objects[u][k].a, Null)
                       ELSE objects[u][k]
             /\ rows'[u][k] =
                  IF u = t /\ k = i THEN Absent
                  ELSE IF IsNullified(u, rows[u][k], t, i)
                       THEN Row(rows[u][k].type, rows[u][k].a, Null)
                       ELSE rows[u][k]
  BY DEF Delete, ObjectsWithout, RowsWithout
<1>3. \A o \in Owners : t # OwnerTree \/ o # i => o \in Owners'
  BY <1>2, TwoTables DEF Owners, ObjectIds, IsNullified
<1>4. ASSUME NEW u \in Trees, NEW k \in IdsOf(u)
      PROVE  IsSaved(u, objects'[u][k], rows'[u][k], Owners')
  <2> DEFINE x == objects[u][k]
             r == rows[u][k]
  <2>1. IsSaved(u, x, r, Owners)
    BY TypeOKSaved
  <2>2. CASE u = t /\ k = i
    BY <1>2, <2>2 DEF IsSaved
  <2>3. CASE ~ (u = t /\ k = i) /\ IsNullified(u, x, t, i)
    <3>1. x.entity \in InTree(u) /\ x.a \in Values \cup {Null}
      BY <2>1, <2>3, SavedRow DEF IsNullified
    <3>2. IsNullified(u, r, t, i) /\ r.type = EntityTypeWritten(x.entity) /\ r.a = x.a
      BY <2>1, <2>3, SavedRow DEF IsNullified
    <3>3. /\ objects'[u][k] = Object(x.entity, x.a, Null)
          /\ rows'[u][k] = Row(EntityTypeWritten(x.entity), x.a, Null)
      BY <1>2, <2>3, <3>2
    <3> HIDE DEF x, r
    <3> QED BY <3>1, <3>3 DEF IsSaved
  <2>4. CASE ~ (u = t /\ k = i) /\ ~ IsNullified(u, x, t, i)
    <3>1. ~ IsNullified(u, r, t, i)
      BY <2>1, <2>4, SavedRow DEF IsNullified
    <3>2. objects'[u][k] = x /\ rows'[u][k] = r
      BY <1>2, <2>4, <3>1
    <3> HIDE DEF x, r
    <3>3. ASSUME x.there, x.owner # Null PROVE x.owner \in Owners'
      <4>1. x.owner \in Owners /\ x.entity \in EntityIds[Source] /\ x.entity \in InTree(u)
        BY <2>1, <3>3, SavedRow
      <4>2. u = ItemTree
        BY <4>1, RelatedTrees DEF InTree
      <4>3. t # OwnerTree \/ x.owner # i
        BY <2>4, <3>3, <4>2 DEF IsNullified
      <4> QED BY <1>3, <4>1, <4>3
    <3>4. x = Absent \/ (x.there /\ x # Absent)
      BY <2>1, SavedRow
    <3> QED BY <2>1, <3>2, <3>3, <3>4, SavedRow DEF IsSaved
  <2> QED BY <2>2, <2>3, <2>4
<1> QED BY <1>1, <1>4, TypeOKSaved

\* At first both tables are empty.
LEMMA InitType == Init => TypeOK
<1> SUFFICES ASSUME Init PROVE TypeOK
  OBVIOUS
<1>1. AreTables(objects) /\ AreTables(rows)
  BY DEF Init, AreTables
<1>2. \A t \in Trees : \A i \in IdsOf(t) : objects[t][i] = Absent /\ rows[t][i] = Absent
  BY DEF Init
<1> QED BY <1>1, <1>2, TypeOKSaved DEF IsSaved

\* Whatever is inserted, updated and deleted, the two tables hold the objects of
\* the contexts, each under the type it needs, and no owner that is not there
\* (saveChangesInCoreData and the inserts, updates and deletes of a save).
THEOREM TypeCorrect == Spec => []TypeOK
<1>1. TypeOK /\ [Next]_vars => TypeOK'
  <2> SUFFICES ASSUME TypeOK, [Next]_vars PROVE TypeOK'
    OBVIOUS
  <2>1. CASE UNCHANGED vars
    <3>1. Owners' = Owners /\ objects' = objects /\ rows' = rows
      BY <2>1 DEF vars, Owners, ObjectIds
    <3> QED BY <3>1, TypeOKSaved
  <2>2. CASE Next
    <3>1. PICK t \in Trees : \E i \in IdsOf(t) :
            \/ \E v \in Values \cup {Null}, o \in OwnerIds \cup {Null} :
                 \/ \E e \in InTree(t) : Insert(e, i, v, o)
                 \/ Update(t, i, v, o)
            \/ Delete(t, i)
      BY <2>2 DEF Next
    <3>2. PICK i \in IdsOf(t) :
            \/ \E v \in Values \cup {Null}, o \in OwnerIds \cup {Null} :
                 \/ \E e \in InTree(t) : Insert(e, i, v, o)
                 \/ Update(t, i, v, o)
            \/ Delete(t, i)
      BY <3>1
    <3>3. ASSUME NEW v \in Values \cup {Null}, NEW o \in OwnerIds \cup {Null},
                 NEW e \in InTree(t), Insert(e, i, v, o)
          PROVE  TypeOK'
      BY <3>3, InsertType DEF InTree
    <3>4. ASSUME NEW v \in Values \cup {Null}, NEW o \in OwnerIds \cup {Null},
                 Update(t, i, v, o)
          PROVE  TypeOK'
      BY <3>4, UpdateType
    <3>5. ASSUME Delete(t, i) PROVE TypeOK'
      BY <3>5, DeleteType
    <3> QED BY <3>2, <3>3, <3>4, <3>5
  <2> QED BY <2>1, <2>2
<1> QED BY InitType, <1>1, PTL DEF Spec
-----------------------------------------------------------------------------
(***************************************************************************)
(* What is read back.                                                      *)
(***************************************************************************)

\* An object's row, and the entity it leads to from an entity it is below.
LEMMA OwnRow ==
  ASSUME TypeOK, NEW t \in Trees
  PROVE  /\ RowIds(t) = ObjectIds(t)
         /\ \A i \in ObjectIds(t) :
              /\ i \in IdsOf(t)
              /\ objects[t][i].there = TRUE /\ rows[t][i].there = TRUE
              /\ objects[t][i].entity \in InTree(t) /\ objects[t][i].entity \in Entities
              /\ objects[t][i].owner # Null =>
                   objects[t][i].entity \in EntityIds[Source] /\ objects[t][i].owner \in Owners
              /\ rows[t][i].type = EntityTypeWritten(objects[t][i].entity)
              /\ rows[t][i].a = objects[t][i].a /\ rows[t][i].owner = objects[t][i].owner
<1>1. \A i \in IdsOf(t) : IsSaved(t, objects[t][i], rows[t][i], Owners)
  BY TypeOKSaved
<1>2. \A i \in IdsOf(t) : rows[t][i].there = objects[t][i].there
                         /\ objects[t][i].there \in BOOLEAN
  BY <1>1, SavedRow
<1>3. RowIds(t) = ObjectIds(t)
  BY <1>2 DEF RowIds, ObjectIds
<1>4. ASSUME NEW i \in ObjectIds(t)
      PROVE  i \in IdsOf(t) /\ objects[t][i].there
  BY DEF ObjectIds
<1> QED BY <1>1, <1>2, <1>3, <1>4, SavedRow

\* The type that is written says which entity below e an object is of.
LEMMA TypeResolves ==
  ASSUME NEW e \in Entities, NEW s \in EntityIds[e]
  PROVE  ResolvedEntity(EntityTypeWritten(s), e) = s
<1>1. s \in Entities /\ (s = e \/ Parent[s] # NoEntity)
  BY BelowEntity
<1> QED BY <1>1, ModelAssumption DEF ResolvedEntity, EntityTypeWritten

\* With or without a column for the type, the entity read is the object's own.
LEMMA TypeOrOnly ==
  ASSUME NEW e \in Entities, NEW s \in EntityIds[e]
  PROVE  s = IF NeedsEntityTypeColumn(e) THEN ResolvedEntity(EntityTypeWritten(s), e) ELSE e
BY TypeResolves, BelowEntity

\* The owner of a saved object is there, under its own entity.
LEMMA OwnerIsSaved ==
  ASSUME TypeOK, NEW o \in Owners
  PROVE  /\ o \in RowIds(OwnerTree) /\ objects[OwnerTree][o].entity \in EntityIds[Destination]
         /\ rows[OwnerTree][o].type = EntityTypeWritten(objects[OwnerTree][o].entity)
<1>1. OwnerTree \in Trees /\ o \in ObjectIds(OwnerTree)
  BY DEF Trees, Owners
<1> QED BY <1>1, OwnRow DEF Owners

\* The faults of an object of the tree of Source read what was saved.
LEMMA ValuesRead ==
  ASSUME TypeOK, NEW i \in ObjectIds(ItemTree)
  PROVE  LET x == objects[ItemTree][i]
         IN  \/ NewValues(x.entity, i) = SavedNode(x)
             \/ /\ x.entity \in EntityIds[Source]
                /\ x.owner = Null
                /\ NeedsEntityTypeColumn(Destination)
<1> DEFINE x == objects[ItemTree][i]
           r == rows[ItemTree][i]
<1>1. /\ r.there = TRUE /\ r.a = x.a /\ r.owner = x.owner
      /\ x.owner # Null => x.entity \in EntityIds[Source] /\ x.owner \in Owners
  BY OwnRow DEF Trees
<1>2. CASE x.entity \notin EntityIds[Source]
  <2>1. x.owner = Null
    BY <1>1, <1>2
  <2>2. NewValues(x.entity, i) =
          [there |-> TRUE, a |-> r.a, owner |-> Null, ownerEntity |-> Null]
    BY <1>1, <1>2 DEF NewValues
  <2>3. SavedNode(x) = [there |-> TRUE, a |-> x.a, owner |-> Null, ownerEntity |-> Null]
    BY <2>1 DEF SavedNode
  <2> QED BY <1>1, <2>2, <2>3
<1>3. CASE x.entity \in EntityIds[Source] /\ x.owner = Null
  <2>1. CASE NeedsEntityTypeColumn(Destination)
    BY <1>3, <2>1
  <2>2. CASE ~ NeedsEntityTypeColumn(Destination)
    <3>1. TypeJoinMatches(i) /\ OwnerEntityRead(i) = Null
      BY <1>1, <1>3, <2>2 DEF TypeJoinMatches, OwnerEntityRead
    <3>2. NewValues(x.entity, i) =
            [there |-> TRUE, a |-> r.a, owner |-> r.owner, ownerEntity |-> Null]
      BY <1>1, <1>3, <3>1 DEF NewValues
    <3>3. SavedNode(x) = [there |-> TRUE, a |-> x.a, owner |-> x.owner, ownerEntity |-> Null]
      BY <1>3 DEF SavedNode
    <3> QED BY <1>1, <3>2, <3>3
  <2> QED BY <2>1, <2>2
<1>4. CASE x.entity \in EntityIds[Source] /\ x.owner # Null
  <2> DEFINE own == objects[OwnerTree][x.owner].entity
  <2>1. /\ x.owner \in RowIds(OwnerTree) /\ own \in EntityIds[Destination]
        /\ rows[OwnerTree][x.owner].type = EntityTypeWritten(own)
    BY <1>1, <1>4, OwnerIsSaved
  <2>2. own = IF NeedsEntityTypeColumn(Destination)
              THEN ResolvedEntity(EntityTypeWritten(own), Destination) ELSE Destination
    BY <2>1, TypeOrOnly, ModelAssumption
  <2>3. OwnerRow(i) = rows[OwnerTree][x.owner]
    BY <1>1 DEF OwnerRow
  <2>4. TypeJoinMatches(i) /\ OwnerEntityRead(i) = own
    BY <1>1, <1>4, <2>1, <2>2, <2>3 DEF TypeJoinMatches, OwnerEntityRead
  <2>5. NewValues(x.entity, i) =
          [there |-> TRUE, a |-> r.a, owner |-> r.owner, ownerEntity |-> own]
    BY <1>1, <1>4, <2>4 DEF NewValues
  <2>6. SavedNode(x) = [there |-> TRUE, a |-> x.a, owner |-> x.owner, ownerEntity |-> own]
    BY <1>4 DEF SavedNode
  <2> QED BY <1>1, <2>5, <2>6
<1> QED BY <1>2, <1>3, <1>4

\* The items that the fault of an owner reads are the items it owns.
LEMMA ItemsRead ==
  ASSUME TypeOK, NEW o \in ObjectIds(OwnerTree)
  PROVE  NewItems(o) =
           {[id |-> i, entity |-> objects[ItemTree][i].entity] : i \in ItemsOf(o)}
<1>1. ItemTree \in Trees /\ OwnerTree \in Trees
  BY DEF Trees
<1>2. o # Null
  BY <1>1, OwnRow, TwoTables, ModelAssumption
<1>3. ItemRowsOf(o) = ItemsOf(o)
  BY <1>1, OwnRow DEF ItemRowsOf, ItemsOf
<1>4. ASSUME NEW i \in ItemsOf(o)
      PROVE  (IF NeedsEntityTypeColumn(Source)
              THEN ResolvedEntity(rows[ItemTree][i].type, Source) ELSE Source)
               = objects[ItemTree][i].entity
  <2>1. /\ objects[ItemTree][i].entity \in EntityIds[Source]
        /\ rows[ItemTree][i].type = EntityTypeWritten(objects[ItemTree][i].entity)
    BY <1>1, <1>2, OwnRow DEF ItemsOf
  <2> QED BY <2>1, TypeOrOnly, ModelAssumption
<1> QED BY <1>3, <1>4 DEF NewItems

\* Faults read back what was saved, a to-one owner and one-to-many items each
\* under their own entity (newValuesForObjectWithID:withContext:error: and
\* newValueForRelationship:forObjectWithID:withContext:error:).
THEOREM FaultsRead == Spec => []FaultsReadBack
<1>1. TypeOK => FaultsReadBack
  BY ValuesRead, ItemsRead DEF FaultsReadBack
<1> QED BY <1>1, TypeCorrect, PTL
-----------------------------------------------------------------------------
(***************************************************************************)
(* What is answered.  The condition of a fetch is any set of joined rows   *)
(* of the right type.                                                      *)
(***************************************************************************)
\* A selected row is a joined row of the entity the fetch is restricted to.
LEMMA SelectedRow ==
  ASSUME NEW e \in Fetchable, NEW paths, NEW selected \in Selections(e, paths)
  PROVE  \E subentities \in BOOLEAN :
           \A env \in selected :
             env \in JoinedRows(e, paths) /\ IsOfType(e, subentities, env.self)
BY DEF Selections, Selectable

\* A joined row starts from a row of the entity's table.
LEMMA JoinedRow ==
  ASSUME NEW e, NEW paths, NEW env \in JoinedRows(e, paths)
  PROVE  /\ env.self \in RowIds(Root[e])
         /\ env.owner \in OwnersJoined(paths, env.self)
         /\ env.item \in ItemsJoined(paths, env.self)
         /\ env = [self |-> env.self, owner |-> env.owner, item |-> env.item]
<1>1. PICK i \in RowIds(Root[e]) :
        env \in {[self |-> i, owner |-> o, item |-> k] :
                   o \in OwnersJoined(paths, i), k \in ItemsJoined(paths, i)}
  BY DEF JoinedRows
<1>2. PICK o \in OwnersJoined(paths, i), k \in ItemsJoined(paths, i) :
        env = [self |-> i, owner |-> o, item |-> k]
  BY <1>1
<1>3. env.self = i /\ env.owner = o /\ env.item = k
  BY <1>2
<1> QED BY <1>2, <1>3

\* Without a to-many join, a row of the table is joined once.
LEMMA JoinedOnce ==
  ASSUME NEW e, NEW paths, "items.a" \notin paths,
         NEW r \in JoinedRows(e, paths), NEW s \in JoinedRows(e, paths), r.self = s.self
  PROVE  r = s
<1>1. /\ r.owner \in OwnersJoined(paths, r.self) /\ s.owner \in OwnersJoined(paths, r.self)
      /\ r.item \in ItemsJoined(paths, r.self) /\ s.item \in ItemsJoined(paths, r.self)
      /\ r = [self |-> r.self, owner |-> r.owner, item |-> r.item]
      /\ s = [self |-> s.self, owner |-> s.owner, item |-> s.item]
  BY JoinedRow
<1>2. ItemsJoined(paths, r.self) = {Null}
  BY DEF ItemsJoined, Joins
<1>3. r.owner = s.owner
  BY <1>1 DEF OwnersJoined, OuterJoin
<1> QED BY <1>1, <1>2, <1>3

\* One for one there are as many in one set as in the other.
LEMMA SameNumber ==
  ASSUME NEW S, NEW T, NEW f \in [S -> T], IsFiniteSet(T),
         \A x, y \in S : f[x] = f[y] => x = y,
         \A z \in T : \E x \in S : f[x] = z
  PROVE  Cardinality(S) = Cardinality(T)
<1>1. f \in Injection(S, T) /\ f \in Surjection(S, T)
  BY DEF Injection, Surjection, IsInjective
<1> QED BY <1>1, FS_Injection

\* What a fetch finds are finitely many objects of the entity's table.
LEMMA FoundRows ==
  ASSUME NEW e \in Fetchable, NEW paths, NEW selected \in Selections(e, paths)
  PROVE  Found(selected) \subseteq RowIds(Root[e]) /\ IsFiniteSet(Found(selected))
<1>1. Found(selected) \subseteq RowIds(Root[e])
  BY SelectedRow, JoinedRow DEF Found
<1>2. IsFiniteSet(IdsOf(Root[e])) /\ RowIds(Root[e]) \subseteq IdsOf(Root[e])
  BY ModelAssumption DEF IdsOf, RowIds
<1>3. Found(selected) \in SUBSET IdsOf(Root[e])
  BY <1>1, <1>2
<1> QED BY <1>1, <1>2, <1>3, FS_Subset

\* Without a to-many join, there are as many joined rows as objects found.
LEMMA FoundOnce ==
  ASSUME NEW e \in Fetchable, NEW paths, NEW selected \in Selections(e, paths),
         "items.a" \notin paths
  PROVE  Cardinality(selected) = Cardinality(Found(selected))
<1> DEFINE f == [env \in selected |-> env.self]
<1>1. f \in [selected -> Found(selected)]
  BY DEF Found
<1>2. \A z \in Found(selected) : \E x \in selected : f[x] = z
  BY DEF Found
<1>3. \A x, y \in selected : f[x] = f[y] => x = y
  BY SelectedRow, JoinedOnce
<1>4. IsFiniteSet(Found(selected))
  BY FoundRows
<1> HIDE DEF f
<1> QED BY <1>1, <1>2, <1>3, <1>4, SameNumber

\* As many objects are found as the answer has, one for each.
LEMMA AnswerObjects ==
  ASSUME NEW e \in Fetchable, NEW paths, NEW selected \in Selections(e, paths)
  PROVE  Cardinality(Answer(e, paths, selected).objects) = Cardinality(Found(selected))
<1> DEFINE T == Answer(e, paths, selected).objects
           f == [x \in T |-> x.id]
<1>1. T = {[id |-> i, entity |-> EntityToFetch(e, paths, i)] : i \in Found(selected)}
  BY DEF Answer
<1>2. \A i : [id |-> i, entity |-> EntityToFetch(e, paths, i)].id = i
  OBVIOUS
<1> HIDE DEF T
<1>3. f \in [T -> Found(selected)]
  BY <1>1, <1>2
<1>4. \A z \in Found(selected) : \E x \in T : f[x] = z
  BY <1>1, <1>2
<1>5. \A x, y \in T : f[x] = f[y] => x = y
  BY <1>1, <1>2
<1>6. IsFiniteSet(Found(selected))
  BY FoundRows
<1> HIDE DEF f
<1>7. Cardinality(T) = Cardinality(Found(selected))
  BY <1>3, <1>4, <1>5, <1>6, SameNumber
<1> QED BY <1>7 DEF T

\* Whatever the condition of a fetch selects of whatever was joined, its answer
\* lists no object twice (setReturnsDistinctResults:).
THEOREM ListedOnce == Spec => []ObjectsAreListedOnce
<1>1. ASSUME NEW e \in Fetchable, NEW paths \in SUBSET Joins(PathsOf(e)),
             NEW selected \in Selections(e, paths)
      PROVE  Answer(e, paths, selected).length
               = Cardinality(Answer(e, paths, selected).objects)
  <2>1. Answer(e, paths, selected).length
          = Cardinality(IF ReturnsDistinctResults(paths) THEN Found(selected) ELSE selected)
    BY DEF Answer
  <2>2. CASE ReturnsDistinctResults(paths)
    BY <2>1, <2>2, AnswerObjects
  <2>3. CASE ~ ReturnsDistinctResults(paths)
    <3>1. "items.a" \notin paths
      BY <2>3 DEF ReturnsDistinctResults, Joins
    <3> QED BY <2>1, <2>3, <3>1, FoundOnce, AnswerObjects
  <2> QED BY <2>2, <2>3
<1>2. ObjectsAreListedOnce
  BY <1>1 DEF ObjectsAreListedOnce
<1> QED BY <1>2, PTL

\* Without a to-many join, a count is the number of objects that the same fetch
\* answers with (SELECT COUNT).
THEOREM CountsAgree == Spec => []CountIsNumberFetched
<1>1. ASSUME NEW e \in Fetchable, NEW paths \in SUBSET Joins(PathsOf(e)),
             NEW selected \in Selections(e, paths), "items.a" \notin paths
      PROVE  CountAnswer(selected) = Answer(e, paths, selected).length
  BY <1>1, FoundOnce DEF CountAnswer, Answer
<1>2. CountIsNumberFetched
  BY <1>1 DEF CountIsNumberFetched
<1> QED BY <1>2, PTL

\* A fetch without joins answers with each object under the entity it was saved
\* with, be it a base entity, which no condition restricts, or one below.
THEOREM EntitiesOwn == Spec => []EntitiesAreOwn
<1>1. ASSUME TypeOK, NEW e \in Fetchable, NEW selected \in Selections(e, {}),
             NEW env \in selected
      PROVE  EntityToFetch(e, {}, env.self) = objects[Root[e]][env.self].entity
  <2> DEFINE own == objects[Root[e]][env.self].entity
             type == rows[Root[e]][env.self].type
  <2>1. PICK subentities \in BOOLEAN :
          env \in JoinedRows(e, {}) /\ IsOfType(e, subentities, env.self)
    BY SelectedRow
  <2>2. e \in Entities /\ Root[e] \in Trees
    BY DEF Fetchable, InTree, Trees
  <2>3. own \in InTree(Root[e]) /\ own \in Entities /\ type = EntityTypeWritten(own)
    <3>1. env.self \in RowIds(Root[e])
      BY <2>1, JoinedRow
    <3> QED BY <1>1, <2>2, <3>1, OwnRow
  <2>4. own \in EntityIds[e]
    <3>1. CASE Parent[e] = NoEntity
      <4>1. Root[e] = e /\ Root[own] = e
        BY <2>2, <2>3, <3>1, BaseEntity DEF InTree
      <4> QED BY <2>3, <4>1, BaseEntity
    <3>2. CASE Parent[e] # NoEntity
      <4>1. type \in EntityIds[e] /\ EntityIds[e] \subseteq Entities
        BY <2>1, <2>2, <3>2, BelowEntity DEF IsOfType, TypesFetched
      <4>2. type # NoEntity
        BY <4>1, ModelAssumption
      <4>3. type = own
        BY <2>3, <4>2 DEF EntityTypeWritten
      <4> QED BY <4>1, <4>3
    <3> QED BY <3>1, <3>2
  <2>5. ~ ReturnsDistinctResults({})
    BY DEF ReturnsDistinctResults, Joins
  <2>6. EntityToFetch(e, {}, env.self)
          = IF NeedsEntityTypeColumn(e) THEN ResolvedEntity(type, e) ELSE e
    BY <2>5 DEF EntityToFetch
  <2> QED BY <2>2, <2>3, <2>4, <2>6, TypeOrOnly
<1>2. TypeOK => EntitiesAreOwn
  <2> SUFFICES ASSUME TypeOK, NEW e \in Fetchable, NEW selected \in Selections(e, {}),
                      NEW f \in Answer(e, {}, selected).objects
               PROVE  f.entity = objects[Root[e]][f.id].entity
    BY DEF EntitiesAreOwn
  <2>1. PICK env \in selected :
          f = [id |-> env.self, entity |-> EntityToFetch(e, {}, env.self)]
    BY DEF Answer, Found
  <2>2. f.entity = EntityToFetch(e, {}, env.self) /\ f.id = env.self
    BY <2>1
  <2> QED BY <1>1, <2>2
<1> QED BY <1>2, TypeCorrect, PTL
-----------------------------------------------------------------------------
(***************************************************************************)
(* Predicates are trees: what is true of a predicate if it is true of its  *)
(* parts is true of all of them, and what is computed of a predicate from  *)
(* what is computed of its parts is computed of all of them.               *)
(***************************************************************************)

\* Sets of predicates that have the parts of each.
HasParts(D) == D \subseteq Predicates /\ \A p \in D : Parts(p) \subseteq D

\* A set of predicates that is not empty has one of the least height.
LEMMA LeastHeight ==
  ASSUME NEW S \in SUBSET Predicates, S # {}
  PROVE  \E p \in S : \A q \in S : Height[p] <= Height[q]
<1> DEFINE T == {Height[p] : p \in S}
<1>1. T \in SUBSET Nat /\ T # {}
  BY FetchAssumption
<1>2. PICK n \in T : \A m \in T : n <= m
  BY <1>1, LeastNumber
<1> QED BY <1>2

\* Structural induction.
LEMMA TreeInduction ==
  ASSUME NEW D, HasParts(D), NEW S \in SUBSET D,
         \A p \in D : Parts(p) \subseteq S => p \in S
  PROVE  S = D
<1> SUFFICES ASSUME S # D PROVE FALSE
  OBVIOUS
<1>1. D \ S \in SUBSET Predicates /\ D \ S # {}
  BY DEF HasParts
<1>2. PICK p \in D \ S : \A q \in D \ S : Height[p] <= Height[q]
  BY <1>1, LeastHeight
<1>3. p \in Predicates /\ Parts(p) \subseteq D
  BY DEF HasParts
<1>4. \A q \in Parts(p) : Height[q] < Height[p] /\ Height[q] \in Nat /\ Height[p] \in Nat
  BY <1>3, FetchAssumption
<1>5. Parts(p) \subseteq S
  BY <1>2, <1>3, <1>4
<1> QED BY <1>5

\* Structural recursion.  A solution for a set of predicates: the value of each
\* is computed from those of its parts.
Restricted(f, p) == [q \in Parts(p) |-> f[q]]

Computes(H, Value, D) == \A p \in D : \A g \in [Parts(p) -> Value] : H[p][g] \in Value

IsSolution(f, E, H) == \A p \in E : f[p] = H[p][Restricted(f, p)]

Solutions(E, Value, H) == {f \in [E -> Value] : IsSolution(f, E, H)}

\* Solutions agree on the predicates they share.
LEMMA SolutionsAgree ==
  ASSUME NEW E, HasParts(E), NEW F, HasParts(F), NEW Value, NEW H,
         NEW f \in Solutions(E, Value, H), NEW g \in Solutions(F, Value, H)
  PROVE  \A p \in E \cap F : f[p] = g[p]
<1> DEFINE S == {p \in E \cap F : f[p] = g[p]}
<1>1. HasParts(E \cap F)
  BY DEF HasParts
<1>2. ASSUME NEW p \in E \cap F, Parts(p) \subseteq S PROVE p \in S
  <2>1. Restricted(f, p) = Restricted(g, p)
    BY <1>2 DEF Restricted
  <2>2. f[p] = H[p][Restricted(f, p)] /\ g[p] = H[p][Restricted(g, p)]
    BY DEF Solutions, IsSolution
  <2> QED BY <2>1, <2>2
<1>3. S = E \cap F
  <2> HIDE DEF S
  <2>1. S \in SUBSET (E \cap F)
    BY DEF S
  <2> QED BY <1>1, <1>2, <2>1, TreeInduction
<1> QED BY <1>3

\* The largest solution that agrees with all others has a value for every
\* predicate: one for the parts of a predicate can be extended by it.
LEMMA TreeRecursion ==
  ASSUME NEW D, HasParts(D), NEW Value, NEW H, Computes(H, Value, D)
  PROVE  Solutions(D, Value, H) # {}
<1> DEFINE Solved == {E \in SUBSET D : HasParts(E) /\ Solutions(E, Value, H) # {}}
           U == UNION Solved
           IsValue(p, v) ==
             \E E \in Solved : p \in E /\ \E f \in Solutions(E, Value, H) : v = f[p]
           F == [p \in U |-> CHOOSE v \in Value : IsValue(p, v)]
<1>1. HasParts(U) /\ U \in SUBSET D
  BY DEF HasParts
<1>2. ASSUME NEW E \in Solved, NEW f \in Solutions(E, Value, H), NEW p \in E
      PROVE  F[p] = f[p] /\ F[p] \in Value
  <2>1. f[p] \in Value /\ IsValue(p, f[p]) /\ p \in U
    BY DEF Solutions
  <2>2. F[p] \in Value /\ IsValue(p, F[p])
    BY <2>1
  <2>3. PICK G \in Solved : p \in G /\ \E g \in Solutions(G, Value, H) : F[p] = g[p]
    BY <2>2
  <2>4. PICK g \in Solutions(G, Value, H) : F[p] = g[p]
    BY <2>3
  <2>5. \A q \in E \cap G : f[q] = g[q]
    BY SolutionsAgree
  <2> QED BY <2>2, <2>3, <2>4, <2>5
<1>3. F \in Solutions(U, Value, H)
  <2>1. ASSUME NEW p \in U
        PROVE  F[p] \in Value /\ F[p] = H[p][Restricted(F, p)]
    <3>1. PICK E \in Solved : p \in E
      BY <2>1
    <3>2. HasParts(E) /\ Solutions(E, Value, H) # {}
      BY <3>1
    <3> HIDE DEF F, Solved
    <3>3. PICK f \in Solutions(E, Value, H) : TRUE
      BY <3>2
    <3>4. Parts(p) \subseteq E
      BY <3>1, <3>2 DEF HasParts
    <3>5. Restricted(F, p) = Restricted(f, p)
      BY <1>2, <3>1, <3>4 DEF Restricted
    <3>6. f[p] = H[p][Restricted(f, p)]
      BY <3>1 DEF Solutions, IsSolution
    <3> QED BY <1>2, <3>1, <3>5, <3>6
  <2>2. F \in [U -> Value]
    BY <2>1
  <2> QED BY <2>1, <2>2 DEF Solutions, IsSolution
<1> HIDE DEF F
<1>4. ASSUME NEW p \in D, Parts(p) \subseteq U, p \notin U PROVE FALSE
  <2> DEFINE E == U \cup {p}
             v == H[p][Restricted(F, p)]
             f == [q \in E |-> IF q = p THEN v ELSE F[q]]
  <2>1. F \in [U -> Value] /\ \A q \in U : F[q] = H[q][Restricted(F, q)]
    BY <1>3 DEF Solutions, IsSolution
  <2>2. v \in Value
    <3>1. Restricted(F, p) \in [Parts(p) -> Value]
      BY <1>4, <2>1 DEF Restricted
    <3> QED BY <3>1 DEF Computes
  <2>3. \A q \in E : Parts(q) \subseteq U
    BY <1>1, <1>4 DEF HasParts
  <2>4. HasParts(E) /\ E \in SUBSET D
    BY <1>1, <2>3 DEF HasParts
  <2> HIDE DEF v
  <2>5. f \in [E -> Value]
    BY <2>1, <2>2
  <2>6. ASSUME NEW q \in E PROVE f[q] = H[q][Restricted(f, q)]
    <3>1. Restricted(f, q) = Restricted(F, q)
      BY <1>4, <2>3 DEF Restricted
    <3>2. f[q] = H[q][Restricted(F, q)]
      BY <2>1 DEF v
    <3> QED BY <3>1, <3>2
  <2>7. f \in Solutions(E, Value, H)
    BY <2>5, <2>6 DEF Solutions, IsSolution
  <2>8. E \in Solved
    BY <2>4, <2>7
  <2> QED BY <1>4, <2>8
<1>5. U = D
  <2> HIDE DEF U
  <2> QED BY <1>1, <1>4, TreeInduction
<1> HIDE DEF U
<1> QED BY <1>3, <1>5

\* A predicate is put together of itself and of what its parts are.
LEMMA SubpredicatesEqual ==
  \A p \in Predicates :
    Subpredicates[p] = {p} \cup UNION {Subpredicates[q] : q \in Parts(p)}
<1> DEFINE Value == SUBSET Predicates
           H == [p \in Predicates |-> [g \in [Parts(p) -> Value] |->
                   {p} \cup UNION {g[q] : q \in Parts(p)}]]
           Equal(f) ==
             f = [p \in Predicates |-> {p} \cup UNION {f[q] : q \in Parts(p)}]
<1>1. HasParts(Predicates)
  BY FetchAssumption DEF HasParts
<1>2. Computes(H, Value, Predicates)
  BY DEF Computes
<1>3. ASSUME NEW f \in [Predicates -> Value], NEW p \in Predicates
      PROVE  H[p][Restricted(f, p)] = {p} \cup UNION {f[q] : q \in Parts(p)}
  <2>1. Parts(p) \subseteq Predicates
    BY <1>1 DEF HasParts
  <2>2. Restricted(f, p) \in [Parts(p) -> Value]
    BY <2>1 DEF Restricted
  <2>3. \A q \in Parts(p) : Restricted(f, p)[q] = f[q]
    BY DEF Restricted
  <2>4. {Restricted(f, p)[q] : q \in Parts(p)} = {f[q] : q \in Parts(p)}
    BY <2>3
  <2> QED BY <2>2, <2>4
<1> HIDE DEF H, Value
<1>4. PICK f \in Solutions(Predicates, Value, H) : TRUE
  BY <1>1, <1>2, TreeRecursion
<1>5. Equal(f)
  <2>1. f \in [Predicates -> Value] /\ \A p \in Predicates : f[p] = H[p][Restricted(f, p)]
    BY DEF Solutions, IsSolution
  <2>2. \A p \in Predicates : f[p] = {p} \cup UNION {f[q] : q \in Parts(p)}
    BY <1>3, <2>1
  <2> QED BY <2>1, <2>2
<1>6. Subpredicates = CHOOSE g : Equal(g)
  BY DEF Subpredicates
<1> HIDE DEF Equal
<1>7. Equal(Subpredicates)
  BY <1>5, <1>6
<1> QED BY <1>7 DEF Equal

\* All of them are predicates; with each come its parts, and none of them but
\* the predicate itself can be Everything.
LEMMA SubpredicatesHaveParts ==
  ASSUME NEW p \in Predicates
  PROVE  /\ HasParts(Subpredicates[p]) /\ p \in Subpredicates[p]
         /\ \A q \in Subpredicates[p] : q = p \/ q # Everything
<1> DEFINE Good(q) ==
             /\ HasParts(Subpredicates[q]) /\ q \in Subpredicates[q]
             /\ \A s \in Subpredicates[q] : s = q \/ s # Everything
           S == {q \in Predicates : Good(q)}
<1>1. HasParts(Predicates)
  BY FetchAssumption DEF HasParts
<1>2. ASSUME NEW q \in Predicates, Parts(q) \subseteq S PROVE Good(q)
  <2>1. Subpredicates[q] = {q} \cup UNION {Subpredicates[s] : s \in Parts(q)}
    BY SubpredicatesEqual
  <2>2. \A s \in Parts(q) : s \in Subpredicates[s] /\ HasParts(Subpredicates[s])
    BY <1>2
  <2>3. HasParts(Subpredicates[q])
    BY <2>1, <2>2 DEF HasParts
  <2>4. \A s \in Parts(q) : s # Everything
    BY FetchAssumption
  <2>5. \A s \in Subpredicates[q] : s = q \/ s # Everything
    BY <1>2, <2>1, <2>4
  <2> QED BY <2>1, <2>3, <2>5
<1> HIDE DEF Good
<1>3. \A q \in Predicates : Parts(q) \subseteq S => q \in S
  BY <1>2
<1>4. S = Predicates
  <2> HIDE DEF S
  <2>1. S \in SUBSET Predicates
    BY DEF S
  <2> QED BY <1>1, <1>3, <2>1, TreeInduction
<1>5. Good(p)
  BY <1>4
<1> QED BY <1>5 DEF Good

\* The predicates of a request.
LEMMA PredicatesOfRequest ==
  ASSUME NEW req \in Requests
  PROVE  /\ HasParts(PredicatesIn[req]) /\ req.predicate \in PredicatesIn[req]
         /\ \A p \in PredicatesIn[req] : p = req.predicate \/ p # Everything
         /\ \A p \in PredicatesIn[req] : \A q \in Parts(p) :
              q \in PredicatesIn[req] /\ q # Everything
<1>1. PredicatesIn[req] = Subpredicates[req.predicate] /\ req.predicate \in Predicates
  BY FetchAssumption DEF PredicatesIn
<1>2. \A p \in Predicates : \A q \in Parts(p) : q # Everything
  BY FetchAssumption
<1> QED BY <1>1, <1>2, SubpredicatesHaveParts DEF HasParts

\* A predicate is of one of five kinds, with the parts of its kind.
LEMMA PredicateKinds ==
  ASSUME NEW p \in Predicates
  PROVE  \/ p = Everything /\ p.compound = "everything" /\ Parts(p) = {}
         \/ /\ p.compound = "no" /\ Parts(p) = {} /\ p # Everything
            /\ p.op \in {"=", "!="}
         \/ p.compound = "not" /\ Parts(p) = {p.of} /\ p # Everything
         \/ p.compound = "and" /\ Parts(p) = {p.left, p.right} /\ p # Everything
         \/ p.compound = "or" /\ Parts(p) = {p.left, p.right} /\ p # Everything
<1>1. IsPredicate(p)
  BY FetchAssumption
<1>2. Everything.compound = "everything"
  BY DEF Everything
<1> QED BY <1>1, <1>2 DEF IsPredicate, Parts
-----------------------------------------------------------------------------
(***************************************************************************)
(* The clause of a predicate, from the clauses of its parts.               *)
(***************************************************************************)
Truths == {"true", "false", "null"}

ClauseFrom(req, env, p, g) == EntityWhere(req, env) \o Terms(req, env, p, g)

\* Connectives and comparisons are of the three truths.
LEMMA TruthsAre ==
  /\ \A S : AllOf(S) \in Truths /\ AnyOf(S) \in Truths
  /\ \A terms : Conjunction(terms) \in Truths
  /\ \A b : Truth(b) \in Truths
  /\ \A op, column, value : CompareColumn(op, column, value) \in Truths
<1>1. \A S : AllOf(S) \in Truths /\ AnyOf(S) \in Truths
  BY DEF AllOf, AnyOf, Truths
<1>2. \A terms : Conjunction(terms) \in Truths
  BY <1>1 DEF Conjunction
<1>3. \A b : Truth(b) \in Truths
  BY DEF Truth, Truths
<1>4. \A op, column, value : CompareColumn(op, column, value) \in Truths
  BY <1>3 DEF CompareColumn, Truths
<1> QED BY <1>1, <1>2, <1>3, <1>4

\* A clause is a sequence of truths, and depends on the parts only.
LEMMA ClauseFromParts ==
  ASSUME NEW req, NEW env, NEW p \in Predicates
  PROVE  /\ \A g : ClauseFrom(req, env, p, g) \in Seq(Truths)
         /\ \A f : ClauseFrom(req, env, p, Restricted(f, p)) = ClauseFrom(req, env, p, f)
<1>1. EntityWhere(req, env) \in Seq(Truths)
  BY TruthsAre DEF EntityWhere
<1>2. \A t \in Truths : <<t>> \in Seq(Truths)
  OBVIOUS
<1>3. <<>> \in Seq(Truths)
  OBVIOUS
<1>4. \A s, t \in Seq(Truths) : s \o t \in Seq(Truths)
  OBVIOUS
<1>5. ASSUME NEW g PROVE ClauseFrom(req, env, p, g) \in Seq(Truths)
  BY <1>1, <1>2, <1>3, <1>4, TruthsAre, PredicateKinds DEF ClauseFrom, Terms
<1>6. ASSUME NEW f
      PROVE  ClauseFrom(req, env, p, Restricted(f, p)) = ClauseFrom(req, env, p, f)
  <2>1. \A q \in Parts(p) : Restricted(f, p)[q] = f[q]
    BY DEF Restricted
  <2> QED BY <2>1, PredicateKinds DEF ClauseFrom, Terms
<1> QED BY <1>5, <1>6

\* The clauses of a request's predicates.
LEMMA ClauseEqual ==
  ASSUME NEW req \in Requests, NEW env, NEW p \in PredicatesIn[req]
  PROVE  WhereClause(req, env)[p] = ClauseFrom(req, env, p, WhereClause(req, env))
<1> DEFINE D == PredicatesIn[req]
           Value == Seq(Truths)
           H == [q \in D |-> [g \in [Parts(q) -> Value] |-> ClauseFrom(req, env, q, g)]]
           Equal(f) == f = [q \in D |-> ClauseFrom(req, env, q, f)]
<1>1. HasParts(D)
  BY PredicatesOfRequest
<1>2. D \subseteq Predicates
  BY <1>1 DEF HasParts
<1>3. Computes(H, Value, D)
  BY <1>2, ClauseFromParts DEF Computes
<1>4. ASSUME NEW f \in [D -> Value], NEW q \in D
      PROVE  H[q][Restricted(f, q)] = ClauseFrom(req, env, q, f)
  <2>1. Restricted(f, q) \in [Parts(q) -> Value]
    BY <1>1 DEF Restricted, HasParts
  <2> QED BY <1>2, <2>1, ClauseFromParts
<1> HIDE DEF H, Value, D
<1>5. PICK f \in Solutions(D, Value, H) : TRUE
  BY <1>1, <1>3, TreeRecursion
<1>6. Equal(f)
  <2>1. f \in [D -> Value] /\ \A q \in D : f[q] = H[q][Restricted(f, q)]
    BY DEF Solutions, IsSolution
  <2>2. \A q \in D : f[q] = ClauseFrom(req, env, q, f)
    BY <1>4, <2>1
  <2> QED BY <2>1, <2>2
<1>7. WhereClause(req, env) = CHOOSE g : Equal(g)
  BY DEF WhereClause, ClauseFrom, D
<1> HIDE DEF Equal
<1>8. Equal(WhereClause(req, env))
  BY <1>6, <1>7
<1> QED BY <1>8 DEF Equal, D

\* What a predicate says of an object, from what its parts say.
LEMMA HoldsEqual ==
  ASSUME NEW req \in Requests, NEW i, NEW p \in PredicatesIn[req]
  PROVE  /\ Holds(req, i)[p] \in BOOLEAN
         /\ Holds(req, i)[p] = IsTrueOf(req, i, p, Holds(req, i))
<1> DEFINE D == PredicatesIn[req]
           H == [q \in D |-> [g \in [Parts(q) -> BOOLEAN] |-> IsTrueOf(req, i, q, g)]]
           Equal(f) == f = [q \in D |-> IsTrueOf(req, i, q, f)]
<1>1. HasParts(D) /\ D \subseteq Predicates
  BY PredicatesOfRequest DEF HasParts
<1>2. \A q \in D : \A g : IsTrueOf(req, i, q, g) \in BOOLEAN
  BY <1>1, PredicateKinds DEF IsTrueOf
<1>3. Computes(H, BOOLEAN, D)
  BY <1>2 DEF Computes
<1>4. ASSUME NEW f \in [D -> BOOLEAN], NEW q \in D
      PROVE  H[q][Restricted(f, q)] = IsTrueOf(req, i, q, f)
  <2>1. Restricted(f, q) \in [Parts(q) -> BOOLEAN]
    BY <1>1 DEF Restricted, HasParts
  <2>2. \A s \in Parts(q) : Restricted(f, q)[s] = f[s]
    BY DEF Restricted
  <2>3. H[q][Restricted(f, q)] = IsTrueOf(req, i, q, Restricted(f, q))
    BY <2>1
  <2>4. IsTrueOf(req, i, q, Restricted(f, q)) = IsTrueOf(req, i, q, f)
    <3> HIDE DEF D
    <3>1. q \in Predicates
      BY <1>1
    <3> QED BY <2>2, <3>1, PredicateKinds DEF IsTrueOf
  <2> QED BY <2>3, <2>4
<1> HIDE DEF H, D
<1>5. PICK f \in Solutions(D, BOOLEAN, H) : TRUE
  BY <1>1, <1>3, TreeRecursion
<1>6. f \in [D -> BOOLEAN] /\ \A q \in D : f[q] = IsTrueOf(req, i, q, f)
  BY <1>4 DEF Solutions, IsSolution
<1>7. Equal(f)
  BY <1>6
<1>8. Holds(req, i) = CHOOSE g : Equal(g)
  BY DEF Holds, D
<1> HIDE DEF Equal
<1>9. Equal(Holds(req, i))
  BY <1>7, <1>8
<1>10. Holds(req, i)[p] = IsTrueOf(req, i, p, Holds(req, i))
  BY <1>9 DEF Equal, D
<1> QED BY <1>2, <1>10 DEF D
-----------------------------------------------------------------------------
(***************************************************************************)
(* The terms of a clause: the restriction to the entity, if it has a       *)
(* superentity, and one more.                                              *)
(***************************************************************************)
TermsIn(s) == {s[k] : k \in DOMAIN s}

\* A clause and another one have the terms of both.
LEMMA TermsOfTwo ==
  ASSUME NEW s \in Seq(Truths), NEW t \in Seq(Truths)
  PROVE  TermsIn(s \o t) = TermsIn(s) \cup TermsIn(t) /\ s \o t \in Seq(Truths)
<1>1. /\ s \o t \in Seq(Truths) /\ Len(s \o t) = Len(s) + Len(t)
      /\ Len(s) \in Nat /\ Len(t) \in Nat
      /\ DOMAIN s = 1..Len(s) /\ DOMAIN t = 1..Len(t) /\ DOMAIN (s \o t) = 1..(Len(s) + Len(t))
  OBVIOUS
<1>2. \A k \in 1..(Len(s) + Len(t)) : (s \o t)[k] = IF k <= Len(s) THEN s[k] ELSE t[k - Len(s)]
  OBVIOUS
<1>3. ASSUME NEW k \in 1..Len(s) PROVE s[k] \in TermsIn(s \o t)
  <2>1. (s \o t)[k] = s[k] /\ k \in DOMAIN (s \o t)
    BY <1>1, <1>2
  <2> QED BY <2>1 DEF TermsIn
<1>4. ASSUME NEW k \in 1..Len(t) PROVE t[k] \in TermsIn(s \o t)
  <2>1. (s \o t)[k + Len(s)] = t[k] /\ k + Len(s) \in DOMAIN (s \o t)
    BY <1>1, <1>2
  <2> QED BY <2>1 DEF TermsIn
<1>5. ASSUME NEW k \in 1..(Len(s) + Len(t))
      PROVE  (s \o t)[k] \in TermsIn(s) \cup TermsIn(t)
  <2>1. CASE k <= Len(s)
    BY <1>1, <1>2, <2>1 DEF TermsIn
  <2>2. CASE ~ (k <= Len(s))
    <3>1. k - Len(s) \in DOMAIN t
      BY <1>1, <2>2
    <3> QED BY <1>2, <2>2, <3>1 DEF TermsIn
  <2> QED BY <2>1, <2>2
<1> QED BY <1>1, <1>3, <1>4, <1>5 DEF TermsIn

\* The term of a clause of one.
LEMMA TermsOfOne ==
  ASSUME NEW v \in Truths
  PROVE  TermsIn(<<v>>) = {v} /\ <<v>> \in Seq(Truths) /\ TermsIn(<<>>) = {} /\ <<>> \in Seq(Truths)
BY DEF TermsIn

\* NOT in front of a clause of one or of two negates the first.
LEMMA NotFirst ==
  ASSUME NEW v \in Truths, NEW w \in Truths
  PROVE  /\ TermsIn(NotInFrontOf(<<v>>)) = {NotOf(v)}
         /\ TermsIn(NotInFrontOf(<<v>> \o <<w>>)) = {NotOf(v), w}
<1>1. \A u \in Truths : NotOf(u) \in Truths
  BY DEF NotOf, Truths
<1>2. Head(<<v>>) = v /\ Tail(<<v>>) = <<>>
  OBVIOUS
<1>3. TermsIn(NotInFrontOf(<<v>>)) = {NotOf(v)}
  BY <1>1, <1>2, TermsOfOne, TermsOfTwo DEF NotInFrontOf
<1> DEFINE s == <<v>> \o <<w>>
<1>4. s \in Seq(Truths) /\ Len(s) = 2 /\ s[1] = v /\ s[2] = w
  OBVIOUS
<1> HIDE DEF s
<1>5. Head(s) = v
  BY <1>4
<1>6. s # <<>>
  <2>1. Len(s) # 0 /\ Len(<<>>) = 0
    BY <1>4, EmptySeq
  <2> QED BY <2>1, Zenon
<1>7. Tail(s) \in Seq(Truths) /\ Len(Tail(s)) = 1 /\ Tail(s)[1] = w
  BY <1>4, <1>6, HeadTailProperties
<1>8. Tail(s)[1] = w
  BY <1>7
<1>9. DOMAIN Tail(s) = {1}
  <2>1. DOMAIN Tail(s) = 1..Len(Tail(s)) /\ 1..1 = {1}
    BY <1>7
  <2> QED BY <1>7, <2>1
<1>10. TermsIn(Tail(s)) = {w}
  BY <1>8, <1>9 DEF TermsIn
<1>11. TermsIn(NotInFrontOf(s)) = {NotOf(v), w}
  <2>1. NotInFrontOf(s) = <<NotOf(v)>> \o Tail(s)
    BY <1>5 DEF NotInFrontOf
  <2>2. TermsIn(<<NotOf(v)>>) = {NotOf(v)} /\ <<NotOf(v)>> \in Seq(Truths)
    BY <1>1, TermsOfOne
  <2> QED BY <1>7, <1>10, <2>1, <2>2, TermsOfTwo
<1> QED BY <1>3, <1>11 DEF s

Restriction(req, env) ==
  IF Parent[req.entity] = NoEntity THEN {}
  ELSE {Truth(IsOfType(req.entity, req.includesSubentities, env.self))}

\* The restriction is what the text of every predicate starts with.
LEMMA EntityTerms ==
  ASSUME NEW req, NEW env
  PROVE  LET R == Restriction(req, env)
             EW == EntityWhere(req, env)
         IN  /\ TermsIn(EW) = R /\ EW \in Seq(Truths)
             /\ R = {} => EW = <<>>
             /\ R # {} => \E t \in Truths : EW = <<t>> /\ R = {t}
<1> DEFINE t == Truth(IsOfType(req.entity, req.includesSubentities, env.self))
           R == Restriction(req, env)
           EW == EntityWhere(req, env)
<1>1. EW = (IF R = {} THEN <<>> ELSE <<t>>) /\ R = (IF R = {} THEN {} ELSE {t})
  BY DEF EntityWhere, Restriction
<1>2. t \in Truths
  BY TruthsAre
<1> HIDE DEF t, R, EW
<1>3. TermsIn(EW) = R /\ EW \in Seq(Truths)
  BY <1>1, <1>2, TermsOfOne
<1> QED BY <1>1, <1>2, <1>3 DEF R, EW

\* The terms of a clause with NOT in front of it.
UnderNot(R, v) == IF R = {} THEN {NotOf(v)} ELSE {NotOf(t) : t \in R} \cup {v}

\* What AND makes of one clause, of two, and of one with NOT in front of it.
LEMMA Conjunctions ==
  ASSUME NEW req, NEW env
  PROVE  LET R == Restriction(req, env)
             EW == EntityWhere(req, env)
         IN  /\ \A v \in Truths : Conjunction(EW \o <<v>>) = AllOf(R \cup {v})
             /\ \A v, w \in Truths :
                  Conjunction((EW \o <<v>>) \o (EW \o <<w>>)) = AllOf(R \cup {v, w})
             /\ \A v \in Truths :
                  Conjunction(NotInFrontOf(EW \o <<v>>)) = AllOf(UnderNot(R, v))
<1> DEFINE R == Restriction(req, env)
           EW == EntityWhere(req, env)
<1>1. TermsIn(EW) = R /\ EW \in Seq(Truths)
  BY EntityTerms
<1>2. ASSUME NEW terms PROVE Conjunction(terms) = AllOf(TermsIn(terms))
  BY DEF Conjunction, TermsIn
<1>3. ASSUME NEW v \in Truths
      PROVE  TermsIn(EW \o <<v>>) = R \cup {v} /\ EW \o <<v>> \in Seq(Truths)
  BY <1>1, TermsOfOne, TermsOfTwo
<1>4. ASSUME NEW v \in Truths, NEW w \in Truths
      PROVE  TermsIn((EW \o <<v>>) \o (EW \o <<w>>)) = R \cup {v, w}
  <2> DEFINE x == EW \o <<v>>
             y == EW \o <<w>>
  <2>1. /\ x \in Seq(Truths) /\ TermsIn(x) = R \cup {v}
        /\ y \in Seq(Truths) /\ TermsIn(y) = R \cup {w}
    BY <1>3
  <2> HIDE DEF x, y
  <2>2. TermsIn(x \o y) = (R \cup {v}) \cup (R \cup {w})
    BY <2>1, TermsOfTwo
  <2> QED BY <2>2 DEF x, y
<1>5. ASSUME NEW v \in Truths
      PROVE  TermsIn(NotInFrontOf(EW \o <<v>>)) = UnderNot(R, v)
  <2>1. CASE R = {}
    <3>1. <<>> \o <<v>> = <<v>>
      OBVIOUS
    <3>2. EW = <<>>
      BY <2>1, EntityTerms
    <3> QED BY <2>1, <3>1, <3>2, NotFirst DEF UnderNot
  <2>2. CASE R # {}
    <3>1. PICK t \in Truths : EW = <<t>> /\ R = {t}
      BY <2>2, EntityTerms
    <3>2. TermsIn(NotInFrontOf(<<t>> \o <<v>>)) = {NotOf(t), v}
      BY NotFirst
    <3>3. UnderNot(R, v) = {NotOf(t), v}
      BY <2>2, <3>1 DEF UnderNot
    <3> QED BY <3>1, <3>2, <3>3
  <2> QED BY <2>1, <2>2
<1> QED BY <1>2, <1>3, <1>4, <1>5

\* The term of a predicate's own in its clause.
Term(req, env, p) == Head(Terms(req, env, p, WhereClause(req, env)))

\* It is the only one after the restriction to the entity.
LEMMA OneTerm ==
  ASSUME NEW req \in Requests, NEW env, NEW p \in PredicatesIn[req], p # Everything
  PROVE  /\ Term(req, env, p) \in Truths
         /\ Terms(req, env, p, WhereClause(req, env)) = <<Term(req, env, p)>>
         /\ WhereClause(req, env)[p] = EntityWhere(req, env) \o <<Term(req, env, p)>>
<1> DEFINE c == WhereClause(req, env)
<1>1. p \in Predicates
  BY PredicatesOfRequest DEF HasParts
<1>2. p.compound \in {"no", "not", "and", "or"}
  BY <1>1, PredicateKinds
<1> HIDE DEF c
<1>3. \E v \in Truths : Terms(req, env, p, c) = <<v>>
  <2>1. CASE p.compound = "no"
    BY <2>1, TruthsAre DEF Terms
  <2>2. CASE p.compound = "not"
    BY <2>2, TruthsAre DEF Terms
  <2>3. CASE p.compound = "and"
    BY <2>3, TruthsAre DEF Terms
  <2>4. CASE p.compound = "or"
    BY <2>4, TruthsAre DEF Terms
  <2> QED BY <1>2, <2>1, <2>2, <2>3, <2>4
<1>4. PICK v \in Truths : Terms(req, env, p, c) = <<v>>
  BY <1>3
<1>5. Term(req, env, p) = v
  BY <1>4 DEF Term, c
<1>6. c[p] = EntityWhere(req, env) \o Terms(req, env, p, c)
  BY ClauseEqual DEF ClauseFrom, c
<1> QED BY <1>4, <1>5, <1>6 DEF c

\* The terms of a predicate, from those of its parts.
LEMMA TermTruths ==
  ASSUME NEW req \in Requests, NEW env, NEW p \in PredicatesIn[req], p # Everything
  PROVE  LET V(q) == Term(req, env, q)
             R == Restriction(req, env)
         IN  /\ p.compound = "no" =>
                  V(p) = CompareColumn(p.op, Operand(req, p.path, env), p.value)
             /\ p.compound = "not" =>
                  V(p) = AllOf(UnderNot(R, V(p.of)))
             /\ p.compound = "and" => V(p) = AllOf(R \cup {V(p.left), V(p.right)})
             /\ p.compound = "or" =>
                  V(p) = AnyOf({AllOf(R \cup {V(p.left)}), AllOf(R \cup {V(p.right)})})
<1> DEFINE c == WhereClause(req, env)
           V(q) == Term(req, env, q)
           R == Restriction(req, env)
           EW == EntityWhere(req, env)
<1>1. Terms(req, env, p, c) = <<V(p)>>
  BY OneTerm
<1>2. ASSUME NEW q \in Parts(p) PROVE V(q) \in Truths /\ c[q] = EW \o <<V(q)>>
  BY PredicatesOfRequest, OneTerm
<1>3. p \in Predicates
  BY PredicatesOfRequest DEF HasParts
<1>4. \A v, w : <<v>> = <<w>> => v = w
  OBVIOUS
<1>5. /\ \A v \in Truths : Conjunction(EW \o <<v>>) = AllOf(R \cup {v})
      /\ \A v, w \in Truths :
           Conjunction((EW \o <<v>>) \o (EW \o <<w>>)) = AllOf(R \cup {v, w})
      /\ \A v \in Truths :
           Conjunction(NotInFrontOf(EW \o <<v>>)) = AllOf(UnderNot(R, v))
  BY Conjunctions
<1> HIDE DEF c, V, R, EW
<1>6. ASSUME p.compound = "no"
      PROVE  V(p) = CompareColumn(p.op, Operand(req, p.path, env), p.value)
  BY <1>1, <1>6 DEF Terms
<1>7. ASSUME p.compound = "not"
      PROVE  V(p) = AllOf(UnderNot(R, V(p.of)))
  <2>1. V(p) = Conjunction(NotInFrontOf(c[p.of]))
    BY <1>1, <1>7 DEF Terms
  <2>2. V(p.of) \in Truths /\ c[p.of] = EW \o <<V(p.of)>>
    BY <1>2, <1>3, <1>7, PredicateKinds
  <2> QED BY <2>1, <2>2, <1>5
<1>8. ASSUME p.compound = "and"
      PROVE  V(p) = AllOf(R \cup {V(p.left), V(p.right)})
  <2>1. V(p) = Conjunction(c[p.left] \o c[p.right])
    BY <1>1, <1>8 DEF Terms
  <2>2. /\ V(p.left) \in Truths /\ c[p.left] = EW \o <<V(p.left)>>
        /\ V(p.right) \in Truths /\ c[p.right] = EW \o <<V(p.right)>>
    BY <1>2, <1>3, <1>8, PredicateKinds
  <2> QED BY <2>1, <2>2, <1>5
<1>9. ASSUME p.compound = "or"
      PROVE  V(p) = AnyOf({AllOf(R \cup {V(p.left)}), AllOf(R \cup {V(p.right)})})
  <2>1. V(p) = AnyOf({Conjunction(c[p.left]), Conjunction(c[p.right])})
    BY <1>1, <1>9 DEF Terms
  <2>2. /\ V(p.left) \in Truths /\ c[p.left] = EW \o <<V(p.left)>>
        /\ V(p.right) \in Truths /\ c[p.right] = EW \o <<V(p.right)>>
    BY <1>2, <1>3, <1>9, PredicateKinds
  <2>3. /\ Conjunction(c[p.left]) = AllOf(R \cup {V(p.left)})
        /\ Conjunction(c[p.right]) = AllOf(R \cup {V(p.right)})
    BY <2>2, <1>5
  <2> QED BY <2>1, <2>3
<1> QED BY <1>6, <1>7, <1>8, <1>9 DEF V, R

\* What a request selects by.
LEMMA WhereTruth ==
  ASSUME NEW req \in Requests, NEW env
  PROVE  Where(req, env) =
           IF req.predicate = Everything THEN AllOf(Restriction(req, env))
           ELSE AllOf(Restriction(req, env) \cup {Term(req, env, req.predicate)})
<1> DEFINE p == req.predicate
           c == WhereClause(req, env)
<1>1. p \in PredicatesIn[req] /\ Where(req, env) = Conjunction(c[p])
  BY PredicatesOfRequest DEF Where
<1>2. CASE p = Everything
  <2>1. Terms(req, env, p, c) = <<>>
    BY <1>2 DEF Terms, Everything
  <2>2. c[p] = EntityWhere(req, env) \o <<>>
    BY <1>1, <2>1, ClauseEqual DEF ClauseFrom
  <2>3. /\ EntityWhere(req, env) \o <<>> = EntityWhere(req, env)
        /\ TermsIn(EntityWhere(req, env)) = Restriction(req, env)
    BY EntityTerms, ConcatEmptySeq
  <2> QED BY <1>1, <1>2, <2>2, <2>3 DEF Conjunction, TermsIn
<1>3. CASE p # Everything
  <2>1. c[p] = EntityWhere(req, env) \o <<Term(req, env, p)>> /\ Term(req, env, p) \in Truths
    BY <1>1, <1>3, OneTerm
  <2>2. Conjunction(c[p]) = AllOf(Restriction(req, env) \cup {Term(req, env, p)})
    BY <2>1, Conjunctions
  <2> QED BY <1>1, <1>3, <2>2
<1> QED BY <1>2, <1>3
-----------------------------------------------------------------------------
(***************************************************************************)
(* What the operands of a clause read of an object.                        *)
(***************************************************************************)
\* The comparisons of a request are with properties its entity has, and their
\* relationships are joined.
LEMMA ComparedPath ==
  ASSUME NEW req \in Requests, NEW c \in PredicatesIn[req], c.compound = "no"
  PROVE  /\ c.path \in PathsOf(req.entity) /\ c.path \in PathsIn[req]
         /\ c.path \in {"a", "owner", "owner.a", "items.a", "items.@count"}
         /\ req.entity \in Entities /\ Root[req.entity] \in Trees
         /\ c.path \in {"owner", "owner.a"} => Root[req.entity] = ItemTree
         /\ c.path \in {"items.a", "items.@count"} => Root[req.entity] = OwnerTree
<1> DEFINE e == req.entity
<1>1. c.path \in PathsOf(e) /\ c.path \in PathsIn[req]
  <2>1. c \in Comparisons(req.predicate)
    BY DEF Comparisons, PredicatesIn
  <2> QED BY <2>1, FetchAssumption DEF PathsIn
<1>2. e \in Entities /\ Root[e] \in Trees
  BY FetchAssumption DEF Fetchable, InTree, Trees
<1>3. /\ e \in EntityIds[Source] => Root[e] = ItemTree
      /\ e \in EntityIds[Destination] => Root[e] = OwnerTree
  BY RelatedTrees DEF InTree
<1> HIDE DEF e
<1>4. /\ c.path \in {"a", "owner", "owner.a", "items.a", "items.@count"}
      /\ c.path \in {"owner", "owner.a"} => e \in EntityIds[Source]
      /\ c.path \in {"items.a", "items.@count"} => e \in EntityIds[Destination]
  BY <1>1 DEF PathsOf
<1> QED BY <1>1, <1>2, <1>3, <1>4 DEF e

\* The items that are counted are those that the owner has.
LEMMA ItemsCounted ==
  ASSUME TypeOK, NEW o \in ObjectIds(OwnerTree),
         \/ Parent[Source] = NoEntity
         \/ \A i \in ObjectIds(ItemTree) :
              objects[ItemTree][i].owner # Null => objects[ItemTree][i].entity = Source
  PROVE  /\ CountedItems(o) = ItemsOf(o) /\ ItemRowsOf(o) = ItemsOf(o)
         /\ Cardinality(CountedItems(o)) \in Nat
<1>1. ItemTree \in Trees /\ OwnerTree \in Trees
  BY DEF Trees
<1>2. o # Null
  BY <1>1, OwnRow, TwoTables, ModelAssumption
<1>3. ItemRowsOf(o) = ItemsOf(o)
  BY <1>1, OwnRow DEF ItemRowsOf, ItemsOf
<1>4. ASSUME NEW i \in ItemsOf(o), Parent[Source] # NoEntity
      PROVE  rows[ItemTree][i].type = Source
  <2>1. /\ objects[ItemTree][i].entity = Source
        /\ rows[ItemTree][i].type = EntityTypeWritten(objects[ItemTree][i].entity)
    BY <1>1, <1>2, <1>4, OwnRow DEF ItemsOf
  <2> QED BY <1>4, <2>1 DEF EntityTypeWritten
<1>5. CountedItems(o) = ItemsOf(o)
  BY <1>3, <1>4 DEF CountedItems
<1>6. IsFiniteSet(ItemsOf(o))
  <2>1. ItemsOf(o) \in SUBSET ItemIds
    BY TwoTables DEF ItemsOf, ObjectIds
  <2> QED BY <2>1, FS_Subset, ModelAssumption
<1> QED BY <1>3, <1>5, <1>6, FS_CardinalityType

\* A comparison that is not with each of the items has one value to compare: the
\* object's.
LEMMA ColumnRead ==
  ASSUME TypeOK, NEW req \in Requests, CountsEveryItem(req),
         NEW c \in PredicatesIn[req], c.compound = "no", c.path # "items.a",
         NEW env \in JoinedRows(req.entity, PathsIn[req])
  PROVE  /\ ValuesAt(Root[req.entity], env.self, c.path) = {Operand(req, c.path, env)}
         /\ c.path = "items.@count" => Operand(req, c.path, env) \in Nat
<1> DEFINE t == Root[req.entity]
           i == env.self
           x == objects[t][i]
<1>1. t \in Trees /\ i \in ObjectIds(t) /\ rows[t][i].a = x.a /\ rows[t][i].owner = x.owner
  <2>1. t \in Trees /\ i \in RowIds(t)
    BY ComparedPath, JoinedRow
  <2> HIDE DEF t, i
  <2> QED BY <2>1, OwnRow
<1> HIDE DEF t
<1>2. CASE c.path = "a"
  BY <1>1, <1>2 DEF ValuesAt, Operand, t
<1>3. CASE c.path = "owner"
  <2>1. t = ItemTree
    BY <1>3, ComparedPath DEF t
  <2>2. ValuesAt(t, i, c.path) = {x.owner}
    BY <1>3 DEF ValuesAt
  <2>3. Operand(req, c.path, env) = rows[ItemTree][i].owner
    BY <1>3 DEF Operand
  <2> QED BY <1>1, <1>3, <2>1, <2>2, <2>3 DEF t
<1>4. CASE c.path = "owner.a"
  <2>1. t = ItemTree /\ "owner.a" \in PathsIn[req]
    BY <1>4, ComparedPath DEF t
  <2>2. env.owner \in OuterJoin({x.owner} \cap RowIds(OwnerTree))
    <3>1. env.owner \in OwnersJoined(PathsIn[req], i)
      BY JoinedRow
    <3> QED BY <1>1, <2>1, <3>1 DEF OwnersJoined, Joins
  <2>3. OwnerTree \in Trees /\ Null \notin RowIds(OwnerTree)
    BY TwoTables, ModelAssumption DEF Trees, RowIds
  <2>4. x.owner # Null => x.owner \in ObjectIds(OwnerTree) /\ x.owner \in RowIds(OwnerTree)
    BY <1>1, OwnRow, OwnerIsSaved DEF Owners
  <2>5. env.owner = x.owner
    BY <2>2, <2>3, <2>4 DEF OuterJoin
  <2>6. ColumnOf(OwnerTree, env.owner)
          = IF x.owner = Null THEN Null ELSE objects[OwnerTree][x.owner].a
    <3>1. x.owner # Null => rows[OwnerTree][x.owner].a = objects[OwnerTree][x.owner].a
      BY <2>3, <2>4, OwnRow
    <3> QED BY <2>5, <3>1 DEF ColumnOf
  <2>7. Operand(req, c.path, env) = ColumnOf(OwnerTree, env.owner)
    BY <1>4 DEF Operand
  <2>8. ValuesAt(t, i, c.path)
          = {IF x.owner = Null THEN Null ELSE objects[OwnerTree][x.owner].a}
    BY <1>4 DEF ValuesAt
  <2> QED BY <1>4, <2>6, <2>7, <2>8 DEF t
<1>5. CASE c.path = "items.@count"
  <2>1. t = OwnerTree
    BY <1>5, ComparedPath DEF t
  <2>2. c \in Comparing(req, "items.@count")
    BY <1>5 DEF Comparing
  <2>3. CountedItems(i) = ItemsOf(i) /\ Cardinality(CountedItems(i)) \in Nat
    BY <1>1, <2>1, <2>2, ItemsCounted DEF CountsEveryItem
  <2> QED BY <1>5, <2>3 DEF ValuesAt, Operand
<1> QED BY <1>2, <1>3, <1>4, <1>5, ComparedPath DEF t

\* A comparison with each of the items has the value of one, or NULL for none.
LEMMA ItemRead ==
  ASSUME TypeOK, NEW req \in Requests,
         NEW c \in PredicatesIn[req], c.compound = "no", c.path = "items.a",
         NEW env \in JoinedRows(req.entity, PathsIn[req])
  PROVE  \/ env.item = Null /\ Operand(req, c.path, env) = Null
         \/ /\ env.item \in ItemsOf(env.self)
            /\ Operand(req, c.path, env) = objects[ItemTree][env.item].a
<1>1. /\ env.item \in ItemsJoined(PathsIn[req], env.self) /\ "items.a" \in PathsIn[req]
      /\ env.self \in RowIds(OwnerTree)
  BY JoinedRow, ComparedPath
<1>2. env.item \in OuterJoin(ItemRowsOf(env.self))
  BY <1>1 DEF ItemsJoined, Joins
<1>3. ItemRowsOf(env.self) = ItemsOf(env.self) /\ ItemTree \in Trees
  BY OwnRow DEF ItemRowsOf, ItemsOf, Trees
<1>4. env.item = Null \/ env.item \in ItemsOf(env.self)
  BY <1>2, <1>3 DEF OuterJoin
<1>5. \A i \in ItemsOf(env.self) : i # Null /\ rows[ItemTree][i].a = objects[ItemTree][i].a
  BY <1>3, OwnRow, TwoTables, ModelAssumption DEF ItemsOf
<1> QED BY <1>4, <1>5 DEF Operand, ColumnOf
-----------------------------------------------------------------------------
(***************************************************************************)
(* What a clause is true of.                                               *)
(***************************************************************************)
\* The restriction where it is true, or there is none.
RestrictionPassed(R) == R = {} \/ R = {"true"}

\* The restriction drops out of what it is joined with by AND.
LEMMA AndOne ==
  ASSUME NEW R, RestrictionPassed(R), NEW v \in Truths
  PROVE  AllOf(R \cup {v}) = v
BY DEF AllOf, Truths, RestrictionPassed

\* So it does where AND joins the terms of two predicates, which both come with it.
LEMMA AndTwo ==
  ASSUME NEW R, RestrictionPassed(R), NEW v \in Truths, NEW w \in Truths
  PROVE  /\ (AllOf(R \cup {v, w}) = "true") <=> (v = "true" /\ w = "true")
         /\ (AllOf(R \cup {v, w}) = "false") <=> (v = "false" \/ w = "false")
BY DEF AllOf, Truths, RestrictionPassed

\* OR of the terms of two predicates.
LEMMA OrTwo ==
  ASSUME NEW v \in Truths, NEW w \in Truths
  PROVE  /\ (AnyOf({v, w}) = "true") <=> (v = "true" \/ w = "true")
         /\ (AnyOf({v, w}) = "false") <=> (v = "false" /\ w = "false")
BY DEF AnyOf, Truths

\* NOT in front of the text of an entity with a restriction negates that.
LEMMA NotOne ==
  ASSUME NEW R, RestrictionPassed(R), NEW v \in Truths
  PROVE  /\ R = {} => AllOf(UnderNot(R, v)) = NotOf(v)
         /\ R # {} => AllOf(UnderNot(R, v)) = "false"
<1>1. /\ NotOf("true") = "false" /\ NotOf("false") = "true" /\ NotOf("null") = "null"
  BY DEF NotOf
<1>2. CASE R = {}
  <2>1. UnderNot(R, v) = {NotOf(v)}
    BY <1>2 DEF UnderNot
  <2> QED BY <1>1, <1>2, <2>1 DEF AllOf, Truths
<1>3. CASE R = {"true"}
  <2>1. "false" \in UnderNot(R, v)
    BY <1>1, <1>3 DEF UnderNot
  <2> QED BY <1>3, <2>1 DEF AllOf
<1> QED BY <1>2, <1>3 DEF RestrictionPassed

\* The restriction is true of the rows of the type, and of no others.
LEMMA RestrictionTruth ==
  ASSUME NEW req, NEW env
  PROVE  LET R == Restriction(req, env)
         IN  /\ IsOfType(req.entity, req.includesSubentities, env.self) => RestrictionPassed(R)
             /\ ~ IsOfType(req.entity, req.includesSubentities, env.self) => R = {"false"}
             /\ R = {} <=> Parent[req.entity] = NoEntity
<1> DEFINE b == IsOfType(req.entity, req.includesSubentities, env.self)
<1>1. Restriction(req, env) = IF Parent[req.entity] = NoEntity THEN {} ELSE {Truth(b)}
  BY DEF Restriction
<1>2. ~ b => Parent[req.entity] # NoEntity
  BY DEF IsOfType
<1>3. /\ b => Truth(b) = "true"
      /\ ~ b => Truth(b) = "false"
  BY DEF Truth
<1> HIDE DEF b
<1> QED BY <1>1, <1>2, <1>3 DEF b, RestrictionPassed

\* A request selects the joined rows that are of its entity and that the term of
\* its predicate is true of.
LEMMA SelectedTruth ==
  ASSUME NEW req \in Requests, NEW env
  PROVE  (Where(req, env) = "true") <=>
           /\ IsOfType(req.entity, req.includesSubentities, env.self)
           /\ req.predicate # Everything => Term(req, env, req.predicate) = "true"
<1> DEFINE R == Restriction(req, env)
           v == Term(req, env, req.predicate)
<1>1. req.predicate # Everything => v \in Truths
  BY PredicatesOfRequest, OneTerm
<1>2. CASE ~ IsOfType(req.entity, req.includesSubentities, env.self)
  <2>1. R = {"false"}
    BY <1>2, RestrictionTruth
  <2> HIDE DEF R, v
  <2>2. AllOf(R) = "false" /\ AllOf(R \cup {v}) = "false"
    BY <2>1 DEF AllOf
  <2> QED BY <1>2, <2>2, WhereTruth DEF R, v
<1>3. CASE IsOfType(req.entity, req.includesSubentities, env.self)
  <2>1. RestrictionPassed(R)
    BY <1>3, RestrictionTruth
  <2> HIDE DEF R, v
  <2>2. AllOf(R) = "true" /\ (req.predicate # Everything => AllOf(R \cup {v}) = v)
    <3>1. AllOf(R) = "true"
      BY <2>1 DEF AllOf, RestrictionPassed
    <3> QED BY <1>1, <2>1, <3>1, AndOne
  <2> QED BY <1>3, <2>2, WhereTruth DEF R, v
<1> QED BY <1>2, <1>3

\* However its predicate is put together, a request selects nothing but rows of
\* its entity: the restriction to the entity is joined to the whole clause by
\* AND (whereClauseWithFetchRequest:, recursiveWhereClauseWithFetchRequest:).
THEOREM RestrictedSelections == Spec => []SelectionsAreRestricted
<1>1. SelectionsAreRestricted
  BY SelectedTruth DEF SelectionsAreRestricted, Selected, Selectable
<1> QED BY <1>1, PTL
-----------------------------------------------------------------------------
Agrees(c, column) == (column = c.value) = (c.op = "=")

\* A comparison with a column is as true as the one of values, but where NULL is
\* compared with a constant.
LEMMA ComparedColumn ==
  ASSUME NEW c, NEW column
  PROVE  LET v == CompareColumn(c.op, column, c.value)
         IN  /\ v = "true" => Agrees(c, column)
             /\ v = "false" => ~ Agrees(c, column)
             /\ column # Null \/ c.value = Null \/ c.op = "=" =>
                  (Agrees(c, column) => v = "true")
             /\ column # Null \/ c.value = Null => (~ Agrees(c, column) => v = "false")
<1> DEFINE v == CompareColumn(c.op, column, c.value)
<1>1. CASE column = Null /\ c.value # Null
  <2>1. v = "null"
    BY <1>1 DEF CompareColumn
  <2>2. Agrees(c, column) => c.op # "="
    BY <1>1 DEF Agrees
  <2> HIDE DEF v
  <2> QED BY <1>1, <2>1, <2>2 DEF v
<1>2. CASE ~ (column = Null /\ c.value # Null)
  <2>1. v = Truth(IF c.op = "=" THEN column = c.value ELSE column # c.value)
    BY <1>2 DEF CompareColumn
  <2>2. v = IF Agrees(c, column) THEN "true" ELSE "false"
    <3>1. CASE c.op = "="
      BY <2>1, <3>1 DEF Truth, Agrees
    <3>2. CASE c.op # "="
      BY <2>1, <3>2 DEF Truth, Agrees
    <3> QED BY <3>1, <3>2
  <2> HIDE DEF v
  <2> QED BY <2>2 DEF v
<1> QED BY <1>1, <1>2

\* A comparison says of an object what it says of one of the values at its path.
LEMMA ComparisonHolds ==
  ASSUME NEW req \in Requests, NEW i, NEW c \in PredicatesIn[req], c.compound = "no"
  PROVE  Holds(req, i)[c] <=>
           \E v \in ValuesAt(Root[req.entity], i, c.path) : Agrees(c, v)
<1>1. Holds(req, i)[c] = IsTrueOf(req, i, c, Holds(req, i))
  BY HoldsEqual
<1> QED BY <1>1 DEF IsTrueOf, Agrees

\* The values compared where an exact or exhaustive request has no ANY.
LEMMA ColumnTruth ==
  ASSUME TypeOK, NEW req \in Requests, CountsEveryItem(req),
         NEW c \in PredicatesIn[req], c.compound = "no", c.path # "items.a",
         NEW env \in JoinedRows(req.entity, PathsIn[req])
  PROVE  LET v == Term(req, env, c)
             h == Holds(req, env.self)[c]
         IN  /\ v = "true" => h
             /\ v = "false" => ~ h
             /\ c.path = "items.@count" \/ c.value = Null \/ c.op = "=" => (h => v = "true")
             /\ c.path = "items.@count" \/ c.value = Null => (~ h => v = "false")
<1> DEFINE column == Operand(req, c.path, env)
           v == Term(req, env, c)
           h == Holds(req, env.self)[c]
<1>1. h <=> Agrees(c, column)
  BY ColumnRead, ComparisonHolds
<1>2. v = CompareColumn(c.op, column, c.value)
  <2>1. c # Everything
    BY DEF Everything
  <2> QED BY <2>1, TermTruths
<1>3. c.path = "items.@count" => column # Null
  BY ColumnRead, FetchAssumption
<1> HIDE DEF column, v, h
<1> QED BY <1>1, <1>2, <1>3, ComparedColumn DEF v, h
-----------------------------------------------------------------------------
\* Of what is selected: a term of an exact request is true of no object that the
\* predicate is false of.  Below NOT, no term is false of an object that the
\* predicate is true of; where the entity has a superentity, NOT is never true.
TermIsExact(req, env, p) ==
  /\ Term(req, env, p) = "true" => Holds(req, env.self)[p]
  /\ Parent[req.entity] = NoEntity /\ HasNot(req) =>
       (Term(req, env, p) = "false" => ~ Holds(req, env.self)[p])

\* The term of a comparison, which has no parts.
LEMMA ExactComparison ==
  ASSUME TypeOK, NEW req \in Requests, IsExact(req),
         NEW env \in JoinedRows(req.entity, PathsIn[req]),
         NEW c \in PredicatesIn[req], c.compound = "no"
  PROVE  TermIsExact(req, env, c)
<1>1. CASE c.path # "items.a"
  BY <1>1, ColumnTruth DEF IsExact, TermIsExact
<1>2. CASE c.path = "items.a"
  <2>1. c \in Comparing(req, "items.a")
    BY <1>2 DEF Comparing
  <2>2. ~ HasNot(req) /\ ~ (c.op = "=" /\ c.value = Null)
    BY <2>1 DEF IsExact
  <2>3. c # Everything
    BY DEF Everything
  <2>4. ASSUME Term(req, env, c) = "true" PROVE Holds(req, env.self)[c]
    <3> DEFINE column == Operand(req, c.path, env)
    <3>1. CompareColumn(c.op, column, c.value) = "true"
      BY <2>3, <2>4, TermTruths
    <3> HIDE DEF column
    <3>2. Agrees(c, column)
      BY <3>1, ComparedColumn
    <3>3. column # Null
      <4>1. CASE column = Null /\ c.value # Null
        BY <3>1, <4>1 DEF CompareColumn
      <4>2. CASE column = Null /\ c.value = Null
        BY <2>2, <3>2, <4>2 DEF Agrees
      <4> QED BY <4>1, <4>2
    <3>4. env.item \in ItemsOf(env.self) /\ column = objects[ItemTree][env.item].a
      BY <1>2, <3>3, ItemRead DEF column
    <3>5. column \in ValuesAt(Root[req.entity], env.self, c.path)
      BY <1>2, <3>4 DEF ValuesAt
    <3> QED BY <3>2, <3>5, ComparisonHolds
  <2> QED BY <2>2, <2>4 DEF TermIsExact
<1> QED BY <1>1, <1>2

\* The terms of the parts of a predicate, in a row of the entity.
LEMMA CompoundTruth ==
  ASSUME NEW req \in Requests, NEW env, NEW p \in PredicatesIn[req], p # Everything,
         IsOfType(req.entity, req.includesSubentities, env.self)
  PROVE  LET v(q) == Term(req, env, q)
             h(q) == Holds(req, env.self)[q]
             root == Parent[req.entity] = NoEntity
         IN  /\ p.compound = "not" =>
                  /\ p.of \in PredicatesIn[req] /\ p.of # Everything /\ HasNot(req)
                  /\ v(p) = IF root THEN NotOf(v(p.of)) ELSE "false"
                  /\ h(p) = ~ h(p.of)
             /\ p.compound \in {"and", "or"} =>
                  /\ p.left \in PredicatesIn[req] /\ p.left # Everything
                  /\ p.right \in PredicatesIn[req] /\ p.right # Everything
             /\ p.compound = "and" =>
                  /\ (v(p) = "true") <=> (v(p.left) = "true" /\ v(p.right) = "true")
                  /\ (v(p) = "false") <=> (v(p.left) = "false" \/ v(p.right) = "false")
                  /\ h(p) = (h(p.left) /\ h(p.right))
             /\ p.compound = "or" =>
                  /\ (v(p) = "true") <=> (v(p.left) = "true" \/ v(p.right) = "true")
                  /\ (v(p) = "false") <=> (v(p.left) = "false" /\ v(p.right) = "false")
                  /\ h(p) = (h(p.left) \/ h(p.right))
<1> DEFINE v(q) == Term(req, env, q)
           h(q) == Holds(req, env.self)[q]
           R == Restriction(req, env)
<1>1. \A q \in Parts(p) : q \in PredicatesIn[req] /\ q # Everything
  BY PredicatesOfRequest
<1>2. p \in Predicates
  BY PredicatesOfRequest DEF HasParts
<1>3. h(p) = IsTrueOf(req, env.self, p, Holds(req, env.self))
  BY HoldsEqual
<1>4. RestrictionPassed(R) /\ (R = {} <=> Parent[req.entity] = NoEntity)
  BY RestrictionTruth
<1>5. \A q \in Parts(p) : v(q) \in Truths
  BY <1>1, OneTerm
<1>6. ASSUME p.compound = "not"
      PROVE  /\ p.of \in PredicatesIn[req] /\ p.of # Everything /\ HasNot(req)
             /\ v(p) = IF Parent[req.entity] = NoEntity THEN NotOf(v(p.of)) ELSE "false"
             /\ h(p) = ~ h(p.of)
  <2>1. p.of \in Parts(p)
    BY <1>2, <1>6, PredicateKinds
  <2>2. v(p) = AllOf(UnderNot(R, v(p.of)))
    BY <1>6, TermTruths
  <2>3. h(p) = ~ h(p.of)
    BY <1>3, <1>6 DEF IsTrueOf
  <2>4. HasNot(req)
    BY <1>6 DEF HasNot
  <2>5. v(p) = IF R = {} THEN NotOf(v(p.of)) ELSE "false"
    <3> HIDE DEF v, R
    <3> QED BY <1>4, <1>5, <2>1, <2>2, NotOne
  <2> HIDE DEF v, h, R
  <2> QED BY <1>1, <1>4, <2>1, <2>3, <2>4, <2>5
<1>7. ASSUME p.compound \in {"and", "or"}
      PROVE  p.left \in Parts(p) /\ p.right \in Parts(p)
  BY <1>2, <1>7, PredicateKinds
<1>8. ASSUME p.compound = "and"
      PROVE  /\ (v(p) = "true") <=> (v(p.left) = "true" /\ v(p.right) = "true")
             /\ (v(p) = "false") <=> (v(p.left) = "false" \/ v(p.right) = "false")
             /\ h(p) = (h(p.left) /\ h(p.right))
  <2>1. v(p) = AllOf(R \cup {v(p.left), v(p.right)})
    BY <1>8, TermTruths
  <2>2. h(p) = (h(p.left) /\ h(p.right))
    BY <1>3, <1>8 DEF IsTrueOf
  <2>3. v(p.left) \in Truths /\ v(p.right) \in Truths
    BY <1>5, <1>7, <1>8
  <2> HIDE DEF v, h, R
  <2> QED BY <1>4, <2>1, <2>2, <2>3, AndTwo
<1>9. ASSUME p.compound = "or"
      PROVE  /\ (v(p) = "true") <=> (v(p.left) = "true" \/ v(p.right) = "true")
             /\ (v(p) = "false") <=> (v(p.left) = "false" /\ v(p.right) = "false")
             /\ h(p) = (h(p.left) \/ h(p.right))
  <2>1. v(p) = AnyOf({AllOf(R \cup {v(p.left)}), AllOf(R \cup {v(p.right)})})
    BY <1>9, TermTruths
  <2>2. h(p) = (h(p.left) \/ h(p.right))
    BY <1>3, <1>9 DEF IsTrueOf
  <2>3. v(p.left) \in Truths /\ v(p.right) \in Truths
    BY <1>5, <1>7, <1>9
  <2> HIDE DEF v, h, R
  <2>4. v(p) = AnyOf({v(p.left), v(p.right)})
    BY <1>4, <2>1, <2>3, AndOne
  <2> QED BY <2>2, <2>3, <2>4, OrTwo
<1> HIDE DEF v, h
<1> QED BY <1>1, <1>6, <1>7, <1>8, <1>9 DEF v, h

\* By structural induction.
LEMMA ExactTerms ==
  ASSUME TypeOK, NEW req \in Requests, IsExact(req),
         NEW env \in JoinedRows(req.entity, PathsIn[req]),
         IsOfType(req.entity, req.includesSubentities, env.self),
         req.predicate # Everything
  PROVE  TermIsExact(req, env, req.predicate)
<1> DEFINE D == PredicatesIn[req]
           S == {p \in D : p # Everything => TermIsExact(req, env, p)}
<1>1. HasParts(D) /\ req.predicate \in D /\ D \subseteq Predicates
  BY PredicatesOfRequest DEF HasParts
<1>2. ASSUME NEW p \in D, Parts(p) \subseteq S PROVE p \in S
  <2> SUFFICES ASSUME p # Everything PROVE TermIsExact(req, env, p)
    OBVIOUS
  <2>1. Parts(p) \subseteq {q \in D : TermIsExact(req, env, q)}
    BY <1>2, PredicatesOfRequest
  <2>2. CASE p.compound = "no"
    BY <2>2, ExactComparison
  <2>3. CASE p.compound = "not"
    <3>1. TermIsExact(req, env, p.of)
      BY <1>1, <2>1, <2>3, PredicateKinds
    <3>2. /\ p.of \in D /\ p.of # Everything /\ HasNot(req)
          /\ Parent[req.entity] = NoEntity =>
               Term(req, env, p) = NotOf(Term(req, env, p.of))
          /\ Parent[req.entity] # NoEntity => Term(req, env, p) = "false"
          /\ Holds(req, env.self)[p] = ~ Holds(req, env.self)[p.of]
      BY <2>3, CompoundTruth
    <3>3. Term(req, env, p.of) \in Truths
      BY <3>2, OneTerm
    <3>4. \A v \in Truths : /\ (NotOf(v) = "true") <=> (v = "false")
                            /\ (NotOf(v) = "false") <=> (v = "true")
      BY DEF NotOf, Truths
    <3> QED BY <3>1, <3>2, <3>3, <3>4 DEF TermIsExact
  <2>4. CASE p.compound \in {"and", "or"}
    <3>1. TermIsExact(req, env, p.left) /\ TermIsExact(req, env, p.right)
      BY <1>1, <2>1, <2>4, PredicateKinds
    <3> QED BY <2>4, <3>1, CompoundTruth DEF TermIsExact
  <2> QED BY <1>1, <2>2, <2>3, <2>4, PredicateKinds
<1>3. S = D
  <2> HIDE DEF S, D
  <2>1. S \in SUBSET D
    BY DEF S
  <2> QED BY <1>1, <1>2, <2>1, TreeInduction
<1> QED BY <1>1, <1>3
-----------------------------------------------------------------------------
\* A row that the restriction is true of is of an entity that is fetched; one of
\* an object of such an entity passes the restriction.
LEMMA FetchedEntity ==
  ASSUME TypeOK, NEW req \in Requests, NEW i \in ObjectIds(Root[req.entity])
  PROVE  LET e == req.entity
             own == objects[Root[e]][i].entity
         IN  /\ IsOfType(e, req.includesSubentities, i)
                  /\ (req.includesSubentities \/ Parent[e] # NoEntity)
                  => own \in EntitiesFetched(req)
             /\ own \in EntitiesFetched(req) => IsOfType(e, req.includesSubentities, i)
<1> DEFINE e == req.entity
           own == objects[Root[e]][i].entity
           type == rows[Root[e]][i].type
           fetched == EntitiesFetched(req)
<1>1. e \in Entities /\ Root[e] \in Trees
  BY FetchAssumption DEF Fetchable, InTree, Trees
<1>2. own \in InTree(Root[e]) /\ own \in Entities /\ type = EntityTypeWritten(own)
  BY <1>1, OwnRow
<1>3. fetched = TypesFetched(e, req.includesSubentities)
  BY DEF EntitiesFetched, TypesFetched
<1>4. /\ fetched \subseteq EntityIds[e] /\ EntityIds[e] \subseteq Entities
      /\ \A s \in EntityIds[e] : s = e \/ Parent[s] # NoEntity
      /\ req.includesSubentities => fetched = EntityIds[e]
  BY <1>1, BelowEntity DEF EntitiesFetched
<1>5. NoEntity \notin Entities
  BY ModelAssumption
<1>6. CASE Parent[e] = NoEntity
  <2>1. Root[e] = e /\ Root[own] = e
    BY <1>1, <1>2, <1>6, BaseEntity DEF InTree
  <2>2. own \in EntityIds[e]
    BY <1>2, <2>1, BaseEntity
  <2>3. IsOfType(e, req.includesSubentities, i)
    BY <1>6 DEF IsOfType
  <2> HIDE DEF e, own, fetched
  <2> QED BY <1>4, <1>6, <2>2, <2>3 DEF e, own, fetched
<1>7. CASE Parent[e] # NoEntity
  <2>1. IsOfType(e, req.includesSubentities, i) <=> type \in fetched
    BY <1>3, <1>7 DEF IsOfType
  <2>2. type \in fetched => own = type
    BY <1>2, <1>4, <1>5 DEF EntityTypeWritten
  <2>3. own \in fetched => own = type
    BY <1>2, <1>4, <1>7 DEF EntityTypeWritten
  <2> HIDE DEF type, own, fetched
  <2> QED BY <2>1, <2>2, <2>3 DEF type, own, fetched
<1> QED BY <1>6, <1>7

\* The answer to an exact request has nothing but matches, however its predicate
\* is put together (whereClauseWithFetchRequest: and the joins).
THEOREM OnlyMatches == Spec => []FetchesOnlyMatches
<1>1. ASSUME TypeOK, NEW req \in Requests, IsExact(req), NEW env \in Selected(req)
      PROVE  env.self \in Matches(req)
  <2>1. env \in JoinedRows(req.entity, PathsIn[req]) /\ Where(req, env) = "true"
    BY DEF Selected
  <2>2. /\ IsOfType(req.entity, req.includesSubentities, env.self)
        /\ req.predicate # Everything => Term(req, env, req.predicate) = "true"
    BY <2>1, SelectedTruth
  <2>3. env.self \in ObjectIds(Root[req.entity])
    <3>1. Root[req.entity] \in Trees
      BY FetchAssumption DEF Fetchable, InTree, Trees
    <3>2. env.self \in RowIds(Root[req.entity])
      BY <2>1, JoinedRow
    <3> QED BY <1>1, <3>1, <3>2, OwnRow
  <2>4. objects[Root[req.entity]][env.self].entity \in EntitiesFetched(req)
    BY <1>1, <2>2, <2>3, FetchedEntity DEF IsExact
  <2>5. Holds(req, env.self)[req.predicate]
    <3>1. CASE req.predicate = Everything
      <4>1. Holds(req, env.self)[req.predicate]
              = IsTrueOf(req, env.self, req.predicate, Holds(req, env.self))
        BY PredicatesOfRequest, HoldsEqual
      <4> QED BY <3>1, <4>1 DEF IsTrueOf, Everything
    <3>2. CASE req.predicate # Everything
      BY <1>1, <2>1, <2>2, <3>2, ExactTerms DEF TermIsExact
    <3> QED BY <3>1, <3>2
  <2> QED BY <2>3, <2>4, <2>5 DEF Matches
<1>2. TypeOK => FetchesOnlyMatches
  BY <1>1 DEF FetchesOnlyMatches, FetchedIds, Found
<1> QED BY <1>2, TypeCorrect, PTL
-----------------------------------------------------------------------------
\* Of a joined row: a term of an exhaustive request is true of every object that
\* the predicate is true of.  Below NOT, it is false of all others.
TermIsExhaustive(req, env, p) ==
  /\ Holds(req, env.self)[p] => Term(req, env, p) = "true"
  /\ HasNot(req) => (~ Holds(req, env.self)[p] => Term(req, env, p) = "false")

\* The joined row has an item that the one comparison with the items is true of,
\* if there is any.
HasWitness(req, env) ==
  \A c \in Comparing(req, "items.a") :
    (\E k \in ItemsOf(env.self) : Agrees(c, objects[ItemTree][k].a))
      => env.item \in ItemsOf(env.self) /\ Agrees(c, objects[ItemTree][env.item].a)

\* The term of a comparison, where the joined row has the item that matters.
LEMMA ExhaustiveComparison ==
  ASSUME TypeOK, NEW req \in Requests, IsExhaustive(req),
         NEW env \in JoinedRows(req.entity, PathsIn[req]), HasWitness(req, env),
         NEW c \in PredicatesIn[req], c.compound = "no"
  PROVE  TermIsExhaustive(req, env, c)
<1>1. /\ c.op = "!=" => c.value = Null \/ c.path = "items.@count"
      /\ HasNot(req) => (c.value = Null \/ c.path = "items.@count") /\ c.path # "items.a"
      /\ c.op \in {"=", "!="} /\ CountsEveryItem(req)
  <2>1. c \in Predicates
    BY PredicatesOfRequest DEF HasParts
  <2>2. c.op \in {"=", "!="}
    BY <2>1, PredicateKinds
  <2> QED BY <2>2 DEF IsExhaustive
<1>2. CASE c.path # "items.a"
  BY <1>1, <1>2, ColumnTruth DEF TermIsExhaustive
<1>3. CASE c.path = "items.a"
  <2>1. c \in Comparing(req, "items.a") /\ c # Everything
    BY <1>3 DEF Comparing, Everything
  <2>2. ASSUME Holds(req, env.self)[c] PROVE Term(req, env, c) = "true"
    <3>1. PICK v \in ValuesAt(Root[req.entity], env.self, c.path) : Agrees(c, v)
      BY <2>2, ComparisonHolds
    <3>2. \E k \in ItemsOf(env.self) : v = objects[ItemTree][k].a
      BY <1>3 DEF ValuesAt
    <3>3. env.item \in ItemsOf(env.self) /\ Agrees(c, objects[ItemTree][env.item].a)
      BY <2>1, <3>1, <3>2 DEF HasWitness
    <3> DEFINE column == Operand(req, c.path, env)
    <3>4. Agrees(c, column)
      <4>1. env.item # Null
        <5>1. env.item \in ItemIds
          BY <3>3, TwoTables DEF ItemsOf, ObjectIds
        <5> QED BY <5>1, ModelAssumption
      <4>2. column = objects[ItemTree][env.item].a
        BY <1>3, <4>1, ItemRead
      <4> QED BY <3>3, <4>2
    <3>5. Term(req, env, c) = CompareColumn(c.op, column, c.value)
      BY <2>1, TermTruths
    <3>6. c.value = Null \/ c.op = "="
      BY <1>1, <1>3
    <3> HIDE DEF column
    <3> QED BY <3>4, <3>5, <3>6, ComparedColumn
  <2> QED BY <1>1, <1>3, <2>2 DEF TermIsExhaustive
<1> QED BY <1>2, <1>3

\* By structural induction.
LEMMA ExhaustiveTerms ==
  ASSUME TypeOK, NEW req \in Requests, IsExhaustive(req),
         NEW env \in JoinedRows(req.entity, PathsIn[req]), HasWitness(req, env),
         IsOfType(req.entity, req.includesSubentities, env.self),
         req.predicate # Everything
  PROVE  TermIsExhaustive(req, env, req.predicate)
<1> DEFINE D == PredicatesIn[req]
           S == {p \in D : p # Everything => TermIsExhaustive(req, env, p)}
<1>1. HasParts(D) /\ req.predicate \in D /\ D \subseteq Predicates
  BY PredicatesOfRequest DEF HasParts
<1>2. ASSUME NEW p \in D, Parts(p) \subseteq S PROVE p \in S
  <2> SUFFICES ASSUME p # Everything PROVE TermIsExhaustive(req, env, p)
    OBVIOUS
  <2>1. Parts(p) \subseteq {q \in D : TermIsExhaustive(req, env, q)}
    BY <1>2, PredicatesOfRequest
  <2>2. CASE p.compound = "no"
    BY <2>2, ExhaustiveComparison
  <2>3. CASE p.compound = "not"
    <3>1. TermIsExhaustive(req, env, p.of)
      BY <1>1, <2>1, <2>3, PredicateKinds
    <3>2. /\ p.of \in D /\ p.of # Everything /\ HasNot(req)
          /\ Parent[req.entity] = NoEntity =>
               Term(req, env, p) = NotOf(Term(req, env, p.of))
          /\ Holds(req, env.self)[p] = ~ Holds(req, env.self)[p.of]
      BY <2>3, CompoundTruth
    <3>3. Parent[req.entity] = NoEntity
      BY <3>2 DEF IsExhaustive
    <3>4. NotOf("true") = "false" /\ NotOf("false") = "true"
      BY DEF NotOf
    <3> QED BY <3>1, <3>2, <3>3, <3>4 DEF TermIsExhaustive
  <2>4. CASE p.compound \in {"and", "or"}
    <3>1. TermIsExhaustive(req, env, p.left) /\ TermIsExhaustive(req, env, p.right)
      BY <1>1, <2>1, <2>4, PredicateKinds
    <3> QED BY <2>4, <3>1, CompoundTruth DEF TermIsExhaustive
  <2> QED BY <1>1, <2>2, <2>3, <2>4, PredicateKinds
<1>3. S = D
  <2> HIDE DEF S, D
  <2>1. S \in SUBSET D
    BY DEF S
  <2> QED BY <1>1, <1>2, <2>1, TreeInduction
<1> QED BY <1>1, <1>3

\* Every row is joined, with each item of its own if items are joined.
LEMMA WitnessIsJoined ==
  ASSUME TypeOK, NEW req \in Requests, IsExhaustive(req),
         NEW i \in ObjectIds(Root[req.entity])
  PROVE  \E env \in JoinedRows(req.entity, PathsIn[req]) :
           env.self = i /\ HasWitness(req, env)
<1> DEFINE paths == PathsIn[req]
           C == Comparing(req, "items.a")
           Is(c, k) == Agrees(c, objects[ItemTree][k].a)
<1>1. i \in RowIds(Root[req.entity])
  <2>1. Root[req.entity] \in Trees
    BY FetchAssumption DEF Fetchable, InTree, Trees
  <2> QED BY <2>1, OwnRow
<1>2. PICK o \in OwnersJoined(paths, i) : TRUE
  BY DEF OwnersJoined, OuterJoin
<1>3. \E k \in ItemsJoined(paths, i) :
        \A c \in C : (\E j \in ItemsOf(i) : Is(c, j)) => k \in ItemsOf(i) /\ Is(c, k)
  <2>1. CASE \E c \in C : \E j \in ItemsOf(i) : Is(c, j)
    <3>1. PICK c \in C, k \in ItemsOf(i) : Is(c, k)
      BY <2>1
    <3>2. \A d \in C : d = c
      BY DEF IsExhaustive
    <3>3. "items.a" \in paths
      BY ComparedPath DEF Comparing
    <3>4. ItemRowsOf(i) = ItemsOf(i)
      BY OwnRow DEF ItemRowsOf, ItemsOf, Trees
    <3>5. k \in ItemsJoined(paths, i)
      BY <3>3, <3>4 DEF ItemsJoined, Joins, OuterJoin
    <3> QED BY <3>1, <3>2, <3>5
  <2>2. CASE ~ \E c \in C : \E j \in ItemsOf(i) : Is(c, j)
    <3>1. PICK k \in ItemsJoined(paths, i) : TRUE
      BY DEF ItemsJoined, OuterJoin
    <3> QED BY <2>2, <3>1
  <2> QED BY <2>1, <2>2
<1>4. PICK k \in ItemsJoined(paths, i) :
        \A c \in C : (\E j \in ItemsOf(i) : Is(c, j)) => k \in ItemsOf(i) /\ Is(c, k)
  BY <1>3
<1> DEFINE env == [self |-> i, owner |-> o, item |-> k]
<1>5. env \in JoinedRows(req.entity, paths)
  BY <1>1 DEF JoinedRows
<1>6. env.self = i /\ env.item = k
  OBVIOUS
<1> HIDE DEF env
<1>7. HasWitness(req, env)
  BY <1>4, <1>6 DEF HasWitness
<1> QED BY <1>5, <1>6, <1>7

\* The answer to an exhaustive request has every match, those whose relationship
\* is NULL included (the comment at EncryptedStore.m:2380).
THEOREM AllMatches == Spec => []FetchesAllMatches
<1>1. ASSUME TypeOK, NEW req \in Requests, IsExhaustive(req), NEW i \in Matches(req)
      PROVE  i \in FetchedIds(req)
  <2>1. /\ i \in ObjectIds(Root[req.entity]) /\ Holds(req, i)[req.predicate]
        /\ objects[Root[req.entity]][i].entity \in EntitiesFetched(req)
    BY DEF Matches
  <2>2. PICK env \in JoinedRows(req.entity, PathsIn[req]) :
          env.self = i /\ HasWitness(req, env)
    BY <1>1, <2>1, WitnessIsJoined
  <2>3. IsOfType(req.entity, req.includesSubentities, env.self)
    BY <1>1, <2>1, <2>2, FetchedEntity
  <2>4. req.predicate # Everything => Term(req, env, req.predicate) = "true"
    BY <1>1, <2>1, <2>2, <2>3, ExhaustiveTerms DEF TermIsExhaustive
  <2>5. env \in Selected(req)
    BY <2>3, <2>4, SelectedTruth DEF Selected
  <2> QED BY <2>2, <2>5 DEF FetchedIds, Found
<1>2. TypeOK => FetchesAllMatches
  BY <1>1 DEF FetchesAllMatches
<1> QED BY <1>2, TypeCorrect, PTL
=============================================================================
