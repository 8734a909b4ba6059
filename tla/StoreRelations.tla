--------------------------- MODULE StoreRelations ---------------------------
(***************************************************************************)
(* Many-to-many relationships of EncryptedStore (T2Crypto/EncryptedStore.m *)
(* handleUpdatedRelationInSaveRequest: and handleDeletedRelation-          *)
(* InSaveRequest:): one relationship between two root entities and its     *)
(* inverse, kept in one table of links.  A link holds the position of each *)
(* of its two objects in the list of the other one.                        *)
(*                                                                         *)
(* A context relates objects, keeping the relationship and its inverse in  *)
(* step, and saves.  The statements for one object are one step, and the   *)
(* objects of a handler come in no particular order.  What SQLite does to  *)
(* the transaction by itself is in module EncryptedStore.                  *)
(***************************************************************************)
EXTENDS SequencesExt

CONSTANTS
  Left, Right,  \* the objects at the two ends
  SameRoot,     \* both ends have the same root entity
  MaxPosition,  \* bounds the positions of the order columns
  Failures      \* see FailureKinds

(***************************************************************************)
(* "statement"  a statement that writes fails                              *)
(* "commit"     COMMIT fails and SQLite rolls back                         *)
(* "read"       SELECT COUNT(-) or SELECT MAX(-) fails                     *)
(***************************************************************************)
FailureKinds == {"statement", "commit", "read"}

ASSUME RelationAssumption ==
  /\ IsFiniteSet(Left)
  /\ IsFiniteSet(Right)
  /\ Left \cap Right = {}
  /\ SameRoot \in BOOLEAN
  /\ MaxPosition \in Nat
  /\ Failures \subseteq FailureKinds

Objects == Left \cup Right

Partners(o) == IF o \in Left THEN Right ELSE Left

\* table[o][p] is the position of p in the list of o, 0 without a link: the
\* order column of p in the row that links o and p.
Tables == [Objects -> [Objects -> Nat]]

NoLinks == [o \in Objects |-> [p \in Objects |-> 0]]

Linked(table, o) == {p \in Partners(o) : table[o][p] # 0}

\* A list without repetition of partners of o.
IsList(list, o) == ToSet(list) \subseteq Partners(o) /\ IsInjective(list)

NoLists == [o \in Objects |-> <<>>]

Position(list, p) == SelectInSeq(list, LAMBDA q : q = p)

VARIABLES
  \* The context.
  objects,   \* the objects that are not deleted
  lists,     \* the related objects of each object
  \* What the last successful save, or the last fetch, left in the context.
  stored,    \* the objects that have a row
  saved,     \* their related objects
  \* The database.
  disk,      \* the committed links
  links,     \* the links this connection sees
  \* The save in progress.
  stage,     \* "idle" or "block"
  pending,   \* the objects no handler has come to yet
  failed,    \* some handler of the block returned NO
  \* Objects whose positions a failed read left as they were, committed and
  \* in the transaction.
  diskMisread, misread

context  == <<objects, lists>>
snapshot == <<stored, saved>>
database == <<disk, diskMisread>>
view     == <<links, misread>>
save     == <<stage, pending, failed>>
vars     == <<context, snapshot, database, view, save>>

TypeOK ==
  /\ objects \in SUBSET Objects
  /\ stored \in SUBSET Objects
  /\ \A o \in Objects : IsList(lists[o], o) /\ IsList(saved[o], o)
  /\ disk \in Tables
  /\ links \in Tables
  /\ \A o, p \in Objects : links[o][p] # 0 <=> links[p][o] # 0
  /\ stage \in {"idle", "block"}
  /\ pending \in SUBSET Objects
  /\ failed \in BOOLEAN
  /\ diskMisread \in SUBSET Objects
  /\ misread \in SUBSET Objects

Init ==
  /\ objects = {}
  /\ stored = {}
  /\ lists = NoLists
  /\ saved = NoLists
  /\ disk = NoLinks
  /\ links = NoLinks
  /\ stage = "idle"
  /\ pending = {}
  /\ failed = FALSE
  /\ diskMisread = {}
  /\ misread = {}
-----------------------------------------------------------------------------
(***************************************************************************)
(* The context.  Core Data keeps both ends of a relationship in step, and  *)
(* takes a deleted object out of the lists it is in.                       *)
(***************************************************************************)
Create(o) ==
  /\ stage = "idle"
  /\ o \notin objects \cup stored
  /\ objects' = objects \cup {o}
  /\ UNCHANGED <<lists, snapshot, database, view, save>>

Relate(o, p) ==
  /\ stage = "idle"
  /\ o \in objects
  /\ p \in (objects \cap Partners(o)) \ ToSet(lists[o])
  /\ lists' = [lists EXCEPT ![o] = Append(@, p), ![p] = Append(@, o)]
  /\ UNCHANGED <<objects, snapshot, database, view, save>>

Unrelate(o, p) ==
  /\ stage = "idle"
  /\ p \in ToSet(lists[o])
  /\ lists' = [lists EXCEPT ![o] = RemoveFirst(@, p), ![p] = RemoveFirst(@, o)]
  /\ UNCHANGED <<objects, snapshot, database, view, save>>

\* An ordered relationship: the first object moves to the end.
Reorder(o) ==
  /\ stage = "idle"
  /\ Len(lists[o]) > 1
  /\ lists' = [lists EXCEPT ![o] = Append(Tail(@), Head(@))]
  /\ UNCHANGED <<objects, snapshot, database, view, save>>

Delete(o) ==
  /\ stage = "idle"
  /\ o \in objects
  /\ objects' = objects \ {o}
  /\ lists' = [x \in Objects |->
                 IF x = o THEN <<>> ELSE RemoveFirst(lists[x], o)]
  /\ UNCHANGED <<snapshot, database, view, save>>
-----------------------------------------------------------------------------
(***************************************************************************)
(* The save request and its transaction.                                   *)
(***************************************************************************)
Inserted == objects \ stored
Updated  == {o \in objects \cap stored : lists[o] # saved[o]}
Deleted  == stored \ objects

ExecuteSaveRequest ==
  /\ stage = "idle"
  /\ Inserted \cup Updated \cup Deleted # {}
  /\ stage' = "block"
  /\ pending' = Inserted \cup Updated \cup Deleted
  /\ failed' = FALSE
  /\ UNCHANGED <<context, snapshot, database, view>>

\* The handler of the objects S is running.
InHandler(S) ==
  /\ stage = "block"
  /\ pending \cap S # {}
  /\ S # Inserted => pending \cap Inserted = {}
  /\ S = Deleted => pending \cap Updated = {}

Handled(o) ==
  /\ pending' = pending \ {o}
  /\ UNCHANGED <<stage, context, snapshot, database>>
-----------------------------------------------------------------------------
(***************************************************************************)
(* handleUpdatedRelationInSaveRequest:forObject:error:.                    *)
(***************************************************************************)
NextOrderOfMaximum(table, o, unread) ==
  IF o \in unread THEN 0 ELSE Max({table[o][p] : p \in Objects})

\* nextOrderForColumnInRelationship:, the position after the last one in the
\* list of o.  A read that fails leaves 0.
NextOrder(table, o, unread) ==
  1 + IF o \in unread THEN 0 ELSE Max({table[o][p] : p \in Objects})

\* Mutant: a link that exists keeps its position.
WriteListKeepsPositions(table, o, list, uncounted, unread) ==
  [x \in Objects |-> [y \in Objects |->
     IF x = o /\ y \in ToSet(list) /\ table[x][y] = 0 THEN Position(list, y)
     ELSE IF y = o /\ x \in ToSet(list) /\ table[x][y] = 0
       THEN NextOrder(table, x, unread)
       ELSE table[x][y]]]

\* The loop over the list of o: an UPDATE where a row exists, an INSERT, which
\* puts o last in the partner's list, where none does.  Where the row could not
\* be counted the PRIMARY KEY refuses the INSERT, which counts as success.
WriteList(table, o, list, uncounted, unread) ==
  [x \in Objects |-> [y \in Objects |->
     IF x = o /\ y \in ToSet(list) /\ (y \in uncounted => table[x][y] = 0)
       THEN Position(list, y)
     ELSE IF y = o /\ x \in ToSet(list) /\ table[x][y] = 0
       THEN NextOrder(table, x, unread)
       ELSE table[x][y]]]

\* With one root entity for both ends the second order column has no name: the
\* UPDATE and the INSERT cannot be prepared, and finalizing NULL returns OK.
LinkAll(table, o, list, uncounted, unread) ==
  IF SameRoot THEN table ELSE WriteList(table, o, list, uncounted, unread)

\* Mutant: the rest of the relations stay.
PruneNothing(table, o, S) == table

\* The DELETE of the links of o to other objects than S.
Prune(table, o, S) ==
  [x \in Objects |-> [y \in Objects |->
     IF (x = o /\ y \notin S) \/ (y = o /\ x \notin S) THEN 0 ELSE table[x][y]]]

\* The statements for o succeed.  An empty list returns before any of them.
SaveList(o) ==
  IF lists[o] = <<>> THEN UNCHANGED view
  ELSE \E uncounted, unread \in SUBSET ToSet(lists[o]) :
         /\ uncounted \cup unread # {} => "read" \in Failures
         /\ links' = Prune(LinkAll(links, o, lists[o], uncounted, unread),
                           o, ToSet(lists[o]))
         /\ misread' = IF uncounted \cap Linked(links, o) # {}
                       THEN misread \cup {o} ELSE misread \ {o}

\* One of them fails, after those for the first partners of the list.
SaveListFails(o) ==
  /\ "statement" \in Failures
  /\ lists[o] # <<>>
  /\ \E n \in 0 .. Len(lists[o]) :
       links' = LinkAll(links, o, SubSeq(lists[o], 1, n), {}, {})
  /\ UNCHANGED misread

\* The insert and the update handler go on with the next object either way.
HandleList(o, S) ==
  /\ InHandler(S)
  /\ o \in pending \cap S
  /\ \/ SaveList(o) /\ UNCHANGED failed
     \/ SaveListFails(o) /\ failed' = TRUE
  /\ \A x, y \in Objects : links'[x][y] <= MaxPosition
  /\ Handled(o)

HandleInserted(o) == HandleList(o, Inserted)

HandleUpdated(o) == HandleList(o, Updated)
-----------------------------------------------------------------------------
\* Mutant: the row of the object goes, its links stay.
HandleDeletedRow(o) ==
  /\ InHandler(Deleted)
  /\ o \in pending \cap Deleted
  /\ UNCHANGED <<view, failed>>
  /\ Handled(o)

\* handleDeletedRelationInSaveRequest:.  With one root entity for both ends
\* its DELETE names a column that does not exist.
HandleDeleted(o) ==
  /\ InHandler(Deleted)
  /\ o \in pending \cap Deleted
  /\ ~SameRoot
  /\ links' = Prune(links, o, {})
  /\ misread' = misread \ {o}
  /\ Handled(o)
  /\ UNCHANGED failed

\* The delete handler stops at its first failure.
HandleDeletedFails(o) ==
  /\ InHandler(Deleted)
  /\ o \in pending \cap Deleted
  /\ SameRoot \/ "statement" \in Failures
  /\ failed' = TRUE
  /\ pending' = {}
  /\ UNCHANGED <<stage, context, snapshot, database, view>>
-----------------------------------------------------------------------------
Commit ==
  /\ stage = "block"
  /\ pending = {}
  /\ ~failed
  /\ stage' = "idle"
  /\ disk' = links
  /\ diskMisread' = misread
  /\ stored' = objects
  /\ saved' = lists
  /\ UNCHANGED <<context, view, pending, failed>>

\* The context keeps its changes, and may save them again.
Rollback ==
  /\ stage = "block"
  /\ pending = {}
  /\ failed \/ "commit" \in Failures
  /\ stage' = "idle"
  /\ links' = disk
  /\ misread' = diskMisread
  /\ failed' = FALSE
  /\ UNCHANGED <<context, snapshot, database, pending>>

\* newValueForRelationship: the linked objects of o ORDER BY their positions.
ReadLists(o) ==
  {list \in SetToSeqs(Linked(disk, o)) :
     \A m, n \in DOMAIN list : m < n => disk[o][list[m]] <= disk[o][list[n]]}

\* The process dies, and a new context fetches the objects.
Reopen ==
  /\ links' = disk
  /\ misread' = diskMisread
  /\ objects' = stored
  /\ lists' \in [Objects -> UNION {ReadLists(o) : o \in Objects}]
  /\ \A o \in Objects : lists'[o] \in ReadLists(o)
  /\ saved' = lists'
  /\ stage' = "idle"
  /\ pending' = {}
  /\ failed' = FALSE
  /\ UNCHANGED <<stored, database>>

Next ==
  \/ \E o \in Objects :
       \/ Create(o)
       \/ Reorder(o)
       \/ Delete(o)
       \/ HandleInserted(o)
       \/ HandleUpdated(o)
       \/ HandleDeleted(o)
       \/ HandleDeletedFails(o)
  \/ \E o \in Left, p \in Right :
       \/ Relate(o, p)
       \/ Unrelate(o, p)
  \/ ExecuteSaveRequest
  \/ Commit
  \/ Rollback
  \/ Reopen

Spec == Init /\ [][Next]_vars
-----------------------------------------------------------------------------
(***************************************************************************)
(* Properties.                                                             *)
(***************************************************************************)

\* What was saved of one object is what a new context would fetch.
ReadsBack(o) == Linked(disk, o) = ToSet(saved[o])

\* Every list that was saved with something in it reads back as it was saved,
\* whatever the other end, later saves and failed saves did to the same rows
\* (handleUpdatedRelationInSaveRequest:, newValueForRelationship:).
RelatedObjectsReadBack ==
  \A o \in stored : saved[o] # <<>> => ReadsBack(o)

\* And in the order it was saved in: each position is unambiguous although the
\* partners' saves insert rows into the same list with nextOrderForColumn.
OrderReadsBack ==
  \A o \in stored \ diskMisread :
    saved[o] # <<>> =>
      \A m, n \in DOMAIN saved[o] :
        m < n => disk[o][saved[o][m]] < disk[o][saved[o][n]]

\* No committed link leads to an object without a row, not even one left over
\* from an emptied list (handleDeletedRelationInSaveRequest:).
NoDanglingLinks == \A o \in Objects : Linked(disk, o) # {} => o \in stored

\* "delete the rest of the relations": what was taken out of a list is gone
\* once it was saved, also when the list is empty now.
RestIsDeleted == \A o \in stored : Linked(disk, o) \subseteq ToSet(saved[o])

\* A relationship between objects of one root entity is stored like any other.
RelationIsStored == \A o \in stored : ToSet(saved[o]) \subseteq Linked(disk, o)
==============================================================================
