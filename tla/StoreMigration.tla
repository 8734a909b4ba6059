--------------------------- MODULE StoreMigration ---------------------------
(***************************************************************************)
(* Opening EncryptedStore (T2Crypto/EncryptedStore.m, loadMetadata:): in   *)
(* one transaction the tables of a new store are created, or the tables of *)
(* a store of an older model are moved to the new model one by one, and    *)
(* the metadata that names the model is written last.                      *)
(*                                                                         *)
(* The model has root entities, a to-one relationship and one many-to-many *)
(* relationship with its table of links.  A statement may fail alone, or   *)
(* take the transaction with it (SQLite on SQLITE_FULL and SQLITE_IOERR);  *)
(* the statements after it then commit one by one.  Attributes are what    *)
(* tells an object from the others; indexes are left out.                  *)
(***************************************************************************)
EXTENDS Integers, Sequences, FiniteSets, Functions

CONSTANTS
  EntityMappings,      \* the inferred mapping model: what becomes of each entity
  Refers,              \* the entity the to-one relationship of an entity leads to
  First, Second,       \* the old entities of the many-to-many relationship
  OldLinks, NewLinks,  \* the table of links in the old and in the new model
  Objects,             \* the objects of each old entity
  MaxId,               \* bound on the identifiers of the old rows
  NoTable,             \* there is no table of that name
  MaxFaults,           \* bound on the statements that fail
  MaxCrashes           \* bound on the crashes

MappingTypes == {"add", "remove", "transform", "copy"}

Mappings(types) == {m \in Range(EntityMappings) : m.type \in types}

OldEntities == {m.source : m \in Mappings(MappingTypes \ {"add"})}
AllObjects == UNION Range(Objects)
NewEntities == {m.destination : m \in Mappings(MappingTypes \ {"remove"})}
Names == OldEntities \cup NewEntities \cup {OldLinks, NewLinks}

\* The entity an old one becomes.
Destination(e) ==
  (CHOOSE m \in Mappings({"transform", "copy"}) : m.source = e).destination

\* A row of an entity's table; to is 0 without a related object.
Rows == [id : Nat, object : AllObjects, to : Nat]
Links == [first : Nat, second : Nat]

\* Core Data infers one mapping for each entity of the two models, and none of
\* type copy for an entity that is renamed.
ASSUME MigrationAssumption ==
  /\ EntityMappings \in Seq(Range(EntityMappings))
  /\ DOMAIN Objects = OldEntities
  /\ \A m \in Range(EntityMappings) : m.type \in MappingTypes
  /\ \A i, j \in DOMAIN EntityMappings :
       LET m == EntityMappings[i]
           n == EntityMappings[j]
       IN  i # j => /\ "add" \notin {m.type, n.type} => m.source # n.source
                    /\ "remove" \notin {m.type, n.type} =>
                         m.destination # n.destination
  /\ \A m \in Mappings({"copy"}) : m.source = m.destination
  /\ {First, Second} \subseteq {m.source : m \in Mappings({"transform"})}
  /\ \A e \in DOMAIN Refers : {e, Refers[e]} \subseteq OldEntities
  /\ {OldLinks, NewLinks} \cap (OldEntities \cup NewEntities) = {}
  /\ \A e \in OldEntities : IsFiniteSet(Objects[e])
  /\ NoTable \notin (SUBSET Rows) \cup (SUBSET Links)
  /\ MaxId \in Nat
  /\ MaxFaults \in Nat
  /\ MaxCrashes \in Nat

\* The file.  The metadata is "none" without its table, "empty" without a row.
Tables == [Names -> (SUBSET Rows) \cup (SUBSET Links) \cup {NoTable}]
Files == [metadata : {"none", "empty", "old", "new"},
          tables   : Tables,
          temps    : Tables]   \* the tables under their _T_ names

MappingSteps == {"next", "add", "remove", "rename", "createNew", "copy", "drop", "exists",
                 "renameLinks", "createLinks", "copyLinks", "dropLinks"}
Steps == {"closed", "begin", "load", "create", "links", "deleteMetadata",
          "insertMetadata", "end", "open"} \cup MappingSteps

VARIABLES
  disk,           \* the committed file
  view,           \* the file as this connection sees it
  inTransaction,
  step,           \* the next statement of loadMetadata:
  mapping,        \* the mapping it is for; 0: none
  success,        \* what the block of performInTransaction: returns so far
  rolledBack,     \* SQLite rolled back a transaction the block still ran in
  unread,         \* a table of links was not counted, and taken for absent
  initial,        \* the file as it was
  faults, crashes

fileVars == <<disk, view, inTransaction>>
historyVars == <<rolledBack, unread, initial>>
vars == <<fileVars, step, mapping, success, historyVars, faults, crashes>>

TypeOK ==
  /\ disk \in Files
  /\ view \in Files
  /\ inTransaction \in BOOLEAN
  /\ step \in Steps
  /\ mapping \in 0 .. Len(EntityMappings)
  /\ mapping # 0 => step \in MappingSteps
  /\ success \in BOOLEAN
  /\ rolledBack \in BOOLEAN
  /\ unread \in BOOLEAN
  /\ faults \in Nat
  /\ crashes \in Nat

-----------------------------------------------------------------------------
NoTables == [n \in Names |-> NoTable]

EmptyFile == [metadata |-> "none", tables |-> NoTables, temps |-> NoTables]

\* An old file: the objects have identifiers, with gaps where rows were deleted,
\* and are related as to and related say.
OldFile(ids, to, related) ==
  [EmptyFile EXCEPT
     !.metadata = "old",
     !.tables = [n \in Names |->
        IF n \in OldEntities
        THEN {[id |-> ids[o], object |-> o,
               to |-> IF o \in DOMAIN to THEN ids[to[o]] ELSE 0] : o \in Objects[n]}
        ELSE IF n = OldLinks
        THEN {[first |-> ids[pair[1]], second |-> ids[pair[2]]] : pair \in related}
        ELSE NoTable]]

Referring == UNION {Objects[e] : e \in DOMAIN Refers}

ReferredTo(o) ==
  Objects[Refers[CHOOSE e \in DOMAIN Refers : o \in Objects[e]]]

Init ==
  /\ \/ disk = EmptyFile
     \/ \E ids \in [AllObjects -> 1 .. MaxId], S \in SUBSET Referring,
           related \in SUBSET (Objects[First] \X Objects[Second]) :
          \E to \in [S -> AllObjects] :
            /\ \A e \in OldEntities : \A o, p \in Objects[e] :
                 ids[o] = ids[p] => o = p
            /\ \A o \in S : to[o] \in ReferredTo(o)
            /\ disk = OldFile(ids, to, related)
  /\ view = disk
  /\ inTransaction = FALSE
  /\ step = "closed"
  /\ mapping = 0
  /\ success = TRUE
  /\ rolledBack = FALSE
  /\ unread = FALSE
  /\ initial = disk
  /\ faults = 0
  /\ crashes = 0

-----------------------------------------------------------------------------
(* Statements.                                                             *)

Fault ==
  /\ faults < MaxFaults
  /\ faults' = faults + 1

\* A statement outside a transaction commits at once.
Succeed(new, next) ==
  /\ view' = new
  /\ disk' = IF inTransaction THEN disk ELSE new
  /\ step' = next
  /\ UNCHANGED <<inTransaction, success, rolledBack, faults>>

GiveUp(next) ==
  /\ step' = next
  /\ success' = FALSE

\* Either SQL refuses the statement, or it fails for reasons of its own.
Fail(allowed, next) ==
  /\ IF allowed THEN Fault ELSE UNCHANGED faults
  /\ GiveUp(next)
  /\ UNCHANGED <<fileVars, rolledBack>>

RollBack ==
  /\ view' = disk
  /\ inTransaction' = FALSE
  /\ rolledBack' = (rolledBack \/ inTransaction)
  /\ UNCHANGED disk

\* The statement at a step; it takes the file to new, if SQL allows it.
Statement(at, allowed, new, next, nextOnFailure) ==
  /\ step = at
  /\ \/ allowed /\ Succeed(new, next)
     \/ Fail(allowed, nextOnFailure)
     \/ Fault /\ RollBack /\ GiveUp(nextOnFailure)
  /\ UNCHANGED <<mapping, unread, initial, crashes>>

Exists(n) == view.tables[n] # NoTable

WithTable(n, table) == [view EXCEPT !.tables[n] = table]

Renamed(n) == [view EXCEPT !.tables[n] = NoTable, !.temps[n] = view.tables[n]]

WithoutTemp(n) == [view EXCEPT !.temps[n] = NoTable]

-----------------------------------------------------------------------------
(* performInTransaction: and loadMetadata:.                                *)

Open ==
  /\ step = "closed"
  /\ step' = "begin"
  /\ success' = TRUE
  /\ UNCHANGED <<fileVars, mapping, historyVars, faults, crashes>>

\* The store closes the connection, and SQLite what is left of a transaction.
Close ==
  /\ step' = "closed"
  /\ mapping' = 0
  /\ view' = disk
  /\ inTransaction' = FALSE

\* Mutant: the transaction is never begun.
BeginTransactionSkipped ==
  /\ step = "begin"
  /\ step' = "load"
  /\ UNCHANGED <<fileVars, mapping, success, historyVars, faults, crashes>>

BeginTransaction ==
  /\ step = "begin"
  /\ \/ /\ inTransaction' = TRUE
        /\ step' = "load"
        /\ UNCHANGED <<disk, view, mapping, faults>>
     \/ Fault /\ Close /\ UNCHANGED disk
  /\ UNCHANGED <<success, historyVars, crashes>>

\* hasMetadataTable: and the SELECT of the metadata, or the CREATE of its table.
LoadMetadata ==
  CASE view.metadata = "none" ->
         Statement("load", TRUE, [view EXCEPT !.metadata = "empty"], "create", "end")
    [] view.metadata = "old" -> Statement("load", TRUE, view, "next", "end")
    [] OTHER -> Statement("load", view.metadata # "empty", view, "end", "end")

\* initializeDatabase: creates a table for each entity, in any order, and then
\* the table of links.
CreateTable(e) ==
  /\ ~Exists(e)
  /\ Statement("create", TRUE, WithTable(e, {}),
               IF \A n \in NewEntities \ {e} : Exists(n) THEN "links" ELSE "create", "end")

CreateLinks ==
  Statement("links", ~Exists(NewLinks), WithTable(NewLinks, {}), "deleteMetadata", "end")

-----------------------------------------------------------------------------
(* migrateFromModel:.  A mapping that fails does not stop the next ones.   *)

FirstStep == [add |-> "add", remove |-> "remove", transform |-> "rename", copy |-> "next"]

\* Mutants: the mapping stays at the last one; a failure is forgotten.
NextMappingStays ==
  /\ step = "next"
  /\ IF mapping < Len(EntityMappings)
     THEN mapping' = mapping + 1 /\ step' = FirstStep[EntityMappings[mapping'].type]
     ELSE UNCHANGED mapping /\ step' = IF success THEN "deleteMetadata" ELSE "end"
  /\ UNCHANGED <<fileVars, success, historyVars, faults, crashes>>
NextMappingForgetsFailure ==
  /\ step = "next"
  /\ IF mapping < Len(EntityMappings)
     THEN /\ mapping' = mapping + 1
          /\ step' = FirstStep[EntityMappings[mapping'].type]
          /\ UNCHANGED success
     ELSE mapping' = 0 /\ step' = "deleteMetadata" /\ success' = TRUE
  /\ UNCHANGED <<fileVars, historyVars, faults, crashes>>

NextMapping ==
  /\ step = "next"
  /\ IF mapping < Len(EntityMappings)
     THEN /\ mapping' = mapping + 1
          /\ step' = FirstStep[EntityMappings[mapping'].type]
     ELSE /\ mapping' = 0
          /\ step' = IF success THEN "deleteMetadata" ELSE "end"
  /\ UNCHANGED <<fileVars, success, historyVars, faults, crashes>>

Source == EntityMappings[mapping].source
Target == EntityMappings[mapping].destination

\* createTableForEntity:, for a new entity.
AddTable == Statement("add", ~Exists(Target), WithTable(Target, {}), "next", "next")

\* dropTableForEntity:.
RemoveTable == Statement("remove", Exists(Source), WithTable(Source, NoTable), "next", "next")

\* alterTableForSourceEntity:.
RenameTable ==
  Statement("rename", Exists(Source) /\ view.temps[Source] = NoTable,
            Renamed(Source), "createNew", "next")

CreateNewTable ==
  Statement("createNew", ~Exists(Target), WithTable(Target, {}), "copy", "next")

\* Mutant: the new rows are numbered from 0.
RenumberedFromZero(table) ==
  {[r EXCEPT !.id = Cardinality({q \in table : q.id < r.id})] : r \in table}

\* The columns copied do not include __objectid: the new rows are numbered from
\* 1 in the order of the old ones.
Renumbered(table) ==
  {[r EXCEPT !.id = Cardinality({q \in table : q.id <= r.id})] : r \in table}

CopyRows ==
  Statement("copy", Exists(Target) /\ view.temps[Source] # NoTable,
            WithTable(Target, Renumbered(view.temps[Source])), "drop", "next")

\* The links are altered only while no mapping has failed.
DropTable ==
  Statement("drop", view.temps[Source] # NoTable, WithoutTemp(Source),
            IF success /\ Source \in {First, Second} THEN "exists" ELSE "next", "next")

\* Mutant: the table of links is altered without a look whether it is there.
LinksExistUnchecked ==
  /\ step = "exists"
  /\ step' = "renameLinks"
  /\ UNCHANGED <<fileVars, mapping, success, historyVars, faults, crashes>>

\* alterRelationshipForSourceEntity:.  The other end's mapping may have altered
\* the table before; a table that cannot be counted is taken for altered.
LinksExist ==
  /\ step = "exists"
  /\ step' = IF Exists(OldLinks) THEN "renameLinks" ELSE "next"
  /\ UNCHANGED <<fileVars, mapping, success, historyVars, faults, crashes>>

LinksUnread ==
  /\ step = "exists"
  /\ Fault
  /\ step' = "next"
  /\ \/ /\ unread' = (unread \/ Exists(OldLinks))
        /\ UNCHANGED <<fileVars, rolledBack>>
     \/ /\ unread' = TRUE
        /\ RollBack
  /\ UNCHANGED <<mapping, success, initial, crashes>>

RenameLinks ==
  Statement("renameLinks", Exists(OldLinks) /\ view.temps[OldLinks] = NoTable,
            Renamed(OldLinks), "createLinks", "next")

CreateNewLinks ==
  Statement("createLinks", ~Exists(NewLinks), WithTable(NewLinks, {}), "copyLinks", "next")

\* The links are copied with the identifiers they have.
CopyLinks ==
  Statement("copyLinks", view.temps[OldLinks] # NoTable,
            WithTable(NewLinks, view.temps[OldLinks]), "dropLinks", "next")

DropLinks ==
  Statement("dropLinks", view.temps[OldLinks] # NoTable, WithoutTemp(OldLinks), "next", "next")

-----------------------------------------------------------------------------
(* saveMetadata and the end of the transaction.                            *)

DeleteMetadata ==
  Statement("deleteMetadata", TRUE, [view EXCEPT !.metadata = "empty"],
            "insertMetadata", "end")

InsertMetadata ==
  Statement("insertMetadata", TRUE, [view EXCEPT !.metadata = "new"], "end", "end")

Commit ==
  /\ step = "end"
  /\ success
  /\ inTransaction
  /\ disk' = view
  /\ inTransaction' = FALSE
  /\ step' = "open"
  /\ UNCHANGED <<view, mapping, success, historyVars, faults, crashes>>

\* ROLLBACK, a COMMIT that fails, or either without a transaction to end: the
\* store is not opened.
LoadFails ==
  /\ step = "end"
  /\ IF success /\ inTransaction THEN Fault ELSE UNCHANGED faults
  /\ Close
  /\ UNCHANGED <<disk, success, historyVars, crashes>>

\* The store is deallocated.
Dealloc ==
  /\ step = "open"
  /\ Close
  /\ UNCHANGED <<disk, success, historyVars, faults, crashes>>

\* The process dies: SQLite recovers the committed file.
Crash ==
  /\ crashes < MaxCrashes
  /\ step # "closed"
  /\ crashes' = crashes + 1
  /\ Close
  /\ UNCHANGED <<disk, success, historyVars, faults>>

LoadStep ==
  \/ Open \/ BeginTransaction \/ LoadMetadata
  \/ (\E e \in NewEntities : CreateTable(e)) \/ CreateLinks
  \/ NextMapping \/ AddTable \/ RemoveTable
  \/ RenameTable \/ CreateNewTable \/ CopyRows \/ DropTable
  \/ LinksExist \/ LinksUnread
  \/ RenameLinks \/ CreateNewLinks \/ CopyLinks \/ DropLinks
  \/ DeleteMetadata \/ InsertMetadata
  \/ Commit \/ LoadFails

Next == LoadStep \/ Dealloc \/ Crash

Spec == Init /\ [][Next]_vars

\* loadMetadata: runs to its end on the caller's thread, and the application
\* opens the store again when it starts again.
FairSpec == Spec /\ WF_vars(LoadStep)

-----------------------------------------------------------------------------
(* Properties.                                                             *)

\* The file holds exactly the tables of the new model.
HasNewTables(file) ==
  /\ \A n \in Names : file.tables[n] # NoTable <=> n \in NewEntities \cup {NewLinks}
  /\ file.temps = NoTables

ObjectsIn(table) == {r.object : r \in table}

\* Who is related to whom, by the to-one and by the many-to-many relationship.
Referred(from, to) ==
  {<<pair[1].object, pair[2].object>> :
     pair \in {p \in from \X to : p[1].to = p[2].id}}

LinkedObjects(links, from, to) ==
  {<<pair[1].object, pair[2].object>> :
     pair \in {p \in from \X to :
                 \E l \in links : l.first = p[1].id /\ l.second = p[2].id}}

\* No row of a table that is numbered anew has been deleted.
Dense(file) ==
  \A m \in Mappings({"transform"}) :
    LET ids == {r.id : r \in file.tables[m.source]} IN ids = 1 .. Cardinality(ids)

\* The metadata names the new model only when all of the file follows it, even
\* when SQLite rolls the transaction back under the migration (loadMetadata:).
MetadataMatchesTables ==
  disk.metadata = "new" /\ ~unread =>
    /\ HasNewTables(disk)
    /\ initial.metadata = "old" =>
         \A m \in Mappings({"transform", "copy"}) :
           ObjectsIn(disk.tables[m.destination]) = ObjectsIn(initial.tables[m.source])

\* Objects related in the old store are related in the new one, and no others,
\* as long as the identifiers of the old store had no gaps (CopyRows numbers
\* the rows anew, but copies what refers to them as it is).
RelationsSurvive ==
  (/\ disk.metadata = "new" /\ initial.metadata = "old"
   /\ Dense(initial) /\ ~unread) =>
    /\ \A e \in DOMAIN Refers :
         {e, Refers[e]} \subseteq {m.source : m \in Mappings({"transform", "copy"})} =>
           Referred(disk.tables[Destination(e)], disk.tables[Destination(Refers[e])])
             = Referred(initial.tables[e], initial.tables[Refers[e]])
    /\ LinkedObjects(disk.tables[NewLinks], disk.tables[Destination(First)],
                     disk.tables[Destination(Second)])
         = LinkedObjects(initial.tables[OldLinks], initial.tables[First],
                         initial.tables[Second])

\* The file changes at most once, from the old model to the new one, and as a
\* whole, wherever a statement fails or the process dies; unless SQLite rolls
\* the transaction back in the middle of it (performInTransaction:).
MigrationIsAtomic ==
  [][disk' # disk /\ ~rolledBack' => disk = initial /\ disk'.metadata = "new"]_vars

\* An interrupted or failed migration can always be done again: in the end the
\* store follows the new model, unless SQLite rolled back a transaction or a
\* table of links was overlooked.
MigrationCompletes == <>(rolledBack \/ unread \/ disk.metadata = "new")
==============================================================================
