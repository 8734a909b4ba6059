------------------------ MODULE StoreMigration_proofs ------------------------
(***************************************************************************)
(* Proofs about StoreMigration, for every mapping model, every old file    *)
(* and every number of failures and crashes.                               *)
(***************************************************************************)
EXTENDS StoreMigration, FiniteSetTheorems, TLAPS

Contents == (SUBSET Rows) \cup (SUBSET Links) \cup {NoTable}

EntityNames == OldEntities \cup NewEntities

\* The tables of entities hold finitely many rows, and no links.
RowTables(tables) ==
  \A n \in EntityNames :
    tables[n] # NoTable => tables[n] \subseteq Rows /\ IsFiniteSet(tables[n])

RowFile(file) == RowTables(file.tables) /\ RowTables(file.temps)

LEMMA MappingsType ==
  /\ Len(EntityMappings) \in Nat
  /\ \A i \in 1 .. Len(EntityMappings) :
       /\ EntityMappings[i].type \in MappingTypes
       /\ EntityMappings[i].type # "add" => EntityMappings[i].source \in OldEntities
       /\ EntityMappings[i].type # "remove" =>
            EntityMappings[i].destination \in NewEntities
<1>1. /\ Len(EntityMappings) \in Nat
      /\ DOMAIN EntityMappings = 1 .. Len(EntityMappings)
  BY MigrationAssumption
<1>2. ASSUME NEW i \in 1 .. Len(EntityMappings)
      PROVE  /\ EntityMappings[i].type \in MappingTypes
             /\ EntityMappings[i].type # "add" =>
                  EntityMappings[i].source \in OldEntities
             /\ EntityMappings[i].type # "remove" =>
                  EntityMappings[i].destination \in NewEntities
  <2> DEFINE m == EntityMappings[i]
  <2>1. m \in Range(EntityMappings)
    BY <1>1 DEF Range
  <2>2. m.type \in MappingTypes
    BY <2>1, MigrationAssumption
  <2>3. m.type # "add" => m \in Mappings(MappingTypes \ {"add"})
    BY <2>1, <2>2 DEF Mappings
  <2>4. m.type # "remove" => m \in Mappings(MappingTypes \ {"remove"})
    BY <2>1, <2>2 DEF Mappings
  <2> HIDE DEF m
  <2>5. m.type # "add" => m.source \in OldEntities
    BY <2>3 DEF OldEntities
  <2>6. m.type # "remove" => m.destination \in NewEntities
    BY <2>4 DEF NewEntities
  <2> QED BY <2>2, <2>5, <2>6 DEF m
<1> QED BY <1>1, <1>2

LEMMA NamesType ==
  /\ EntityNames \subseteq Names
  /\ {OldLinks, NewLinks} \subseteq Names
  /\ {OldLinks, NewLinks} \cap EntityNames = {}
BY MigrationAssumption DEF Names, EntityNames

-----------------------------------------------------------------------------
(***************************************************************************)
(* What a statement makes of the file.                                     *)
(***************************************************************************)

LEMMA WithTableType ==
  ASSUME view \in Files, RowFile(view), NEW n \in Names, NEW table \in Contents,
         n \in EntityNames /\ table # NoTable => table \subseteq Rows /\ IsFiniteSet(table)
  PROVE  WithTable(n, table) \in Files /\ RowFile(WithTable(n, table))
<1> DEFINE new == WithTable(n, table)
<1>1. /\ new.tables = [view.tables EXCEPT ![n] = table]
      /\ new.temps = view.temps
      /\ new \in Files
  BY DEF WithTable, Files, Tables, Contents
<1>2. view.tables \in [Names -> Contents]
  BY DEF Files, Tables, Contents
<1> HIDE DEF new
<1> QED BY <1>1, <1>2, NamesType DEF RowFile, RowTables, new

LEMMA RenamedType ==
  ASSUME view \in Files, RowFile(view), NEW n \in Names
  PROVE  Renamed(n) \in Files /\ RowFile(Renamed(n))
<1> DEFINE new == Renamed(n)
<1>1. /\ new.tables = [view.tables EXCEPT ![n] = NoTable]
      /\ new.temps = [view.temps EXCEPT ![n] = view.tables[n]]
      /\ new \in Files
  BY DEF Renamed, Files, Tables
<1>2. view.tables \in [Names -> Contents] /\ view.temps \in [Names -> Contents]
  BY DEF Files, Tables, Contents
<1> HIDE DEF new
<1> QED BY <1>1, <1>2, NamesType DEF RowFile, RowTables, new

LEMMA WithoutTempType ==
  ASSUME view \in Files, RowFile(view), NEW n \in Names
  PROVE  WithoutTemp(n) \in Files /\ RowFile(WithoutTemp(n))
<1> DEFINE new == WithoutTemp(n)
<1>1. /\ new.tables = view.tables
      /\ new.temps = [view.temps EXCEPT ![n] = NoTable]
      /\ new \in Files
  BY DEF WithoutTemp, Files, Tables
<1>2. view.temps \in [Names -> Contents]
  BY DEF Files, Tables, Contents
<1> HIDE DEF new
<1> QED BY <1>1, <1>2, NamesType DEF RowFile, RowTables, new

LEMMA MetadataType ==
  ASSUME view \in Files, RowFile(view), NEW m \in {"none", "empty", "old", "new"}
  PROVE  /\ [view EXCEPT !.metadata = m] \in Files
         /\ RowFile([view EXCEPT !.metadata = m])
         /\ [view EXCEPT !.metadata = m].metadata = m
BY DEF Files, RowFile

\* Rows numbered anew are rows, and as many at most.
LEMMA RenumberedType ==
  ASSUME NEW table \in SUBSET Rows, IsFiniteSet(table)
  PROVE  Renumbered(table) \subseteq Rows /\ IsFiniteSet(Renumbered(table))
<1> DEFINE num(r) == Cardinality({q \in table : q.id <= r.id})
           f == [r \in table |-> [r EXCEPT !.id = num(r)]]
<1>1. \A r \in table : num(r) \in Nat
  <2> TAKE r \in table
  <2>1. {q \in table : q.id <= r.id} \in SUBSET table
    OBVIOUS
  <2>2. IsFiniteSet({q \in table : q.id <= r.id})
    BY <2>1, FS_Subset
  <2> QED BY <2>2, FS_CardinalityType
<1> HIDE DEF num
<1>2. \A r \in table : [r EXCEPT !.id = num(r)] \in Rows
  BY <1>1 DEF Rows
<1>3. Renumbered(table) = {[r EXCEPT !.id = num(r)] : r \in table}
  BY DEF Renumbered, num
<1>4. f \in Surjection(table, Renumbered(table))
  BY <1>3 DEF Surjection
<1>5. IsFiniteSet(Renumbered(table))
  BY <1>4, FS_Surjection
<1> QED BY <1>2, <1>3, <1>5

-----------------------------------------------------------------------------
(***************************************************************************)
(* The inductive invariant of the types: the steps of a mapping belong to  *)
(* a mapping of their kind, and the tables of entities can be numbered.    *)
(***************************************************************************)
StepsOf == [add |-> {"add"}, remove |-> {"remove"},
            transform |-> {"rename", "createNew", "copy", "drop"}, copy |-> {}]

StepInv ==
  \A type \in MappingTypes :
    step \in StepsOf[type] => mapping # 0 /\ EntityMappings[mapping].type = type

TypeInv == TypeOK /\ StepInv /\ RowFile(disk) /\ RowFile(view)

LEMMA EmptyFileType == EmptyFile \in Files /\ RowFile(EmptyFile)
BY DEF EmptyFile, Files, Tables, NoTables, RowFile, RowTables, EntityNames, Names

LEMMA OldFileType ==
  ASSUME NEW ids \in [AllObjects -> 1 .. MaxId], NEW S \in SUBSET Referring,
         NEW related \in SUBSET (Objects[First] \X Objects[Second]),
         NEW to \in [S -> AllObjects]
  PROVE  OldFile(ids, to, related) \in Files /\ RowFile(OldFile(ids, to, related))
<1> DEFINE row(o) == [id |-> ids[o], object |-> o,
                      to |-> IF o \in DOMAIN to THEN ids[to[o]] ELSE 0]
           link(pair) == [first |-> ids[pair[1]], second |-> ids[pair[2]]]
           rowsOf(n) == {row(o) : o \in Objects[n]}
           links == {link(pair) : pair \in related}
           tables == [n \in Names |-> IF n \in OldEntities THEN rowsOf(n)
                                      ELSE IF n = OldLinks THEN links ELSE NoTable]
<1>1. \A n \in OldEntities : Objects[n] \subseteq AllObjects
  BY MigrationAssumption DEF AllObjects, Range
<1>2. MaxId \in Nat
  BY MigrationAssumption
<1>3. \A o \in AllObjects : row(o) \in Rows
  BY <1>2 DEF Rows
<1>4. First \in OldEntities /\ Second \in OldEntities
  <2>1. \A m \in Mappings({"transform"}) : m \in Mappings(MappingTypes \ {"add"})
    BY DEF Mappings, MappingTypes
  <2> QED BY <2>1, MigrationAssumption DEF OldEntities
<1>5. \A pair \in related : link(pair) \in Links
  BY <1>1, <1>2, <1>4 DEF Links
<1> HIDE DEF row, link
<1>6. \A n \in OldEntities : rowsOf(n) \subseteq Rows
  BY <1>1, <1>3
<1>7. \A n \in OldEntities : IsFiniteSet(rowsOf(n))
  <2> TAKE n \in OldEntities
  <2> DEFINE f == [o \in Objects[n] |-> row(o)]
  <2>1. f \in Surjection(Objects[n], rowsOf(n))
    BY DEF Surjection
  <2> QED BY <2>1, FS_Surjection, MigrationAssumption
<1>8. links \subseteq Links
  BY <1>5
<1> HIDE DEF rowsOf, links
<1>9. tables \in Tables
  BY <1>6, <1>8 DEF Tables
<1>10. RowTables(tables)
  BY <1>6, <1>7, NamesType DEF RowTables, EntityNames
<1>11. OldFile(ids, to, related) =
         [EmptyFile EXCEPT !.metadata = "old", !.tables = tables]
  BY DEF OldFile, row, link, rowsOf, links
<1> HIDE DEF tables
<1> QED BY <1>9, <1>10, <1>11, EmptyFileType DEF EmptyFile, Files, RowFile

LEMMA InitType == Init => TypeInv
<1> SUFFICES ASSUME Init PROVE TypeInv
  OBVIOUS
<1>1. disk \in Files /\ RowFile(disk)
  BY EmptyFileType, OldFileType DEF Init
<1>2. TypeOK
  <2>1. /\ view = disk /\ inTransaction = FALSE /\ step = "closed"
        /\ mapping = 0 /\ success = TRUE /\ rolledBack = FALSE
        /\ unread = FALSE /\ faults = 0 /\ crashes = 0
    BY DEF Init
  <2>2. mapping \in 0 .. Len(EntityMappings)
    BY <2>1, MappingsType
  <2>3. step \in Steps
    BY <2>1 DEF Steps
  <2> QED BY <1>1, <2>1, <2>2, <2>3 DEF TypeOK
<1>3. StepInv
  BY DEF Init, StepInv, StepsOf, MappingTypes
<1> QED BY <1>1, <1>2, <1>3 DEF Init, TypeInv

\* A statement that would leave a file of the right shape does, however it ends.
LEMMA StatementType ==
  ASSUME TypeInv, NEW at, NEW allowed \in BOOLEAN, NEW new, NEW next \in Steps,
         NEW nextOnFailure \in Steps,
         Statement(at, allowed, new, next, nextOnFailure),
         allowed => new \in Files /\ RowFile(new),
         mapping # 0 => {next, nextOnFailure} \subseteq MappingSteps
  PROVE  /\ TypeOK' /\ RowFile(disk)' /\ RowFile(view)'
         /\ step' \in {next, nextOnFailure} /\ mapping' = mapping
<1>1. CASE allowed /\ Succeed(new, next)
  BY <1>1 DEF Statement, Succeed, TypeInv, TypeOK
<1>2. CASE Fail(allowed, nextOnFailure)
  <2>1. faults' \in Nat
    BY <1>2 DEF Fail, Fault, TypeInv, TypeOK
  <2>2. /\ UNCHANGED <<disk, view, inTransaction, rolledBack, mapping, unread, crashes>>
        /\ step' = nextOnFailure /\ success' = FALSE
    BY <1>2 DEF Statement, Fail, GiveUp, fileVars
  <2> QED BY <2>1, <2>2 DEF TypeInv, TypeOK
<1>3. CASE Fault /\ RollBack /\ GiveUp(nextOnFailure)
  <2>1. faults' \in Nat
    BY <1>3 DEF Fault, TypeInv, TypeOK
  <2>2. rolledBack' \in BOOLEAN
    BY <1>3 DEF RollBack, TypeInv, TypeOK
  <2>3. /\ UNCHANGED <<disk, mapping, unread, crashes>>
        /\ view' = disk /\ inTransaction' = FALSE
        /\ step' = nextOnFailure /\ success' = FALSE
    BY <1>3 DEF Statement, RollBack, GiveUp
  <2> QED BY <2>1, <2>2, <2>3 DEF TypeInv, TypeOK
<1> QED BY <1>1, <1>2, <1>3 DEF Statement

\* The steps of a statement are steps of the mapping it is for, or of none.
LEMMA StepsType ==
  /\ MappingSteps \subseteq Steps
  /\ \A s \in Steps \ MappingSteps, type \in MappingTypes : s \notin StepsOf[type]
  /\ \A s \in {"next", "exists", "renameLinks", "createLinks", "copyLinks", "dropLinks"},
        type \in MappingTypes : s \notin StepsOf[type]
BY DEF MappingSteps, Steps, StepsOf, MappingTypes

\* A statement that no mapping is for.
LEMMA UnmappedStatementType ==
  ASSUME TypeInv, NEW at \in Steps \ MappingSteps, NEW allowed \in BOOLEAN, NEW new,
         NEW next \in Steps, NEW nextOnFailure \in Steps,
         Statement(at, allowed, new, next, nextOnFailure),
         allowed => new \in Files /\ RowFile(new),
         {next, nextOnFailure} \cap (MappingSteps \ {"next"}) = {}
  PROVE  TypeInv'
<1>1. step = at /\ mapping = 0
  BY DEF Statement, TypeInv, TypeOK
<1>2. /\ TypeOK' /\ RowFile(disk)' /\ RowFile(view)'
      /\ step' \in {next, nextOnFailure}
  BY <1>1, StatementType
<1>3. StepInv'
  BY <1>2, StepsType DEF StepInv
<1> QED BY <1>2, <1>3 DEF TypeInv

LEMMA LoadMetadataType ==
  ASSUME TypeInv, LoadMetadata
  PROVE  TypeInv'
<1> USE DEF TypeInv, TypeOK, LoadMetadata, Steps, MappingSteps
<1>1. CASE view.metadata = "none"
  BY <1>1, MetadataType, UnmappedStatementType
<1>2. CASE view.metadata = "old"
  BY <1>2, UnmappedStatementType
<1>3. CASE view.metadata \notin {"none", "old"}
  BY <1>3, UnmappedStatementType
<1> QED BY <1>1, <1>2, <1>3

LEMMA CreateType ==
  ASSUME TypeInv, (\E e \in NewEntities : CreateTable(e)) \/ CreateLinks
  PROVE  TypeInv'
<1>1. {} \in Contents /\ IsFiniteSet({})
  BY FS_EmptySet DEF Contents
<1>2. {"create", "links", "deleteMetadata", "end"} \subseteq Steps \ MappingSteps
  BY DEF Steps, MappingSteps
<1>3. ASSUME NEW e \in NewEntities, CreateTable(e)
      PROVE  TypeInv'
  <2>1. WithTable(e, {}) \in Files /\ RowFile(WithTable(e, {}))
    BY <1>1, WithTableType, NamesType DEF TypeInv, TypeOK, EntityNames
  <2> DEFINE next == IF \A n \in NewEntities \ {e} : Exists(n) THEN "links" ELSE "create"
  <2>2. next \in {"links", "create"}
    OBVIOUS
  <2>3. Statement("create", TRUE, WithTable(e, {}), next, "end")
    BY <1>3 DEF CreateTable
  <2> HIDE DEF next
  <2> QED BY <1>2, <2>1, <2>2, <2>3, UnmappedStatementType
<1>4. CASE CreateLinks
  <2>1. WithTable(NewLinks, {}) \in Files /\ RowFile(WithTable(NewLinks, {}))
    BY <1>1, WithTableType, NamesType DEF TypeInv, TypeOK
  <2>2. (~Exists(NewLinks)) \in BOOLEAN
    BY DEF Exists
  <2> QED BY <1>2, <1>4, <2>1, <2>2, UnmappedStatementType DEF CreateLinks
<1> QED BY <1>3, <1>4

LEMMA SaveMetadataType ==
  ASSUME TypeInv, DeleteMetadata \/ InsertMetadata
  PROVE  TypeInv'
<1>1. {"deleteMetadata", "insertMetadata", "end"} \subseteq Steps \ MappingSteps
  BY DEF Steps, MappingSteps
<1>2. view \in Files /\ RowFile(view)
  BY DEF TypeInv, TypeOK
<1> DEFINE new(m) == [view EXCEPT !.metadata = m]
<1>3. \A m \in {"empty", "new"} : new(m) \in Files /\ RowFile(new(m))
  BY <1>2, MetadataType
<1>4. CASE DeleteMetadata
  <2>1. Statement("deleteMetadata", TRUE, new("empty"), "insertMetadata", "end")
    BY <1>4 DEF DeleteMetadata
  <2> HIDE DEF new
  <2> QED BY <1>1, <1>3, <2>1, UnmappedStatementType
<1>5. CASE InsertMetadata
  <2>1. Statement("insertMetadata", TRUE, new("new"), "end", "end")
    BY <1>5 DEF InsertMetadata
  <2> HIDE DEF new
  <2> QED BY <1>1, <1>3, <2>1, UnmappedStatementType
<1> QED BY <1>4, <1>5

\* A statement of a mapping of one type.
LEMMA MappedStatementType ==
  ASSUME TypeInv, NEW type \in MappingTypes, NEW at \in StepsOf[type],
         NEW allowed \in BOOLEAN, NEW new, NEW next \in StepsOf[type] \cup {"next", "exists"},
         Statement(at, allowed, new, next, "next"),
         allowed => new \in Files /\ RowFile(new)
  PROVE  TypeInv'
<1>1. step = at /\ mapping # 0 /\ EntityMappings[mapping].type = type
  BY DEF Statement, TypeInv, StepInv
<1>2. {next, "next"} \subseteq MappingSteps
  BY DEF StepsOf, MappingTypes, MappingSteps
<1>3. /\ TypeOK' /\ RowFile(disk)' /\ RowFile(view)'
      /\ step' \in {next, "next"} /\ mapping' = mapping
  BY <1>2, StepsType, StatementType
<1>4. StepInv'
  <2>1. ASSUME NEW other \in MappingTypes, step' \in StepsOf[other]
        PROVE  other = type
    BY <1>3, <2>1, StepsType DEF StepsOf, MappingTypes
  <2> QED BY <1>1, <1>3, <2>1 DEF StepInv
<1> QED BY <1>3, <1>4 DEF TypeInv

LEMMA MappingType ==
  ASSUME TypeInv, mapping # 0
  PROVE  /\ EntityMappings[mapping].type # "add" => Source \in OldEntities
         /\ EntityMappings[mapping].type # "remove" => Target \in NewEntities
BY MappingsType DEF TypeInv, TypeOK, Source, Target

LEMMA EntityStepType ==
  ASSUME TypeInv,
         \/ AddTable \/ RemoveTable
         \/ RenameTable \/ CreateNewTable \/ CopyRows \/ DropTable
  PROVE  TypeInv'
<1>1. {} \in Contents /\ IsFiniteSet({}) /\ NoTable \in Contents
  BY FS_EmptySet DEF Contents
<1>2. view \in Files /\ RowFile(view)
  BY DEF TypeInv, TypeOK
<1>3. /\ StepsOf["add"] = {"add"} /\ StepsOf["remove"] = {"remove"}
      /\ StepsOf["transform"] = {"rename", "createNew", "copy", "drop"}
      /\ {"add", "remove", "transform"} \subseteq MappingTypes
  BY DEF StepsOf, MappingTypes
<1>4. CASE AddTable
  <2>1. mapping # 0 /\ EntityMappings[mapping].type = "add"
    BY <1>3, <1>4 DEF AddTable, Statement, TypeInv, StepInv
  <2>2. Target \in NewEntities
    BY <2>1, MappingType
  <2>3. WithTable(Target, {}) \in Files /\ RowFile(WithTable(Target, {}))
    BY <1>1, <1>2, <2>2, WithTableType, NamesType DEF EntityNames
  <2>4. (~Exists(Target)) \in BOOLEAN
    BY DEF Exists
  <2> QED BY <1>3, <1>4, <2>3, <2>4, MappedStatementType DEF AddTable
<1>5. CASE RemoveTable
  <2>1. mapping # 0 /\ EntityMappings[mapping].type = "remove"
    BY <1>3, <1>5 DEF RemoveTable, Statement, TypeInv, StepInv
  <2>2. Source \in OldEntities
    BY <2>1, MappingType
  <2>3. WithTable(Source, NoTable) \in Files /\ RowFile(WithTable(Source, NoTable))
    BY <1>1, <1>2, <2>2, WithTableType, NamesType DEF EntityNames
  <2>4. Exists(Source) \in BOOLEAN
    BY DEF Exists
  <2> QED BY <1>3, <1>5, <2>3, <2>4, MappedStatementType DEF RemoveTable
<1>6. ASSUME step \in StepsOf["transform"]
      PROVE  Source \in OldEntities /\ Target \in NewEntities
  BY <1>3, <1>6, MappingType DEF TypeInv, StepInv
<1>7. CASE RenameTable
  <2>1. Source \in Names
    BY <1>3, <1>6, <1>7, NamesType DEF RenameTable, Statement, EntityNames
  <2>2. Renamed(Source) \in Files /\ RowFile(Renamed(Source))
    BY <1>2, <2>1, RenamedType
  <2>3. (Exists(Source) /\ view.temps[Source] = NoTable) \in BOOLEAN
    BY DEF Exists
  <2> QED BY <1>3, <1>7, <2>2, <2>3, MappedStatementType DEF RenameTable
<1>8. CASE CreateNewTable
  <2>1. Target \in EntityNames
    BY <1>3, <1>6, <1>8 DEF CreateNewTable, Statement, EntityNames
  <2>2. WithTable(Target, {}) \in Files /\ RowFile(WithTable(Target, {}))
    BY <1>1, <1>2, <2>1, WithTableType, NamesType
  <2>3. (~Exists(Target)) \in BOOLEAN
    BY DEF Exists
  <2> QED BY <1>3, <1>8, <2>2, <2>3, MappedStatementType DEF CreateNewTable
<1>9. CASE CopyRows
  <2>1. Source \in EntityNames /\ Target \in EntityNames
    BY <1>3, <1>6, <1>9 DEF CopyRows, Statement, EntityNames
  <2> DEFINE copy == Renumbered(view.temps[Source])
             allowed == Exists(Target) /\ view.temps[Source] # NoTable
  <2>2. allowed => copy \in Contents /\ copy \subseteq Rows /\ IsFiniteSet(copy)
    BY <1>2, <2>1, RenumberedType DEF RowFile, RowTables, Contents
  <2>3. Statement("copy", allowed, WithTable(Target, copy), "drop", "next")
    BY <1>9 DEF CopyRows
  <2>4. allowed \in BOOLEAN
    BY DEF Exists
  <2> HIDE DEF copy, allowed
  <2>5. allowed => WithTable(Target, copy) \in Files /\ RowFile(WithTable(Target, copy))
    BY <1>2, <2>1, <2>2, WithTableType, NamesType
  <2> QED BY <1>3, <2>3, <2>4, <2>5, MappedStatementType
<1>10. CASE DropTable
  <2>1. Source \in Names
    BY <1>3, <1>6, <1>10, NamesType DEF DropTable, Statement, EntityNames
  <2>2. WithoutTemp(Source) \in Files /\ RowFile(WithoutTemp(Source))
    BY <1>2, <2>1, WithoutTempType
  <2>3. (view.temps[Source] # NoTable) \in BOOLEAN
    OBVIOUS
  <2> DEFINE next == IF success /\ Source \in {First, Second} THEN "exists" ELSE "next"
  <2>4. next \in {"exists", "next"}
    OBVIOUS
  <2>5. Statement("drop", view.temps[Source] # NoTable, WithoutTemp(Source), next, "next")
    BY <1>10 DEF DropTable
  <2> HIDE DEF next
  <2> QED BY <1>3, <2>2, <2>3, <2>4, <2>5, MappedStatementType
<1> QED BY <1>4, <1>5, <1>7, <1>8, <1>9, <1>10

\* The steps of the table of links may follow a mapping of any type.
LEMMA LinkStepType ==
  ASSUME TypeInv, RenameLinks \/ CreateNewLinks \/ CopyLinks \/ DropLinks
  PROVE  TypeInv'
<1> DEFINE LinkSteps == {"renameLinks", "createLinks", "copyLinks", "dropLinks", "next"}
<1>1. LinkSteps \subseteq MappingSteps
  BY DEF MappingSteps
<1>2. /\ view \in Files /\ RowFile(view)
      /\ view.temps[OldLinks] \in Contents
  BY NamesType DEF TypeInv, TypeOK, Files, Tables, Contents
<1>3. ASSUME NEW at, NEW allowed \in BOOLEAN, NEW new, NEW next \in LinkSteps,
             Statement(at, allowed, new, next, "next"),
             new \in Files, RowFile(new)
      PROVE  TypeInv'
  <2>1. /\ TypeOK' /\ RowFile(disk)' /\ RowFile(view)'
        /\ step' \in {next, "next"}
    BY <1>1, <1>3, StepsType, StatementType
  <2>2. StepInv'
    BY <2>1, StepsType DEF StepInv
  <2> QED BY <2>1, <2>2 DEF TypeInv
<1>4. CASE RenameLinks
  <2>1. Renamed(OldLinks) \in Files /\ RowFile(Renamed(OldLinks))
    BY <1>2, RenamedType, NamesType
  <2>2. (Exists(OldLinks) /\ view.temps[OldLinks] = NoTable) \in BOOLEAN
    BY DEF Exists
  <2> QED BY <1>3, <1>4, <2>1, <2>2 DEF RenameLinks
<1>5. CASE CreateNewLinks
  <2>1. {} \in Contents
    BY DEF Contents
  <2>2. WithTable(NewLinks, {}) \in Files /\ RowFile(WithTable(NewLinks, {}))
    BY <1>2, <2>1, WithTableType, NamesType
  <2>3. (~Exists(NewLinks)) \in BOOLEAN
    BY DEF Exists
  <2> QED BY <1>3, <1>5, <2>2, <2>3 DEF CreateNewLinks
<1>6. CASE CopyLinks
  <2>1. /\ WithTable(NewLinks, view.temps[OldLinks]) \in Files
        /\ RowFile(WithTable(NewLinks, view.temps[OldLinks]))
    BY <1>2, WithTableType, NamesType
  <2>2. (view.temps[OldLinks] # NoTable) \in BOOLEAN
    OBVIOUS
  <2> QED BY <1>3, <1>6, <2>1, <2>2 DEF CopyLinks
<1>7. CASE DropLinks
  <2>1. WithoutTemp(OldLinks) \in Files /\ RowFile(WithoutTemp(OldLinks))
    BY <1>2, WithoutTempType, NamesType
  <2>2. (view.temps[OldLinks] # NoTable) \in BOOLEAN
    OBVIOUS
  <2> QED BY <1>3, <1>7, <2>1, <2>2 DEF DropLinks
<1> QED BY <1>4, <1>5, <1>6, <1>7

LEMMA LinksReadType ==
  ASSUME TypeInv, LinksExist \/ LinksUnread
  PROVE  TypeInv'
<1>1. step' \in {"renameLinks", "next"} /\ UNCHANGED mapping
  BY DEF LinksExist, LinksUnread
<1>2. StepInv'
  BY <1>1, StepsType DEF StepInv
<1>3. step' \in Steps /\ step' \in MappingSteps
  BY <1>1 DEF Steps, MappingSteps
<1>4. CASE LinksExist
  BY <1>2, <1>3, <1>4
     DEF LinksExist, TypeInv, TypeOK, fileVars, historyVars
<1>5. CASE LinksUnread
  <2>0. /\ faults' \in Nat /\ UNCHANGED <<success, crashes>>
    BY <1>5 DEF LinksUnread, Fault, TypeInv, TypeOK
  <2>1. /\ unread' \in BOOLEAN /\ rolledBack' \in BOOLEAN
        /\ inTransaction' \in BOOLEAN /\ UNCHANGED disk
        /\ view' \in {view, disk}
    <3>1. CASE unread' = (unread \/ Exists(OldLinks)) /\ UNCHANGED <<fileVars, rolledBack>>
      BY <3>1 DEF Exists, TypeInv, TypeOK, fileVars
    <3>2. CASE unread' = TRUE /\ RollBack
      BY <3>2 DEF RollBack, TypeInv, TypeOK
    <3> QED BY <1>5, <3>1, <3>2 DEF LinksUnread
  <2>2. /\ RowFile(view)' /\ view' \in Files
    BY <2>1 DEF TypeInv, TypeOK
  <2> QED BY <1>1, <1>2, <1>3, <2>0, <2>1, <2>2 DEF TypeInv, TypeOK
<1> QED BY <1>4, <1>5

LEMMA NextMappingType ==
  ASSUME TypeInv, NextMapping
  PROVE  TypeInv'
<1>0. UNCHANGED <<disk, view, inTransaction, success, rolledBack, unread, faults, crashes>>
  BY DEF NextMapping, fileVars, historyVars
<1>1. CASE mapping < Len(EntityMappings)
  <2>1. mapping' = mapping + 1 /\ step' = FirstStep[EntityMappings[mapping'].type]
    BY <1>1 DEF NextMapping
  <2>2. mapping' \in 1 .. Len(EntityMappings)
    BY <1>1, <2>1, MappingsType DEF TypeInv, TypeOK
  <2> DEFINE type == EntityMappings[mapping'].type
  <2>3. type \in MappingTypes
    BY <2>2, MappingsType
  <2>4. step' \in StepsOf[type] \cup {"next"} /\ step' \in MappingSteps
    BY <2>1, <2>3 DEF FirstStep, MappingTypes, StepsOf, MappingSteps
  <2>5. \A other \in MappingTypes : step' \in StepsOf[other] => other = type
    BY <2>1, <2>3 DEF FirstStep, MappingTypes, StepsOf
  <2>6. StepInv'
    BY <2>2, <2>5 DEF StepInv
  <2> QED BY <1>0, <2>2, <2>4, <2>6, StepsType, MappingsType DEF TypeInv, TypeOK
<1>2. CASE ~(mapping < Len(EntityMappings))
  <2>1. mapping' = 0 /\ step' \in {"deleteMetadata", "end"}
    BY <1>2 DEF NextMapping
  <2>2. step' \in Steps \ MappingSteps
    BY <2>1 DEF Steps, MappingSteps
  <2>3. StepInv'
    BY <2>2, StepsType DEF StepInv
  <2>4. 0 \in 0 .. Len(EntityMappings)
    BY MappingsType
  <2> QED BY <1>0, <2>1, <2>2, <2>3, <2>4 DEF TypeInv, TypeOK
<1> QED BY <1>1, <1>2

\* Opening, beginning, and every way of closing.
LEMMA ControlType ==
  ASSUME TypeInv, Open \/ BeginTransaction \/ Commit \/ LoadFails \/ Dealloc \/ Crash
  PROVE  TypeInv'
<1>1. /\ step' \in {"begin", "load", "open", "closed"}
      /\ (mapping' = mapping /\ step \notin MappingSteps) \/ mapping' = 0
  BY DEF Open, BeginTransaction, Close, Commit, LoadFails, Dealloc, Crash, MappingSteps
<1>2. step' \in Steps \ MappingSteps
  BY <1>1 DEF Steps, MappingSteps
<1>3. mapping' = 0
  BY <1>1 DEF TypeInv, TypeOK
<1>4. StepInv'
  BY <1>2, StepsType DEF StepInv
<1>5. 0 \in 0 .. Len(EntityMappings)
  BY MappingsType
<1>6. /\ disk' \in {disk, view} /\ view' \in {disk, view}
      /\ inTransaction' \in {inTransaction, TRUE, FALSE} /\ success' \in {success, TRUE}
      /\ UNCHANGED <<rolledBack, unread>>
      /\ faults' \in {faults, faults + 1} /\ crashes' \in {crashes, crashes + 1}
  <2> USE DEF fileVars, historyVars
  <2>1. CASE Open
    BY <2>1 DEF Open
  <2>2. CASE BeginTransaction
    BY <2>2 DEF BeginTransaction, Close, Fault
  <2>3. CASE Commit
    BY <2>3 DEF Commit
  <2>4. CASE LoadFails
    BY <2>4 DEF LoadFails, Close, Fault
  <2>5. CASE Dealloc
    BY <2>5 DEF Dealloc, Close
  <2>6. CASE Crash
    BY <2>6 DEF Crash, Close
  <2> QED BY <2>1, <2>2, <2>3, <2>4, <2>5, <2>6
<1>7. /\ disk' \in Files /\ view' \in Files /\ RowFile(disk)' /\ RowFile(view)'
  BY <1>6 DEF TypeInv, TypeOK
<1>8. inTransaction' \in BOOLEAN /\ success' \in BOOLEAN
  BY <1>6 DEF TypeInv, TypeOK
<1>9. faults' \in Nat /\ crashes' \in Nat
  BY <1>6 DEF TypeInv, TypeOK
<1>10. UNCHANGED <<rolledBack, unread>>
  BY <1>6
<1> QED BY <1>2, <1>3, <1>4, <1>5, <1>7, <1>8, <1>9, <1>10 DEF TypeInv, TypeOK

LEMMA StepType == TypeInv /\ [Next]_vars => TypeInv'
<1> SUFFICES ASSUME TypeInv, [Next]_vars PROVE TypeInv'
  OBVIOUS
<1>1. CASE LoadMetadata
  BY <1>1, LoadMetadataType
<1>2. CASE (\E e \in NewEntities : CreateTable(e)) \/ CreateLinks
  BY <1>2, CreateType
<1>3. CASE NextMapping
  BY <1>3, NextMappingType
<1>4. CASE \/ AddTable \/ RemoveTable
           \/ RenameTable \/ CreateNewTable \/ CopyRows \/ DropTable
  BY <1>4, EntityStepType
<1>5. CASE LinksExist \/ LinksUnread
  BY <1>5, LinksReadType
<1>6. CASE RenameLinks \/ CreateNewLinks \/ CopyLinks \/ DropLinks
  BY <1>6, LinkStepType
<1>7. CASE DeleteMetadata \/ InsertMetadata
  BY <1>7, SaveMetadataType
<1>8. CASE Open \/ BeginTransaction \/ Commit \/ LoadFails \/ Dealloc \/ Crash
  BY <1>8, ControlType
<1>9. CASE UNCHANGED vars
  BY <1>9 DEF TypeInv, TypeOK, StepInv, vars, fileVars, historyVars
<1> QED BY <1>1, <1>2, <1>3, <1>4, <1>5, <1>6, <1>7, <1>8, <1>9 DEF Next, LoadStep

LEMMA TypeInvariance == Spec => []TypeInv
<1> QED BY InitType, StepType, PTL DEF Spec

-----------------------------------------------------------------------------
(***************************************************************************)
(* The transaction around the migration.                                   *)
(***************************************************************************)

\* Until SQLite rolls it back, the block of performInTransaction: has its
\* transaction; the file is the old one or that of a migration that committed,
\* to which nothing is written any more; and the block succeeds only with the
\* new metadata.
BlockSteps == Steps \ {"closed", "begin", "open"}

AtomInv ==
  /\ step \in {"closed", "begin", "open"} => ~inTransaction /\ view = disk
  /\ ~rolledBack =>
       /\ step \in BlockSteps => inTransaction
       /\ disk = initial \/ disk.metadata = "new"
       /\ disk.metadata = "new" =>
            view = disk /\ step \in {"closed", "begin", "load", "end", "open"}
  /\ step = "end" /\ success => view.metadata = "new"

LEMMA InitAtom == Init => AtomInv
<1> SUFFICES ASSUME Init PROVE AtomInv
  OBVIOUS
<1>1. disk = initial /\ view = disk /\ step = "closed" /\ ~inTransaction
  BY DEF Init
<1> QED BY <1>1 DEF AtomInv, BlockSteps

\* A statement of a migration keeps it, and writes the file only where SQLite
\* has taken the transaction.
LEMMA StatementAtom ==
  ASSUME TypeInv, AtomInv, NEW at \in BlockSteps \ {"end"}, NEW allowed \in BOOLEAN,
         NEW new, NEW next \in BlockSteps, NEW nextOnFailure \in BlockSteps,
         Statement(at, allowed, new, next, nextOnFailure),
         at = "load" =>
           /\ nextOnFailure = "end"
           /\ ~rolledBack /\ disk.metadata = "new" => new = view /\ next = "end",
         next = "end" /\ allowed => new.metadata = "new"
  PROVE  AtomInv' /\ (disk' # disk => rolledBack')
<1>1. /\ step = at /\ at \notin {"closed", "begin", "open", "end"}
      /\ inTransaction \in BOOLEAN /\ rolledBack \in BOOLEAN
      /\ UNCHANGED initial
  BY DEF Statement, BlockSteps, TypeInv, TypeOK
<1>2. next \notin {"closed", "begin", "open"} /\ nextOnFailure \notin {"closed", "begin", "open"}
  BY DEF BlockSteps
<1>3. ~rolledBack => inTransaction
  BY <1>1 DEF AtomInv
<1>4. CASE allowed /\ Succeed(new, next)
  <2>1. /\ view' = new /\ step' = next
        /\ disk' = IF inTransaction THEN disk ELSE new
        /\ UNCHANGED <<inTransaction, success, rolledBack>>
    BY <1>4 DEF Succeed
  <2>2. disk' # disk => rolledBack'
    BY <1>3, <2>1
  <2>3. ~rolledBack /\ disk.metadata = "new" => at = "load"
    BY <1>1 DEF AtomInv
  <2> QED BY <1>1, <1>2, <1>3, <1>4, <2>1, <2>2, <2>3 DEF AtomInv
<1>5. CASE Fail(allowed, nextOnFailure)
  <2>1. /\ step' = nextOnFailure /\ success' = FALSE
        /\ UNCHANGED <<disk, view, inTransaction, rolledBack>>
    BY <1>5 DEF Fail, GiveUp, fileVars
  <2>2. ~rolledBack /\ disk.metadata = "new" => at = "load"
    BY <1>1 DEF AtomInv
  <2> QED BY <1>1, <1>2, <1>3, <2>1, <2>2 DEF AtomInv
<1>6. CASE Fault /\ RollBack /\ GiveUp(nextOnFailure)
  <2>1. /\ step' = nextOnFailure /\ success' = FALSE /\ UNCHANGED disk /\ rolledBack'
    BY <1>1, <1>3, <1>6 DEF RollBack, GiveUp
  <2> QED BY <1>2, <2>1 DEF AtomInv
<1> QED BY <1>4, <1>5, <1>6 DEF Statement

LEMMA LoadStatementAtom ==
  ASSUME TypeInv, AtomInv, LoadMetadata
  PROVE  AtomInv' /\ (disk' # disk => rolledBack')
<1>1. {"load", "create", "next", "end"} \subseteq BlockSteps
  BY DEF BlockSteps, Steps, MappingSteps
<1>2. step = "load" /\ (~rolledBack /\ disk.metadata = "new" => view.metadata = "new")
  BY DEF LoadMetadata, Statement, AtomInv
<1>3. view \in Files
  BY DEF TypeInv, TypeOK
<1> DEFINE new == [view EXCEPT !.metadata = "empty"]
           meta == view.metadata
<1>4. CASE meta = "none"
  <2>1. Statement("load", TRUE, new, "create", "end")
    BY <1>4 DEF LoadMetadata
  <2>2. ~(~rolledBack /\ disk.metadata = "new")
    BY <1>2, <1>4
  <2> HIDE DEF new
  <2> QED BY <1>1, <2>1, <2>2, StatementAtom
<1>5. CASE meta = "old"
  <2>1. Statement("load", TRUE, view, "next", "end")
    BY <1>5 DEF LoadMetadata
  <2>2. ~(~rolledBack /\ disk.metadata = "new")
    BY <1>2, <1>5
  <2> QED BY <1>1, <2>1, <2>2, StatementAtom
<1>6. CASE meta \notin {"none", "old"}
  <2>1. Statement("load", meta # "empty", view, "end", "end")
    BY <1>6 DEF LoadMetadata
  <2>2. meta # "empty" => meta = "new"
    BY <1>3, <1>6 DEF Files
  <2> QED BY <1>1, <2>1, <2>2, StatementAtom
<1> QED BY <1>4, <1>5, <1>6

LEMMA CreateAtom ==
  ASSUME TypeInv, AtomInv, (\E e \in NewEntities : CreateTable(e)) \/ CreateLinks
  PROVE  AtomInv' /\ (disk' # disk => rolledBack')
<1>1. {"create", "links", "deleteMetadata", "end"} \subseteq BlockSteps
  BY DEF BlockSteps, Steps
<1>2. ASSUME NEW e \in NewEntities, CreateTable(e)
      PROVE  AtomInv' /\ (disk' # disk => rolledBack')
  <2> DEFINE next == IF \A n \in NewEntities \ {e} : Exists(n) THEN "links" ELSE "create"
             new == WithTable(e, {})
  <2>1. next \in {"links", "create"}
    OBVIOUS
  <2>2. Statement("create", TRUE, new, next, "end")
    BY <1>2 DEF CreateTable
  <2> HIDE DEF next, new
  <2> QED BY <1>1, <2>1, <2>2, StatementAtom
<1>3. CASE CreateLinks
  <2>1. (~Exists(NewLinks)) \in BOOLEAN
    BY DEF Exists
  <2> DEFINE new == WithTable(NewLinks, {})
  <2>2. Statement("links", ~Exists(NewLinks), new, "deleteMetadata", "end")
    BY <1>3 DEF CreateLinks
  <2> HIDE DEF new
  <2> QED BY <1>1, <2>1, <2>2, StatementAtom
<1> QED BY <1>2, <1>3

LEMMA SaveMetadataAtom ==
  ASSUME TypeInv, AtomInv, DeleteMetadata \/ InsertMetadata
  PROVE  AtomInv' /\ (disk' # disk => rolledBack')
<1>1. {"deleteMetadata", "insertMetadata", "end"} \subseteq BlockSteps
  BY DEF BlockSteps, Steps
<1> DEFINE new(m) == [view EXCEPT !.metadata = m]
<1>2. new("new").metadata = "new"
  BY DEF TypeInv, TypeOK, Files
<1>3. CASE DeleteMetadata
  <2>1. Statement("deleteMetadata", TRUE, new("empty"), "insertMetadata", "end")
    BY <1>3 DEF DeleteMetadata
  <2> HIDE DEF new
  <2> QED BY <1>1, <2>1, StatementAtom
<1>4. CASE InsertMetadata
  <2>1. Statement("insertMetadata", TRUE, new("new"), "end", "end")
    BY <1>4 DEF InsertMetadata
  <2> HIDE DEF new
  <2> QED BY <1>1, <1>2, <2>1, StatementAtom
<1> QED BY <1>3, <1>4

\* The statements of the mappings.
LEMMA MappingAtom ==
  ASSUME TypeInv, AtomInv,
         \/ AddTable \/ RemoveTable
         \/ RenameTable \/ CreateNewTable \/ CopyRows \/ DropTable
         \/ RenameLinks \/ CreateNewLinks \/ CopyLinks \/ DropLinks
  PROVE  AtomInv' /\ (disk' # disk => rolledBack')
<1>1. MappingSteps \subseteq BlockSteps \ {"load", "end"}
  BY DEF BlockSteps, Steps, MappingSteps
<1>2. ASSUME NEW at \in MappingSteps, NEW allowed \in BOOLEAN, NEW new,
             NEW next \in MappingSteps, Statement(at, allowed, new, next, "next")
      PROVE  AtomInv' /\ (disk' # disk => rolledBack')
  <2>1. "next" \in MappingSteps
    BY DEF MappingSteps
  <2> QED BY <1>1, <1>2, <2>1, StatementAtom
<1>3. CASE AddTable
  BY <1>2, <1>3 DEF AddTable, Exists, MappingSteps
<1>4. CASE RemoveTable
  BY <1>2, <1>4 DEF RemoveTable, Exists, MappingSteps
<1>5. CASE RenameTable
  BY <1>2, <1>5 DEF RenameTable, Exists, MappingSteps
<1>6. CASE CreateNewTable
  BY <1>2, <1>6 DEF CreateNewTable, Exists, MappingSteps
<1>7. CASE CopyRows
  BY <1>2, <1>7 DEF CopyRows, Exists, MappingSteps
<1>8. CASE DropTable
  BY <1>2, <1>8 DEF DropTable, MappingSteps
<1>9. CASE RenameLinks
  BY <1>2, <1>9 DEF RenameLinks, Exists, MappingSteps
<1>10. CASE CreateNewLinks
  BY <1>2, <1>10 DEF CreateNewLinks, Exists, MappingSteps
<1>11. CASE CopyLinks
  BY <1>2, <1>11 DEF CopyLinks, MappingSteps
<1>12. CASE DropLinks
  BY <1>2, <1>12 DEF DropLinks, MappingSteps
<1> QED BY <1>3, <1>4, <1>5, <1>6, <1>7, <1>8, <1>9, <1>10, <1>11, <1>12

\* The steps that write nothing.
LEMMA ReadAtom ==
  ASSUME TypeInv, AtomInv, LinksExist \/ LinksUnread \/ NextMapping
  PROVE  AtomInv' /\ disk' = disk
<1>1. /\ step \in MappingSteps /\ step \notin {"closed", "begin", "load", "end", "open"}
      /\ "exists" \in MappingSteps
  BY DEF LinksExist, LinksUnread, NextMapping, MappingSteps
<1>2. step \in BlockSteps
  BY <1>1 DEF BlockSteps, Steps
<1>3. CASE LinksExist
  BY <1>1, <1>2, <1>3 DEF AtomInv, LinksExist, fileVars, historyVars, BlockSteps
<1>4. CASE LinksUnread
  <2>1. step' = "next" /\ UNCHANGED <<success, initial, disk>>
    BY <1>4 DEF LinksUnread, RollBack, fileVars
  <2>2. CASE UNCHANGED <<fileVars, rolledBack>>
    BY <1>1, <1>2, <2>1, <2>2 DEF AtomInv, fileVars
  <2>3. CASE RollBack
    BY <1>1, <1>2, <2>1, <2>3 DEF AtomInv, RollBack
  <2> QED BY <1>4, <2>2, <2>3 DEF LinksUnread
<1>5. CASE NextMapping
  <2>1. step' \in MappingSteps \cup {"deleteMetadata"} \/ (step' = "end" /\ ~success)
    <3>1. CASE mapping < Len(EntityMappings)
      <4>1. /\ mapping' = mapping + 1
            /\ step' = FirstStep[EntityMappings[mapping'].type]
        BY <1>5, <3>1 DEF NextMapping
      <4>2. mapping' \in 1 .. Len(EntityMappings)
        BY <3>1, <4>1, MappingsType DEF TypeInv, TypeOK
      <4> QED BY <4>1, <4>2, MappingsType DEF FirstStep, MappingTypes, MappingSteps
    <3>2. CASE ~(mapping < Len(EntityMappings))
      BY <1>5, <3>2 DEF NextMapping
    <3> QED BY <3>1, <3>2
  <2>2. step' \notin {"closed", "begin", "open"}
    BY <2>1 DEF MappingSteps
  <2>3. UNCHANGED <<disk, view, inTransaction, success, rolledBack, initial>>
    BY <1>5 DEF NextMapping, fileVars, historyVars
  <2>4. step' = "end" => ~success
    BY <2>1 DEF MappingSteps
  <2> QED BY <1>1, <1>2, <2>2, <2>3, <2>4 DEF AtomInv
<1> QED BY <1>3, <1>4, <1>5

\* Of the rest only Commit writes the file, and it writes the new model.
LEMMA ControlAtom ==
  ASSUME TypeInv, AtomInv, Open \/ BeginTransaction \/ Commit \/ LoadFails \/ Dealloc \/ Crash
  PROVE  AtomInv' /\ (disk' # disk /\ ~rolledBack' =>
                         disk = initial /\ disk'.metadata = "new")
<1> USE DEF AtomInv, BlockSteps, fileVars, historyVars
<1>1. {"load", "end"} \subseteq Steps
  BY DEF Steps
<1>2. CASE Open
  BY <1>2 DEF Open
<1>3. CASE BeginTransaction
  <2>1. step = "begin" /\ UNCHANGED <<disk, rolledBack, initial, success>>
    BY <1>3 DEF BeginTransaction
  <2>2. CASE inTransaction' = TRUE /\ step' = "load" /\ UNCHANGED view
    BY <1>1, <2>1, <2>2
  <2>3. CASE Close
    BY <2>1, <2>3 DEF Close
  <2> QED BY <1>3, <2>2, <2>3 DEF BeginTransaction
<1>4. CASE Commit
  BY <1>1, <1>4 DEF Commit
<1>5. CASE LoadFails
  BY <1>5 DEF LoadFails, Close
<1>6. CASE Dealloc
  BY <1>6 DEF Dealloc, Close
<1>7. CASE Crash
  BY <1>7 DEF Crash, Close
<1> QED BY <1>2, <1>3, <1>4, <1>5, <1>6, <1>7

Atomic == disk' # disk /\ ~rolledBack' => disk = initial /\ disk'.metadata = "new"

LEMMA StepAtom == TypeInv /\ AtomInv /\ [Next]_vars => AtomInv' /\ [Atomic]_vars
<1> SUFFICES ASSUME TypeInv, AtomInv, [Next]_vars PROVE AtomInv' /\ Atomic
  OBVIOUS
<1>1. CASE LoadMetadata
  BY <1>1, LoadStatementAtom DEF Atomic
<1>2. CASE (\E e \in NewEntities : CreateTable(e)) \/ CreateLinks
  BY <1>2, CreateAtom DEF Atomic
<1>3. CASE \/ AddTable \/ RemoveTable
           \/ RenameTable \/ CreateNewTable \/ CopyRows \/ DropTable
           \/ RenameLinks \/ CreateNewLinks \/ CopyLinks \/ DropLinks
  BY <1>3, MappingAtom DEF Atomic
<1>4. CASE LinksExist \/ LinksUnread \/ NextMapping
  BY <1>4, ReadAtom DEF Atomic
<1>5. CASE DeleteMetadata \/ InsertMetadata
  BY <1>5, SaveMetadataAtom DEF Atomic
<1>6. CASE Open \/ BeginTransaction \/ Commit \/ LoadFails \/ Dealloc \/ Crash
  BY <1>6, ControlAtom DEF Atomic
<1>7. CASE UNCHANGED vars
  BY <1>7 DEF AtomInv, Atomic, vars, fileVars, historyVars
<1> QED BY <1>1, <1>2, <1>3, <1>4, <1>5, <1>6, <1>7 DEF Next, LoadStep

-----------------------------------------------------------------------------
(***************************************************************************)
(* The theorems.                                                           *)
(***************************************************************************)

\* Every variable keeps its type: a row numbered anew has a number, a step
\* belongs to a mapping exactly when there is one.
THEOREM TypeCorrect == Spec => []TypeOK
<1>1. TypeInv => TypeOK
  BY DEF TypeInv
<1> QED BY <1>1, TypeInvariance, PTL

\* For every mapping model, every old file and any number of failures and
\* crashes: the file changes at most once and as a whole, unless SQLite rolls
\* the transaction back under the block.
THEOREM Atomicity == Spec => MigrationIsAtomic
<1>1. Spec => [](TypeInv /\ AtomInv)
  BY InitType, InitAtom, StepType, StepAtom, PTL DEF Spec
<1>2. TypeInv /\ AtomInv /\ [Next]_vars => [Atomic]_vars
  BY StepAtom
<1>3. [][Atomic]_vars => MigrationIsAtomic
  BY PTL DEF MigrationIsAtomic, Atomic
<1> QED BY <1>1, <1>2, <1>3, PTL DEF Spec
==============================================================================
