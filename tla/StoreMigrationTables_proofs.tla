--------------------- MODULE StoreMigrationTables_proofs ---------------------
(***************************************************************************)
(* Proofs that a migration keeps what the store holds (TablesMatch and     *)
(* RelationsKept), for every mapping model in which no new entity takes    *)
(* the name of another old one.                                            *)
(***************************************************************************)
EXTENDS StoreMigration_proofs

(***************************************************************************)
(* What a mapping has made of the tables that bear its names.              *)
(***************************************************************************)

\* The tables a mapping works on.
NamesOf(m) ==
  (IF m.type = "add" THEN {} ELSE {m.source})
    \cup (IF m.type = "remove" THEN {} ELSE {m.destination})

\* An entity of the new model has the name of an old one only if it is what
\* becomes of that one.
NoNameReused ==
  \A m \in Mappings(MappingTypes \ {"remove"}) :
    m.destination \in OldEntities => m.type # "add" /\ m.source = m.destination

\* The table holds the objects the entity had in the file as it was; and if
\* numbering them anew changes nothing, just the rows.
Good(was, table, e) ==
  /\ ObjectsIn(table) = ObjectsIn(was.tables[e])
  /\ Dense(was) => table = was.tables[e]

\* The objects of the old entity are in its table, in its table under the _T_
\* name, or were in neither when the mapping began.
Kept(was, file, m) ==
  /\ m.type = "transform" =>
       \/ file.tables[m.source] = NoTable
       \/ file.temps[m.source] # NoTable
       \/ Good(was, file.tables[m.source], m.source)
  /\ m.type = "copy" => file.tables[m.source] = was.tables[m.source]
  /\ \A n \in NamesOf(m) :
       (m.type = "transform" /\ n = m.source) \/ file.temps[n] = NoTable

\* The mapping is in the middle of the entity's tables.
Altering(was, file, m, s) ==
  /\ s \in {"createNew", "copy", "drop"} =>
       /\ file.temps[m.source] # NoTable
       /\ Good(was, file.temps[m.source], m.source)
       /\ m.source # m.destination => file.tables[m.source] = NoTable
  /\ s \in {"copy", "drop"} => file.tables[m.destination] # NoTable
  /\ s = "drop" => Good(was, file.tables[m.destination], m.source)

Done(was, file, m) ==
  /\ m.type # "remove" => file.tables[m.destination] # NoTable
  /\ m.type = "remove" => file.tables[m.source] = NoTable
  /\ m.type = "transform" =>
       /\ Good(was, file.tables[m.destination], m.source)
       /\ m.source # m.destination => file.tables[m.source] = NoTable
       /\ file.temps[m.source] = NoTable

LinkSteps == {"renameLinks", "createLinks", "copyLinks", "dropLinks"}

OldLinksIn(was, file) ==
  /\ file.tables[OldLinks] = was.tables[OldLinks]
  /\ OldLinks # NewLinks => file.tables[NewLinks] = NoTable
  /\ file.temps[OldLinks] = NoTable
  /\ file.temps[NewLinks] = NoTable

NewLinksIn(was, file) ==
  /\ file.tables[NewLinks] = was.tables[OldLinks]
  /\ OldLinks # NewLinks => file.tables[OldLinks] = NoTable
  /\ file.temps[OldLinks] = NoTable
  /\ file.temps[NewLinks] = NoTable

\* The table of links at a step of it, and at the steps of the entities.
AlteringLinks(was, file, s) ==
  /\ s \notin LinkSteps => OldLinksIn(was, file) \/ NewLinksIn(was, file)
  /\ s = "renameLinks" => OldLinksIn(was, file)
  /\ s \in LinkSteps \ {"renameLinks"} =>
       /\ file.temps[OldLinks] = was.tables[OldLinks]
       /\ OldLinks # NewLinks => /\ file.temps[NewLinks] = NoTable
                                 /\ file.tables[OldLinks] = NoTable
  /\ s = "dropLinks" => file.tables[NewLinks] = was.tables[OldLinks]

\* The file follows the new model, and holds what it held.
Migrated(was, file) ==
  /\ HasNewTables(file)
  /\ was.metadata = "old" =>
       /\ \A m \in Range(EntityMappings) :
            Kept(was, file, m) /\ Done(was, file, m)
       /\ NewLinksIn(was, file)

(***************************************************************************)
(* The inductive invariant.                                                *)
(***************************************************************************)

\* The committed file is one of three: empty, an old one of which nothing is
\* lost, or a migrated one.
DiskInv ==
  /\ disk.metadata # "empty"
  /\ disk.metadata = "none" => disk = EmptyFile /\ initial = EmptyFile
  /\ disk.metadata = "old" =>
       /\ initial.metadata = "old"
       /\ \A m \in Range(EntityMappings) : Kept(initial, disk, m)
       /\ OldLinksIn(initial, disk)
  /\ disk.metadata = "new" => Migrated(initial, disk)

\* A block that may still succeed has its transaction, and steps that only
\* success leads to have one.
BlockInv ==
  /\ ~inTransaction => view = disk
  /\ step \in {"closed", "begin", "open"} => ~inTransaction
  /\ step = "load" => view = disk
  /\ success /\ step \in BlockSteps => inTransaction
  /\ step \in LinkSteps \cup {"begin", "load", "exists", "create", "links",
                              "deleteMetadata", "insertMetadata"} => success
  /\ step \in MappingSteps => disk.metadata = "old" /\ view.metadata = "old"
  /\ step \in {"create", "links"} => disk.metadata = "none"
  /\ disk.metadata = "new" =>
       view = disk /\ step \in {"closed", "begin", "load", "end", "open"}

CreateInv ==
  step \in {"create", "links"} =>
    /\ view.temps = NoTables
    /\ \A n \in Names : view.tables[n] # NoTable => n \in NewEntities
    /\ step = "links" => \A n \in NewEntities : view.tables[n] # NoTable

\* The mapping has been worked on, as far as its entity goes.
Passed(j) ==
  \/ j < mapping
  \/ j = mapping /\ step \in LinkSteps \cup {"next", "exists"}

\* A mapping of an end of the many-to-many relationship.
IsEnd(m) == m.type = "transform" /\ m.source \in {First, Second}

MigrateInv ==
  step \in MappingSteps =>
    /\ \A m \in Range(EntityMappings) : Kept(initial, view, m)
    /\ step \in StepsOf["transform"] =>
         Altering(initial, view, EntityMappings[mapping], step)
    /\ success =>
         /\ \A j \in 1 .. Len(EntityMappings) :
              Passed(j) => Done(initial, view, EntityMappings[j])
         /\ AlteringLinks(initial, view, step)
         /\ step \notin LinkSteps \cup {"exists"} =>
              \A j \in 1 .. Len(EntityMappings) :
                Passed(j) /\ IsEnd(EntityMappings[j]) => NewLinksIn(initial, view)

\* What is about to be committed under the name of the new model follows it.
SaveInv ==
  success /\ step \in {"deleteMetadata", "insertMetadata", "end"} =>
    Migrated(initial, view) /\ (step = "end" => view.metadata = "new")

ContentInv == DiskInv /\ BlockInv /\ CreateInv /\ MigrateInv /\ SaveInv
-----------------------------------------------------------------------------
(***************************************************************************)
(* The names of the tables.                                                *)
(***************************************************************************)

\* The mappings by number and as records.
LEMMA MappingOf ==
  /\ DOMAIN EntityMappings = 1 .. Len(EntityMappings)
  /\ \A m : m \in Range(EntityMappings)
              <=> \E i \in 1 .. Len(EntityMappings) : m = EntityMappings[i]
  /\ \A m \in Range(EntityMappings) :
       /\ m.type \in MappingTypes
       /\ m.type # "add" => m.source \in OldEntities
       /\ m.type # "remove" => m.destination \in NewEntities
       /\ m.type = "copy" => m.source = m.destination
<1>1. DOMAIN EntityMappings = 1 .. Len(EntityMappings)
  BY MigrationAssumption
<1>2. \A m : m \in Range(EntityMappings)
              <=> \E i \in 1 .. Len(EntityMappings) : m = EntityMappings[i]
  BY <1>1 DEF Range
<1>3. \A m \in Range(EntityMappings) : m.type = "copy" => m.source = m.destination
  BY MigrationAssumption DEF Mappings
<1> QED BY <1>1, <1>2, <1>3, MappingsType

\* Every entity has a mapping.
LEMMA MappingFor ==
  /\ \A n \in OldEntities : \E m \in Range(EntityMappings) :
       m.type # "add" /\ m.source = n
  /\ \A n \in NewEntities : \E m \in Range(EntityMappings) :
       m.type # "remove" /\ m.destination = n
BY DEF OldEntities, NewEntities, Mappings

\* A mapping does not touch the tables of links.
LEMMA NamesOfEntities ==
  ASSUME NEW m \in Range(EntityMappings)
  PROVE  /\ NamesOf(m) \subseteq EntityNames
         /\ NamesOf(m) \subseteq Names
         /\ OldLinks \notin NamesOf(m) /\ NewLinks \notin NamesOf(m)
BY MappingOf, NamesType DEF NamesOf, EntityNames

\* Two mappings work on different tables.
LEMMA NamesApart ==
  ASSUME NoNameReused, NEW i \in 1 .. Len(EntityMappings),
         NEW j \in 1 .. Len(EntityMappings), i # j
  PROVE  NamesOf(EntityMappings[i]) \cap NamesOf(EntityMappings[j]) = {}
<1> DEFINE m == EntityMappings[i]
           n == EntityMappings[j]
<1>1. m \in Range(EntityMappings) /\ n \in Range(EntityMappings)
  BY MappingOf
<1>2. /\ "add" \notin {m.type, n.type} => m.source # n.source
      /\ "remove" \notin {m.type, n.type} => m.destination # n.destination
  BY MappingOf, MigrationAssumption
<1> HIDE DEF m, n
<1>3. ASSUME NEW a \in {m, n}, NEW b \in {m, n}, a # b,
             a.type # "add", b.type # "remove"
      PROVE  a.source # b.destination
  <2>1. a.source \in OldEntities
    BY <1>1, <1>3, MappingOf
  <2>2. b \in Mappings(MappingTypes \ {"remove"})
    BY <1>1, <1>3, MappingOf DEF Mappings
  <2>3. b.destination \in OldEntities => b.type # "add" /\ b.source = b.destination
    BY <2>2 DEF NoNameReused
  <2> QED BY <1>2, <1>3, <2>1, <2>3
<1>4. m # n
  BY <1>2
<1>5. NamesOf(m) \cap NamesOf(n) = {}
  BY <1>2, <1>3, <1>4 DEF NamesOf
<1> QED BY <1>5 DEF m, n

-----------------------------------------------------------------------------
(***************************************************************************)
(* What is said of a mapping depends on the tables of its names alone.     *)
(***************************************************************************)

Agree(f, g, names) ==
  \A n \in names : f.tables[n] = g.tables[n] /\ f.temps[n] = g.temps[n]

\* What is kept and done depends on the tables of the mapping.
LEMMA SameTables ==
  ASSUME NEW was, NEW f, NEW g, NEW m \in Range(EntityMappings), Agree(f, g, NamesOf(m))
  PROVE  /\ Kept(was, f, m) => Kept(was, g, m)
         /\ Done(was, f, m) => Done(was, g, m)
<1>1. m.type # "add" => m.source \in NamesOf(m)
  BY DEF NamesOf
<1>2. m.type # "remove" => m.destination \in NamesOf(m)
  BY DEF NamesOf
<1>3. \A n \in NamesOf(m) : f.tables[n] = g.tables[n] /\ f.temps[n] = g.temps[n]
  BY DEF Agree
<1>4. m.type = "transform" \/ m.type = "copy" => m.type # "add" /\ m.type # "remove"
  OBVIOUS
<1>5. Kept(was, f, m) => Kept(was, g, m)
  <2> HAVE Kept(was, f, m)
  <2>1. m.type = "transform" =>
          \/ g.tables[m.source] = NoTable
          \/ g.temps[m.source] # NoTable
          \/ Good(was, g.tables[m.source], m.source)
    BY <1>1, <1>3 DEF Kept
  <2>2. m.type = "copy" => g.tables[m.source] = was.tables[m.source]
    BY <1>1, <1>3 DEF Kept
  <2>3. \A n \in NamesOf(m) : (m.type = "transform" /\ n = m.source) \/ g.temps[n] = NoTable
    BY <1>3 DEF Kept
  <2> QED BY <2>1, <2>2, <2>3 DEF Kept
<1>6. Done(was, f, m) => Done(was, g, m)
  BY <1>1, <1>2, <1>3, <1>4 DEF Done
<1> QED BY <1>5, <1>6

\* How far the links are depends on the tables of links.
LEMMA SameLinks ==
  ASSUME NEW was, NEW f, NEW g, NEW s, Agree(f, g, {OldLinks, NewLinks})
  PROVE  /\ OldLinksIn(was, f) => OldLinksIn(was, g)
         /\ NewLinksIn(was, f) => NewLinksIn(was, g)
         /\ AlteringLinks(was, f, s) => AlteringLinks(was, g, s)
<1>1. /\ f.tables[OldLinks] = g.tables[OldLinks] /\ f.temps[OldLinks] = g.temps[OldLinks]
      /\ f.tables[NewLinks] = g.tables[NewLinks] /\ f.temps[NewLinks] = g.temps[NewLinks]
  BY DEF Agree
<1>2. /\ OldLinksIn(was, f) => OldLinksIn(was, g)
      /\ NewLinksIn(was, f) => NewLinksIn(was, g)
  BY <1>1 DEF OldLinksIn, NewLinksIn
<1>3. AlteringLinks(was, f, s) => AlteringLinks(was, g, s)
  BY <1>1, <1>2 DEF AlteringLinks
<1> QED BY <1>2, <1>3
-----------------------------------------------------------------------------
(***************************************************************************)
(* Numbering the rows of a table anew.                                     *)
(***************************************************************************)

\* Numbered anew, the rows hold the objects they held.
LEMMA RenumberedObjects ==
  ASSUME NEW table \in SUBSET Rows
  PROVE  ObjectsIn(Renumbered(table)) = ObjectsIn(table)
<1> DEFINE num(r) == Cardinality({q \in table : q.id <= r.id})
           new(r) == [r EXCEPT !.id = num(r)]
<1>1. Renumbered(table) = {new(r) : r \in table}
  BY DEF Renumbered
<1>2. \A r \in table : new(r).object = r.object
  BY DEF Rows
<1> HIDE DEF new
<1> QED BY <1>1, <1>2 DEF ObjectsIn

\* Rows numbered from 1 without a gap keep their numbers.
LEMMA DenseIsKept ==
  ASSUME NEW table \in SUBSET Rows,
         \A r, q \in table : r.id = q.id => r = q,
         NEW n \in Nat, {r.id : r \in table} = 1 .. n
  PROVE  Renumbered(table) = table
<1> DEFINE num(r) == Cardinality({q \in table : q.id <= r.id})
           new(r) == [r EXCEPT !.id = num(r)]
<1>1. Renumbered(table) = {new(r) : r \in table}
  BY DEF Renumbered
<1>2. ASSUME NEW r \in table
      PROVE  num(r) = r.id
  <2> DEFINE upTo == {q \in table : q.id <= r.id}
             f == [q \in upTo |-> q.id]
  <2>1. r.id \in 1 .. n /\ \A q \in table : q.id \in 1 .. n
    OBVIOUS
  <2>2. \A q \in upTo : q.id \in 1 .. r.id
    BY <2>1
  <2>3. \A i \in 1 .. r.id : \E q \in upTo : q.id = i
    <3> TAKE i \in 1 .. r.id
    <3>1. i \in 1 .. n
      BY <2>1
    <3>2. PICK q \in table : q.id = i
      BY <3>1
    <3> QED BY <2>1, <3>2
  <2>4. \A q, p \in upTo : q.id = p.id => q = p
    OBVIOUS
  <2> HIDE DEF upTo
  <2>5. f \in Bijection(upTo, 1 .. r.id)
    BY <2>2, <2>3, <2>4 DEF Bijection, Injection, Surjection, IsInjective
  <2>6. IsFiniteSet(1 .. r.id) /\ Cardinality(1 .. r.id) = r.id
    BY <2>1, FS_Interval
  <2>7. Cardinality(upTo) = r.id
    BY <2>5, <2>6, FS_Injection DEF Bijection
  <2> QED BY <2>7 DEF upTo
<1> HIDE DEF num
<1>3. \A r \in table : new(r) = r
  BY <1>2 DEF Rows
<1> HIDE DEF new
<1> QED BY <1>1, <1>3

-----------------------------------------------------------------------------
(***************************************************************************)
(* The file as it was.                                                     *)
(***************************************************************************)

TransformSources == {m.source : m \in Mappings({"transform"})}

\* The objects of an entity have one row each, and the identifiers are their
\* own.
WasInv ==
  /\ initial.metadata \in {"none", "old"}
  /\ initial.metadata = "old" =>
       /\ \A e \in OldEntities :
            /\ initial.tables[e] \subseteq Rows
            /\ \A r, q \in initial.tables[e] : r.id = q.id => r = q
       /\ initial.tables[OldLinks] \subseteq Links
       /\ \A n \in Names \ (OldEntities \cup {OldLinks}) : initial.tables[n] = NoTable
       /\ initial.temps = NoTables

\* A table, even an empty one, is a table.
LEMMA NoTableIsNone ==
  /\ \A table \in SUBSET Rows : table # NoTable
  /\ \A table \in SUBSET Links : table # NoTable
BY MigrationAssumption

\* A good table numbered anew is good.
LEMMA RenumberedGood ==
  ASSUME WasInv, initial.metadata = "old", NEW e \in TransformSources,
         NEW table \in SUBSET Rows, IsFiniteSet(table), Good(initial, table, e)
  PROVE  Good(initial, Renumbered(table), e)
<1>1. ObjectsIn(Renumbered(table)) = ObjectsIn(initial.tables[e])
  BY RenumberedObjects DEF Good
<1>2. ASSUME Dense(initial)
      PROVE  Renumbered(table) = table
  <2>1. table = initial.tables[e]
    BY <1>2 DEF Good
  <2>2. e \in OldEntities
    BY DEF TransformSources, Mappings, OldEntities, MappingTypes
  <2>3. \A r, q \in table : r.id = q.id => r = q
    BY <2>1, <2>2 DEF WasInv
  <2> DEFINE ids == {r.id : r \in table}
  <2>4. ids = 1 .. Cardinality(ids)
    BY <1>2, <2>1 DEF Dense, TransformSources
  <2> DEFINE f == [r \in table |-> r.id]
  <2>5. f \in Surjection(table, ids)
    BY DEF Surjection
  <2>6. Cardinality(ids) \in Nat
    BY <2>5, FS_Surjection, FS_CardinalityType
  <2> QED BY <2>3, <2>4, <2>6, DenseIsKept
<1> QED BY <1>1, <1>2 DEF Good

\* An old file as Init describes it.
LEMMA OldFileWas ==
  ASSUME NEW ids \in [AllObjects -> 1 .. MaxId], NEW S \in SUBSET Referring,
         NEW related \in SUBSET (Objects[First] \X Objects[Second]),
         NEW to \in [S -> AllObjects], initial = OldFile(ids, to, related),
         \A e \in OldEntities : \A o, p \in Objects[e] : ids[o] = ids[p] => o = p
  PROVE  WasInv /\ initial.metadata = "old"
<1> DEFINE row(o) == [id |-> ids[o], object |-> o,
                      to |-> IF o \in DOMAIN to THEN ids[to[o]] ELSE 0]
           link(pair) == [first |-> ids[pair[1]], second |-> ids[pair[2]]]
           rowsOf(n) == {row(o) : o \in Objects[n]}
           links == {link(pair) : pair \in related}
           tables == [n \in Names |-> IF n \in OldEntities THEN rowsOf(n)
                                      ELSE IF n = OldLinks THEN links ELSE NoTable]
<1>1. \A n \in OldEntities : Objects[n] \subseteq AllObjects
  BY MigrationAssumption DEF AllObjects, Range
<1>2. MaxId \in Nat
  BY MigrationAssumption
<1>3. \A o \in AllObjects : row(o) \in Rows /\ row(o).id = ids[o] /\ row(o).object = o
  BY <1>2 DEF Rows
<1>4. First \in OldEntities /\ Second \in OldEntities
  <2>1. \A m \in Mappings({"transform"}) : m \in Mappings(MappingTypes \ {"add"})
    BY DEF Mappings, MappingTypes
  <2> QED BY <2>1, MigrationAssumption DEF OldEntities
<1>5. \A pair \in related : link(pair) \in Links
  BY <1>1, <1>2, <1>4 DEF Links
<1>6. /\ initial.metadata = "old" /\ initial.tables = tables
      /\ initial.temps = NoTables
  BY DEF OldFile, EmptyFile
<1> HIDE DEF row, link
<1>7. \A n \in OldEntities :
        /\ rowsOf(n) \subseteq Rows
        /\ \A r, q \in rowsOf(n) : r.id = q.id => r = q
  BY <1>1, <1>3
<1>8. links \subseteq Links
  BY <1>5
<1> HIDE DEF rowsOf, links
<1>9. \A e \in OldEntities : tables[e] = rowsOf(e)
  BY DEF Names
<1>10. tables[OldLinks] = links
  BY NamesType DEF EntityNames
<1>11. \A n \in Names \ (OldEntities \cup {OldLinks}) : tables[n] = NoTable
  OBVIOUS
<1> HIDE DEF tables
<1> QED BY <1>6, <1>7, <1>8, <1>9, <1>10, <1>11 DEF WasInv

\* Nothing is lost to begin with.
LEMMA KeptAtFirst ==
  ASSUME WasInv, initial.metadata = "old"
  PROVE  /\ \A m \in Range(EntityMappings) : Kept(initial, initial, m)
         /\ OldLinksIn(initial, initial)
<1>1. \A n \in Names : initial.temps[n] = NoTable
  BY DEF WasInv, NoTables
<1>2. ASSUME NEW m \in Range(EntityMappings)
      PROVE  Kept(initial, initial, m)
  BY <1>1, NamesOfEntities DEF Kept, Good
<1>3. OldLinksIn(initial, initial)
  BY <1>1, NamesType DEF OldLinksIn, WasInv, EntityNames
<1> QED BY <1>2, <1>3

\* The invariant holds at first.
LEMMA InitContent == Init => WasInv /\ ContentInv
<1> SUFFICES ASSUME Init PROVE WasInv /\ ContentInv
  OBVIOUS
<1>1. /\ initial = disk /\ view = disk /\ step = "closed" /\ ~inTransaction
  BY DEF Init
<1>2. \/ disk = EmptyFile
      \/ WasInv /\ initial.metadata = "old"
  BY <1>1, OldFileWas DEF Init
<1>3. CASE disk = EmptyFile
  <2>1. WasInv
    BY <1>1, <1>3 DEF WasInv, EmptyFile
  <2>2. DiskInv
    BY <1>1, <1>3 DEF DiskInv, EmptyFile
  <2> QED BY <1>1, <1>3, <2>1, <2>2
          DEF ContentInv, BlockInv, CreateInv, MigrateInv, SaveInv, EmptyFile,
              BlockSteps, MappingSteps, LinkSteps
<1>4. CASE WasInv /\ initial.metadata = "old"
  <2>1. DiskInv
    BY <1>1, <1>4, KeptAtFirst DEF DiskInv
  <2> QED BY <1>1, <1>4, <2>1
          DEF ContentInv, BlockInv, CreateInv, MigrateInv, SaveInv,
              BlockSteps, MappingSteps, LinkSteps
<1> QED BY <1>2, <1>3, <1>4

-----------------------------------------------------------------------------
(***************************************************************************)
(* The end of the migration.                                               *)
(***************************************************************************)

\* When every mapping has done its work and the links are the new ones, the
\* file follows the new model.
LEMMA AllDone ==
  ASSUME WasInv, initial.metadata = "old", NEW file \in Files,
         \A m \in Range(EntityMappings) : Kept(initial, file, m) /\ Done(initial, file, m),
         NewLinksIn(initial, file)
  PROVE  Migrated(initial, file)
<1>1. \A n \in NewEntities : file.tables[n] # NoTable
  BY MappingFor DEF Done
<1>2. \A n \in OldEntities \ NewEntities : file.tables[n] = NoTable
  <2> TAKE n \in OldEntities \ NewEntities
  <2>1. PICK m \in Range(EntityMappings) : m.type # "add" /\ m.source = n
    BY MappingFor
  <2>2. m.type # "remove" => m.destination # n
    BY MappingOf
  <2> QED BY <2>1, <2>2, MappingOf DEF Done, MappingTypes
<1>3. /\ file.tables[NewLinks] # NoTable
      /\ OldLinks # NewLinks => file.tables[OldLinks] = NoTable
  BY NoTableIsNone DEF NewLinksIn, WasInv
<1>4. \A n \in Names : file.tables[n] # NoTable <=> n \in NewEntities \cup {NewLinks}
  BY <1>1, <1>2, <1>3, NamesType DEF Names, EntityNames
<1>5. \A n \in Names : file.temps[n] = NoTable
  <2>1. ASSUME NEW n \in EntityNames
        PROVE  file.temps[n] = NoTable
    <3>1. PICK m \in Range(EntityMappings) : n \in NamesOf(m)
      BY MappingFor DEF EntityNames, NamesOf
    <3> QED BY <3>1 DEF Kept, Done
  <2>2. file.temps[OldLinks] = NoTable /\ file.temps[NewLinks] = NoTable
    BY DEF NewLinksIn
  <2> QED BY <2>1, <2>2 DEF Names, EntityNames
<1>6. file.temps = NoTables
  BY <1>5 DEF NoTables, Files, Tables
<1> QED BY <1>4, <1>6 DEF Migrated, HasNewTables

-----------------------------------------------------------------------------
(***************************************************************************)
(* A statement either succeeds, or leaves a block that cannot succeed.     *)
(***************************************************************************)

\* What a failed statement leaves is as good as the file, or as the view.
LEMMA FailureContent ==
  ASSUME ContentInv, step \in BlockSteps \ {"end"}, UNCHANGED <<disk, initial>>,
         \/ UNCHANGED <<view, inTransaction>>
         \/ view' = disk /\ inTransaction' = FALSE,
         success' = FALSE, step' = IF step \in MappingSteps THEN "next" ELSE "end"
  PROVE  ContentInv'
<1>1. DiskInv'
  BY DEF ContentInv, DiskInv
<1>2. /\ step' \in {"next", "end"} /\ step' \notin LinkSteps
      /\ step' \notin StepsOf["transform"]
      /\ step' = "next" => step \in MappingSteps
      /\ step \notin {"closed", "begin", "open"}
      /\ "end" \notin MappingSteps
  BY StepsType DEF LinkSteps, BlockSteps, MappingSteps, MappingTypes, StepsOf
<1>3. step' = "next" => disk.metadata = "old" /\ view.metadata = "old"
  BY <1>2 DEF ContentInv, BlockInv
<1>4. BlockInv'
  <2>1. ~inTransaction' => view' = disk'
    BY DEF ContentInv, BlockInv
  <2>2. step' \in MappingSteps => disk'.metadata = "old" /\ view'.metadata = "old"
    BY <1>2, <1>3
  <2>3. disk'.metadata = "new" => view' = disk' /\ step' = "end"
    BY <1>2, <1>3 DEF ContentInv, BlockInv
  <2> QED BY <1>2, <2>1, <2>2, <2>3 DEF BlockInv
<1>5. CreateInv' /\ SaveInv'
  BY <1>2 DEF CreateInv, SaveInv
<1>6. MigrateInv'
  <2>1. ASSUME step' = "next", NEW m \in Range(EntityMappings)
        PROVE  Kept(initial, view', m)
    BY <1>2, <1>3, <2>1 DEF ContentInv, DiskInv, MigrateInv
  <2> QED BY <1>2, <2>1 DEF MigrateInv
<1> QED BY <1>1, <1>4, <1>5, <1>6 DEF ContentInv

\* Only the success of a statement is left to look at.
LEMMA StatementContent ==
  ASSUME TypeInv, ContentInv, NEW at \in BlockSteps \ {"end"}, NEW allowed, NEW new,
         NEW next, NEW nextOnFailure,
         nextOnFailure = IF at \in MappingSteps THEN "next" ELSE "end",
         Statement(at, allowed, new, next, nextOnFailure),
         (/\ step = at
          /\ allowed
          /\ Succeed(new, next)
          /\ UNCHANGED <<mapping, initial>>) => ContentInv'
  PROVE  ContentInv'
<1>1. step = at /\ UNCHANGED <<mapping, initial>>
  BY DEF Statement
<1>2. CASE allowed /\ Succeed(new, next)
  BY <1>1, <1>2
<1>3. CASE Fail(allowed, nextOnFailure)
  <2>1. /\ UNCHANGED <<disk, view, inTransaction>>
        /\ step' = nextOnFailure /\ success' = FALSE
    BY <1>3 DEF Fail, GiveUp, fileVars
  <2> QED BY <1>1, <2>1, FailureContent
<1>4. CASE Fault /\ RollBack /\ GiveUp(nextOnFailure)
  <2>1. /\ UNCHANGED disk /\ view' = disk /\ inTransaction' = FALSE
        /\ step' = nextOnFailure /\ success' = FALSE
    BY <1>4 DEF RollBack, GiveUp
  <2> QED BY <1>1, <2>1, FailureContent
<1> QED BY <1>2, <1>3, <1>4 DEF Statement

-----------------------------------------------------------------------------
(***************************************************************************)
(* The statements of a mapping.                                            *)
(***************************************************************************)

\* A statement that works on the tables of its mapping alone, and leaves them
\* as the next step or the next mapping needs them.
LEMMA EntityStatement ==
  ASSUME NoNameReused, TypeInv, ContentInv, mapping # 0,
         NEW at \in {"add", "remove", "rename", "createNew", "copy", "drop"},
         NEW allowed, NEW new, NEW next \in {"createNew", "copy", "drop", "next", "exists"},
         Statement(at, allowed, new, next, "next"),
         allowed =>
           LET m == EntityMappings[mapping] IN
           /\ new.metadata = view.metadata
           /\ Agree(view, new, Names \ NamesOf(m))
           /\ Kept(initial, new, m)
           /\ Altering(initial, new, m, next)
           /\ next \in {"next", "exists"} => Done(initial, new, m)
           /\ next = "next" /\ success => ~IsEnd(m)
           /\ next = "exists" => success
  PROVE  ContentInv'
<1> DEFINE m == EntityMappings[mapping]
<1>1. /\ at \in BlockSteps \ {"end"} /\ at \in MappingSteps
      /\ next \in MappingSteps /\ next \in BlockSteps
      /\ at \notin LinkSteps /\ next \notin LinkSteps
      /\ next \notin {"closed", "begin", "load", "create", "links", "deleteMetadata",
                      "insertMetadata", "end", "open"}
  BY DEF BlockSteps, Steps, MappingSteps, LinkSteps
<1>2. SUFFICES ASSUME step = at, allowed, Succeed(new, next),
                      UNCHANGED <<mapping, initial>>
               PROVE  ContentInv'
  BY <1>1, StatementContent
<1>3. /\ view' = new /\ step' = next
      /\ disk' = IF inTransaction THEN disk ELSE new
      /\ UNCHANGED <<inTransaction, success>>
  BY <1>2 DEF Succeed
<1>4. /\ disk.metadata = "old" /\ view.metadata = "old" /\ new.metadata = "old"
      /\ success => inTransaction
      /\ ~inTransaction => view = disk
  BY <1>1, <1>2 DEF ContentInv, BlockInv
<1>5. mapping \in 1 .. Len(EntityMappings) /\ m \in Range(EntityMappings)
  BY MappingOf DEF TypeInv, TypeOK
<1> HIDE DEF m
<1>6. ASSUME NEW j \in 1 .. Len(EntityMappings), j # mapping
      PROVE  Agree(view, new, NamesOf(EntityMappings[j]))
  <2>1. NamesOf(EntityMappings[j]) \cap NamesOf(m) = {}
    BY <1>5, <1>6, NamesApart DEF m
  <2>2. NamesOf(EntityMappings[j]) \subseteq Names
    BY MappingOf, NamesOfEntities
  <2> QED BY <1>2, <2>1, <2>2 DEF Agree, m
<1>7. Agree(view, new, {OldLinks, NewLinks})
  BY <1>2, <1>5, NamesOfEntities, NamesType DEF Agree, m
<1>8. \A n \in Range(EntityMappings) : Kept(initial, new, n)
  <2> TAKE n \in Range(EntityMappings)
  <2>1. PICK j \in 1 .. Len(EntityMappings) : n = EntityMappings[j]
    BY MappingOf
  <2>2. Kept(initial, view, n)
    BY <1>1, <1>2 DEF ContentInv, MigrateInv
  <2>3. CASE j = mapping
    BY <1>2, <2>1, <2>3
  <2>4. CASE j # mapping
    BY <1>6, <2>1, <2>2, <2>4, SameTables
  <2> QED BY <2>3, <2>4
<1>9. DiskInv'
  <2>1. CASE inTransaction
    BY <1>2, <1>3, <2>1 DEF ContentInv, DiskInv
  <2>2. CASE ~inTransaction
    <3>1. OldLinksIn(initial, new)
      BY <1>4, <1>7, <2>2, SameLinks DEF ContentInv, DiskInv
    <3> QED BY <1>2, <1>3, <1>4, <1>8, <2>2, <3>1 DEF ContentInv, DiskInv
  <2> QED BY <2>1, <2>2
<1>10. BlockInv'
  <2>1. disk'.metadata = "old"
    BY <1>3, <1>4
  <2> QED BY <1>1, <1>2, <1>3, <1>4, <2>1 DEF BlockInv
<1>11. CreateInv' /\ SaveInv'
  BY <1>1, <1>3 DEF CreateInv, SaveInv
<1>12. MigrateInv'
  <2>1. next \in StepsOf["transform"] => Altering(initial, new, m, next)
    BY <1>2 DEF m
  <2>2. ASSUME success, NEW j \in 1 .. Len(EntityMappings), Passed(j)'
        PROVE  Done(initial, new, EntityMappings[j])
    <3>1. CASE j < mapping
      <4>1. Done(initial, view, EntityMappings[j]) /\ j # mapping
        BY <1>1, <1>2, <1>5, <2>2, <3>1 DEF ContentInv, MigrateInv, Passed
      <4> QED BY <1>6, <4>1, SameTables, MappingOf
    <3>2. CASE ~(j < mapping)
      <4>1. j = mapping /\ next \in {"next", "exists"}
        BY <1>1, <1>2, <1>3, <2>2, <3>2 DEF Passed
      <4> QED BY <1>2, <4>1
    <3> QED BY <3>1, <3>2
  <2>3. ASSUME success
        PROVE  AlteringLinks(initial, new, next)
    <3>1. OldLinksIn(initial, view) \/ NewLinksIn(initial, view)
      BY <1>1, <1>2, <2>3 DEF ContentInv, MigrateInv, AlteringLinks
    <3> QED BY <1>1, <1>7, <3>1, SameLinks DEF AlteringLinks, LinkSteps
  <2>4. ASSUME success, next # "exists", NEW j \in 1 .. Len(EntityMappings),
               Passed(j)', IsEnd(EntityMappings[j])
        PROVE  NewLinksIn(initial, new)
    <3>1. j < mapping
      BY <1>1, <1>2, <1>3, <2>4 DEF Passed
    <3>2. NewLinksIn(initial, view)
      BY <1>1, <1>2, <2>4, <3>1 DEF ContentInv, MigrateInv, Passed
    <3> QED BY <1>7, <3>2, SameLinks
  <2> QED BY <1>2, <1>3, <1>8, <2>1, <2>2, <2>3, <2>4 DEF MigrateInv, m
<1> QED BY <1>9, <1>10, <1>11, <1>12 DEF ContentInv

\* The file with one table replaced.
LEMMA WithTableFile ==
  ASSUME view \in Files, NEW n \in Names, NEW table
  PROVE  /\ WithTable(n, table).metadata = view.metadata
         /\ WithTable(n, table).temps = view.temps
         /\ WithTable(n, table).tables[n] = table
         /\ \A k \in Names \ {n} : WithTable(n, table).tables[k] = view.tables[k]
<1>1. /\ WithTable(n, table).tables = [view.tables EXCEPT ![n] = table]
      /\ WithTable(n, table).temps = view.temps
      /\ WithTable(n, table).metadata = view.metadata
  BY DEF WithTable, Files
<1>2. DOMAIN view.tables = Names
  BY DEF Files, Tables
<1> QED BY <1>1, <1>2

\* The file with one table under its _T_ name.
LEMMA RenamedFile ==
  ASSUME view \in Files, NEW n \in Names
  PROVE  /\ Renamed(n).metadata = view.metadata
         /\ Renamed(n).tables[n] = NoTable /\ Renamed(n).temps[n] = view.tables[n]
         /\ \A k \in Names \ {n} : /\ Renamed(n).tables[k] = view.tables[k]
                                   /\ Renamed(n).temps[k] = view.temps[k]
<1>1. /\ Renamed(n).tables = [view.tables EXCEPT ![n] = NoTable]
      /\ Renamed(n).temps = [view.temps EXCEPT ![n] = view.tables[n]]
      /\ Renamed(n).metadata = view.metadata
  BY DEF Renamed, Files
<1>2. DOMAIN view.tables = Names /\ DOMAIN view.temps = Names
  BY DEF Files, Tables
<1> QED BY <1>1, <1>2

\* The file without a table under a _T_ name.
LEMMA WithoutTempFile ==
  ASSUME view \in Files, NEW n \in Names
  PROVE  /\ WithoutTemp(n).metadata = view.metadata
         /\ WithoutTemp(n).tables = view.tables
         /\ WithoutTemp(n).temps[n] = NoTable
         /\ \A k \in Names \ {n} : WithoutTemp(n).temps[k] = view.temps[k]
<1>1. /\ WithoutTemp(n).tables = view.tables
      /\ WithoutTemp(n).temps = [view.temps EXCEPT ![n] = NoTable]
      /\ WithoutTemp(n).metadata = view.metadata
  BY DEF WithoutTemp, Files
<1>2. DOMAIN view.temps = Names
  BY DEF Files, Tables
<1> QED BY <1>1, <1>2

\* The mapping a statement is for.
LEMMA CurrentMapping ==
  ASSUME TypeInv, ContentInv, NEW type \in MappingTypes, step \in StepsOf[type]
  PROVE  LET m == EntityMappings[mapping] IN
         /\ mapping # 0 /\ m \in Range(EntityMappings) /\ m.type = type
         /\ Kept(initial, view, m)
         /\ NamesOf(m) \subseteq Names /\ NamesOf(m) \subseteq EntityNames
         /\ type # "add" => Source \in NamesOf(m) /\ Source \in OldEntities
         /\ type # "remove" => Target \in NamesOf(m) /\ Target \in NewEntities
<1> DEFINE m == EntityMappings[mapping]
<1>1. mapping # 0 /\ m.type = type
  BY DEF TypeInv, StepInv
<1>2. m \in Range(EntityMappings)
  BY <1>1, MappingOf DEF TypeInv, TypeOK
<1>3. step \in MappingSteps
  BY DEF StepsOf, MappingTypes, MappingSteps
<1>4. Kept(initial, view, m)
  BY <1>2, <1>3 DEF ContentInv, MigrateInv
<1> QED BY <1>1, <1>2, <1>4, NamesOfEntities, MappingOf DEF NamesOf, Source, Target

\* A new entity has its table.
LEMMA AddTableContent ==
  ASSUME NoNameReused, TypeInv, ContentInv, AddTable
  PROVE  ContentInv'
<1> DEFINE m == EntityMappings[mapping]
           new == WithTable(Target, {})
<1>1. step \in StepsOf["add"] /\ "add" \in MappingTypes
  BY DEF AddTable, Statement, StepsOf, MappingTypes
<1>2. /\ mapping # 0 /\ m.type = "add" /\ Kept(initial, view, m)
      /\ Target \in NamesOf(m) /\ NamesOf(m) \subseteq Names
  BY <1>1, CurrentMapping
<1>3. /\ new.metadata = view.metadata /\ new.temps = view.temps
      /\ new.tables[Target] = {}
      /\ \A k \in Names \ {Target} : new.tables[k] = view.tables[k]
  BY <1>2, WithTableFile DEF TypeInv, TypeOK
<1>4. Statement("add", ~Exists(Target), new, "next", "next")
  BY DEF AddTable
<1> HIDE DEF new
<1>5. Agree(view, new, Names \ NamesOf(m))
  BY <1>2, <1>3 DEF Agree
<1>6. Kept(initial, new, m)
  BY <1>2, <1>3 DEF Kept
<1>7. Done(initial, new, m)
  BY <1>2, <1>3, NoTableIsNone DEF Done, Target
<1>8. Altering(initial, new, m, "next")
  BY DEF Altering
<1>9. ~IsEnd(m)
  BY <1>2 DEF IsEnd
<1> HIDE DEF m
<1> QED BY <1>2, <1>3, <1>4, <1>5, <1>6, <1>7, <1>8, <1>9, EntityStatement DEF m

\* A removed entity has none.
LEMMA RemoveTableContent ==
  ASSUME NoNameReused, TypeInv, ContentInv, RemoveTable
  PROVE  ContentInv'
<1> DEFINE m == EntityMappings[mapping]
           new == WithTable(Source, NoTable)
<1>1. step \in StepsOf["remove"] /\ "remove" \in MappingTypes
  BY DEF RemoveTable, Statement, StepsOf, MappingTypes
<1>2. /\ mapping # 0 /\ m.type = "remove" /\ Kept(initial, view, m)
      /\ Source \in NamesOf(m) /\ NamesOf(m) \subseteq Names
  BY <1>1, CurrentMapping
<1>3. /\ new.metadata = view.metadata /\ new.temps = view.temps
      /\ new.tables[Source] = NoTable
      /\ \A k \in Names \ {Source} : new.tables[k] = view.tables[k]
  BY <1>2, WithTableFile DEF TypeInv, TypeOK
<1>4. Statement("remove", Exists(Source), new, "next", "next")
  BY DEF RemoveTable
<1> HIDE DEF new
<1>5. Agree(view, new, Names \ NamesOf(m))
  BY <1>2, <1>3 DEF Agree
<1>6. Kept(initial, new, m)
  BY <1>2, <1>3 DEF Kept
<1>7. Done(initial, new, m)
  BY <1>2, <1>3 DEF Done, Source
<1>8. Altering(initial, new, m, "next")
  BY DEF Altering
<1>9. ~IsEnd(m)
  BY <1>2 DEF IsEnd
<1> HIDE DEF m
<1> QED BY <1>2, <1>3, <1>4, <1>5, <1>6, <1>7, <1>8, <1>9, EntityStatement DEF m

\* The rows are under the _T_ name.
LEMMA RenameTableContent ==
  ASSUME NoNameReused, TypeInv, ContentInv, RenameTable
  PROVE  ContentInv'
<1> DEFINE m == EntityMappings[mapping]
           new == Renamed(Source)
           allowed == Exists(Source) /\ view.temps[Source] = NoTable
<1>1. step \in StepsOf["transform"] /\ "transform" \in MappingTypes
  BY DEF RenameTable, Statement, StepsOf, MappingTypes
<1>2. /\ mapping # 0 /\ m.type = "transform" /\ Kept(initial, view, m)
      /\ {Source, Target} \subseteq NamesOf(m) /\ NamesOf(m) \subseteq Names
      /\ Source = m.source /\ Target = m.destination
  BY <1>1, CurrentMapping DEF Source, Target
<1>3. /\ new.metadata = view.metadata
      /\ new.tables[Source] = NoTable /\ new.temps[Source] = view.tables[Source]
      /\ \A k \in Names \ {Source} : /\ new.tables[k] = view.tables[k]
                                     /\ new.temps[k] = view.temps[k]
  BY <1>2, RenamedFile DEF TypeInv, TypeOK
<1>4. Statement("rename", allowed, new, "createNew", "next")
  BY DEF RenameTable
<1> HIDE DEF new
<1>5. Agree(view, new, Names \ NamesOf(m))
  BY <1>2, <1>3 DEF Agree
<1>6. ASSUME allowed
      PROVE  Altering(initial, new, m, "createNew") /\ Kept(initial, new, m)
  <2>1. view.tables[Source] # NoTable /\ Good(initial, view.tables[Source], Source)
    BY <1>2, <1>6 DEF Kept, Exists
  <2>2. Altering(initial, new, m, "createNew")
    BY <1>2, <1>3, <2>1 DEF Altering
  <2>3. Kept(initial, new, m)
    BY <1>2, <1>3, <2>1 DEF Kept
  <2> QED BY <2>2, <2>3
<1> HIDE DEF m, allowed
<1> QED BY <1>2, <1>3, <1>4, <1>5, <1>6, EntityStatement DEF m

\* The table to copy to is there.
LEMMA CreateNewTableContent ==
  ASSUME NoNameReused, TypeInv, ContentInv, CreateNewTable
  PROVE  ContentInv'
<1> DEFINE m == EntityMappings[mapping]
           new == WithTable(Target, {})
<1>1. /\ step \in StepsOf["transform"] /\ "transform" \in MappingTypes
      /\ step \in MappingSteps /\ step = "createNew"
  BY DEF CreateNewTable, Statement, StepsOf, MappingTypes, MappingSteps
<1>2. /\ mapping # 0 /\ m.type = "transform" /\ Kept(initial, view, m)
      /\ {Source, Target} \subseteq NamesOf(m) /\ NamesOf(m) \subseteq Names
      /\ Source = m.source /\ Target = m.destination
  BY <1>1, CurrentMapping DEF Source, Target
<1>3. /\ new.metadata = view.metadata /\ new.temps = view.temps
      /\ new.tables[Target] = {}
      /\ \A k \in Names \ {Target} : new.tables[k] = view.tables[k]
  BY <1>2, WithTableFile DEF TypeInv, TypeOK
<1>4. Statement("createNew", ~Exists(Target), new, "copy", "next")
  BY DEF CreateNewTable
<1>5. Altering(initial, view, m, "createNew")
  BY <1>1 DEF ContentInv, MigrateInv
<1> HIDE DEF new
<1>6. Agree(view, new, Names \ NamesOf(m))
  BY <1>2, <1>3 DEF Agree
<1>7. Altering(initial, new, m, "copy")
  BY <1>2, <1>3, <1>5, NoTableIsNone DEF Altering
<1>8. Kept(initial, new, m)
  BY <1>2, <1>3, <1>5 DEF Kept, Altering
<1> HIDE DEF m
<1> QED BY <1>2, <1>3, <1>4, <1>6, <1>7, <1>8, EntityStatement DEF m

\* The copy has the objects of the table under its _T_ name, and its rows as
\* they are when their numbers had no gaps.
LEMMA CopyRowsContent ==
  ASSUME NoNameReused, TypeInv, WasInv, ContentInv, CopyRows
  PROVE  ContentInv'
<1> DEFINE m == EntityMappings[mapping]
           copy == Renumbered(view.temps[Source])
           new == WithTable(Target, copy)
           allowed == Exists(Target) /\ view.temps[Source] # NoTable
<1>1. /\ step \in StepsOf["transform"] /\ "transform" \in MappingTypes
      /\ step \in MappingSteps /\ step = "copy"
  BY DEF CopyRows, Statement, StepsOf, MappingTypes, MappingSteps
<1>2. /\ mapping # 0 /\ m.type = "transform" /\ Kept(initial, view, m)
      /\ {Source, Target} \subseteq NamesOf(m) /\ NamesOf(m) \subseteq Names
      /\ NamesOf(m) \subseteq EntityNames /\ m \in Range(EntityMappings)
      /\ Source = m.source /\ Target = m.destination
  BY <1>1, CurrentMapping DEF Source, Target
<1>3. /\ new.metadata = view.metadata /\ new.temps = view.temps
      /\ new.tables[Target] = copy
      /\ \A k \in Names \ {Target} : new.tables[k] = view.tables[k]
  BY <1>2, WithTableFile DEF TypeInv, TypeOK
<1>4. Statement("copy", allowed, new, "drop", "next")
  BY DEF CopyRows
<1>5. /\ view.temps[Source] # NoTable /\ Good(initial, view.temps[Source], Source)
      /\ Source # Target => view.tables[Source] = NoTable
  BY <1>1, <1>2 DEF ContentInv, MigrateInv, Altering
<1>6. view.temps[Source] \subseteq Rows /\ IsFiniteSet(view.temps[Source])
  BY <1>2, <1>5 DEF TypeInv, RowFile, RowTables
<1>7. copy # NoTable
  BY <1>6, RenumberedType, NoTableIsNone
<1>8. initial.metadata = "old" /\ Source \in TransformSources
  BY <1>1, <1>2 DEF ContentInv, BlockInv, DiskInv, TransformSources, Mappings
<1>9. Good(initial, copy, Source)
  BY <1>5, <1>6, <1>8, RenumberedGood
<1> HIDE DEF new, copy
<1>10. Agree(view, new, Names \ NamesOf(m))
  BY <1>2, <1>3 DEF Agree
<1>11. Altering(initial, new, m, "drop")
  BY <1>2, <1>3, <1>5, <1>7, <1>9 DEF Altering
<1>12. Kept(initial, new, m)
  BY <1>2, <1>3, <1>5 DEF Kept
<1> HIDE DEF m, allowed
<1> QED BY <1>2, <1>3, <1>4, <1>10, <1>11, <1>12, EntityStatement DEF m

\* The rows are in the new table: the mapping is done.
LEMMA DropTableContent ==
  ASSUME NoNameReused, TypeInv, ContentInv, DropTable
  PROVE  ContentInv'
<1> DEFINE m == EntityMappings[mapping]
           new == WithoutTemp(Source)
           next == IF success /\ Source \in {First, Second} THEN "exists" ELSE "next"
<1>1. /\ step \in StepsOf["transform"] /\ "transform" \in MappingTypes
      /\ step \in MappingSteps /\ step = "drop"
  BY DEF DropTable, Statement, StepsOf, MappingTypes, MappingSteps
<1>2. /\ mapping # 0 /\ m.type = "transform" /\ Kept(initial, view, m)
      /\ {Source, Target} \subseteq NamesOf(m) /\ NamesOf(m) \subseteq Names
      /\ Source = m.source /\ Target = m.destination
  BY <1>1, CurrentMapping DEF Source, Target
<1>3. /\ new.metadata = view.metadata /\ new.tables = view.tables
      /\ new.temps[Source] = NoTable
      /\ \A k \in Names \ {Source} : new.temps[k] = view.temps[k]
  BY <1>2, WithoutTempFile DEF TypeInv, TypeOK
<1>4. Statement("drop", view.temps[Source] # NoTable, new, next, "next")
  BY DEF DropTable
<1>5. /\ Source # Target => view.tables[Source] = NoTable
      /\ view.tables[Target] # NoTable /\ Good(initial, view.tables[Target], Source)
  BY <1>1, <1>2 DEF ContentInv, MigrateInv, Altering
<1> HIDE DEF new
<1>6. Agree(view, new, Names \ NamesOf(m))
  BY <1>2, <1>3 DEF Agree
<1>7. Done(initial, new, m)
  BY <1>2, <1>3, <1>5 DEF Done
<1>8. Kept(initial, new, m)
  BY <1>2, <1>3, <1>5 DEF Kept
<1>9. /\ next \in {"next", "exists"}
      /\ next = "exists" => success
      /\ next = "next" /\ success => ~IsEnd(m)
      /\ Altering(initial, new, m, next)
  BY <1>2 DEF IsEnd, Altering
<1> HIDE DEF m, next
<1> QED BY <1>2, <1>3, <1>4, <1>6, <1>7, <1>8, <1>9, EntityStatement DEF m

-----------------------------------------------------------------------------
(***************************************************************************)
(* The table of links.                                                     *)
(***************************************************************************)

\* A statement that works on the tables of links alone.
LEMMA LinkStatement ==
  ASSUME TypeInv, ContentInv, NEW at \in LinkSteps, NEW allowed, NEW new,
         NEW next \in LinkSteps \cup {"next"},
         Statement(at, allowed, new, next, "next"),
         allowed => /\ new.metadata = view.metadata
                    /\ Agree(view, new, Names \ {OldLinks, NewLinks})
                    /\ AlteringLinks(initial, new, next)
                    /\ next = "next" => NewLinksIn(initial, new)
  PROVE  ContentInv'
<1>1. /\ at \in BlockSteps \ {"end"} /\ at \in MappingSteps
      /\ next \in MappingSteps /\ next \in BlockSteps
      /\ next \notin StepsOf["transform"]
      /\ next \notin {"closed", "begin", "load", "create", "links", "deleteMetadata",
                      "insertMetadata", "end", "open"}
  BY DEF BlockSteps, Steps, MappingSteps, LinkSteps, StepsOf, MappingTypes
<1>2. SUFFICES ASSUME step = at, allowed, Succeed(new, next),
                      UNCHANGED <<mapping, initial>>
               PROVE  ContentInv'
  BY <1>1, StatementContent
<1>3. /\ disk.metadata = "old" /\ view.metadata = "old" /\ new.metadata = "old"
      /\ success /\ inTransaction
  BY <1>1, <1>2 DEF ContentInv, BlockInv
<1>4. /\ view' = new /\ step' = next /\ disk' = disk
      /\ UNCHANGED <<inTransaction, success>>
  BY <1>2, <1>3 DEF Succeed
<1>5. ASSUME NEW m \in Range(EntityMappings)
      PROVE  Agree(view, new, NamesOf(m))
  BY <1>2, NamesOfEntities DEF Agree
<1>6. \A m \in Range(EntityMappings) : Kept(initial, new, m)
  BY <1>1, <1>2, <1>5, SameTables DEF ContentInv, MigrateInv
<1>7. DiskInv'
  BY <1>2, <1>4 DEF ContentInv, DiskInv
<1>8. BlockInv'
  BY <1>1, <1>2, <1>3, <1>4 DEF BlockInv
<1>9. CreateInv' /\ SaveInv'
  BY <1>1, <1>4 DEF CreateInv, SaveInv
<1>10. MigrateInv'
  <2>1. ASSUME NEW j \in 1 .. Len(EntityMappings), Passed(j)'
        PROVE  Done(initial, new, EntityMappings[j])
    <3>1. Passed(j)
      BY <1>2, <1>4, <2>1 DEF Passed
    <3>2. Done(initial, view, EntityMappings[j])
      BY <1>1, <1>2, <1>3, <3>1 DEF ContentInv, MigrateInv
    <3> QED BY <1>5, <3>2, SameTables, MappingOf
  <2>2. next \notin LinkSteps => NewLinksIn(initial, new)
    BY <1>2
  <2> QED BY <1>1, <1>2, <1>4, <1>6, <2>1, <2>2 DEF MigrateInv
<1> QED BY <1>7, <1>8, <1>9, <1>10 DEF ContentInv

\* The links go from the old table to the new one.
LEMMA LinkStepContent ==
  ASSUME TypeInv, ContentInv, RenameLinks \/ CreateNewLinks \/ CopyLinks \/ DropLinks
  PROVE  ContentInv'
<1>1. /\ view \in Files /\ OldLinks \in Names /\ NewLinks \in Names
  BY NamesType DEF TypeInv, TypeOK
<1>2. ASSUME step \in LinkSteps
      PROVE  AlteringLinks(initial, view, step)
  <2>1. step \in MappingSteps /\ success
    BY <1>2 DEF LinkSteps, MappingSteps, ContentInv, BlockInv
  <2> QED BY <2>1 DEF ContentInv, MigrateInv
<1>3. LinkSteps = {"renameLinks", "createLinks", "copyLinks", "dropLinks"}
  BY DEF LinkSteps
<1>4. CASE RenameLinks
  <2> DEFINE new == Renamed(OldLinks)
             allowed == Exists(OldLinks) /\ view.temps[OldLinks] = NoTable
  <2>1. Statement("renameLinks", allowed, new, "createLinks", "next")
    BY <1>4 DEF RenameLinks
  <2>2. step = "renameLinks"
    BY <2>1 DEF Statement
  <2>3. OldLinksIn(initial, view)
    BY <1>2, <1>3, <2>2 DEF AlteringLinks
  <2>4. /\ new.metadata = view.metadata
        /\ new.tables[OldLinks] = NoTable /\ new.temps[OldLinks] = view.tables[OldLinks]
        /\ \A k \in Names \ {OldLinks} : /\ new.tables[k] = view.tables[k]
                                         /\ new.temps[k] = view.temps[k]
    BY <1>1, RenamedFile
  <2> HIDE DEF new, allowed
  <2>5. Agree(view, new, Names \ {OldLinks, NewLinks})
    BY <2>4 DEF Agree
  <2>6. AlteringLinks(initial, new, "createLinks")
    BY <1>1, <1>3, <2>3, <2>4 DEF AlteringLinks, OldLinksIn
  <2> QED BY <1>3, <2>1, <2>4, <2>5, <2>6, LinkStatement
<1>5. CASE CreateNewLinks
  <2> DEFINE new == WithTable(NewLinks, {})
  <2>1. Statement("createLinks", ~Exists(NewLinks), new, "copyLinks", "next")
    BY <1>5 DEF CreateNewLinks
  <2>2. step = "createLinks"
    BY <2>1 DEF Statement
  <2>3. AlteringLinks(initial, view, "createLinks")
    BY <1>2, <1>3, <2>2
  <2>4. /\ new.metadata = view.metadata /\ new.temps = view.temps
        /\ \A k \in Names \ {NewLinks} : new.tables[k] = view.tables[k]
    BY <1>1, WithTableFile
  <2> HIDE DEF new
  <2>5. Agree(view, new, Names \ {OldLinks, NewLinks})
    BY <2>4 DEF Agree
  <2>6. AlteringLinks(initial, new, "copyLinks")
    BY <1>1, <1>3, <2>3, <2>4 DEF AlteringLinks
  <2> QED BY <1>3, <2>1, <2>4, <2>5, <2>6, LinkStatement
<1>6. CASE CopyLinks
  <2> DEFINE new == WithTable(NewLinks, view.temps[OldLinks])
             allowed == view.temps[OldLinks] # NoTable
  <2>1. Statement("copyLinks", allowed, new, "dropLinks", "next")
    BY <1>6 DEF CopyLinks
  <2>2. step = "copyLinks"
    BY <2>1 DEF Statement
  <2>3. AlteringLinks(initial, view, "copyLinks")
    BY <1>2, <1>3, <2>2
  <2>4. /\ new.metadata = view.metadata /\ new.temps = view.temps
        /\ new.tables[NewLinks] = view.temps[OldLinks]
        /\ \A k \in Names \ {NewLinks} : new.tables[k] = view.tables[k]
    BY <1>1, WithTableFile
  <2> HIDE DEF new, allowed
  <2>5. Agree(view, new, Names \ {OldLinks, NewLinks})
    BY <2>4 DEF Agree
  <2>6. AlteringLinks(initial, new, "dropLinks")
    BY <1>1, <1>3, <2>3, <2>4 DEF AlteringLinks
  <2> QED BY <1>3, <2>1, <2>4, <2>5, <2>6, LinkStatement
<1>7. CASE DropLinks
  <2> DEFINE new == WithoutTemp(OldLinks)
             allowed == view.temps[OldLinks] # NoTable
  <2>1. Statement("dropLinks", allowed, new, "next", "next")
    BY <1>7 DEF DropLinks
  <2>2. step = "dropLinks"
    BY <2>1 DEF Statement
  <2>3. AlteringLinks(initial, view, "dropLinks")
    BY <1>2, <1>3, <2>2
  <2>4. /\ new.metadata = view.metadata /\ new.tables = view.tables
        /\ new.temps[OldLinks] = NoTable
        /\ \A k \in Names \ {OldLinks} : new.temps[k] = view.temps[k]
    BY <1>1, WithoutTempFile
  <2> HIDE DEF new, allowed
  <2>5. Agree(view, new, Names \ {OldLinks, NewLinks})
    BY <2>4 DEF Agree
  <2>6. NewLinksIn(initial, new)
    BY <1>1, <1>3, <2>3, <2>4 DEF AlteringLinks, NewLinksIn
  <2>7. AlteringLinks(initial, new, "next")
    BY <1>3, <2>6 DEF AlteringLinks
  <2> QED BY <1>3, <2>1, <2>4, <2>5, <2>6, <2>7, LinkStatement
<1> QED BY <1>4, <1>5, <1>6, <1>7

\* Without the old table of links there is the new one, if every table of links
\* was counted.
LEMMA LinksReadContent ==
  ASSUME TypeInv, WasInv, ContentInv, LinksExist \/ LinksUnread, ~unread'
  PROVE  ContentInv'
<1>1. /\ step = "exists" /\ step \in MappingSteps /\ step \in BlockSteps
      /\ step \notin LinkSteps
  BY DEF LinksExist, LinksUnread, MappingSteps, BlockSteps, Steps, LinkSteps
<1>2. success /\ inTransaction /\ disk.metadata = "old" /\ view.metadata = "old"
  BY <1>1 DEF ContentInv, BlockInv
<1>3. /\ UNCHANGED <<disk, view, inTransaction, mapping, success, initial>>
      /\ step' = IF Exists(OldLinks) THEN "renameLinks" ELSE "next"
  <2>1. CASE LinksExist
    BY <2>1 DEF LinksExist, fileVars, historyVars
  <2>2. CASE LinksUnread
    BY <2>2 DEF LinksUnread, fileVars, Exists
  <2> QED BY <2>1, <2>2
<1>4. /\ OldLinksIn(initial, view) \/ NewLinksIn(initial, view)
      /\ \A j \in 1 .. Len(EntityMappings) :
           Passed(j) => Done(initial, view, EntityMappings[j])
      /\ \A m \in Range(EntityMappings) : Kept(initial, view, m)
  BY <1>1, <1>2 DEF ContentInv, MigrateInv, AlteringLinks
<1>5. initial.metadata = "old" /\ initial.tables[OldLinks] # NoTable
  BY <1>2, NoTableIsNone DEF ContentInv, DiskInv, WasInv
<1>6. \A j \in 1 .. Len(EntityMappings) : Passed(j)' <=> Passed(j)
  BY <1>1, <1>3 DEF Passed, LinkSteps
<1>7. /\ step' \in MappingSteps /\ step' \in BlockSteps
      /\ step' \notin StepsOf["transform"]
      /\ step' \notin {"closed", "begin", "load", "create", "links", "deleteMetadata",
                       "insertMetadata", "end", "open"}
  BY <1>3 DEF MappingSteps, BlockSteps, Steps, StepsOf, MappingTypes
<1>8. DiskInv' /\ BlockInv' /\ CreateInv' /\ SaveInv'
  BY <1>2, <1>3, <1>7 DEF ContentInv, DiskInv, BlockInv, CreateInv, SaveInv
<1>9. MigrateInv'
  <2>1. CASE Exists(OldLinks)
    <3>1. OldLinksIn(initial, view)
      BY <1>4, <2>1 DEF OldLinksIn, NewLinksIn, Exists
    <3>2. step' = "renameLinks" /\ "renameLinks" \in LinkSteps
      BY <1>3, <2>1 DEF LinkSteps
    <3>3. AlteringLinks(initial, view, "renameLinks")
      BY <3>1, <3>2 DEF AlteringLinks
    <3> QED BY <1>3, <1>4, <1>6, <1>7, <3>2, <3>3 DEF MigrateInv
  <2>2. CASE ~Exists(OldLinks)
    <3>1. NewLinksIn(initial, view)
      BY <1>4, <1>5, <2>2 DEF OldLinksIn, Exists
    <3>2. step' = "next" /\ "next" \notin LinkSteps
      BY <1>3, <2>2 DEF LinkSteps
    <3>3. AlteringLinks(initial, view, "next")
      BY <3>1, <3>2 DEF AlteringLinks, LinkSteps
    <3> QED BY <1>3, <1>4, <1>6, <1>7, <3>1, <3>2, <3>3 DEF MigrateInv
  <2> QED BY <2>1, <2>2
<1> QED BY <1>8, <1>9 DEF ContentInv

-----------------------------------------------------------------------------
(***************************************************************************)
(* From one mapping to the next, and from the last one to the metadata.    *)
(***************************************************************************)

\* After the last mapping all of the file is new.
LEMMA NextMappingContent ==
  ASSUME TypeInv, WasInv, ContentInv, NextMapping
  PROVE  ContentInv'
<1>1. /\ step = "next" /\ step \in MappingSteps /\ step \in BlockSteps
      /\ step \notin LinkSteps \cup {"exists"}
      /\ UNCHANGED <<disk, view, inTransaction, success, initial>>
  BY DEF NextMapping, fileVars, historyVars, MappingSteps, BlockSteps, Steps, LinkSteps
<1>2. /\ disk.metadata = "old" /\ view.metadata = "old"
      /\ success => inTransaction
      /\ ~inTransaction => view = disk
      /\ initial.metadata = "old"
  BY <1>1 DEF ContentInv, BlockInv, DiskInv
<1>3. DiskInv'
  BY <1>1 DEF ContentInv, DiskInv
<1>4. \A m \in Range(EntityMappings) : Kept(initial, view, m)
  BY <1>1 DEF ContentInv, MigrateInv
<1>5. ASSUME success
      PROVE  /\ \A j \in 1 .. Len(EntityMappings) : j <= mapping =>
                  /\ Done(initial, view, EntityMappings[j])
                  /\ IsEnd(EntityMappings[j]) => NewLinksIn(initial, view)
             /\ OldLinksIn(initial, view) \/ NewLinksIn(initial, view)
  <2>1. \A j \in 1 .. Len(EntityMappings) : j <= mapping => Passed(j)
    BY <1>1, MappingOf DEF Passed, TypeInv, TypeOK
  <2> QED BY <1>1, <1>5, <2>1 DEF ContentInv, MigrateInv, AlteringLinks
<1>6. CASE mapping < Len(EntityMappings)
  <2>1. /\ mapping' = mapping + 1
        /\ step' = FirstStep[EntityMappings[mapping'].type]
    BY <1>6 DEF NextMapping
  <2>2. mapping' \in 1 .. Len(EntityMappings)
    BY <1>6, <2>1, MappingsType DEF TypeInv, TypeOK
  <2> DEFINE m == EntityMappings[mapping']
  <2>3. m \in Range(EntityMappings) /\ m.type \in MappingTypes
    BY <2>2, MappingOf
  <2>4. /\ step' = IF m.type = "add" THEN "add" ELSE IF m.type = "remove" THEN "remove"
                   ELSE IF m.type = "transform" THEN "rename" ELSE "next"
        /\ step' = "next" => m.type = "copy"
    BY <2>1, <2>3 DEF FirstStep, MappingTypes
  <2>5. /\ step' \in MappingSteps /\ step' \in BlockSteps
        /\ step' \notin LinkSteps \cup {"exists"}
        /\ step' \notin {"closed", "begin", "load", "create", "links", "deleteMetadata",
                         "insertMetadata", "end", "open"}
        /\ step' \notin {"createNew", "copy", "drop"}
    BY <2>4 DEF MappingSteps, BlockSteps, Steps, LinkSteps
  <2>6. BlockInv' /\ CreateInv' /\ SaveInv'
    BY <1>1, <1>2, <2>5 DEF BlockInv, CreateInv, SaveInv
  <2>7. Altering(initial, view, m, step')
    BY <2>5 DEF Altering
  <2>8. ASSUME success, NEW j \in 1 .. Len(EntityMappings), Passed(j)'
        PROVE  /\ Done(initial, view, EntityMappings[j])
               /\ IsEnd(EntityMappings[j]) => NewLinksIn(initial, view)
    <3>1. CASE j <= mapping
      BY <1>5, <2>8, <3>1
    <3>2. CASE ~(j <= mapping)
      <4>1. j = mapping' /\ step' = "next"
        BY <2>1, <2>2, <2>5, <2>8, <3>2 DEF Passed, TypeInv, TypeOK
      <4>2. m.type = "copy" /\ m.source = m.destination /\ m.source \in OldEntities
        BY <2>3, <2>4, <4>1, MappingOf
      <4>3. view.tables[m.source] # NoTable
        BY <1>2, <1>4, <2>3, <4>2, NoTableIsNone DEF Kept, WasInv
      <4> QED BY <4>1, <4>2, <4>3 DEF Done, IsEnd
    <3> QED BY <3>1, <3>2
  <2>9. success => AlteringLinks(initial, view, step')
    BY <1>5, <2>5 DEF AlteringLinks, LinkSteps
  <2> HIDE DEF m
  <2>10. MigrateInv'
    BY <1>1, <1>4, <2>5, <2>7, <2>8, <2>9 DEF MigrateInv, m
  <2> QED BY <1>3, <2>6, <2>10 DEF ContentInv
<1>7. CASE ~(mapping < Len(EntityMappings))
  <2>1. mapping' = 0 /\ step' = IF success THEN "deleteMetadata" ELSE "end"
    BY <1>7 DEF NextMapping
  <2>2. /\ step' \notin MappingSteps /\ step' \in BlockSteps
        /\ step' \notin LinkSteps \cup {"exists", "closed", "begin", "open", "load",
                                        "create", "links", "insertMetadata"}
        /\ step' = "end" => ~success
        /\ step' = "deleteMetadata" => success
    BY <2>1 DEF MappingSteps, BlockSteps, Steps, LinkSteps
  <2>3. BlockInv' /\ CreateInv' /\ MigrateInv'
    BY <1>1, <1>2, <2>2 DEF BlockInv, CreateInv, MigrateInv
  <2>4. ASSUME success
        PROVE  Migrated(initial, view)
    <3>1. \A j \in 1 .. Len(EntityMappings) : j <= mapping
      BY <1>7, MappingsType DEF TypeInv, TypeOK
    <3>2. \A m \in Range(EntityMappings) : Done(initial, view, m)
      BY <1>5, <2>4, <3>1, MappingOf
    <3>3. PICK m \in Mappings({"transform"}) : m.source = First
      BY MigrationAssumption
    <3>4. m \in Range(EntityMappings) /\ IsEnd(m)
      BY <3>3 DEF Mappings, IsEnd
    <3>5. NewLinksIn(initial, view)
      BY <1>5, <2>4, <3>1, <3>4, MappingOf
    <3> QED BY <1>2, <1>4, <3>2, <3>5, AllDone DEF TypeInv, TypeOK
  <2>5. SaveInv'
    BY <1>1, <2>2, <2>4 DEF SaveInv
  <2> QED BY <1>3, <2>3, <2>5 DEF ContentInv
<1> QED BY <1>6, <1>7

-----------------------------------------------------------------------------
(***************************************************************************)
(* The metadata, the tables of a new store, and the transaction.           *)
(***************************************************************************)

\* An empty file is created, an old one migrated, a new one left alone.
LEMMA LoadMetadataContent ==
  ASSUME TypeInv, ContentInv, LoadMetadata
  PROVE  ContentInv'
<1>1. /\ step = "load" /\ step \in BlockSteps \ {"end"} /\ step \notin MappingSteps
      /\ {"create", "next", "end"} \subseteq BlockSteps
      /\ "next" \in MappingSteps /\ "create" \notin MappingSteps
      /\ "end" \notin MappingSteps
  BY DEF LoadMetadata, Statement, BlockSteps, Steps, MappingSteps
<1>2. view = disk /\ success /\ inTransaction /\ mapping = 0
  BY <1>1 DEF ContentInv, BlockInv, TypeInv, TypeOK
<1>3. disk \in Files
  BY DEF TypeInv, TypeOK
<1>4. CASE view.metadata = "none"
  <2> DEFINE new == [view EXCEPT !.metadata = "empty"]
  <2>1. Statement("load", TRUE, new, "create", "end")
    BY <1>4 DEF LoadMetadata
  <2>2. SUFFICES ASSUME Succeed(new, "create"), UNCHANGED <<mapping, initial>>
                 PROVE  ContentInv'
    <3> HIDE DEF new
    <3> QED BY <1>1, <2>1, <2>2, StatementContent
  <2>3. /\ view' = new /\ step' = "create" /\ disk' = disk
        /\ UNCHANGED <<inTransaction, success>>
    BY <1>2, <2>2 DEF Succeed
  <2>4. disk = EmptyFile
    BY <1>2, <1>4 DEF ContentInv, DiskInv
  <2>5. new.temps = NoTables /\ \A n \in Names : new.tables[n] = NoTable
    BY <1>2, <2>4 DEF EmptyFile, NoTables
  <2>6. DiskInv' /\ BlockInv' /\ SaveInv' /\ MigrateInv'
    BY <1>1, <1>2, <1>4, <2>2, <2>3
       DEF ContentInv, DiskInv, BlockInv, SaveInv, MigrateInv
  <2>7. CreateInv'
    BY <2>3, <2>5 DEF CreateInv
  <2> QED BY <2>6, <2>7 DEF ContentInv
<1>5. CASE view.metadata = "old"
  <2>1. Statement("load", TRUE, view, "next", "end")
    BY <1>5 DEF LoadMetadata
  <2>2. SUFFICES ASSUME Succeed(view, "next"), UNCHANGED <<mapping, initial>>
                 PROVE  ContentInv'
    BY <1>1, <2>1, StatementContent
  <2>3. /\ view' = view /\ step' = "next" /\ disk' = disk
        /\ UNCHANGED <<inTransaction, success>>
    BY <1>2, <2>2 DEF Succeed
  <2>4. DiskInv' /\ BlockInv' /\ SaveInv' /\ CreateInv'
    BY <1>1, <1>2, <1>5, <2>2, <2>3
       DEF ContentInv, DiskInv, BlockInv, SaveInv, CreateInv, LinkSteps
  <2>5. /\ \A m \in Range(EntityMappings) : Kept(initial, view, m)
        /\ OldLinksIn(initial, view)
    BY <1>2, <1>5 DEF ContentInv, DiskInv
  <2>6. /\ "next" \notin StepsOf["transform"]
        /\ \A j \in 1 .. Len(EntityMappings) : ~Passed(j)'
        /\ AlteringLinks(initial, view, "next")
    BY <1>2, <2>2, <2>5, StepsType, MappingsType
       DEF Passed, AlteringLinks, LinkSteps, MappingTypes
  <2>7. MigrateInv'
    BY <2>2, <2>3, <2>5, <2>6 DEF MigrateInv
  <2> QED BY <2>4, <2>7 DEF ContentInv
<1>6. CASE view.metadata \notin {"none", "old"}
  <2>1. Statement("load", view.metadata # "empty", view, "end", "end")
    BY <1>6 DEF LoadMetadata
  <2>2. SUFFICES ASSUME Succeed(view, "end"), UNCHANGED <<mapping, initial>>
                 PROVE  ContentInv'
    BY <1>1, <2>1, StatementContent
  <2>3. /\ view' = view /\ step' = "end" /\ disk' = disk
        /\ UNCHANGED <<inTransaction, success>>
    BY <1>2, <2>2 DEF Succeed
  <2>4. disk.metadata = "new" /\ Migrated(initial, disk)
    BY <1>2, <1>3, <1>6 DEF Files, ContentInv, DiskInv
  <2>5. DiskInv' /\ BlockInv' /\ CreateInv' /\ MigrateInv'
    BY <1>1, <1>2, <2>2, <2>3
       DEF ContentInv, DiskInv, BlockInv, CreateInv, MigrateInv, LinkSteps
  <2>6. SaveInv'
    BY <1>2, <2>2, <2>3, <2>4 DEF SaveInv
  <2> QED BY <2>5, <2>6 DEF ContentInv
<1> QED BY <1>4, <1>5, <1>6

\* A new store gets exactly the tables of its model.
LEMMA CreateContent ==
  ASSUME TypeInv, ContentInv, (\E e \in NewEntities : CreateTable(e)) \/ CreateLinks
  PROVE  ContentInv'
<1>1. /\ {"create", "links", "deleteMetadata"} \subseteq BlockSteps \ {"end"}
      /\ {"create", "links", "deleteMetadata"} \cap MappingSteps = {}
      /\ {} # NoTable
  BY NoTableIsNone DEF BlockSteps, Steps, MappingSteps
<1>2. ASSUME step \in {"create", "links"}
      PROVE  /\ success /\ inTransaction /\ disk.metadata = "none"
             /\ view \in Files /\ view.temps = NoTables
             /\ \A n \in Names : view.tables[n] # NoTable => n \in NewEntities
             /\ step = "links" => \A n \in NewEntities : view.tables[n] # NoTable
  BY <1>1, <1>2 DEF ContentInv, BlockInv, CreateInv, TypeInv, TypeOK
<1>3. ASSUME NEW e \in NewEntities, CreateTable(e)
      PROVE  ContentInv'
  <2> DEFINE next == IF \A n \in NewEntities \ {e} : Exists(n) THEN "links" ELSE "create"
             new == WithTable(e, {})
  <2>1. Statement("create", TRUE, new, next, "end")
    BY <1>3 DEF CreateTable
  <2>2. SUFFICES ASSUME step = "create", Succeed(new, next),
                        UNCHANGED <<mapping, initial>>
                 PROVE  ContentInv'
    <3> HIDE DEF new, next
    <3> QED BY <1>1, <2>1, <2>2, StatementContent
  <2>3. e \in Names /\ NewEntities \subseteq Names
    BY DEF Names
  <2>4. /\ new.metadata = view.metadata /\ new.temps = view.temps
        /\ new.tables[e] = {}
        /\ \A k \in Names \ {e} : new.tables[k] = view.tables[k]
    BY <1>2, <2>2, <2>3, WithTableFile
  <2>5. next = "links" => \A n \in NewEntities \ {e} : view.tables[n] # NoTable
    BY DEF Exists
  <2>6. next \in {"create", "links"}
    OBVIOUS
  <2> HIDE DEF new, next
  <2>7. /\ view' = new /\ step' = next /\ disk' = disk
        /\ UNCHANGED <<inTransaction, success>>
    BY <1>2, <2>2 DEF Succeed
  <2>8. CreateInv'
    BY <1>1, <1>2, <2>2, <2>3, <2>4, <2>5, <2>6, <2>7 DEF CreateInv
  <2>9. DiskInv' /\ BlockInv' /\ SaveInv' /\ MigrateInv'
    BY <1>1, <1>2, <2>2, <2>6, <2>7
       DEF ContentInv, DiskInv, BlockInv, SaveInv, MigrateInv
  <2> QED BY <2>8, <2>9 DEF ContentInv
<1>4. CASE CreateLinks
  <2> DEFINE new == WithTable(NewLinks, {})
  <2>1. Statement("links", ~Exists(NewLinks), new, "deleteMetadata", "end")
    BY <1>4 DEF CreateLinks
  <2>2. SUFFICES ASSUME step = "links", Succeed(new, "deleteMetadata"),
                        UNCHANGED <<mapping, initial>>
                 PROVE  ContentInv'
    <3> HIDE DEF new
    <3> QED BY <1>1, <2>1, <2>2, StatementContent
  <2>3. /\ new.temps = view.temps /\ new.tables[NewLinks] = {}
        /\ \A k \in Names \ {NewLinks} : new.tables[k] = view.tables[k]
    BY <1>2, <2>2, NamesType, WithTableFile
  <2> HIDE DEF new
  <2>4. /\ view' = new /\ step' = "deleteMetadata" /\ disk' = disk
        /\ UNCHANGED <<inTransaction, success>>
    BY <1>2, <2>2 DEF Succeed
  <2>5. HasNewTables(new)
    BY <1>1, <1>2, <2>2, <2>3, NamesType DEF HasNewTables, EntityNames
  <2>6. initial.metadata = "none"
    BY <1>2, <2>2 DEF ContentInv, DiskInv, EmptyFile
  <2>7. SaveInv'
    BY <2>2, <2>4, <2>5, <2>6 DEF SaveInv, Migrated
  <2>8. DiskInv' /\ BlockInv' /\ CreateInv' /\ MigrateInv'
    BY <1>1, <1>2, <2>2, <2>4
       DEF ContentInv, DiskInv, BlockInv, CreateInv, MigrateInv
  <2> QED BY <2>7, <2>8 DEF ContentInv
<1> QED BY <1>3, <1>4

\* Metadata is not among the tables.
LEMMA MigratedSame ==
  ASSUME NEW was, NEW f, NEW g, Migrated(was, f), f.tables = g.tables, f.temps = g.temps
  PROVE  Migrated(was, g)
BY SameTables, SameLinks DEF Migrated, HasNewTables, Agree

\* The metadata is written after the tables.
LEMMA SaveMetadataContent ==
  ASSUME TypeInv, ContentInv, DeleteMetadata \/ InsertMetadata
  PROVE  ContentInv'
<1>1. /\ {"deleteMetadata", "insertMetadata"} \subseteq BlockSteps \ {"end"}
      /\ {"deleteMetadata", "insertMetadata", "end"} \cap MappingSteps = {}
      /\ {"deleteMetadata", "insertMetadata", "end"} \cap LinkSteps = {}
      /\ view \in Files
  BY DEF BlockSteps, Steps, MappingSteps, LinkSteps, TypeInv, TypeOK
<1>2. ASSUME NEW at \in {"deleteMetadata", "insertMetadata"}, NEW data,
             NEW next \in {"insertMetadata", "end"}, next = "end" => data = "new",
             Statement(at, TRUE, [view EXCEPT !.metadata = data], next, "end")
      PROVE  ContentInv'
  <2> DEFINE new == [view EXCEPT !.metadata = data]
  <2>1. SUFFICES ASSUME step = at, Succeed(new, next), UNCHANGED <<mapping, initial>>
                 PROVE  ContentInv'
    <3> HIDE DEF new
    <3> QED BY <1>1, <1>2, <2>1, StatementContent DEF new
  <2>2. success /\ inTransaction /\ disk.metadata # "new"
    BY <1>1, <2>1 DEF ContentInv, BlockInv
  <2>3. /\ view' = new /\ step' = next /\ disk' = disk
        /\ UNCHANGED <<inTransaction, success>>
    BY <2>1, <2>2 DEF Succeed
  <2>4. new.metadata = data /\ new.tables = view.tables /\ new.temps = view.temps
    BY <1>1 DEF Files
  <2>5. Migrated(initial, view)
    BY <2>1, <2>2 DEF ContentInv, SaveInv
  <2> HIDE DEF new
  <2>6. SaveInv'
    BY <1>2, <2>1, <2>3, <2>4, <2>5, MigratedSame DEF SaveInv
  <2>7. DiskInv' /\ BlockInv' /\ CreateInv' /\ MigrateInv'
    BY <1>1, <2>1, <2>2, <2>3
       DEF ContentInv, DiskInv, BlockInv, CreateInv, MigrateInv
  <2> QED BY <2>6, <2>7 DEF ContentInv
<1>3. CASE DeleteMetadata
  BY <1>2, <1>3 DEF DeleteMetadata
<1>4. CASE InsertMetadata
  BY <1>2, <1>4 DEF InsertMetadata
<1> QED BY <1>3, <1>4

\* Closing leaves the committed file.
LEMMA CloseContent ==
  ASSUME ContentInv, Close, UNCHANGED <<disk, initial>>
  PROVE  ContentInv'
<1>1. step' = "closed" /\ view' = disk' /\ ~inTransaction'
  BY DEF Close
<1>2. "closed" \notin BlockSteps \cup MappingSteps \cup LinkSteps
  BY DEF BlockSteps, MappingSteps, LinkSteps
<1> QED BY <1>1, <1>2
        DEF ContentInv, DiskInv, BlockInv, CreateInv, MigrateInv, SaveInv

\* Commit writes a file that follows the new model; nothing else writes.
LEMMA ControlContent ==
  ASSUME TypeInv, ContentInv,
         Open \/ BeginTransaction \/ Commit \/ LoadFails \/ Dealloc \/ Crash
  PROVE  ContentInv'
<1> USE DEF fileVars, historyVars
<1>1. /\ {"begin", "open"} \cap (BlockSteps \cup MappingSteps \cup LinkSteps) = {}
      /\ {"load", "end"} \cap (MappingSteps \cup LinkSteps) = {}
      /\ "load" \in BlockSteps /\ "end" \in BlockSteps
  BY DEF BlockSteps, MappingSteps, LinkSteps, Steps
<1>2. CASE Open
  <2>1. /\ step = "closed" /\ step' = "begin" /\ success' = TRUE
        /\ UNCHANGED <<disk, view, inTransaction, mapping, initial>>
    BY <1>2 DEF Open
  <2> QED BY <1>1, <2>1
          DEF ContentInv, DiskInv, BlockInv, CreateInv, MigrateInv, SaveInv
<1>3. CASE BeginTransaction
  <2>1. CASE inTransaction' = TRUE /\ step' = "load" /\ UNCHANGED <<disk, view, mapping>>
    <3>1. step = "begin" /\ UNCHANGED <<success, initial>> /\ view = disk
      BY <1>3 DEF BeginTransaction, ContentInv, BlockInv
    <3> QED BY <1>1, <2>1, <3>1
            DEF ContentInv, DiskInv, BlockInv, CreateInv, MigrateInv, SaveInv
  <2>2. CASE Close /\ UNCHANGED disk
    BY <1>3, <2>2, CloseContent DEF BeginTransaction
  <2> QED BY <1>3, <2>1, <2>2 DEF BeginTransaction
<1>4. CASE Commit
  <2>1. /\ step = "end" /\ success /\ disk' = view /\ view' = view
        /\ ~inTransaction' /\ step' = "open" /\ UNCHANGED <<success, initial>>
    BY <1>4 DEF Commit
  <2>2. Migrated(initial, view) /\ view.metadata = "new"
    BY <2>1 DEF ContentInv, SaveInv
  <2> QED BY <1>1, <2>1, <2>2
          DEF ContentInv, DiskInv, BlockInv, CreateInv, MigrateInv, SaveInv
<1>5. CASE LoadFails
  BY <1>5, CloseContent DEF LoadFails
<1>6. CASE Dealloc
  BY <1>6, CloseContent DEF Dealloc
<1>7. CASE Crash
  BY <1>7, CloseContent DEF Crash
<1> QED BY <1>2, <1>3, <1>4, <1>5, <1>6, <1>7

Content == TypeInv /\ WasInv /\ (~unread => ContentInv)

\* Only the files differ: what the store was, and what was overlooked, stays.
LEMMA HistoryStep ==
  ASSUME WasInv, TypeInv, [Next]_vars
  PROVE  UNCHANGED initial /\ WasInv' /\ (unread => unread')
<1>1. UNCHANGED initial /\ (unread => unread')
  <2> USE DEF historyVars, fileVars
  <2>1. \A at, allowed, new, next, nextOnFailure :
          Statement(at, allowed, new, next, nextOnFailure) =>
            UNCHANGED <<initial, unread>>
    BY DEF Statement
  <2>2. CASE LoadMetadata
    <3>1. CASE view.metadata = "none"
      BY <2>1, <2>2, <3>1 DEF LoadMetadata
    <3>2. CASE view.metadata = "old"
      BY <2>1, <2>2, <3>2 DEF LoadMetadata
    <3>3. CASE view.metadata \notin {"none", "old"}
      BY <2>1, <2>2, <3>3 DEF LoadMetadata
    <3> QED BY <3>1, <3>2, <3>3
  <2>3. CASE (\E e \in NewEntities : CreateTable(e)) \/ CreateLinks
    <3>1. ASSUME NEW e \in NewEntities, CreateTable(e)
          PROVE  UNCHANGED <<initial, unread>>
      BY <2>1, <3>1 DEF CreateTable
    <3> QED BY <2>1, <2>3, <3>1 DEF CreateLinks
  <2>4. CASE AddTable \/ RemoveTable \/ RenameTable \/ CreateNewTable
    BY <2>1, <2>4 DEF AddTable, RemoveTable, RenameTable, CreateNewTable
  <2>5. CASE CopyRows \/ DropTable
    BY <2>1, <2>5 DEF CopyRows, DropTable
  <2>6. CASE RenameLinks \/ CreateNewLinks \/ CopyLinks \/ DropLinks
    BY <2>1, <2>6 DEF RenameLinks, CreateNewLinks, CopyLinks, DropLinks
  <2>7. CASE LinksExist \/ LinksUnread
    BY <2>7 DEF LinksExist, LinksUnread, RollBack, Exists, TypeInv, TypeOK
  <2>8. CASE DeleteMetadata \/ InsertMetadata
    BY <2>1, <2>8 DEF DeleteMetadata, InsertMetadata
  <2>9. CASE \/ NextMapping \/ Open \/ BeginTransaction \/ Commit \/ LoadFails
             \/ Dealloc \/ Crash
    BY <2>9 DEF NextMapping, Open, BeginTransaction, Commit, LoadFails, Dealloc, Crash
  <2>10. CASE UNCHANGED vars
    BY <2>10 DEF vars
  <2> QED BY <2>2, <2>3, <2>4, <2>5, <2>6, <2>7, <2>8, <2>9, <2>10 DEF Next, LoadStep
<1> QED BY <1>1 DEF WasInv

\* Every step keeps the invariant.
LEMMA StepContent ==
  ASSUME NoNameReused, Content, [Next]_vars
  PROVE  Content'
<1>1. TypeInv' /\ WasInv' /\ (unread => unread')
  BY StepType, HistoryStep DEF Content
<1>2. ASSUME ~unread'
      PROVE  ContentInv'
  <2>1. TypeInv /\ WasInv /\ ContentInv
    BY <1>1, <1>2 DEF Content
  <2>2. CASE LoadMetadata
    BY <2>1, <2>2, LoadMetadataContent
  <2>3. CASE (\E e \in NewEntities : CreateTable(e)) \/ CreateLinks
    BY <2>1, <2>3, CreateContent
  <2>4. CASE NextMapping
    BY <2>1, <2>4, NextMappingContent
  <2>5. CASE AddTable \/ RemoveTable
    BY <2>1, <2>5, AddTableContent, RemoveTableContent
  <2>6. CASE RenameTable \/ CreateNewTable \/ CopyRows \/ DropTable
    BY <2>1, <2>6, RenameTableContent, CreateNewTableContent, CopyRowsContent,
       DropTableContent
  <2>7. CASE LinksExist \/ LinksUnread
    BY <1>2, <2>1, <2>7, LinksReadContent
  <2>8. CASE RenameLinks \/ CreateNewLinks \/ CopyLinks \/ DropLinks
    BY <2>1, <2>8, LinkStepContent
  <2>9. CASE DeleteMetadata \/ InsertMetadata
    BY <2>1, <2>9, SaveMetadataContent
  <2>10. CASE Open \/ BeginTransaction \/ Commit \/ LoadFails \/ Dealloc \/ Crash
    BY <2>1, <2>10, ControlContent
  <2>11. CASE UNCHANGED vars
    BY <2>1, <2>11
       DEF vars, fileVars, historyVars, ContentInv, DiskInv, BlockInv, CreateInv,
           MigrateInv, SaveInv, Passed
  <2> QED BY <2>2, <2>3, <2>4, <2>5, <2>6, <2>7, <2>8, <2>9, <2>10, <2>11
          DEF Next, LoadStep, Content
<1> QED BY <1>1, <1>2 DEF Content

\* The invariant holds throughout.
LEMMA ContentInvariance ==
  ASSUME NoNameReused
  PROVE  Spec => []Content
<1>1. Init => Content
  BY InitType, InitContent DEF Content
<1>2. Content /\ [Next]_vars => Content'
  BY StepContent
<1> QED BY <1>1, <1>2, PTL DEF Spec

-----------------------------------------------------------------------------
(***************************************************************************)
(* The theorems.                                                           *)
(***************************************************************************)

\* What an entity becomes is what its only mapping says.
LEMMA DestinationOf ==
  ASSUME NEW m \in Mappings({"transform", "copy"})
  PROVE  Destination(m.source) = m.destination
<1>1. \A n \in Mappings({"transform", "copy"}) :
        \E i \in 1 .. Len(EntityMappings) :
          n = EntityMappings[i] /\ n.type \in {"transform", "copy"}
  BY MappingOf DEF Mappings
<1>2. \A n \in Mappings({"transform", "copy"}) : n.source = m.source => n = m
  <2> TAKE n \in Mappings({"transform", "copy"})
  <2>1. PICK i \in 1 .. Len(EntityMappings) :
          n = EntityMappings[i] /\ n.type \in {"transform", "copy"}
    BY <1>1
  <2>2. PICK j \in 1 .. Len(EntityMappings) :
          m = EntityMappings[j] /\ m.type \in {"transform", "copy"}
    BY <1>1
  <2>3. i # j => n.source # m.source
    BY <2>1, <2>2, MappingOf, MigrationAssumption
  <2> QED BY <2>1, <2>2, <2>3
<1> QED BY <1>2 DEF Destination

\* The objects of each entity, in a migrated file.
LEMMA MigratedObjects ==
  ASSUME NEW was, was.metadata = "old", NEW file, Migrated(was, file),
         NEW m \in Mappings({"transform", "copy"})
  PROVE  /\ ObjectsIn(file.tables[m.destination]) = ObjectsIn(was.tables[m.source])
         /\ Dense(was) => file.tables[m.destination] = was.tables[m.source]
<1>1. m \in Range(EntityMappings) /\ m.type \in {"transform", "copy"}
  BY DEF Mappings
<1>2. Kept(was, file, m) /\ Done(was, file, m)
  BY <1>1 DEF Migrated
<1>3. CASE m.type = "transform"
  BY <1>2, <1>3 DEF Done, Good
<1>4. CASE m.type = "copy"
  BY <1>1, <1>2, <1>4, MappingOf DEF Kept
<1> QED BY <1>1, <1>3, <1>4

\* A store without gaps is migrated row by row.
LEMMA RelationsOfDense ==
  ASSUME NEW was, was.metadata = "old", Dense(was), NEW file, Migrated(was, file)
  PROVE  /\ \A e \in {m.source : m \in Mappings({"transform", "copy"})} :
              file.tables[Destination(e)] = was.tables[e]
         /\ {First, Second} \subseteq {m.source : m \in Mappings({"transform", "copy"})}
         /\ file.tables[NewLinks] = was.tables[OldLinks]
<1>1. ASSUME NEW m \in Mappings({"transform", "copy"})
      PROVE  file.tables[Destination(m.source)] = was.tables[m.source]
  BY <1>1, MigratedObjects, DestinationOf
<1>2. Mappings({"transform"}) \subseteq Mappings({"transform", "copy"})
  BY DEF Mappings
<1>3. {First, Second} \subseteq {m.source : m \in Mappings({"transform", "copy"})}
  BY <1>2, MigrationAssumption
<1>4. file.tables[NewLinks] = was.tables[OldLinks]
  BY DEF Migrated, NewLinksIn
<1> QED BY <1>1, <1>3, <1>4

\* For every mapping model in which no entity takes the name of another one:
\* the metadata names the new model only when all of the file follows it and
\* holds every object it held, also after SQLite has rolled a transaction back
\* under the migration and a part of it was written statement by statement.
THEOREM TablesMatch ==
  ASSUME NoNameReused
  PROVE  Spec => []MetadataMatchesTables
<1>1. Content => MetadataMatchesTables
  <2> SUFFICES ASSUME Content, disk.metadata = "new", ~unread
               PROVE  /\ HasNewTables(disk)
                      /\ initial.metadata = "old" =>
                           \A m \in Mappings({"transform", "copy"}) :
                             ObjectsIn(disk.tables[m.destination])
                               = ObjectsIn(initial.tables[m.source])
    BY DEF MetadataMatchesTables
  <2>1. Migrated(initial, disk)
    BY DEF Content, ContentInv, DiskInv
  <2> QED BY <2>1, MigratedObjects DEF Migrated
<1> QED BY <1>1, ContentInvariance, PTL

\* For every such mapping model and every old file whose identifiers have no
\* gaps: the migrated store relates just the objects that the old one related.
THEOREM RelationsKept ==
  ASSUME NoNameReused
  PROVE  Spec => []RelationsSurvive
<1>1. Content => RelationsSurvive
  <2> DEFINE sources == {m.source : m \in Mappings({"transform", "copy"})}
  <2> SUFFICES ASSUME Content, disk.metadata = "new", initial.metadata = "old",
                      Dense(initial), ~unread
               PROVE
        /\ \A e \in DOMAIN Refers :
             {e, Refers[e]} \subseteq sources =>
               Referred(disk.tables[Destination(e)], disk.tables[Destination(Refers[e])])
                 = Referred(initial.tables[e], initial.tables[Refers[e]])
        /\ LinkedObjects(disk.tables[NewLinks], disk.tables[Destination(First)],
                         disk.tables[Destination(Second)])
             = LinkedObjects(initial.tables[OldLinks], initial.tables[First],
                             initial.tables[Second])
    BY DEF RelationsSurvive
  <2>1. Migrated(initial, disk)
    BY DEF Content, ContentInv, DiskInv
  <2>2. /\ \A e \in sources : disk.tables[Destination(e)] = initial.tables[e]
        /\ {First, Second} \subseteq sources
        /\ disk.tables[NewLinks] = initial.tables[OldLinks]
    BY <2>1, RelationsOfDense
  <2> HIDE DEF sources
  <2> QED BY <2>2
<1> QED BY <1>1, ContentInvariance, PTL
============================================================================
