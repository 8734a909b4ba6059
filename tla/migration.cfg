SPECIFICATION FairSpec
CONSTANTS
  EntityMappings <- MCEntityMappings
  Refers <- MCRefers
  Objects <- MCObjects
  First = "Person"
  Second = "Club"
  OldLinks = "clubs_persons"
  NewLinks = "clubs_members"
  MaxId = 2
  NoTable = {missing}
  MaxFaults = 2
  MaxCrashes = 1
  p1 = p1
  p2 = p2
  c1 = c1
  t1 = t1
INVARIANTS
  TypeOK
  MetadataMatchesTables
  RelationsSurvive
PROPERTIES
  MigrationIsAtomic
  MigrationCompletes
