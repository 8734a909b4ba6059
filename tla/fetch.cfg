SPECIFICATION Spec
CONSTANTS
  v1 = v1
  Null = Null
  NoEntity = NoEntity
  i1 = i1
  i2 = i2
  ItemIds = {i1, i2}
  OwnerIds = {1, 2}
  Values = {v1}
  Entities = {"Item", "Book", "Novel", "Person", "Author"}
  Parent <- MCParent
  Source = "Book"
  Destination = "Person"
  Requests <- FetchRequests
  Predicates <- FetchPredicates
  Height <- PredicateHeights
SYMMETRY ItemSymmetry
INVARIANTS
  TypeOK
  SelectionsAreRestricted
  FetchesOnlyMatches
  FetchesAllMatches
  ObjectsAreListedOnce
  EntitiesAreOwn
  CountIsNumberFetched
  FaultsReadBack
