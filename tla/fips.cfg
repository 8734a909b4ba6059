SPECIFICATION Spec
CONSTANTS
  Slices <- ThreeSlices
  LeftOut <- OneLeftOut
  Misadjusted <- OneWrong
  Databases = {d1, d2}
  MaxBuilds = 2
  MaxLaunches = 2
INVARIANTS
  TypeOK
  ListedSlicesFingerprinted
  SignatureIsOwn
  ModeIsVerified
PROPERTIES
  StatusIsTrue
  RoutinesKeepModuleWorking
