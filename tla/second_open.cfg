SPECIFICATION Spec
CONSTANTS
  Slices <- TwoSlices
  LeftOut <- NoneLeftOut
  Misadjusted <- NoneWrong
  Databases = {d1, d2}
  MaxBuilds = 1
  MaxLaunches = 1
INVARIANT OutputIsChecked
