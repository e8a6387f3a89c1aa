SPECIFICATION Spec
CONSTANTS
  kMaxLogRotationFiles = 3
  MaxSession = 5
INVARIANTS
  TypeOK
  AgeOrdered
  RotationLosesNothing
  RotatedByOne
  FailureLosesOnlyLatest
  NumberedByAge
