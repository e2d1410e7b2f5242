\* A bundled default and an id that is in no registry; lengths up to one over
\* the limit of two.
SPECIFICATION Spec
CONSTANTS
  Ids = {"fogra39", "fogra51"}
  Bundled = {"fogra39"}
  Default = "fogra39"
  Versions = {"v1", "v2"}
  MaxBytes = 2
  MaxBody = 3
INVARIANTS
  TypeOK
  FetchIsExact
  OnlyEmptyFileDropsColor
  OneVersionPerProcess
PROPERTIES
  HealthyIsServed
  AbsenceIsNotRemembered
