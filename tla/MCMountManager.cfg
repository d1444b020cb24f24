SPECIFICATION Spec
CONSTANTS
  fs1 = fs1
  fs2 = fs2
  fs3 = fs3
  FileSystems = {fs1, fs2, fs3}
  nullptr = nullptr
  sfSize = 2
  MountPaths <- MCMountPaths
  Paths <- MCPaths
  BlockDevices = {"disk"}
SYMMETRY Symmetric
INVARIANTS
  TypeOK
  NothingLostByUmount
  AssertsHold
  PathsKeepTheirMeaning
  ErrnoTellsFailure
PROPERTIES
  TableSpec
\* A failed assertion ends the program.
CHECK_DEADLOCK FALSE
