SPECIFICATION Spec
CONSTANTS
  d1 = d1
  d2 = d2
  f1 = f1
  f2 = f2
  s1 = s1
  s2 = s2
  fs1 = fs1
  fs2 = fs2
  IOs <- MCIOs
  nullptr = nullptr
  sfSize = 8
  Devices = {d1}
  FileSystems = {fs1}
  FilesPoolSize = 2
  FilesArray <- MCFilesArray
  SocketsPoolSize = 2
  SocketsArray <- MCSocketsArray
  MayFail = {"vopen_device", "close", "socket", "use"}
  OverridesIsOpened = {d1, f1, f2}
  Exclusive = {d1}
  Disciplined = TRUE
INVARIANTS
  NothingLeaks
  HeldAreReachable
  NoFault
  ErrnoTellsFailure
PROPERTIES
  TableSpec
