SPECIFICATION Spec
CONSTANTS
  dir1 = dir1
  dir2 = dir2
  dir3 = dir3
  fs1 = fs1
  fs2 = fs2
  p1 = p1
  p2 = p2
  FileSystems = {fs1, fs2}
  Programs = {p1, p2}
  nullptr = nullptr
  DirsPoolSize = 3
  DirsArray <- MCDirsArray
  MayFail = {"opendir", "close"}
SYMMETRY Symmetric
INVARIANTS
  NothingLeaks
  CrashesOnlyWhenAllAreHeld
  AssertsHold
\* A null dereference ends the program.
CHECK_DEADLOCK FALSE
