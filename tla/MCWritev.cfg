SPECIFICATION WritevSpec
CONSTANTS
  t1 = t1
  t2 = t2
  Tasks = {t1, t2}
  Vectors <- MCVectors
SYMMETRY Symmetric
INVARIANTS
  CountIsWhatWasTaken
  TakenIsAPrefix
\* Every task writes once.
CHECK_DEADLOCK FALSE
