SPECIFICATION Spec
CONSTANTS
  opener = opener
  closer1 = closer1
  closer2 = closer2
  Tasks = {opener, closer1, closer2}
  Aquirers = {opener}
  fSize = 3
  nullptr = nullptr
INVARIANTS
  OneOwner
  NullMeansFull
PROPERTIES
  EveryCallReturns
