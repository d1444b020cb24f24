\* free () of an empty entry dereferences nullptr, after which nothing runs.
CHECK_DEADLOCK FALSE
SPECIFICATION FdmSpec
CONSTANTS
  io1 = io1
  io2 = io2
  io3 = io3
  IOs <- MCIOs
  nullptr = nullptr
  sfSize = 5
INVARIANTS
  EntriesPointBack
PROPERTIES
  StandardEntriesReserved
  AllocNeverDisplaces
