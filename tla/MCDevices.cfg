SPECIFICATION Spec
CONSTANTS
  uart1 = uart1
  uart2 = uart2
  spi = spi
  IOs = {uart1, uart2, spi}
  nullptr = nullptr
  sfSize = 5
  fName <- MCName
  RegistrySize = 3
  Paths <- MCPaths
  MayFail = {spi}
INVARIANTS
  NothingDangles
  NamesAreUnique
  ClosedCanBeReopened
PROPERTIES
  NamesSpec
\* add () of a duplicate or to a full registry calls abort ().
CHECK_DEADLOCK FALSE
