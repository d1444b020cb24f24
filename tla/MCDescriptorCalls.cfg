SPECIFICATION Spec
CONSTANTS
  device = device
  file = file
  socket = socket
  Devices = {device}
  Files = {file}
  Sockets = {socket}
  nullptr = nullptr
  sfSize = 4
INVARIANTS
  ErrnoIsOfThisCall
  CastsAreRight
