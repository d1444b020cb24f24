SPECIFICATION Spec
CONSTANTS
  opener = opener
  closer1 = closer1
  closer2 = closer2
  file1 = file1
  file2 = file2
  device = device
  Tasks = {opener, closer1, closer2}
  Openers = {opener}
  Devices = {device}
  FilesPoolSize = 2
  FilesArray <- MCFilesArray
  FileSystem = FileSystem
  nullptr = nullptr
  sfSize = 5
INVARIANTS
  TypeOK
  DescriptorsLead
  NoEntryIsLost
  NoFault
PROPERTIES
  SharedTableSpec
  EveryCallReturns
