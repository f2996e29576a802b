SPECIFICATION Spec
CONSTANTS
  c1 = c1
  c2 = c2
  a1 = a1
  k1 = k1
  Channels <- MCOneChannel
  Adapters <- MCAdapters
  Keys <- MCKeys
  NoAdapter = NoAdapter
  NoChannel = NoChannel
  NoKey = NoKey
  FileKey = FileKey
  Absent = Absent
  StartBodies <- MCAdapterBodies
  MaxUsbErrors = 2
INVARIANTS
  TypeOK
  ExclusiveReceiver
  HandleDiscipline
  ReapDoesNotBlock
  StreamingIsLive
PROPERTIES
  LeaseSpec
