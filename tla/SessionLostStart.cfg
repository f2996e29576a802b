SPECIFICATION Spec
CONSTANTS
  c1 = c1
  c2 = c2
  a1 = a1
  k1 = k1
  Channels <- MCOneChannel
  Adapters <- MCAdapters
  Keys <- MCNoKeys
  NoAdapter = NoAdapter
  NoChannel = NoChannel
  NoKey = NoKey
  FileKey = FileKey
  Absent = Absent
  StartBodies <- MCEmptyBody
  MaxUsbErrors = 1
INVARIANTS
  StartOnlyReaped
