SPECIFICATION Spec
CONSTANTS
  c1 = c1
  c2 = c2
  a1 = a1
  k1 = k1
  Channels <- MCChannels
  Adapters <- MCAdapters
  Keys <- MCNoKeys
  NoAdapter = NoAdapter
  NoChannel = NoChannel
  NoKey = NoKey
  FileKey = FileKey
  Absent = Absent
  StartBodies <- MCChannelBodies
  MaxUsbErrors = 1
INVARIANTS
  SessionInv
  ChannelHonored
