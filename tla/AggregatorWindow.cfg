SPECIFICATION Spec
CONSTANTS
  keyA = keyA
  keyB = keyB
  RingSize = 3
  MaxBlockIdx = 4
  Sessions <- MCSessions
  Fillers <- MCFillers
  NoSession = NoSession
  NoBlock = NoBlock
INVARIANTS
  AggregatorInv
  AssertsHold
  RingIsWindow
  WaitingIsNecessary
  DecodableIsForwarded
  ReceivedIsForwarded
  ForwardedIsReceived
PROPERTIES
  InOrderOnce
  LinkSpec
CHECK_DEADLOCK FALSE
