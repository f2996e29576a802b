SPECIFICATION Spec
CONSTANTS
  Streams <- MCStreams
  Channels <- MCOneChannel
  Packets <- MCPackets
  Hints <- MCHints
  Requests <- MCRequests
  MaxPackets = 3
INVARIANTS
  TypeOK
  FirstPayloadDecides
  FirstPacketDescribes
  SetsOfThisDescription
  UntornSdpIsConsistent
  StreamingWithinSession
  StreamInv
