SPECIFICATION Spec
CONSTANTS
  Streams <- MCStreams
  Channels <- MCOwnChannel
  Packets <- MCSetPackets
  Hints <- MCAuto
  Requests <- MCSdp
  MaxPackets = 3
INVARIANTS
  SdpOfOneStream
