SPECIFICATION Spec
CONSTANTS
  Efuses <- MCEfuses
  Boots <- MCBoots
  Len512 = 27
  Maps <- MCMaps
  Types = {0, 5}
  Size = 10
  PageSize = 7
  Blocks <- MCBlocks
  MaxLost = 1
  MaxAttempts = 3
  Tables <- MCTables
  LastPage = 4
  Boundary = 3
  EndOfList = 4
  Transfers <- MCTransfers
INVARIANTS
  AdapterTypeOK
  WalkDecodes
  RunsWholeImage
  BlocksAreImage
  LaidOutWhileOff
  LayoutIsWhole
  TablesAreMeant
  IntactFramesHanded
