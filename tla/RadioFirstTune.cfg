SPECIFICATION RadioSpec
CONSTANTS
  Channels <- MCChannels
  Widths = {0, 1, 2}
  Boards <- MCBoards
  Garbage <- MCGarbage
  None = None
  MaxFaults = 0
INVARIANT
  FirstTuneIsDone
