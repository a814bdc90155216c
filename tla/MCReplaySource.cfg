SPECIFICATION Spec
CONSTANTS
  Files <- SmallFiles
  Room = 2
  PerPacket = {1, 3}
  MaxRecords = 5
INVARIANTS
  CutsTheFile
  CompletionHonest
  WindowExact
PROPERTY
  ReachesTheEnd
