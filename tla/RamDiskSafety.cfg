SPECIFICATION Spec
CONSTANTS
  Reqs = {r1, r2, r3}
  Blank = blank
  disk_channels = 2
  MAX_REQUEST_SECTOR_NUM = 2
  Slack = 0
  Commands <- SmallCommands
  Sectors <- SmallSectors
  Latency <- SmallLatency
SYMMETRY Symmetry
INVARIANTS
  TypeOK
  NoSpin
  NoOversleep
  FlowControl
PROPERTIES
  InCompletionOrder
  MatchesServer
  IsBlockDevice
