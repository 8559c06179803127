SPECIFICATION Spec
CONSTANTS
  Reqs = {r1, r2, r3}
  Blank = blank
  disk_channels = 2
  MAX_REQUEST_SECTOR_NUM = 2
  BatchTicks = 1
  Slack = 0
  Commands <- SmallCommands
  Sectors <- SmallSectors
  Latency <- SmallLatency
  StaleHeads <- OneHead
SYMMETRY Symmetry
INVARIANTS
  TypeOK
  NoSpin
  SubmitAccepted
  EmulatorAgrees
  MappingExact
  NextIsEarliest
  NoOversleep
  StoppedOnlyWhenFull
  CleanUnload
PROPERTIES
  InCompletionOrder
  IsBlockDevice
