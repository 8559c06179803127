SPECIFICATION Spec
CONSTANTS
  Reqs = {r1, r2, r3, r4}
  Blank = blank
  disk_channels = 1
  MAX_REQUEST_SECTOR_NUM = 2
  BatchTicks = 1
  Slack = 1
  Commands <- PcCommands
  Sectors <- SmallSectors
  Latency <- SmallLatency
  StaleHeads <- TwoHeads
SYMMETRY Symmetry
CHECK_DEADLOCK FALSE
PROPERTIES
  IsBlockDevice
