SPECIFICATION Spec
CONSTANTS
  Reqs = {r1, r2, r3}
  Blank = blank
  disk_channels = 1
  MAX_REQUEST_SECTOR_NUM = 2
  Slack = 1
  Commands <- PcCommands
  Sectors <- SmallSectors
  Latency <- SmallLatency
SYMMETRY Symmetry
CHECK_DEADLOCK FALSE
PROPERTIES
  IsBlockDevice
