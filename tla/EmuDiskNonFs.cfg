SPECIFICATION FairSpec
CONSTANTS
  Reqs = {r1, r2}
  Blank = blank
  disk_channels = 1
  MAX_REQUEST_SECTOR_NUM = 2
  BatchTicks = 1
  Slack = 1
  Commands <- PcCommands
  Sectors <- SmallSectors
  Latency <- SmallLatency
  StaleHeads <- OneHead
CHECK_DEADLOCK FALSE
PROPERTIES
  NonFsSkipped
