SPECIFICATION FairSpec
CONSTANTS
  Reqs = {r1, r2, r3}
  Blank = blank
  disk_channels = 2
  MAX_REQUEST_SECTOR_NUM = 2
  Slack = 0
  Commands <- TwoCommands
  Sectors <- SmallSectors
  Latency <- SmallLatency
PROPERTIES
  RequestsEnd
  UnloadFinishes
