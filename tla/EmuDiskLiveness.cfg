SPECIFICATION FairSpec
CONSTANTS
  Reqs = {r1, r2, r3}
  Blank = blank
  disk_channels = 2
  MAX_REQUEST_SECTOR_NUM = 2
  BatchTicks = 1
  Slack = 0
  Commands <- OneCommand
  Sectors <- SmallSectors
  Latency <- SmallLatency
  StaleHeads <- OneHead
PROPERTIES
  RequestsEnd
  UnloadFinishes
