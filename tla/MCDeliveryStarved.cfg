SPECIFICATION FairSpec
CONSTANTS
  r1 = r1
  r2 = r2
  NoBytes = NoBytes
  Value = {}
  MaxSeq = 1
  MMRSize <- MCMMRSize
  Milli = 1
  WitnessID = {1, 2}
  Runner = {r1}
  Clients <- MCAllClients
  Conduct <- MCFirstDown
  Unverifiable = {}
  Limit = 2
  BaseBackoff = 1
  MaxBackoff = 1
  Jitter = FALSE
  AttemptRange = 4
  MaxCheckpoints = 3
  MaxFailures = 0
  MaxAborts = 0
PROPERTIES
  DeliveredIndependently
