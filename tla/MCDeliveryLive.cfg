SPECIFICATION FairSpec
CONSTANTS
  r1 = r1
  r2 = r2
  NoBytes = NoBytes
  Value = {}
  MaxSeq = 1
  MMRSize <- MCMMRSize
  Milli = 1
  WitnessID = {1, 2}
  Runner = {r1, r2}
  Clients <- MCClients
  Conduct <- MCFirstDown
  Unverifiable = {}
  Limit = 4
  BaseBackoff = 1
  MaxBackoff = 1
  Jitter = FALSE
  AttemptRange = 4
  MaxCheckpoints = 1
  MaxFailures = 1
  MaxAborts = 1
INVARIANTS
  ContentionIsSurvived
PROPERTIES
  DeliveredIndependently
