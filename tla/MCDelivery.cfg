SPECIFICATION Spec
CONSTANTS
  r1 = r1
  r2 = r2
  NoBytes = NoBytes
  Value = {}
  MaxSeq = 1
  MMRSize <- MCMMRSize
  Milli = 1
  WitnessID = {1}
  Runner = {r1, r2}
  Clients <- MCAllClients
  Conduct <- MCAnyAnswer
  Unverifiable = {2}
  Limit = 4
  BaseBackoff = 2
  MaxBackoff = 3
  Jitter = TRUE
  AttemptRange = 8
  MaxCheckpoints = 2
  MaxFailures = 2
  MaxAborts = 1
INVARIANTS
  ReceiptsAttest
  PermanentMeansRefused
  WaitWithinSchedule
PROPERTIES
  FinalRowsStay
