SPECIFICATION FairSpec
CONSTANTS
  NoBytes = NoBytes
  Value = {"a"}
  WitnessID = {}
  MaxSeq = 2
  Milli = 1
  MMRSize <- MCMMRSize
  Runner = {"r1"}
  ScanLimit = 1
  CadenceEntries = 2
  CadenceAge = 1
  MaxSize = 7
  MaxTimestamp = 2
  AppendTime = {0}
  MaxClock = 2
  MaxAttempts = 1
  MaxAborts = 1
PROPERTIES
  EntriesGetCheckpointed
