SPECIFICATION OrderedSpec
CONSTANTS
  NoBytes = NoBytes
  Value = {"a", "b", "c"}
  WitnessID = {}
  MaxSeq = 3
  Milli = 1
  MMRSize <- MCMMRSize
  Runner = {"r1", "r2"}
  ScanLimit = 1
  CadenceEntries = 2
  CadenceAge = 1
  MaxSize = 7
  MaxTimestamp = 2
  AppendTime = {1}
  MaxClock = 2
  MaxAttempts = 1
  MaxAborts = 1
PROPERTIES
  EntriesGetCheckpointed
  NotifiedEntriesGetIndexed
