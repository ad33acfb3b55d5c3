SPECIFICATION Spec
CONSTANTS
  NoBytes = NoBytes
  Value = {"a", "b"}
  WitnessID = {1}
  MaxSeq = 2
  Milli = 1
  MMRSize <- MCMMRSize
  Runner = {"r1", "r2"}
  ScanLimit = 1
  CadenceEntries = 2
  CadenceAge = 1
  MaxSize = 3
  MaxTimestamp = 2
  AppendTime = {1}
  MaxClock = 2
  MaxAttempts = 1
  MaxAborts = 1
INVARIANTS
  DurableStateMatchesLog
  FirstPendingExact
  CheckpointChain
  FanOutExact
  RunnersNeverFail
PROPERTIES
  DeliveryNeverRegresses
