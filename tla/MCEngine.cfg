SPECIFICATION Spec
CONSTANTS
  a = a
  b = b
  c = c
  NoBytes = NoBytes
  Value = {a, b, c}
  WitnessID = {1}
  MaxSeq = 2
  Milli = 2
  MMRSize <- MCMMRSize
  AppendTime = {3}
  CLLInput <- MCCLLInput
  WitnessInput <- MCWitnessInput
INVARIANTS
  StoredStateValid
  DeltaReplaysCommit
