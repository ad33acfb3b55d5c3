SPECIFICATION Spec
CONSTANTS
  a = a
  b = b
  NoBytes = NoBytes
  Value = {a, b}
  WitnessID = {1}
  MaxSeq = 2
  Milli = 2
  MMRSize <- MCMMRSize
  AppendTime = {3}
  CLLInput <- MCTwoEntries
  WitnessInput <- MCWitnessInput
  Faults = {{"kill", "power"}}
  MaxLines = 4
  MaxImages = 3
INVARIANTS
  ReturnedEntriesDurable
