SPECIFICATION FairSpec
CONSTANTS
  a = a
  b = b
  app = app
  other = other
  NoBytes = NoBytes
  NoClient = NoClient
  NoHandle = NoHandle
  NoLock = NoLock
  here = here
  there = there
  Process = {here, there}
  Handle = {1, 2}
  Lock = {1, 2}
  Deployment <- MCDeployment
  Client = {app, other}
  Value = {a, b}
  WitnessID = {1}
  MaxSeq = 2
  Milli = 2
  MMRSize <- MCMMRSize
  AppendTime = {3}
  CLLInput <- MCCLLInput
  WitnessInput <- MCWitnessInput
INVARIANTS
  ProcessSerializes
  LoadsAreMoments
  AnsweredEntriesStay
  RowsServeAsEngine
PROPERTIES
  ImplementsEngine
  CallsReturn
