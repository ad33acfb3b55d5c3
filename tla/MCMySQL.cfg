SPECIFICATION Spec
CONSTANTS
  a = a
  b = b
  app = app
  index = index
  deliver = deliver
  NoBytes = NoBytes
  NoClient = NoClient
  Client = {app, index, deliver}
  Value = {a, b}
  WitnessID = {1}
  MaxSeq = 2
  Milli = 2
  MMRSize <- MCMMRSize
  AppendTime = {3}
  CLLInput <- MCCLLInput
  WitnessInput <- MCWitnessInput
  Calls <- MCCalls
  MaxInFlight = 2
INVARIANTS
  InsertsNeverCollide
  LoadsAreMoments
  AnsweredEntriesStay
  RowsServeAsEngine
PROPERTIES
  DeliveriesNeverOverwrite
  ImplementsEngine
