SPECIFICATION FileSpec
CONSTANTS
  Value = {a, b}
  MaxLeaves = 8
  Logs <- MCLogs
  MaxFailures = 2
  Key = {key, otherKey}
  LogID = {log1, log2}
  Authority = {witness, otherWitness}
  MaxPortableInteger = 14
  maxTreeSize = 7
INVARIANTS
  NodesExtendHistory
  InclusionExact
  ConsistencyExact
  RangeExact
  ImagesRestoreExactly
  AppendedNodesSurvive
  StatementsRoundTrip
  SignsOnlyWhatIsDeclared
  ReceiptExact
CHECK_DEADLOCK FALSE
