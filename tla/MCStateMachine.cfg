SPECIFICATION MachineSpec
CONSTANTS
  item = item
  child = child
  Key = {1, 2, 9}
  Item = {item}
  Index = {}
  NO_EXTRINSIC_INDEX = noidx
  None = None
  Unknown = Unknown
  MaxItems = 2
  Child = {child}
  EXTRINSIC_INDEX = 9
  CollectExtrinsics = FALSE
  MaxDepth = 3
  Database <- OneKeyHeld
  Written <- FourLocations
  Limits = {0, 2}
  Strategies = {"AlwaysWasm", "Both", "NativeElseWasm"}
  NoTransaction = NoTransaction
  MaxSteps = 4
  MaxCalls = 2
INVARIANTS TransactionsBalanced RootFresh NextKeyExact 
PROPERTIES RetryStartsClean FailedCallLeavesNothing
