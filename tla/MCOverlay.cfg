SPECIFICATION Spec
CONSTANTS
  Key = {k, idx}
  Item = {x}
  Index = {}
  NO_EXTRINSIC_INDEX = noidx
  None = None
  Unknown = Unknown
  MaxItems = 1
  Child = {c}
  EXTRINSIC_INDEX = idx
  CollectExtrinsics = FALSE
  MaxDepth = 2
INVARIANTS VersionsAligned Lockstep
PROPERTY ImplementsStack
