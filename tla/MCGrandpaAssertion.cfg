SPECIFICATION Spec
CONSTANTS
  Blocks <- MCBlocks
  Ancestors <- MCAncestors
  Changes <- MCChanges
  Tip = "c4"
  OldSetStops = TRUE
INVARIANT AssertionHolds
