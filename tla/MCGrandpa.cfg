SPECIFICATION FairSpec
CONSTANTS
  Blocks <- MCBlocks
  Ancestors <- MCAncestors
  Changes <- MCChanges
  Tip = "c4"
  OldSetStops = TRUE
INVARIANTS SetsAgree HandoffNeverMissed DiskFollowsMemory PendingKept VotesStopAtHandoff VoterCaughtUp ForcedChangeEnacted
PROPERTY FinalityReachesTip
