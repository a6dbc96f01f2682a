SPECIFICATION Spec
CONSTANTS
  g = g
  a1 = a1
  a2 = a2
  a3 = a3
  b1 = b1
  b2 = b2
  k1 = k1
  k2 = k2
  k3 = k3
  k4 = k4
  Block = {g, a1, a2, a3, b1}
  Genesis = g
  Parent <- ShortFork
  Key = {k1, k2, k3, k4}
  State <- ShortForkState
  max_blocks = 1
  MaxPins = 1
  MaxReaders = 1
  Failures = TRUE
  Crashes = TRUE
  Reverts = TRUE
INVARIANTS CanonicalReadable LiveReadable PinnedReadable ReferencesCounted DeathIndexExact NothingLeaks JournalFaithful
