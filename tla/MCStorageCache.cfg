SPECIFICATION Spec
CONSTANTS
  g = g
  a1 = a1
  a2 = a2
  b2 = b2
  b3 = b3
  k1 = k1
  r1 = r1
  Block = {g, a1, a2, b2, b3}
  None = None
  Genesis = g
  Parent <- Tree
  Key = {k1}
  TopKey = {k1}
  Reader = {r1}
  STATE_CACHE_BLOCKS = 3
  ImportExisting = {a2}
  FinalizedForks = FALSE
INVARIANTS CacheTransparent
