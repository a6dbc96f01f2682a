SPECIFICATION FairSpec
CONSTANTS
  a1 = a1
  a1x = a1x
  a2 = a2
  a2x = a2x
  Txs = {a1, a1x, a2, a2x}
  Tags <- NonceTags
  Provides <- NonceProvides
  Requires <- NonceRequires
  Priority <- NoncePriority
  ReadyLimit = 2
  FutureLimit = 1
  EXPECTED_SIZE = 1
  MaxVerifying = 1
  MaxEvents = 1
  MaxPayloads = 2
  MaxLinks = 2
INVARIANTS PoolConsistent IteratorOrdered NotStuckInFuture WatchersTold
PROPERTY StaleLeaves
