SPECIFICATION Spec
CONSTANTS
  p1 = p1
  p2 = p2
  PeerId = {p1, p2}
  SetId = {0}
  max_in <- OneIn
  max_out <- OneOut
  I32Min <- MinusFour
  I32Max = 2
  BANNED_THRESHOLD <- MinusTwo
  DISCONNECT_REPUTATION_CHANGE <- MinusOne
  TickDivisor = 2
  ReportValues <- Reports
  IncomingIndex = {0}
  InitReserved <- Nobody
  InitReservedOnly <- Never
  Bootnodes <- Everybody
  MaxRx = 1
  MaxQueue = 1
SYMMETRY PeerSymmetry
INVARIANTS TypeOK SlotAccounting OnlyReservedConnected
PROPERTIES ConnectionsChecked ImplementsContract
