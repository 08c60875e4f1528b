\* Two processes that put keys, save receipts and verify them.
SPECIFICATION Spec
CONSTANTS
  p1 = p1
  p2 = p2
  Actors = {p1, p2}
  KeyIds = {"k1", "k2"}
  ScopeOf <- MCScopeOf
  Infos <- MCInfos
  Records <- MCRecords
  MaxTime = 2
  Nothing = Nothing
SYMMETRY Alike
INVARIANTS
  ReceiptsAgree
PROPERTIES
  WritesStand
  TrustIsFresh
CHECK_DEADLOCK FALSE
