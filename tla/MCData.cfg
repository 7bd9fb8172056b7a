CONSTANTS
  Nil = Nil
  k1 = k1  k2 = k2
  Base = 2
  AddressLength = 3
  HashLength = 2
  UintLength = 2
  Type <- MCType
  Signature <- MCSignature
  MaxTrips = 3
  RFQ <- MCRFQ
  RFQEndTime <- MCRFQEndTime
  LastTime = 4
  Unset = Nil
  Tx = {t1, t2, t3}
  MaxClears = 2
  Blank = Nil
SPECIFICATION MCSpec
CHECK_DEADLOCK FALSE
INVARIANTS RecordsReadBack ClientTxsInBlocksVerify SignedVerifies VerifiedIsAsBuilt TextsAreReadExactly ExactUnlessOverlapped StableUnlessTorn
PROPERTIES SignedStaysVerified PopsEarliestUnlessOverlapped
