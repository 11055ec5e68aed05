SPECIFICATION Spec
CONSTANTS
  b1 = b1
  b2 = b2
  NoConfig = NoConfig
  NoClaim = NoClaim
  NoIx = NoIx
  OtherIx = OtherIx
  Keys = {v, w}
  Accounts = {alice, bob}
  MaxSigned = 3
  I64Max <- MCI64Max
  Strings <- MCStrings
  len <- MCLen
  Bytes32 <- MCBytes32
  Claims <- MCClaims
  Messages <- MCMessages
  Times <- MCTimes
  MaxAges <- MCMaxAges
  Headers <- MCHeaders
INVARIANTS TypeOK StoredClaimsSigned StoredClaimsFresh HonestSubmissionAccepted Invariant
PROPERTIES ImplementsRegistry ImplementsLedger
SYMMETRY Symmetry
