SPECIFICATION Spec
CONSTANTS
  b1 = b1
  I64Max <- MCI64Max
  Strings <- MCStrings
  len <- MCLen
  Bytes32 <- MCBytes32
  ClaimInputs <- MCClaimInputs
  MaxAges <- MCMaxAges
  Times <- MCTimes
INVARIANTS CopiesAgree SaturationIsExact
PROPERTIES StaleForever ClaimsAlwaysExpire
CHECK_DEADLOCK FALSE
