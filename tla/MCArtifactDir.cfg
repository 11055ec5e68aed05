SPECIFICATION Spec
CONSTANTS
  NoBody = NoBody
  NotJson = NotJson
  Absent = Absent
  Missing = Missing
  Torn = Torn
  Provers = {p1, p2}
  Verifiers = {v1}
  Unset = Unset
  Malformed = Malformed
  NotaryKeys = {"dev", "rogue"}
  TrustedKeys = {"dev"}
  AllowedHosts = {"api", "fixture"}
  TTLs = {0, 5}
  Times = {0, 98}
  I64Max <- MCI64Max
  Strings <- MCStrings
  len <- MCLen
  Bytes32 <- MCBytes32
  Sessions <- MCSessions
  pointer <- MCPointer
  Envs <- MCEnvs
  SignerKeys <- MCSignerKeys
  OldArtifacts <- MCOldArtifacts
  OldRequests <- MCOldRequests
INVARIANTS Invariant SignedClaimsAttested SignedClaimsSubmittable OwnOutputAccepted
CHECK_DEADLOCK FALSE
