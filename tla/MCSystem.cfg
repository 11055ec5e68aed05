SPECIFICATION SystemSpec
CONSTANTS
  NoBody = NoBody
  NotJson = NotJson
  Absent = Absent
  Missing = Missing
  Torn = Torn
  Unset = Unset
  Malformed = Malformed
  NoKey = NoKey
  Provers = {d1, d2}
  Verifiers = {d1, d2}
  NotaryKeys = {"dev", "rogue"}
  TrustedKeys = {"dev"}
  AllowedHosts = {"api", "fixture"}
  TTLs = {5}
  Times = {0}
  MaxSafe = 128
  Window = 1
  I64Max <- MCI64Max
  Strings <- MCStrings
  len <- MCLen
  Bytes32 <- MCBytes32
  Sessions <- MCSessions
  pointer <- MCPointer
  Envs <- MCSystemEnvs
  SignerKeys <- MCSystemSignerKeys
  OldArtifacts <- MCSystemArtifacts
  OldRequests <- MCSystemRequests
SYMMETRY DemoSymmetry
INVARIANTS SystemInvariant StoredClaimsGenuine DemoStoresOwn SignedFileIsSigned
PROPERTY ImplementsLedger
CHECK_DEADLOCK FALSE
