SPECIFICATION Spec
CONSTANTS
  I64Max <- MCI64Max
  Strings <- MCStrings
  len <- MCLen
  Bytes32 = {}
  pointer <- MCPointer
  Sessions = {}
  NotaryKeys = {"dev"}
  NoBody = NoBody
  NotJson = NotJson
  Absent = Absent
  Unset = Unset
  Malformed = Malformed
  Pending = Pending
  Failed = Failed
  Envs <- MCEnvs
  Configs <- MCConfigs
  Servers <- MCServers
  Field = "/meta/version"
  Capacity = 2
  wire <- MCWire
INVARIANTS TypeOK Invariant NothingLeftBehind  OrphanNeverWaits AttestedAsConfigured
PROPERTIES ImplementsNotarization CallReturns OrphanNotaryEnds StepsRunOut
CHECK_DEADLOCK FALSE
