SPECIFICATION Spec
CONSTANTS
  k1 = k1
  k2 = k2
  b1 = b1
  I64Max <- MCI64Max
  MaxSafe = 64
  Strings <- MCStrings
  len <- MCLen
  Bytes32 = {b1}
  Sessions = {}
  NotaryKeys = {}
  NoBody = NoBody
  NotJson = NotJson
  Absent = Absent
  Unreadable = Unreadable
  NoKey = NoKey
  Runs = {r1, r2}
  Window = 2
  Files <- MCFiles
INVARIANT InitReportsTruth
