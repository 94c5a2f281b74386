CONSTANTS
  PathIds = {p1, p2}
  IterIds = {}
  Channels = {0}
  Durations = {1}
  Targets = {}
  Opcodes = {o1}
  Payloads = {NoData}
  NoData = NoData
  NoPath = NoPath
  MaxSteps = 4
  TimeBits = 2
  OverflowChecks = TRUE
SPECIFICATION Spec
INVARIANT TotalDurationIsSum
