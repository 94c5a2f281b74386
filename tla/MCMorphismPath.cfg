CONSTANTS
  PathIds = {p1, p2}
  IterIds = {i1}
  Channels <- MCChannels
  Durations <- MCDurations
  Targets <- MCTargets
  Opcodes = {o1}
  Payloads = {NoData}
  NoData = NoData
  NoPath = NoPath
  MaxSteps = 2
  TimeBits = 3
  OverflowChecks = FALSE
SPECIFICATION Spec
INVARIANT TotalDurationIsSum
PROPERTY ImplementsAbstractPath
