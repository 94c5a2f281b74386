CONSTANTS
  Channels <- MCChannels
  Durations <- MCDurations
  Payloads = {p1, p2}
  MaxNodes = 5
  TimeBits = 2
  OverflowChecks = TRUE
SPECIFICATION ArenaSpec
INVARIANT MetadataSound
INVARIANT ParallelDisjoint
INVARIANT TreeMetricsCorrect
INVARIANT FlatCompileCorrect
