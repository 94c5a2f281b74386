CONSTANTS
  Channels <- MCChannels
  Durations <- MCDurations
  Payloads = {p1}
  MaxNodes = 5
  TimeBits = 8
  OverflowChecks = FALSE
SPECIFICATION ArenaSpec
INVARIANT IncrementalCompileMeetsContract
