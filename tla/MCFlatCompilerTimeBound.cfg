CONSTANTS
  Channels <- MCChannels
  Durations <- MCDurations
  Payloads = {p1, p2}
  MaxNodes = 4
  TimeBits = 8
  OverflowChecks = FALSE
SPECIFICATION ArenaSpec
INVARIANT TimeBoundStrict
