CONSTANTS
  Channels <- MCChannels
  Durations <- MCDurations
  Payloads = {p1}
  MaxNodes = 4
  TimeBits = 2
  OverflowChecks = FALSE
SPECIFICATION ArenaSpec
INVARIANT MetadataSound
