CONSTANTS
  Channels <- MCChannels
  Durations <- MCDurations
  Payloads = {p1}
  MaxNodes = 4
  TimeBits = 8
  OverflowChecks = FALSE
  MaxHits = 2
  None = None
SPECIFICATION SpecNoClear
PROPERTY EnableKeepsCache
