\* Encoder (every step scanned, no acceleration), button, pulse decoder, running counter,
\* and the sleeping receiver: 30 ms are 26 units, its 16 bit timer wraps after 64 units.
SPECIFICATION MCSpec
CONSTANTS
  Range = 9
  MaxSum = 3
  Shaft <- MCShaft
  Sums <- MCSums
  MaxJump = 1
  Steps = 4
  Reverse = 1
  FastStep = 1
  Threshold = 1
  Elapsed = {1, 2}
  TimeMax = 3
  LowSize = 3
  HighSize = 4
  Moves <- QeiMoves
  Slack = 1
  DebounceMs = {0, 2, 3}
  LongMs = {0, 3, 5}
  Gaps = {1, 2}
  MaxMs = 7
  ByteBits = 1
  Widths = {300, 562, 1687, 2250, 4500, 9000, 40000}
  Silence = 40000
  Timeout = 26
  Chunks = 2
  Wrap = 64
  Gap = 30
INVARIANTS FullAccounts SmallAccounts ButtonIsFollowed NotTorn
PROPERTIES EventsTellOneStory FrameIsWhole SecondFrameIsDecoded SleeperReports SilenceLeadsToSleep
