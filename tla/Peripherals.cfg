\* A transmitter that answers in time, late or never; programs of up to three peripherals;
\* PWM of two channels; a flash of six bytes of one bit; bytes of three bits on the wires;
\* a line of one place.
SPECIFICATION MCSpec
CONSTANTS
  Bytes = {0, 1}
  RingSize = 3
  Lengths = {1, 2}
  MaxUsed = 3
  Channels = {1, 2}
  Periods = {0, 2, 3}
  Prescalers = {0, 1}
  Duties = {0, 1, 3}
  MaxResets = 1
  Word = 6
  Size = 4
  SectorSize = 2
  Allocated = 6
  FixedAddr = 2
  FixedSize = 2
  Bits = {0}
  MaxWrite = 2
  Payloads <- MCPayloads
  Chars <- MCChars
  Columns = 1
  MaxFaults = 1
INVARIANTS BusHeldToTheEnd WriteSucceeds KeepsSetup EepromKeeps BusIsCarried ShowsText
PROPERTIES RingIsQueue NodeStaysAlive LateFlagIsCleared ChannelsShareTheCounter
CHECK_DEADLOCK FALSE
