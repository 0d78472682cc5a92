\* Programs of two peripherals are enough: SPI and a pin of its port.
SPECIFICATION RegistersSpec
CONSTANTS
  MaxUsed = 2
INVARIANTS MisoStaysReleased
CHECK_DEADLOCK FALSE
