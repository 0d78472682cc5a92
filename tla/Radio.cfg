\* Two radios, any losses, a receiver that may start over; two radios set up, one reset.
SPECIFICATION MCSpec
CONSTANTS
  Depth = 2
  MaxRetries = 1
  MaxPackets = 3
  Channel = 76
  Width = 5
  Power = 1
  MaxRestarts = 1
INVARIANTS ReportsAreTrue RadiosAreSetUp
PROPERTIES PacketsAreFetched RoundsEnd
\* The sender of Nrf24 stops after MaxPackets; its receiver polls on.
CHECK_DEADLOCK FALSE
