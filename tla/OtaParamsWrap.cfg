\* The same store left to run past the largest sequence number.
SPECIFICATION Spec
CONSTANTS
  good = good
  big = big
  Images = {good, big}
  InRange <- MCInRange
  SeqMod = 4
  NoRecord = NoRecord
  FactoryRecords <- MCFactory
  MaxSeq = 4
  MaxMisreads = 0
INVARIANTS AckedIsActive
