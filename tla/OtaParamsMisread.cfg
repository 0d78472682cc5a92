\* The same store with a read that fails: the page it then erases.
SPECIFICATION Spec
CONSTANTS
  good = good
  big = big
  Images = {good, big}
  InRange <- MCInRange
  SeqMod = 8
  NoRecord = NoRecord
  FactoryRecords <- MCFactory
  MaxSeq = 7
  MaxMisreads = 1
INVARIANTS TargetIsNotCurrent
