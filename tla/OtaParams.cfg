\* The store with sequences that do not wrap.
SPECIFICATION Spec
CONSTANTS
  good = good
  big = big
  Images = {good, big}
  InRange <- MCInRange
  SeqMod = 8
  NoRecord = NoRecord
  FactoryRecords <- MCFactory
  MaxSeq = 7
  MaxMisreads = 1
INVARIANTS WriteIsAtomic AckedIsActive
PROPERTIES NeverForgets RegisterSpec
