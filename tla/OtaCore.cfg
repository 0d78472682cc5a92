\* One transfer after another, with faults and power cuts.
SPECIFICATION Spec
CONSTANTS
  long = long
  short = short
  big = big
  Images = {long, short, big}
  InRange <- MCInRange
  SeqMod = 4
  NoRecord = NoRecord
  Data = {"x", "ff"}
  Blank = "ff"
  Junk = "junk"
  Content <- MCContent
  AppUnits = 4
  SectorUnits = 2
  OffsetMod = 6
  Chunks <- MCChunks
  FactoryRecords <- MCFactory
  MaxWorn = 1
  MaxSeq = 2
  MaxMisreads = 1
INVARIANTS BlocksAreStored CommitIsSound
PROPERTIES OffsetOnlyAdvances
