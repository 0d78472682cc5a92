\* Any host, any faults: what the device may run.
SPECIFICATION Spec
CONSTANTS
  old = old
  new = new
  Images = {old, new}
  InRange <- MCInRange
  SeqMod = 5
  NoRecord = NoRecord
  Data = {"x", "y", "ff"}
  Blank = "ff"
  Junk = "junk"
  Content <- MCContent
  AppUnits = 2
  SectorUnits = 1
  OffsetMod = 4
  Chunks <- MCChunks
  FactoryRecords <- MCFactory
  MaxWorn = 1
  MaxSeq = 3
  MaxMisreads = 1
INVARIANTS RunsWholeImagesOnce
PROPERTIES RecordsFollowFlash
