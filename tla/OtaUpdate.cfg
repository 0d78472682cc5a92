\* An update with faults on the line, in the flash and of the power.
SPECIFICATION FairSpec
CONSTANTS
  old = old
  new = new
  Images = {old, new}
  Image = new
  InRange <- MCInRange
  SeqMod = 16
  NoRecord = NoRecord
  Data = {"x", "y", "ff"}
  Blank = "ff"
  Junk = "junk"
  Content <- MCContent
  AppUnits = 3
  SectorUnits = 2
  OffsetMod = 8
  Chunks <- MCChunks
  FactoryRecords <- MCFactory
  MaxWorn = 2
  MaxSeq = 12
  MaxMisreads = 1
  ChunkUnits = 2
  MaxFaults = 4
INVARIANTS AnswersHold
PROPERTIES UpdateCompletes
\* The new application runs for good once the update has ended.
CHECK_DEADLOCK FALSE
