--------------------------- MODULE OtaUpdateProofs ---------------------------
(***************************************************************************)
(* Proofs about a whole update: for all images, block sizes and areas, and  *)
(* for every fault of the line, the flash and the power.  The device takes   *)
(* the steps its own proofs are about; what is new here is what the host     *)
(* concludes from the statuses it is sent.                                   *)
(***************************************************************************)
EXTENDS OtaUpdate, TLAPS

Dev == INSTANCE OtaDeviceProofs

NoWrap == MaxSeq < SeqMod

Running == host.stage \in DOMAIN Cmd

\* The command the host waits for.
Request ==
  [seq |-> host.seq, cmd |-> Cmd[host.stage],
   offset |-> IF host.stage = "write" THEN host.offset ELSE 0,
   chunk |-> IF host.stage = "write" THEN BlockAt(host.offset) ELSE <<>>]

Stored(n) == \A k \in 1 .. n : app[k - 1] = Content[Image][k] \/ k - 1 \in worn

Recorded == Active(flash) # NoRecord /\ Active(flash).app = Image

\* The host has been told that the image is committed, or is about to be.
Told == (host.stage = "commit" /\ back.status = "ok") \/ host.stage \in {"app", "passed"}

\* At any time one command of a run is on the line, in the device or answered.
FlowInv ==
  /\ host \in [stage : DOMAIN Cmd \cup {"off", "app", "passed", "failed"},
               waits : BOOLEAN, seq : Nat, offset : 0 .. Core!Size(Image)]
  /\ host.waits => Running
  /\ host.stage = "begin" => host.offset = 0
  /\ host.stage = "write" => host.offset < Core!Size(Image)
  /\ wire # NoFrame =>
       /\ wire.cmd \in {"BEGIN", "WRITE_BLOCK", "VERIFY", "COMMIT"}
       /\ wire.cmd = "WRITE_BLOCK" => wire.offset \in 0 .. OffsetMod - 1 /\ wire.chunk \in Chunks
  /\ Running =>
       /\ wire # NoFrame => wire = Request /\ host.waits /\ cur = "none" /\ back = NoStatus
       /\ cur # "none" => cur = Cmd[host.stage] /\ host.waits /\ back = NoStatus
       /\ back # NoStatus => host.waits
  /\ host.stage \in {"app", "passed"} => wire = NoFrame /\ cur = "none"

\* The device works on the command it was sent, and on the image of the host.
WorkInv ==
  /\ op.kind = "erase" => cur = "BEGIN"
  /\ op.kind = "program" =>
       /\ cur = "WRITE_BLOCK"
       /\ host.stage = "write" => op.chunk = BlockAt(host.offset) /\ ctx.offset = host.offset
  /\ op.kind = "commit" => cur = "COMMIT"
  /\ ctx.state \notin {"IDLE", "FAILED"} => ctx.man = Image
  /\ cur = "COMMIT" /\ reply = "ok" => ctx.state = "COMMITTED"
  /\ op.kind # "none" => reply # "ok"

\* What a good answer promises is true before the host has read it.
PromiseInv ==
  /\ host.stage \in {"write", "verify", "commit"} => Stored(host.offset)
  /\ host.stage = "write" /\ ((cur # "none" /\ reply = "ok") \/ back.status = "ok")
       => Stored(BlockEnd)
  /\ Told => Core!Holds(Image)

\* What holds whichever reads fail, and what holds until one misleads a call.
LinkInv == Dev!AlwaysInv /\ FlowInv /\ WorkInv /\ PromiseInv

RecordInv == Told => Recorded

UpdateInv == LinkInv /\ (Dev!Rcv!Store!Trusted => Dev!DeviceInv /\ RecordInv)

-----------------------------------------------------------------------------
(* The device is the one of its own proofs. *)

LEMMA Assumed ==
  /\ Dev!FormatAssumption /\ Dev!DeviceAssumption
  /\ Dev!Rcv!FormatAssumption /\ Dev!Rcv!CoreAssumption
  <1>1. Dev!FormatAssumption /\ Dev!Rcv!FormatAssumption
    BY FormatAssumption DEF Dev!FormatAssumption, Dev!Rcv!FormatAssumption, Record,
         Dev!Record, Dev!Rcv!Record
  <1>2. Dev!DeviceAssumption /\ Dev!Rcv!CoreAssumption
    BY UpdateAssumption
       DEF Core!CoreAssumption, Core!Size, Core!Record, Dev!DeviceAssumption,
           Dev!Core!CoreAssumption, Dev!Core!Size, Dev!Core!Record,
           Dev!Rcv!CoreAssumption, Dev!Rcv!Size, Dev!Rcv!Record
  <1>3. QED
    BY <1>1, <1>2

\* The format is reached along several paths and is one.
LEMMA SameFormat ==
  /\ \A f : /\ Active(f) = Dev!Active(f) /\ Device!Active(f) = Dev!Active(f)
            /\ Dev!Rcv!Active(f) = Dev!Active(f)
  BY DEF Active, Selected, Newer, NoSlot, Loaded,
         Device!Active, Device!Selected, Device!Newer, Device!NoSlot, Device!Loaded,
         Dev!Active, Dev!Selected, Dev!Newer, Dev!NoSlot, Dev!Loaded,
         Dev!Rcv!Active, Dev!Rcv!Selected, Dev!Rcv!Newer, Dev!Rcv!NoSlot, Dev!Rcv!Loaded

\* A call finds the same records and rewrites the same slot, by whichever path it is reached.
LEMMA SameCalls ==
  /\ Device!Params!LoadedRecords = Dev!Params!LoadedRecords
  /\ \A r, rec : Device!Params!WriteNext(r, rec) = Dev!Params!WriteNext(r, rec)
  /\ Core!Params!LoadedRecords = Dev!Core!Params!LoadedRecords
  /\ \A r, rec : Core!Params!WriteNext(r, rec) = Dev!Core!Params!WriteNext(r, rec)
  /\ \A f : Device!Params!Active(f) = Dev!Params!Active(f)
  <1>1. \A f, s : /\ Device!Params!Selected(f) = Dev!Params!Selected(f)
                  /\ Device!Params!Loads(f) = Dev!Params!Loads(f)
                  /\ Device!Params!Active(f) = Dev!Params!Active(f)
                  /\ Device!Params!Loaded(f, s) = Dev!Params!Loaded(f, s)
                  /\ Device!Params!Target(s) = Dev!Params!Target(s)
    BY DEF Device!Params!Selected, Device!Params!Newer, Device!Params!NoSlot,
           Device!Params!Loads, Device!Params!Seen, Device!Params!Slots,
           Device!Params!Active, Device!Params!Loaded, Device!Params!Target,
           Device!Params!Other,
           Dev!Params!Selected, Dev!Params!Newer, Dev!Params!NoSlot,
           Dev!Params!Loads, Dev!Params!Seen, Dev!Params!Slots,
           Dev!Params!Active, Dev!Params!Loaded, Dev!Params!Target, Dev!Params!Other
  <1>2. \A f, s : /\ Core!Params!Selected(f) = Dev!Core!Params!Selected(f)
                  /\ Core!Params!Loads(f) = Dev!Core!Params!Loads(f)
                  /\ Core!Params!Active(f) = Dev!Core!Params!Active(f)
                  /\ Core!Params!Loaded(f, s) = Dev!Core!Params!Loaded(f, s)
                  /\ Core!Params!Target(s) = Dev!Core!Params!Target(s)
    BY DEF Core!Params!Selected, Core!Params!Newer, Core!Params!NoSlot,
           Core!Params!Loads, Core!Params!Seen, Core!Params!Slots,
           Core!Params!Active, Core!Params!Loaded, Core!Params!Target, Core!Params!Other,
           Dev!Core!Params!Selected, Dev!Core!Params!Newer, Dev!Core!Params!NoSlot,
           Dev!Core!Params!Loads, Dev!Core!Params!Seen, Dev!Core!Params!Slots,
           Dev!Core!Params!Active, Dev!Core!Params!Loaded, Dev!Core!Params!Target,
           Dev!Core!Params!Other
  <1>3. /\ \A r, s : Device!Params!Exact(r, s) = Dev!Params!Exact(r, s)
        /\ \A m : Device!Params!CountMisread(m) = Dev!Params!CountMisread(m)
    BY <1>1 DEF Device!Params!Exact, Device!Params!CountMisread, Dev!Params!Exact,
                Dev!Params!CountMisread
  <1>4. /\ \A r, s : Core!Params!Exact(r, s) = Dev!Core!Params!Exact(r, s)
        /\ \A m : Core!Params!CountMisread(m) = Dev!Core!Params!CountMisread(m)
    BY <1>2 DEF Core!Params!Exact, Core!Params!CountMisread, Dev!Core!Params!Exact,
                Dev!Core!Params!CountMisread
  <1>5. /\ Device!Params!LoadedRecords = Dev!Params!LoadedRecords
        /\ Core!Params!LoadedRecords = Dev!Core!Params!LoadedRecords
    BY <1>1, <1>2 DEF Device!Params!LoadedRecords, Dev!Params!LoadedRecords,
                      Core!Params!LoadedRecords, Dev!Core!Params!LoadedRecords
  <1>6. ASSUME NEW r, NEW rec
        PROVE  Device!Params!WriteNext(r, rec) = Dev!Params!WriteNext(r, rec)
    BY <1>1, <1>3 DEF Device!Params!WriteNext, Dev!Params!WriteNext
  <1>7. ASSUME NEW r, NEW rec
        PROVE  Core!Params!WriteNext(r, rec) = Dev!Core!Params!WriteNext(r, rec)
    BY <1>2, <1>4 DEF Core!Params!WriteNext, Dev!Core!Params!WriteNext
  <1>8. QED
    BY <1>1, <1>5, <1>6, <1>7

LEMMA SameSize ==
  /\ \A i : Core!Size(i) = Len(Content[i]) /\ Dev!Core!Size(i) = Len(Content[i])
  /\ \A i : Device!Core!Size(i) = Len(Content[i]) /\ Dev!Rcv!Size(i) = Len(Content[i])
  /\ \A i : /\ Core!Holds(i) = Dev!Rcv!Holds(i) /\ Dev!Core!Holds(i) = Dev!Rcv!Holds(i)
            /\ Device!Core!Holds(i) = Dev!Rcv!Holds(i)
  BY DEF Core!Size, Dev!Core!Size, Device!Core!Size, Dev!Rcv!Size,
         Core!Holds, Dev!Core!Holds, Device!Core!Holds, Dev!Rcv!Holds

LEMMA SameInit == Device!Init => Dev!Init
  BY SameSize
     DEF Device!Init, Device!Core!Init, Device!Core!InitCtx, Device!Core!NoOp,
         Device!Core!Units, Device!Core!Params!Init, Device!Core!Params!Slots,
         Dev!Init, Dev!Core!Init, Dev!Core!InitCtx, Dev!Core!NoOp,
         Dev!Core!Units, Dev!Core!Params!Init, Dev!Core!Params!Slots

LEMMA SamePowerCut == Device!Core!PowerCut => Dev!Core!PowerCut
  BY DEF Device!Core!PowerCut, Device!Core!TornApp, Device!Core!Units, Device!Core!InitCtx,
         Device!Core!ErasedUnits, Device!Core!Place, Dev!Core!ErasedUnits, Dev!Core!Place,
         Device!Core!NoOp, Device!Core!Params!PowerCut, Device!Core!Params!SetTarget,
         Device!Core!Params!Return,
         Dev!Core!PowerCut, Dev!Core!TornApp, Dev!Core!Units, Dev!Core!InitCtx,
         Dev!Core!NoOp, Dev!Core!Params!PowerCut, Dev!Core!Params!SetTarget,
         Dev!Core!Params!Return

LEMMA SameJobStep ==
  /\ Device!Params!JobStep => Dev!Params!JobStep
  /\ Device!Core!Params!JobStep => Dev!Core!Params!JobStep
  <1>1. Device!Params!JobStep => Dev!Params!JobStep
    BY DEF Device!Params!JobStep, Device!Params!Erase, Device!Params!EraseFails,
           Device!Params!Program, Device!Params!ProgramBadCell, Device!Params!ProgramFails,
           Device!Params!Check, Device!Params!CheckFails, Device!Params!SetTarget,
           Device!Params!Continue, Device!Params!Return,
           Dev!Params!JobStep, Dev!Params!Erase, Dev!Params!EraseFails,
           Dev!Params!Program, Dev!Params!ProgramBadCell, Dev!Params!ProgramFails,
           Dev!Params!Check, Dev!Params!CheckFails, Dev!Params!SetTarget,
           Dev!Params!Continue, Dev!Params!Return
  <1>2. Device!Core!Params!JobStep => Dev!Core!Params!JobStep
    BY DEF Device!Core!Params!JobStep, Device!Core!Params!Erase,
           Device!Core!Params!EraseFails, Device!Core!Params!Program,
           Device!Core!Params!ProgramBadCell, Device!Core!Params!ProgramFails,
           Device!Core!Params!Check, Device!Core!Params!CheckFails,
           Device!Core!Params!SetTarget, Device!Core!Params!Continue,
           Device!Core!Params!Return,
           Dev!Core!Params!JobStep, Dev!Core!Params!Erase, Dev!Core!Params!EraseFails,
           Dev!Core!Params!Program, Dev!Core!Params!ProgramBadCell,
           Dev!Core!Params!ProgramFails, Dev!Core!Params!Check,
           Dev!Core!Params!CheckFails, Dev!Core!Params!SetTarget,
           Dev!Core!Params!Continue, Dev!Core!Params!Return
  <1>3. QED
    BY <1>1, <1>2

LEMMA SameMark ==
  /\ Device!Params!MarkBootAttempted => Dev!Params!MarkBootAttempted
  /\ Device!Params!MarkAppValid => Dev!Params!MarkAppValid
  /\ Device!Params!Refuse => Dev!Params!Refuse
  /\ \A r : Device!Params!Load(r) => Dev!Params!Load(r)
  <1>1. /\ Device!Params!MarkBootAttempted => Dev!Params!MarkBootAttempted
        /\ Device!Params!MarkAppValid => Dev!Params!MarkAppValid
    BY SameCalls
       DEF Device!Params!MarkBootAttempted, Device!Params!MarkAppValid,
           Device!Params!AttemptedRecord, Device!Params!ValidRecord, Device!Params!NextSeq,
           Dev!Params!MarkBootAttempted, Dev!Params!MarkAppValid,
           Dev!Params!AttemptedRecord, Dev!Params!ValidRecord, Dev!Params!NextSeq
  <1>2. /\ Device!Params!Refuse => Dev!Params!Refuse
        /\ \A r : Device!Params!Load(r) => Dev!Params!Load(r)
    BY SameCalls
       DEF Device!Params!Refuse, Device!Params!Load, Device!Params!CountMisread,
           Dev!Params!Refuse, Dev!Params!Load, Dev!Params!CountMisread
  <1>3. QED
    BY <1>1, <1>2

LEMMA SameStep == Device!Core!Step => Dev!Core!Step
  <1> USE DEF Device!Core!paramVars, Dev!Core!paramVars
  <1>1. /\ Device!Core!EraseEnd = Dev!Core!EraseEnd /\ Device!Core!Units = Dev!Core!Units
        /\ Device!Core!ErasedUnits = Dev!Core!ErasedUnits
        /\ Device!Core!Place = Dev!Core!Place /\ Device!Core!Fail = Dev!Core!Fail
        /\ \A v, w : Device!Core!Programmed(v, w) = Dev!Core!Programmed(v, w)
        /\ \A r : Device!Core!Answer(r) = Dev!Core!Answer(r)
        /\ Device!Core!UnitIsDone => Dev!Core!UnitIsDone
    BY SameSize
       DEF Device!Core!EraseEnd, Device!Core!Units, Device!Core!ErasedUnits, Device!Core!Place,
           Device!Core!Fail, Device!Core!Programmed, Device!Core!Answer, Device!Core!NoOp,
           Device!Core!UnitIsDone, Device!Core!EndOffset,
           Dev!Core!EraseEnd, Dev!Core!Units, Dev!Core!ErasedUnits, Dev!Core!Place,
           Dev!Core!Fail, Dev!Core!Programmed, Dev!Core!Answer, Dev!Core!NoOp,
           Dev!Core!UnitIsDone, Dev!Core!EndOffset
  <1>2. /\ Device!Core!EraseSector => Dev!Core!EraseSector
        /\ Device!Core!EraseSectorFails => Dev!Core!EraseSectorFails
        /\ Device!Core!ProgramUnitFails => Dev!Core!ProgramUnitFails
    BY <1>1
       DEF Device!Core!EraseSector, Device!Core!EraseSectorFails, Device!Core!ProgramUnitFails,
           Dev!Core!EraseSector, Dev!Core!EraseSectorFails, Dev!Core!ProgramUnitFails
  <1>3. Device!Core!ProgramUnit => Dev!Core!ProgramUnit
    BY <1>1 DEF Device!Core!ProgramUnit, Dev!Core!ProgramUnit
  <1>4. Device!Core!ProgramUnitWorn => Dev!Core!ProgramUnitWorn
    BY <1>1
       DEF Device!Core!ProgramUnitWorn, Dev!Core!ProgramUnitWorn, Device!Core!Cardinality,
           Dev!Core!Cardinality
  <1>5. Device!Core!CommitStep => Dev!Core!CommitStep
    BY <1>1, SameJobStep DEF Device!Core!CommitStep, Dev!Core!CommitStep
  <1>6. QED
    BY <1>2, <1>3, <1>4, <1>5 DEF Device!Core!Step, Dev!Core!Step

\* The calls the bootloader makes for the frames of this host.
LEMMA SameCall ==
  /\ \A i, known : Core!Begin(i, known) => Dev!Core!Begin(i, known)
  /\ \A offset, chunk : Core!WriteChunk(offset, chunk) => Dev!Core!WriteChunk(offset, chunk)
  /\ Core!Verify => Dev!Core!Verify
  /\ Core!Commit => Dev!Core!Commit
  <1> USE DEF Core!Ready, Dev!Core!Ready, Core!paramVars, Dev!Core!paramVars,
              Core!Answer, Dev!Core!Answer, Core!NoOp, Dev!Core!NoOp,
              Core!Refuse, Dev!Core!Refuse, Core!Fail, Dev!Core!Fail
  <1>1. ASSUME NEW i, NEW known, Core!Begin(i, known) PROVE Dev!Core!Begin(i, known)
    BY <1>1 DEF Core!Begin, Dev!Core!Begin, Core!InitCtx, Dev!Core!InitCtx
  <1>2. ASSUME NEW offset, NEW chunk, Core!WriteChunk(offset, chunk)
        PROVE  Dev!Core!WriteChunk(offset, chunk)
    BY <1>2, SameSize
       DEF Core!WriteChunk, Core!DuplicateChunk, Core!Written, Core!Overlay,
           Core!IsLastChunk, Core!EndOffset, Core!BackendAccepts, Core!Units,
           Dev!Core!WriteChunk, Dev!Core!DuplicateChunk, Dev!Core!Written,
           Dev!Core!Overlay, Dev!Core!IsLastChunk, Dev!Core!EndOffset,
           Dev!Core!BackendAccepts, Dev!Core!Units
  <1>3. Core!Verify => Dev!Core!Verify
    BY SameSize DEF Core!Verify, Dev!Core!Verify
  <1>4. Core!Commit => Dev!Core!Commit
    BY SameCalls
       DEF Core!Commit, Core!Params!Commit, Core!Params!CommitRecord, Core!Params!NextSeq,
           Dev!Core!Commit, Dev!Core!Params!Commit, Dev!Core!Params!CommitRecord,
           Dev!Core!Params!NextSeq
  <1>5. QED
    BY <1>1, <1>2, <1>3, <1>4

\* Every step of the device is one its own proofs are about.
LEMMA SameSteps ==
  /\ Device!StayInLoader => Dev!StayInLoader
  /\ Device!JumpToApp => Dev!JumpToApp
  /\ Device!DecideTrial => Dev!DecideTrial
  /\ Device!BeginTrial => Dev!BeginTrial
  /\ Device!TrialRefused => Dev!TrialRefused
  /\ Device!TrialStep => Dev!TrialStep
  /\ Device!CommandStep => Dev!CommandStep
  /\ Device!Respond => Dev!Respond
  /\ Device!AppMarksValid => Dev!AppMarksValid
  /\ Device!AppStep => Dev!AppStep
  /\ Device!PowerCut => Dev!PowerCut
  <1> USE DEF Device!bootVars, Device!coreVars, Device!paramVars, Device!Enter,
              Dev!bootVars, Dev!coreVars, Dev!paramVars, Dev!Enter
  <1>1. Device!Restart = Dev!Restart
    BY DEF Device!Restart, Dev!Restart
  <1>2. \A r : Device!BootAction(r) = Dev!BootAction(r) /\ Device!MayStart(r) = Dev!MayStart(r)
    BY SameSize
       DEF Device!BootAction, Dev!BootAction, Device!MayStart, Dev!MayStart,
           Device!AppCrcMatches, Dev!AppCrcMatches
  <1>3. Device!StayInLoader => Dev!StayInLoader
    BY DEF Device!StayInLoader, Dev!StayInLoader
  <1>4. \A action : Device!Decide(action) => Dev!Decide(action)
    BY <1>2, SameCalls, SameMark DEF Device!Decide, Dev!Decide
  <1>5. /\ Device!JumpToApp => Dev!JumpToApp
        /\ Device!DecideTrial => Dev!DecideTrial
        /\ Device!BeginTrial => Dev!BeginTrial
        /\ Device!TrialRefused => Dev!TrialRefused
    BY <1>4, SameMark
       DEF Device!JumpToApp, Dev!JumpToApp, Device!DecideTrial, Dev!DecideTrial,
           Device!BeginTrial, Dev!BeginTrial, Device!TrialRefused, Dev!TrialRefused
  <1>6. Device!TrialStep => Dev!TrialStep
    BY SameJobStep DEF Device!TrialStep, Dev!TrialStep
  <1>7. Device!CommandStep => Dev!CommandStep
    BY SameStep, SameFormat
       DEF Device!CommandStep, Dev!CommandStep, Device!CommitInstalled, Dev!CommitInstalled
  <1>8. Device!Respond => Dev!Respond
    BY <1>1, SamePowerCut DEF Device!Respond, Dev!Respond, Device!Core!Ready, Dev!Core!Ready
  <1>9. Device!AppMarksValid => Dev!AppMarksValid
    BY SameMark DEF Device!AppMarksValid, Dev!AppMarksValid
  <1>10. Device!AppStep => Dev!AppStep
    BY SameJobStep DEF Device!AppStep, Dev!AppStep
  <1>11. Device!PowerCut => Dev!PowerCut
    BY <1>1, SamePowerCut DEF Device!PowerCut, Dev!PowerCut
  <1>12. QED
    BY <1>3, <1>5, <1>6, <1>7, <1>8, <1>9, <1>10, <1>11

LEMMA CmdFacts ==
  /\ DOMAIN Cmd = {"begin", "write", "verify", "commit"}
  /\ Cmd["begin"] = "BEGIN" /\ Cmd["write"] = "WRITE_BLOCK"
  /\ Cmd["verify"] = "VERIFY" /\ Cmd["commit"] = "COMMIT"
  BY DEF Cmd

\* A frame of this host that is executed is a call of the receiver.
LEMMA Performed ==
  ASSUME FlowInv, Receive, wire.seq # lastSeq
  PROVE  Dev!Accept(wire.cmd) /\ wire.cmd \in Dev!Commands
  <1>1. wire.cmd \in {"BEGIN", "WRITE_BLOCK", "VERIFY", "COMMIT"}
    BY DEF FlowInv, Receive
  <1>2. CASE wire.cmd = "BEGIN"
    <2>1. Dev!Core!Begin(Image, TRUE)
      BY <1>2, SameCall DEF Receive, Perform
    <2>2. Image \in Images
      BY UpdateAssumption
    <2>3. QED
      BY <1>2, <2>1, <2>2
         DEF Receive, Device!Listening, Dev!Listening, Dev!Accept, Dev!Handle, Dev!Commands
  <1>3. CASE wire.cmd = "WRITE_BLOCK"
    <2>1. Dev!Core!WriteChunk(wire.offset, wire.chunk)
      BY <1>3, SameCall DEF Receive, Perform
    <2>2. wire.offset \in 0 .. OffsetMod - 1 /\ wire.chunk \in Chunks
      BY <1>3 DEF FlowInv, Receive
    <2>3. QED
      BY <1>3, <2>1, <2>2
         DEF Receive, Device!Listening, Dev!Listening, Dev!Accept, Dev!Handle, Dev!Commands
  <1>4. CASE wire.cmd \in {"VERIFY", "COMMIT"}
    BY <1>4, SameCall
       DEF Receive, Perform, Device!Listening, Dev!Listening, Dev!Accept, Dev!Handle,
           Dev!Commands
  <1>5. QED
    BY <1>1, <1>2, <1>3, <1>4

LEMMA DeviceMoves ==
  ASSUME FlowInv, [Next]_vars
  PROVE  [Dev!Next]_Dev!vars
  <1> USE DEF Dev!Next
  <1>1. CASE UNCHANGED deviceVars
    BY <1>1 DEF deviceVars, Dev!vars, Dev!bootVars, Dev!coreVars, Dev!paramVars
  <1>2. CASE HostStart \/ Respond \/ DeviceStep \/ PowerCut
    BY <1>2, SameSteps DEF HostStart, Respond, DeviceStep, PowerCut
  <1>3. CASE Receive
    BY <1>1, <1>3, Performed DEF Receive, Dev!Frame
  <1>4. QED
    BY <1>1, <1>2, <1>3
       DEF Next, Step, vars, HostSend, HostHears, HostSeesApp, HostTimesOut, LoseRequest,
           LoseStatus

-----------------------------------------------------------------------------
(* What the device does to the link, in one place. *)

LEMMA NoAnswer == NoFrame.cmd = "none" /\ NoStatus.status = "none"
  BY DEF NoFrame, NoStatus

LEMMA ImageFits ==
  /\ Core!Size(Image) \in Nat \ {0} /\ Core!Size(Image) \in 1 .. AppUnits
  /\ AppUnits \in Nat /\ OffsetMod \in Nat /\ AppUnits < OffsetMod
  <1>0. Image \in Images /\ InRange[Image]
    BY UpdateAssumption
  <1>1. InRange = [i \in Images |-> Core!Size(i) \in 1 .. AppUnits]
    BY UpdateAssumption DEF Core!CoreAssumption
  <1>2. InRange[Image] = (Core!Size(Image) \in 1 .. AppUnits)
    BY <1>0, <1>1, Zenon
  <1>3. Core!Size(Image) \in 1 .. AppUnits
    BY <1>0, <1>2, Zenon
  <1>4. AppUnits \in Nat /\ OffsetMod \in Nat /\ AppUnits < OffsetMod
    BY UpdateAssumption DEF Core!CoreAssumption
  <1>5. QED
    BY <1>3, <1>4

LEMMA BlockFacts ==
  ASSUME NEW offset \in 0 .. Core!Size(Image) - 1
  PROVE  LET last == Smaller(offset + ChunkUnits, Core!Size(Image)) IN
         /\ last \in offset + 1 .. Core!Size(Image)
         /\ Len(BlockAt(offset)) = last - offset
         /\ \A k \in 1 .. last - offset : BlockAt(offset)[k] = Content[Image][offset + k]
  <1> DEFINE last == Smaller(offset + ChunkUnits, Core!Size(Image))
  <1>1. Content[Image] \in Seq(Data) /\ ChunkUnits \in Nat \ {0}
    BY UpdateAssumption DEF Core!CoreAssumption
  <1>2. Core!Size(Image) = Len(Content[Image]) /\ Core!Size(Image) \in Nat
    BY <1>1, SameSize
  <1>3. last \in offset + 1 .. Core!Size(Image)
    BY <1>1, <1>2 DEF Smaller
  <1>4. BlockAt(offset) = SubSeq(Content[Image], offset + 1, last)
    BY DEF BlockAt
  <1>5. /\ Len(SubSeq(Content[Image], offset + 1, last)) = last - offset
        /\ \A k \in 1 .. last - offset :
             SubSeq(Content[Image], offset + 1, last)[k] = Content[Image][offset + k]
    BY <1>1, <1>2, <1>3
  <1>6. QED
    BY <1>3, <1>4, <1>5

\* Between commands the receiver rests.
LEMMA Rests == ASSUME LinkInv, cur = "none" PROVE op.kind = "none"
  BY DEF LinkInv, Dev!AlwaysInv, Dev!ModeInv

\* Power is cut, or the device restarts itself: nothing of the commands is left.
LEMMA RestartFacts ==
  ASSUME Device!PowerCut \/ (Device!Core!PowerCut /\ Device!Restart)
  PROVE  /\ cur' = "none" /\ op'.kind = "none" /\ ctx'.state = "IDLE" /\ reply' = "none"
         /\ worn' = worn /\ (op.kind = "none" => app' = app)
  BY DEF Device!PowerCut, Device!Restart, Device!Core!PowerCut, Device!Core!TornApp,
         Device!Core!NoOp, Device!Core!InitCtx

\* The host and the line see the device in Receive, Respond and the restarts alone.
LEMMA DeviceStepFacts ==
  ASSUME DeviceStep
  PROVE  /\ UNCHANGED linkVars /\ cur' = cur
         /\ \/ Device!Core!Step /\ mode = "loader"
            \/ UNCHANGED <<app, ctx, op, reply, got, worn>>
  BY DEF DeviceStep, Device!StayInLoader, Device!JumpToApp, Device!DecideTrial,
         Device!Decide, Device!BeginTrial, Device!TrialRefused, Device!TrialStep, Device!CommandStep, Device!AppMarksValid, Device!AppStep,
         Device!Enter, Device!bootVars, Device!coreVars

LEMMA FlowStep == ASSUME LinkInv, [Next]_vars PROVE FlowInv'
  <1>0. FlowInv
    BY DEF LinkInv
  <1> DEFINE size == Core!Size(Image)
  <1>s. size \in Nat /\ size > 0
    BY ImageFits
  <1>b. size = Core!Size(Image)
    OBVIOUS
  <1> HIDE DEF size
  <1>1. CASE UNCHANGED <<linkVars, cur>>
    BY <1>0, <1>1 DEF FlowInv, linkVars, Running, Request
  <1>2. CASE HostStart
    <2>1. cur' = "none"
      BY <1>2, RestartFacts DEF HostStart
    <2>2. host' = [stage |-> "begin", waits |-> FALSE, seq |-> 1, offset |-> 0]
      BY <1>2 DEF HostStart, HostOff
    <2>3. /\ host' \in [stage : DOMAIN Cmd \cup {"off", "app", "passed", "failed"},
                        waits : BOOLEAN, seq : Nat, offset : 0 .. size]
          /\ host'.stage = "begin" /\ host'.waits = FALSE /\ host'.offset = 0
      BY <2>2, CmdFacts, <1>s
    <2>4. wire' = NoFrame /\ back' = NoStatus
      BY <1>2 DEF HostStart
    <2>5. QED
      BY <2>1, <2>3, <2>4, <1>b DEF FlowInv, Running
  <1>3. CASE HostSend
    <2>1. Running /\ ~host.waits /\ host' = [host EXCEPT !.waits = TRUE]
      BY <1>3 DEF HostSend, Running
    <2>2. host' \in [stage : DOMAIN Cmd \cup {"off", "app", "passed", "failed"},
                     waits : BOOLEAN, seq : Nat, offset : 0 .. size]
      BY <1>0, <2>1, <1>b DEF FlowInv
    <2>3. host'.stage = host.stage /\ host'.offset = host.offset /\ host'.seq = host.seq
          /\ host'.waits
      BY <1>0, <2>1 DEF FlowInv
    <2>4. wire' = Request /\ UNCHANGED <<back, cur>>
      BY <1>3 DEF HostSend, Request, deviceVars
    <2>5. Request' = Request /\ Running'
      BY <2>1, <2>3 DEF Request, Running
    <2>6. wire'.cmd = Cmd[host.stage] /\ wire'.offset = (IF host.stage = "write" THEN host.offset ELSE 0)
          /\ wire'.chunk = (IF host.stage = "write" THEN BlockAt(host.offset) ELSE <<>>)
      BY <2>4 DEF Request
    <2>7. wire'.cmd = "WRITE_BLOCK" =>
            wire'.offset \in 0 .. OffsetMod - 1 /\ wire'.chunk \in Chunks
      <3>1. CASE host.stage = "write"
        <4>1. host.offset \in 0 .. size - 1
          BY <1>0, <3>1, <1>s, <1>b DEF FlowInv
        <4>2. BlockAt(host.offset) \in Chunks
          BY <4>1, UpdateAssumption, <1>b
        <4>3. size <= AppUnits /\ AppUnits < OffsetMod /\ AppUnits \in Nat /\ OffsetMod \in Nat
          BY ImageFits, <1>b
        <4>4. QED
          BY <2>6, <3>1, <4>1, <4>2, <4>3, <1>s
      <3>2. CASE host.stage # "write"
        BY <2>1, <2>6, <3>2, CmdFacts DEF Running
      <3>3. QED
        BY <3>1, <3>2
    <2>8. wire'.cmd \in {"BEGIN", "WRITE_BLOCK", "VERIFY", "COMMIT"}
      BY <2>1, <2>6, CmdFacts DEF Running
    <2>9. cur = "none" /\ back = NoStatus
      BY <1>0, <2>1 DEF FlowInv
    <2>10. QED
      BY <1>0, <1>b, <2>1, <2>2, <2>3, <2>4, <2>5, <2>7, <2>8, <2>9, CmdFacts
         DEF FlowInv, Running
  <1>4. CASE HostHears
    <2>1. Running /\ host.waits /\ wire = NoFrame /\ cur = "none" /\ back' = NoStatus
          /\ UNCHANGED <<wire, cur>>
      BY <1>0, <1>4 DEF HostHears, FlowInv, deviceVars
    <2>2. CASE host' = host
      BY <1>0, <2>1, <2>2 DEF FlowInv, Running
    <2>3. CASE host' = [host EXCEPT !.stage = "failed", !.waits = FALSE]
      <3>1. /\ host' \in [stage : DOMAIN Cmd \cup {"off", "app", "passed", "failed"},
                          waits : BOOLEAN, seq : Nat, offset : 0 .. Core!Size(Image)]
            /\ host'.stage = "failed" /\ host'.waits = FALSE
        BY <1>0, <2>3 DEF FlowInv
      <3>2. QED
        BY <2>1, <3>1, CmdFacts DEF FlowInv, Running
    <2>4. CASE host' = [stage |-> NextStage, waits |-> FALSE, seq |-> host.seq + 1,
                        offset |-> IF host.stage = "write" THEN BlockEnd ELSE host.offset]
      <3>1. host.stage = "write" => BlockEnd \in 0 .. size
        BY <1>0, <1>s, <1>b, BlockFacts DEF FlowInv, BlockEnd
      <3>2. /\ host'.stage = NextStage /\ host'.waits = FALSE /\ host'.seq \in Nat
            /\ host'.offset \in 0 .. size
            /\ host'.offset = IF host.stage = "write" THEN BlockEnd ELSE host.offset
        BY <1>0, <1>b, <2>4, <3>1 DEF FlowInv
      <3>3. /\ NextStage \in {"write", "verify", "commit", "app"}
            /\ NextStage = "write" =>
                 host.stage = "begin" \/ (host.stage = "write" /\ BlockEnd # size)
        BY <2>1, CmdFacts, <1>b DEF NextStage, Running
      <3>4. host'.stage = "write" => host'.offset < size
        BY <1>0, <1>s, <3>1, <3>2, <3>3 DEF FlowInv
      <3>5. host' \in [stage : DOMAIN Cmd \cup {"off", "app", "passed", "failed"},
                       waits : BOOLEAN, seq : Nat, offset : 0 .. size]
        BY <2>4, <3>2, <3>3, CmdFacts
      <3>6. QED
        BY <1>b, <2>1, <3>2, <3>3, <3>4, <3>5 DEF FlowInv, Running
    <2>5. QED
      BY <1>4, <2>2, <2>3, <2>4 DEF HostHears
  <1>5. CASE HostSeesApp \/ HostTimesOut
    <2>1. PICK stage \in {"passed", "failed"} : host'.stage = stage
      BY <1>0, <1>5 DEF HostSeesApp, HostTimesOut, FlowInv
    <2>2. host'.waits = FALSE
      BY <1>0, <1>5, CmdFacts DEF HostSeesApp, HostTimesOut, FlowInv, Running
    <2>3. host' \in [stage : DOMAIN Cmd \cup {"off", "app", "passed", "failed"},
                     waits : BOOLEAN, seq : Nat, offset : 0 .. Core!Size(Image)]
      BY <1>0, <1>5 DEF HostSeesApp, HostTimesOut, FlowInv
    <2>4. host'.stage = "passed" => host.stage = "app"
      BY <1>0, <1>5 DEF HostSeesApp, HostTimesOut, FlowInv
    <2>5. UNCHANGED <<wire, back, cur>>
      BY <1>5 DEF HostSeesApp, HostTimesOut, deviceVars
    <2>6. QED
      BY <1>0, <2>1, <2>2, <2>3, <2>4, <2>5, CmdFacts DEF FlowInv, Running
  <1>6. CASE LoseRequest \/ LoseStatus
    BY <1>0, <1>6 DEF LoseRequest, LoseStatus, FlowInv, Running, Request, deviceVars
  <1>7. CASE Receive
    <2>1. cur = "none" /\ wire # NoFrame /\ wire' = NoFrame /\ host' = host
      BY <1>7 DEF Receive, Device!Listening
    <2>2. Running => wire = Request /\ host.waits /\ back = NoStatus
      BY <1>0, <2>1 DEF FlowInv
    <2>3. \/ cur' = cur
          \/ back' = back /\ cur' = wire.cmd
      BY <1>7 DEF Receive, deviceVars
    <2>4. wire = Request => wire.cmd = Cmd[host.stage]
      BY DEF Request
    <2>5. QED
      BY <1>0, <2>1, <2>2, <2>3, <2>4 DEF FlowInv, Running
  <1>8. CASE Respond
    <2>1. cur # "none" /\ cur' = "none" /\ UNCHANGED <<host, wire>>
      BY <1>8, RestartFacts DEF Respond, Device!Respond
    <2>2. QED
      BY <1>0, <2>1 DEF FlowInv, Running
  <1>9. CASE PowerCut
    <2>1. cur' = "none" /\ wire' = NoFrame /\ UNCHANGED <<host, back>>
      BY <1>9, RestartFacts DEF PowerCut
    <2>2. QED
      BY <1>0, <2>1 DEF FlowInv, Running
  <1>10. QED
    BY <1>1, <1>2, <1>3, <1>4, <1>5, <1>6, <1>7, <1>8, <1>9, DeviceStepFacts
       DEF Next, Step, vars, deviceVars, linkVars

-----------------------------------------------------------------------------
(* What the receiver does in a command. *)

LEMMA ContextType ==
  ASSUME LinkInv
  PROVE  /\ ctx \in Dev!Rcv!Ctx /\ op \in Dev!Rcv!Op
         /\ op.kind = "erase" => ctx.state = "PREPARING"
         /\ op.kind = "program" => ctx.state = "RECEIVING"
         /\ op.kind = "commit" => ctx.state = "PENDING_COMMIT"
  BY DEF LinkInv, Dev!AlwaysInv, Dev!Rcv!CoreInv, Dev!Rcv!CoreType,
         Dev!Rcv!Erasing, Dev!Rcv!Programming, Dev!Rcv!Admitted, Dev!Rcv!Receiving

\* A command that begins: what it leaves to be done, and what it may answer at once.
LEMMA CallFacts ==
  ASSUME LinkInv, Receive, wire.seq # lastSeq
  PROVE  /\ cur' = wire.cmd /\ UNCHANGED <<app, worn>>
         /\ op'.kind = "erase" => wire.cmd = "BEGIN"
         /\ op'.kind = "program" =>
              /\ wire.cmd = "WRITE_BLOCK" /\ op'.chunk = wire.chunk
              /\ ctx'.offset = ctx.offset /\ ctx.offset = wire.offset
         /\ op'.kind = "commit" => wire.cmd = "COMMIT"
         /\ ctx'.state \notin {"IDLE", "FAILED"} => ctx'.man = Image
         /\ wire.cmd = "COMMIT" \/ op'.kind # "none" => reply' # "ok"
         /\ wire.cmd = "WRITE_BLOCK" /\ reply' = "ok" => Core!Written(wire.offset, wire.chunk)
  <1>1. wire.cmd \in {"BEGIN", "WRITE_BLOCK", "VERIFY", "COMMIT"}
    BY DEF LinkInv, FlowInv, Receive
  <1>2. cur' = wire.cmd /\ Perform(wire)
    BY DEF Receive
  <1>3. ctx \in Dev!Rcv!Ctx /\ (ctx.state \notin {"IDLE", "FAILED"} => ctx.man = Image)
    BY ContextType DEF LinkInv, WorkInv
  <1>4. CASE wire.cmd = "BEGIN"
    <2>1. Core!Begin(Image, TRUE)
      BY <1>2, <1>4 DEF Perform
    <2>2. /\ UNCHANGED <<app, worn>>
          /\ ctx' = [Core!InitCtx EXCEPT !.man = Image, !.state = "PREPARING"]
          /\ op' = [Core!NoOp EXCEPT !.kind = "erase"] /\ reply' = "busy"
      BY <2>1, UpdateAssumption DEF Core!Begin
    <2>3. ctx'.man = Image /\ op'.kind = "erase"
      BY <2>2 DEF Core!InitCtx, Core!NoOp
    <2>4. QED
      BY <1>2, <1>4, <2>2, <2>3
  <1>5. CASE wire.cmd = "WRITE_BLOCK"
    BY <1>2, <1>3, <1>5
       DEF Perform, Core!WriteChunk, Core!DuplicateChunk, Core!NoOp, Core!Fail,
           Core!Refuse, Core!Answer, Dev!Rcv!Ctx
  <1>6. CASE wire.cmd = "VERIFY"
    BY <1>2, <1>3, <1>6
       DEF Perform, Core!Verify, Core!NoOp, Core!Fail, Core!Refuse, Core!Answer, Dev!Rcv!Ctx
  <1>7. CASE wire.cmd = "COMMIT"
    BY <1>2, <1>3, <1>7
       DEF Perform, Core!Commit, Core!NoOp, Core!Refuse, Core!Answer, Dev!Rcv!Ctx
  <1>8. QED
    BY <1>1, <1>4, <1>5, <1>6, <1>7

\* A command that goes on.
LEMMA WorkFacts ==
  ASSUME LinkInv, Device!Core!Step
  PROVE  /\ op.kind \in {"erase", "program", "commit"} /\ op'.kind \in {op.kind, "none"}
         /\ op'.kind = "program" => op'.chunk = op.chunk /\ ctx' = ctx
         /\ ctx'.state \notin {"IDLE", "FAILED"} =>
              ctx'.man = ctx.man /\ ctx.state \notin {"IDLE", "FAILED"}
         /\ op'.kind # "none" => reply' # "ok"
         /\ op.kind = "commit" /\ reply' = "ok" => ctx'.state = "COMMITTED"
         /\ op.kind = "commit" => UNCHANGED <<app, worn>>
  <1>1. ctx \in Dev!Rcv!Ctx /\ op \in Dev!Rcv!Op /\ (op.kind # "none" => reply # "ok")
    BY ContextType DEF LinkInv, WorkInv
  <1>2. CASE Device!Core!EraseSector \/ Device!Core!EraseSectorFails
    BY <1>1, <1>2, ContextType
       DEF Device!Core!EraseSector, Device!Core!EraseSectorFails, Device!Core!Answer,
           Device!Core!NoOp, Device!Core!Fail, Dev!Rcv!Ctx, Dev!Rcv!Op
  <1>3. CASE Device!Core!ProgramUnit \/ Device!Core!ProgramUnitWorn
    <2>1. op.kind = "program" /\ ctx.state = "RECEIVING" /\ Device!Core!UnitIsDone
      BY <1>3, ContextType DEF Device!Core!ProgramUnit, Device!Core!ProgramUnitWorn
    <2>2. CASE op' = [op EXCEPT !.pos = @ + 1] /\ UNCHANGED <<ctx, reply, got>>
      BY <1>1, <2>1, <2>2 DEF Dev!Rcv!Op
    <2>3. CASE op' = Device!Core!NoOp /\ ctx'.man = ctx.man
      BY <2>1, <2>3 DEF Device!Core!NoOp
    <2>4. \/ op' = [op EXCEPT !.pos = @ + 1] /\ UNCHANGED <<ctx, reply, got>>
          \/ op' = Device!Core!NoOp /\ ctx'.man = ctx.man
      BY <1>1, <2>1 DEF Device!Core!UnitIsDone, Device!Core!Answer, Dev!Rcv!Ctx
    <2>5. QED
      BY <2>2, <2>3, <2>4
  <1>4. CASE Device!Core!ProgramUnitFails
    BY <1>1, <1>4, ContextType
       DEF Device!Core!ProgramUnitFails, Device!Core!Answer, Device!Core!NoOp,
           Device!Core!Fail, Dev!Rcv!Ctx
  <1>5. CASE Device!Core!CommitStep
    BY <1>1, <1>5, ContextType
       DEF Device!Core!CommitStep, Device!Core!Answer, Device!Core!NoOp, Device!Core!Fail,
           Dev!Rcv!Ctx, Dev!Rcv!Op
  <1>6. QED
    BY <1>2, <1>3, <1>4, <1>5 DEF Device!Core!Step

LEMMA WorkStep == ASSUME LinkInv, [Next]_vars PROVE WorkInv'
  <1>0. WorkInv /\ FlowInv
    BY DEF LinkInv
  <1>1. CASE UNCHANGED <<host, deviceVars>>
    BY <1>0, <1>1 DEF WorkInv, deviceVars
  <1>2. CASE HostStart \/ PowerCut
    BY <1>2, RestartFacts DEF HostStart, PowerCut, WorkInv
  <1>3. CASE HostSend
    <2>1. host'.stage = host.stage /\ host'.offset = host.offset
      BY <1>0, <1>3 DEF HostSend, FlowInv
    <2>2. QED
      BY <1>0, <1>3, <2>1 DEF HostSend, WorkInv, deviceVars
  <1>4. CASE HostHears
    <2>1. cur = "none"
      BY <1>0, <1>4 DEF HostHears, FlowInv
    <2>2. QED
      BY <1>0, <1>4, <2>1, Rests DEF HostHears, WorkInv, deviceVars
  <1>5. CASE HostSeesApp \/ HostTimesOut
    <2>1. host'.stage # "write"
      BY <1>0, <1>5 DEF HostSeesApp, HostTimesOut, FlowInv
    <2>2. QED
      BY <1>0, <1>5, <2>1 DEF HostSeesApp, HostTimesOut, WorkInv, deviceVars
  <1>6. CASE Receive /\ wire.seq # lastSeq
    <2>1. host' = host /\ wire # NoFrame
      BY <1>6 DEF Receive
    <2>2. host.stage = "write" => wire = Request
      BY <1>0, <2>1, CmdFacts DEF FlowInv, Running
    <2>3. host.stage = "write" => wire.chunk = BlockAt(host.offset) /\ wire.offset = host.offset
      BY <2>2 DEF Request
    <2>4. QED
      BY <1>6, <2>1, <2>3, CallFacts DEF WorkInv
  <1>7. CASE Respond
    <2>1. CASE cur = "COMMIT" /\ reply = "ok"
      BY <1>7, <2>1, RestartFacts DEF Respond, Device!Respond, WorkInv
    <2>2. CASE ~(cur = "COMMIT" /\ reply = "ok")
      <3>1. cur' = "none" /\ op.kind = "none" /\ UNCHANGED <<ctx, op>>
        BY <1>7, <2>2 DEF Respond, Device!Respond, Device!Core!Ready, Device!coreVars
      <3>2. QED
        BY <1>0, <3>1 DEF WorkInv
    <2>3. QED
      BY <2>1, <2>2
  <1>8. CASE DeviceStep
    <2>1. UNCHANGED <<host, cur>>
      BY <1>8, DeviceStepFacts DEF linkVars
    <2>2. CASE UNCHANGED <<app, ctx, op, reply, got, worn>>
      BY <1>0, <2>1, <2>2 DEF WorkInv
    <2>3. CASE Device!Core!Step
      BY <1>0, <2>1, <2>3, WorkFacts DEF WorkInv
    <2>4. QED
      BY <1>8, <2>2, <2>3, DeviceStepFacts
  <1>9. QED
    BY <1>1, <1>2, <1>3, <1>4, <1>5, <1>6, <1>7, <1>8
       DEF Next, Step, vars, linkVars, LoseRequest, LoseStatus, Receive

-----------------------------------------------------------------------------
(* What the host was promised. *)

LEMMA StoredStays ==
  /\ \A n : UNCHANGED <<app, worn>> /\ Stored(n) => Stored(n)'
  /\ app' = app /\ Core!Holds(Image) => Core!Holds(Image)'
  BY DEF Stored, Core!Holds

\* The read-back of a repeated block, and the blocks before it, are all there.
LEMMA WrittenIsStored ==
  ASSUME host.offset \in 0 .. Core!Size(Image) - 1, Stored(host.offset),
         Core!Written(host.offset, BlockAt(host.offset))
  PROVE  Stored(BlockEnd)
  <1>1. /\ BlockEnd \in host.offset + 1 .. Core!Size(Image)
        /\ Len(BlockAt(host.offset)) = BlockEnd - host.offset
        /\ \A k \in 1 .. BlockEnd - host.offset :
             BlockAt(host.offset)[k] = Content[Image][host.offset + k]
    BY BlockFacts DEF BlockEnd
  <1>2. \A k \in 1 .. BlockEnd - host.offset :
          app[host.offset + k - 1] = Content[Image][host.offset + k]
    BY <1>1 DEF Core!Written
  <1>3. ASSUME NEW k \in host.offset + 1 .. BlockEnd PROVE app[k - 1] = Content[Image][k]
    <2>1. k - host.offset \in 1 .. BlockEnd - host.offset
          /\ host.offset + (k - host.offset) = k
      BY <1>1, ImageFits
    <2>2. QED
      BY <1>2, <2>1
  <1>4. ASSUME NEW k \in 1 .. BlockEnd PROVE app[k - 1] = Content[Image][k] \/ k - 1 \in worn
    <2>1. k \in 1 .. host.offset \/ k \in host.offset + 1 .. BlockEnd
      BY <1>1, ImageFits
    <2>2. QED
      BY <1>3, <2>1 DEF Stored
  <1>5. QED
    BY <1>4 DEF Stored

\* Programming a block leaves the earlier ones alone, and ends with all of it stored.
LEMMA ProgrammedIsStored ==
  ASSUME LinkInv, Device!Core!Step, op.kind = "program", host.stage = "write",
         Dev!Rcv!CoreInv', UNCHANGED host
  PROVE  Stored(host.offset)' /\ (reply' = "ok" => Stored(BlockEnd)')
  <1> DEFINE n == host.offset
  <1>1. /\ Stored(n) /\ ctx.offset = n /\ op.chunk = BlockAt(n) /\ reply # "ok"
        /\ n \in 0 .. Core!Size(Image) - 1
    BY ImageFits DEF LinkInv, WorkInv, FlowInv, PromiseInv
  <1>2. op.pos \in Nat /\ n \in Nat
    BY <1>1, ContextType, ImageFits DEF Dev!Rcv!Op, Dev!Rcv!Units
  <1>3. CASE Device!Core!ProgramUnitFails
    BY <1>1, <1>3, StoredStays
       DEF Device!Core!ProgramUnitFails, Device!Core!Fail, Device!Core!Answer
  <1>4. CASE Device!Core!ProgramUnit \/ Device!Core!ProgramUnitWorn
    <2>0. Device!Core!UnitIsDone /\ worn \subseteq worn'
      BY <1>4 DEF Device!Core!ProgramUnit, Device!Core!ProgramUnitWorn
    <2>1. \A k \in 1 .. n : app'[k - 1] = app[k - 1]
      <3>1. PICK v : app' = [app EXCEPT ![n + op.pos] = v]
        BY <1>1, <1>4 DEF Device!Core!ProgramUnit, Device!Core!ProgramUnitWorn,
                          Device!Core!Place
      <3>2. app \in [0 .. AppUnits - 1 -> Data \cup {Junk}] /\ n <= AppUnits
        BY <1>1, ImageFits
           DEF LinkInv, Dev!AlwaysInv, Dev!Rcv!CoreInv, Dev!Rcv!CoreType, Dev!Rcv!Units
      <3>3. QED
        BY <1>2, <3>1, <3>2, ImageFits
    <2>2. Stored(n)'
      BY <1>1, <2>0, <2>1 DEF Stored
    <2>3. ASSUME reply' = "ok" PROVE Stored(BlockEnd)'
      <3>1. got' = got \o op.chunk /\ ctx'.state = "RECEIVING"
        BY <1>1, <1>4, <2>0, <2>3, ContextType
           DEF Device!Core!UnitIsDone, Device!Core!ProgramUnit, Device!Core!ProgramUnitWorn,
               Dev!Rcv!Ctx
      <3>2. Len(got) = n /\ got \in Seq(Data) /\ op.chunk \in Seq(Data)
        BY <1>1, ContextType, UpdateAssumption
           DEF LinkInv, Dev!AlwaysInv, Dev!Rcv!CoreInv, Dev!Rcv!CoreType,
               Dev!Rcv!AcceptedBytesAreStored, Dev!Rcv!Programming,
               Core!CoreAssumption
      <3>3. \A k \in 1 .. Len(got') : app'[k - 1] = got'[k] \/ k - 1 \in worn'
        BY <3>1 DEF Dev!Rcv!CoreInv, Dev!Rcv!AcceptedBytesAreStored
      <3>4. /\ BlockEnd \in n + 1 .. Core!Size(Image)
            /\ Len(op.chunk) = BlockEnd - n
            /\ \A k \in 1 .. BlockEnd - n : op.chunk[k] = Content[Image][n + k]
        BY <1>1, BlockFacts DEF BlockEnd
      <3>5. Len(got') = BlockEnd
            /\ \A k \in n + 1 .. BlockEnd : got'[k] = op.chunk[k - n]
        <4>1. /\ Len(got \o op.chunk) = n + Len(op.chunk)
              /\ \A m \in 1 .. Len(op.chunk) : (got \o op.chunk)[n + m] = op.chunk[m]
          BY <3>2
        <4>2. ASSUME NEW k \in n + 1 .. BlockEnd PROVE got'[k] = op.chunk[k - n]
          <5>1. k - n \in 1 .. Len(op.chunk) /\ n + (k - n) = k
            BY <1>2, <3>4, ImageFits
          <5>2. QED
            BY <3>1, <4>1, <5>1
        <4>3. n + (BlockEnd - n) = BlockEnd
          BY <1>2, <3>4, ImageFits
        <4>4. Len(got') = BlockEnd
          BY <3>1, <3>4, <4>1, <4>3
        <4>5. QED
          BY <4>2, <4>4
      <3>6. ASSUME NEW k \in n + 1 .. BlockEnd
            PROVE  app'[k - 1] = Content[Image][k] \/ k - 1 \in worn'
        <4>1. k \in 1 .. Len(got') /\ k - n \in 1 .. BlockEnd - n /\ n + (k - n) = k
          BY <1>2, <3>4, <3>5, ImageFits
        <4>2. QED
          BY <3>3, <3>4, <3>5, <4>1
      <3>7. BlockEnd' = BlockEnd
        BY DEF BlockEnd
      <3>8. \A k \in 1 .. BlockEnd : app'[k - 1] = Content[Image][k] \/ k - 1 \in worn'
        BY <1>2, <2>2, <3>4, <3>6, ImageFits DEF Stored
      <3>9. QED
        BY <3>7, <3>8 DEF Stored
    <2>4. QED
      BY <2>2, <2>3
  <1>5. QED
    BY <1>3, <1>4
       DEF Device!Core!Step, Device!Core!EraseSector, Device!Core!EraseSectorFails,
           Device!Core!CommitStep

\* A command that goes on leaves the promised units alone: only the erasing of a new run and
\* the programming of the block in progress write into the area.
LEMMA WorkKeepsPromise ==
  ASSUME LinkInv, Device!Core!Step, UNCHANGED <<host, back, cur>>, Dev!Rcv!CoreInv'
  PROVE  PromiseInv'
  <1>1. /\ cur # "none" /\ (Running => cur = Cmd[host.stage] /\ back = NoStatus)
        /\ host.stage \notin {"app", "passed"}
    BY WorkFacts, Rests, NoAnswer DEF LinkInv, FlowInv
  <1>2. back.status # "ok" \/ host.stage \notin {"write", "commit"}
    BY <1>1, NoAnswer, CmdFacts DEF Running
  <1>3. CASE host.stage = "write"
    <2>1. op.kind = "program"
      BY <1>1, <1>3, WorkFacts, CmdFacts DEF Running, LinkInv, WorkInv
    <2>2. QED
      BY <1>2, <1>3, <2>1, ProgrammedIsStored DEF PromiseInv, Told
  <1>4. CASE host.stage \in {"verify", "commit"}
    <2>1. op.kind = "commit"
      BY <1>1, <1>4, WorkFacts, CmdFacts DEF Running, LinkInv, WorkInv
    <2>2. Stored(host.offset)'
      BY <1>4, <2>1, WorkFacts, StoredStays DEF LinkInv, PromiseInv
    <2>3. QED
      BY <1>2, <1>4, <2>2 DEF PromiseInv, Told
  <1>5. QED
    BY <1>1, <1>3, <1>4 DEF PromiseInv, Told

\* A cut of the power leaves the promised units alone too: the unit it may spoil is the one
\* being programmed, behind them.
LEMMA PowerCutKeepsPromise == ASSUME LinkInv, PowerCut PROVE PromiseInv'
  <1>1. /\ UNCHANGED <<host, back, worn>> /\ cur' = "none" /\ Device!Core!PowerCut
        /\ op.kind = "none" => app' = app
    BY RestartFacts DEF PowerCut, Device!PowerCut
  <1>3. (host.stage \in {"write", "commit"} /\ back.status = "ok")
          \/ host.stage \in {"app", "passed"} => app' = app
    BY <1>1, Rests, NoAnswer, CmdFacts DEF LinkInv, FlowInv, Running
  <1>4. host.stage \in {"write", "verify", "commit"} => Stored(host.offset)'
    <2>1. CASE app' = app
      BY <1>1, <2>1, StoredStays DEF LinkInv, PromiseInv
    <2>2. CASE op.kind = "erase"
      BY <2>2, CmdFacts DEF LinkInv, WorkInv, FlowInv, Running
    <2>3. CASE op.kind = "program" /\ app' = [app EXCEPT ![ctx.offset + op.pos] = Junk]
      <3>1. SUFFICES ASSUME host.stage = "write" PROVE Stored(host.offset)'
        BY <2>3, CmdFacts DEF LinkInv, WorkInv, FlowInv, Running
      <3>2. /\ ctx.offset = host.offset /\ Stored(host.offset)
            /\ host.offset \in 0 .. Core!Size(Image) - 1 /\ op.pos \in Nat
        BY <2>3, <3>1, ContextType, ImageFits
           DEF LinkInv, WorkInv, FlowInv, PromiseInv, Dev!Rcv!Op, Dev!Rcv!Units
      <3>3. app \in [0 .. AppUnits - 1 -> Data \cup {Junk}]
        BY DEF LinkInv, Dev!AlwaysInv, Dev!Rcv!CoreInv, Dev!Rcv!CoreType, Dev!Rcv!Units
      <3>4. \A k \in 1 .. host.offset : app'[k - 1] = app[k - 1]
        BY <2>3, <3>2, <3>3, ImageFits
      <3>5. QED
        BY <1>1, <3>2, <3>4 DEF Stored
    <2>4. QED
      BY <1>1, <2>1, <2>2, <2>3
         DEF Device!Core!PowerCut, Device!Core!TornApp, Device!Core!Place
  <1>5. host.stage = "write" /\ back.status = "ok" => Stored(BlockEnd)'
    BY <1>1, <1>3, StoredStays DEF LinkInv, PromiseInv, BlockEnd
  <1>6. Told' => Core!Holds(Image)'
    BY <1>1, <1>3, StoredStays DEF LinkInv, PromiseInv, Told
  <1>7. QED
    BY <1>1, <1>4, <1>5, <1>6 DEF PromiseInv

\* The status of a successful COMMIT is believed for good reason: VERIFY has read the image
\* back, whatever cells failed.
LEMMA CommittedIsWhole ==
  ASSUME LinkInv, cur = "COMMIT", reply = "ok"
  PROVE  Core!Holds(Image) /\ ctx.state = "COMMITTED" /\ ctx.man = Image
  BY SameSize
     DEF LinkInv, WorkInv, Dev!AlwaysInv, Dev!Rcv!CoreInv, Dev!Rcv!VerifiedImageIntact

LEMMA PromiseStep ==
  ASSUME LinkInv, [Next]_vars, Dev!AlwaysInv'
  PROVE  PromiseInv'
  <1>0. PromiseInv /\ FlowInv /\ WorkInv /\ Dev!Rcv!CoreInv'
    BY DEF LinkInv, Dev!AlwaysInv
  <1>1. CASE UNCHANGED <<host, deviceVars>> /\ (back' = back \/ back' = NoStatus)
    BY <1>0, <1>1, StoredStays, NoAnswer DEF PromiseInv, deviceVars, Told, BlockEnd
  <1>2. CASE HostStart
    BY <1>2 DEF HostStart, HostOff, PromiseInv, Told
  <1>3. CASE HostSend
    <2>1. /\ host'.stage = host.stage /\ host'.offset = host.offset
          /\ UNCHANGED <<back, deviceVars>>
      BY <1>0, <1>3 DEF HostSend, FlowInv
    <2>2. QED
      BY <1>0, <2>1, StoredStays DEF PromiseInv, deviceVars, Told, BlockEnd, Stored
  <1>4. CASE HostHears
    <2>1. /\ Running /\ cur = "none" /\ back' = NoStatus /\ UNCHANGED deviceVars
          /\ host.offset \in 0 .. Core!Size(Image)
      BY <1>0, <1>4 DEF HostHears, FlowInv
    <2>2. CASE host' = host
      BY <1>1, <2>1, <2>2
    <2>3. CASE host' = [host EXCEPT !.stage = "failed", !.waits = FALSE]
      <3>1. host'.stage = "failed"
        BY <1>0, <2>3 DEF FlowInv
      <3>2. QED
        BY <3>1 DEF PromiseInv, Told
    <2>4. CASE /\ back.status = "ok"
               /\ host' = [stage |-> NextStage, waits |-> FALSE, seq |-> host.seq + 1,
                           offset |-> IF host.stage = "write" THEN BlockEnd ELSE host.offset]
      <3>1. /\ host'.stage = NextStage
            /\ host'.offset = IF host.stage = "write" THEN BlockEnd ELSE host.offset
        BY <2>4
      <3>2. CASE host.stage = "begin"
        <4>1. host'.stage = "write" /\ host'.offset = 0
          BY <1>0, <3>1, <3>2 DEF NextStage, FlowInv
        <4>2. QED
          BY <2>1, <4>1, NoAnswer DEF PromiseInv, Told, Stored, deviceVars
      <3>3. CASE host.stage = "write"
        <4>1. host'.stage \in {"write", "verify"} /\ host'.offset = BlockEnd
          BY <3>1, <3>3 DEF NextStage
        <4>2. Stored(BlockEnd) /\ UNCHANGED <<app, worn>>
          BY <1>0, <2>1, <2>4, <3>3 DEF PromiseInv, deviceVars
        <4>3. Stored(host.offset)'
          BY <4>1, <4>2 DEF Stored
        <4>4. QED
          BY <2>1, <4>1, <4>3, NoAnswer DEF PromiseInv, Told, deviceVars
      <3>4. CASE host.stage = "verify"
        <4>1. host'.stage = "commit" /\ host'.offset = host.offset
          BY <3>1, <3>4 DEF NextStage
        <4>2. QED
          BY <1>0, <2>1, <3>4, <4>1, NoAnswer DEF PromiseInv, Told, Stored, deviceVars
      <3>5. CASE host.stage = "commit"
        <4>1. host'.stage = "app"
          BY <3>1, <3>5 DEF NextStage
        <4>2. Core!Holds(Image)'
          BY <1>0, <2>1, <2>4, <3>5, StoredStays DEF PromiseInv, Told, deviceVars
        <4>3. QED
          BY <4>1, <4>2 DEF PromiseInv
      <3>6. QED
        BY <2>1, <3>2, <3>3, <3>4, <3>5, CmdFacts DEF Running
    <2>5. QED
      BY <1>4, <2>2, <2>3, <2>4 DEF HostHears
  <1>5. CASE HostSeesApp
    <2>1. host.stage = "app" /\ host'.stage = "passed" /\ UNCHANGED deviceVars
      BY <1>0, <1>5 DEF HostSeesApp, FlowInv
    <2>2. QED
      BY <1>0, <2>1, StoredStays DEF PromiseInv, Told, deviceVars
  <1>6. CASE HostTimesOut
    <2>1. host'.stage = "failed"
      BY <1>0, <1>6 DEF HostTimesOut, FlowInv
    <2>2. QED
      BY <2>1 DEF PromiseInv, Told
  <1>7. CASE Receive
    <2>1. host' = host /\ wire # NoFrame /\ host.stage \notin {"app", "passed"}
      BY <1>0, <1>7 DEF Receive, FlowInv
    <2>2. Running => wire = Request /\ back = NoStatus
      BY <1>0, <2>1 DEF FlowInv
    <2>3. CASE wire.seq = lastSeq
      <3>1. /\ UNCHANGED deviceVars
            /\ back' = [seq |-> wire.seq, cmd |-> wire.cmd, status |-> "duplicate"]
        BY <1>7, <2>3 DEF Receive
      <3>2. back'.status = "duplicate"
        BY <3>1
      <3>3. QED
        BY <1>0, <2>1, <3>1, <3>2, StoredStays DEF PromiseInv, Told, deviceVars, BlockEnd
    <2>4. CASE wire.seq # lastSeq
      <3>1. UNCHANGED <<app, worn, back>>
        BY <1>7, <2>4, CallFacts DEF Receive
      <3>2. CASE host.stage = "write"
        <4>1. /\ back.status = "none" /\ wire.cmd = "WRITE_BLOCK"
              /\ wire.offset = host.offset /\ wire.chunk = BlockAt(host.offset)
          BY <2>2, <3>2, NoAnswer, CmdFacts DEF Running, Request
        <4>2. Stored(host.offset) /\ host.offset \in 0 .. Core!Size(Image) - 1
          BY <1>0, <3>2, ImageFits DEF PromiseInv, FlowInv
        <4>3. reply' = "ok" => Stored(BlockEnd)
          BY <1>7, <2>4, <4>1, <4>2, CallFacts, WrittenIsStored
        <4>4. QED
          BY <2>1, <3>1, <3>2, <4>1, <4>2, <4>3, StoredStays DEF PromiseInv, Told, BlockEnd
      <3>3. CASE host.stage # "write"
        BY <1>0, <2>1, <2>2, <3>1, <3>3, StoredStays, NoAnswer, CmdFacts
           DEF PromiseInv, Told, Running
      <3>4. QED
        BY <3>2, <3>3
    <2>5. QED
      BY <2>3, <2>4
  <1>8. CASE Respond
    <2>1. /\ cur # "none" /\ cur' = "none" /\ host' = host /\ back'.status = reply
          /\ host.stage \notin {"app", "passed"} /\ (Running => cur = Cmd[host.stage])
      BY <1>0, <1>8, RestartFacts DEF Respond, Device!Respond, FlowInv
    <2>2. UNCHANGED <<app, worn>>
      BY <1>8, RestartFacts DEF Respond, Device!Respond, Device!Core!Ready, Device!coreVars
    <2>3. host.stage = "commit" /\ reply = "ok" => Core!Holds(Image)
      BY <2>1, CommittedIsWhole, CmdFacts DEF Running
    <2>4. QED
      BY <1>0, <2>1, <2>2, <2>3, StoredStays DEF PromiseInv, Told, BlockEnd
  <1>9. CASE DeviceStep
    <2>1. UNCHANGED <<host, back, cur>>
      BY <1>9, DeviceStepFacts DEF linkVars
    <2>2. CASE Device!Core!Step
      BY <1>0, <2>1, <2>2, WorkKeepsPromise
    <2>3. CASE UNCHANGED <<app, ctx, op, reply, got, worn>>
      BY <1>0, <2>1, <2>3, StoredStays DEF PromiseInv, Told, BlockEnd
    <2>4. QED
      BY <1>9, <2>2, <2>3, DeviceStepFacts
  <1>10. CASE PowerCut
    BY <1>10, PowerCutKeepsPromise
  <1>11. QED
    BY <1>1, <1>2, <1>3, <1>4, <1>5, <1>6, <1>7, <1>8, <1>9, <1>10
       DEF Next, Step, vars, linkVars, LoseRequest, LoseStatus

-----------------------------------------------------------------------------
LEMMA LinkStep == LinkInv /\ [Next]_vars => LinkInv'
  <1> SUFFICES ASSUME LinkInv, [Next]_vars PROVE LinkInv'
    OBVIOUS
  <1>1. Dev!AlwaysInv'
    BY DeviceMoves, Dev!AlwaysStep, Assumed DEF LinkInv
  <1>2. QED
    BY <1>1, FlowStep, WorkStep, PromiseStep DEF LinkInv

-----------------------------------------------------------------------------
(* The record of the new image, as long as no call is misled. *)

\* The restart that follows a successful COMMIT finds its record.
LEMMA CommittedIsRecorded ==
  ASSUME NoWrap, LinkInv, Dev!DeviceInv, Respond, [Dev!Next]_Dev!vars,
         cur = "COMMIT", reply = "ok"
  PROVE  Recorded'
  <1>1. Device!Core!PowerCut /\ op.kind = "none" /\ mode = "loader"
    BY DEF Respond, Device!Respond, Device!Core!Ready
  <1>2. ctx.state = "COMMITTED" /\ ctx.man = Image
    BY CommittedIsWhole
  <1>3. status = "ok" /\ job.rec \in Dev!Rcv!Record /\ job.rec.app = Image
        /\ Dev!Rcv!Store!Trusted
    BY <1>2 DEF Dev!DeviceInv, Dev!Rcv!CommitInv, Dev!Rcv!Carried, Dev!Rcv!TrialOf,
                Dev!Rcv!Store!OrderInv, Dev!Rcv!Store!StoreInv
  <1>4. Recorded
    <2>1. Dev!Rcv!Active(flash) = job.rec
      BY <1>3, Dev!Rcv!SameFormat, Assumed
         DEF Dev!DeviceInv, Dev!Rcv!CommitInv, Dev!Rcv!Store!OrderInv,
             Dev!Rcv!Store!AckedIsActive
    <2>2. NoRecord \notin Dev!Rcv!Record
      BY Assumed DEF Dev!Rcv!FormatAssumption
    <2>3. QED
      BY <1>3, <2>1, <2>2, SameFormat DEF Recorded
  <1>5. Active(flash') = Active(flash)
    BY <1>1, SamePowerCut, SameFormat, Dev!PowerCutKeeps, Assumed DEF NoWrap, Dev!NoWrap
  <1>6. QED
    BY <1>4, <1>5 DEF Recorded

\* Outside the loader the active record keeps its image.
LEMMA RecordedStays ==
  ASSUME NoWrap, LinkInv, Dev!DeviceInv, [Dev!Next]_Dev!vars, cur = "none", Recorded,
         DeviceStep
  PROVE  Recorded'
  <1>1. CASE flash' = flash
    BY <1>1 DEF Recorded
  <1>2. CASE flash' # flash
    <2>1. mode \in {"trial", "app"} /\ Device!Params!JobStep
      BY <1>2, Rests, WorkFacts
         DEF DeviceStep, Device!StayInLoader, Device!JumpToApp, Device!DecideTrial,
             Device!Decide, Device!BeginTrial, Device!TrialRefused, Device!TrialStep,
             Device!CommandStep, Device!AppMarksValid, Device!AppStep, Device!Params!Load,
             Device!Params!Refuse, Device!Params!MarkBootAttempted,
             Device!Params!MarkAppValid, Device!Params!WriteNext, Device!paramVars
    <2>2. job.phase # "idle"
      BY <2>1, SameJobStep, Dev!JobStepFacts, Assumed DEF LinkInv, Dev!AlwaysInv
    <2>3. job.rec.app = Dev!Active(flash).app
      BY <2>1, <2>2 DEF Dev!DeviceInv, Dev!StartedInv
    <2>4. \/ Dev!Active(flash') = Dev!Active(flash)
          \/ job.rec # NoRecord /\ Dev!Active(flash') = job.rec
      BY Dev!ActiveMoves, Assumed DEF NoWrap, Dev!NoWrap
    <2>5. QED
      BY <2>3, <2>4, SameFormat DEF Recorded
  <1>3. QED
    BY <1>1, <1>2

LEMMA RecordStep ==
  ASSUME NoWrap, LinkInv, Dev!DeviceInv, RecordInv, [Next]_vars, Told'
  PROVE  Recorded'
  <1>0. FlowInv /\ [Dev!Next]_Dev!vars
    BY DeviceMoves DEF LinkInv
  <1>1. Told => cur = "none" /\ wire = NoFrame
    BY <1>0, NoAnswer, CmdFacts DEF Told, FlowInv, Running
  <1>2. CASE Told /\ flash' = flash
    BY <1>2 DEF RecordInv, Recorded
  <1>3. CASE Told /\ DeviceStep
    BY <1>0, <1>1, <1>3, RecordedStays DEF RecordInv
  <1>4. CASE Told /\ PowerCut
    <2>1. Active(flash') = Active(flash)
      BY <1>0, <1>4, SamePowerCut, SameFormat, Dev!PowerCutKeeps, Assumed
         DEF NoWrap, Dev!NoWrap, PowerCut, Device!PowerCut
    <2>2. QED
      BY <1>4, <2>1 DEF RecordInv, Recorded
  <1>5. CASE Respond
    <2>1. host' = host /\ back'.status = reply /\ cur # "none"
      BY <1>5 DEF Respond, Device!Respond
    <2>2. host.stage = "commit" /\ reply = "ok"
      BY <1>0, <2>1 DEF Told, FlowInv
    <2>3. cur = "COMMIT"
      BY <1>0, <2>1, <2>2, CmdFacts DEF FlowInv, Running
    <2>4. QED
      BY <1>0, <1>5, <2>2, <2>3, CommittedIsRecorded
  <1>6. CASE HostStart \/ HostTimesOut
    <2>1. host'.stage \in {"begin", "failed"}
      BY <1>0, <1>6 DEF HostStart, HostOff, HostTimesOut, FlowInv
    <2>2. QED
      BY <2>1 DEF Told
  <1>7. CASE HostSend \/ HostSeesApp \/ LoseRequest \/ LoseStatus
    <2>1. flash' = flash
      BY <1>7 DEF HostSend, HostSeesApp, LoseRequest, LoseStatus, deviceVars
    <2>2. Told
      BY <1>0, <1>7, NoAnswer
         DEF Told, HostSend, HostSeesApp, LoseRequest, LoseStatus, FlowInv
    <2>3. QED
      BY <1>2, <2>1, <2>2
  <1>8. CASE HostHears
    <2>1. flash' = flash /\ back' = NoStatus
      BY <1>8 DEF HostHears, deviceVars
    <2>2. host'.stage \in {"app", "passed"}
      BY <2>1, NoAnswer DEF Told
    <2>3. Told
      <3>1. CASE host' = host
        BY <2>2, <3>1 DEF Told
      <3>2. CASE host' = [host EXCEPT !.stage = "failed", !.waits = FALSE]
        BY <1>0, <2>2, <3>2 DEF FlowInv
      <3>3. CASE /\ back.status = "ok"
                 /\ host' = [stage |-> NextStage, waits |-> FALSE, seq |-> host.seq + 1,
                             offset |-> IF host.stage = "write" THEN BlockEnd ELSE host.offset]
        <4>1. Running /\ NextStage \in {"app", "passed"}
          BY <1>0, <1>8, <2>2, <3>3 DEF HostHears, FlowInv
        <4>2. host.stage = "commit"
          BY <4>1, CmdFacts DEF Running, NextStage
        <4>3. QED
          BY <3>3, <4>2 DEF Told
      <3>4. QED
        BY <1>8, <3>1, <3>2, <3>3 DEF HostHears
    <2>4. QED
      BY <1>2, <2>1, <2>3
  <1>9. CASE Receive
    <2>1. host' = host /\ wire # NoFrame
      BY <1>9 DEF Receive
    <2>2. ~Told
      BY <1>1, <2>1
    <2>3. back' = back \/ back'.status = "duplicate"
      BY <1>9 DEF Receive
    <2>4. QED
      BY <2>1, <2>2, <2>3 DEF Told
  <1>10. CASE UNCHANGED vars
    BY <1>2, <1>10 DEF vars, linkVars, deviceVars, Told
  <1>11. Told \/ ~(DeviceStep \/ PowerCut)
    BY DEF DeviceStep, PowerCut, linkVars, Told
  <1>12. QED
    BY <1>3, <1>4, <1>5, <1>6, <1>7, <1>8, <1>9, <1>10, <1>11 DEF Next, Step

-----------------------------------------------------------------------------
LEMMA UpdateInit == Init => UpdateInv
  <1> SUFFICES ASSUME Init PROVE UpdateInv
    OBVIOUS
  <1>1. Dev!DeviceTrust
    BY SameInit, Assumed, Dev!DeviceInit DEF Init
  <1>2. /\ host = [stage |-> "off", waits |-> FALSE, seq |-> 1, offset |-> 0]
        /\ wire = NoFrame /\ back = NoStatus
    BY DEF Init, HostOff
  <1>3. cur = "none" /\ op.kind = "none" /\ ctx.state = "IDLE"
    BY DEF Init, Device!Init, Device!Core!Init, Device!Core!NoOp, Device!Core!InitCtx
  <1>4. FlowInv
    BY <1>2, <1>3, CmdFacts, ImageFits DEF FlowInv, Running
  <1>5. WorkInv /\ PromiseInv /\ RecordInv
    BY <1>2, <1>3 DEF WorkInv, PromiseInv, RecordInv, Told
  <1>6. QED
    BY <1>1, <1>4, <1>5 DEF UpdateInv, LinkInv, Dev!DeviceTrust

LEMMA UpdateStep == NoWrap /\ UpdateInv /\ [Next]_vars => UpdateInv'
  <1> SUFFICES ASSUME NoWrap, UpdateInv, [Next]_vars PROVE UpdateInv'
    OBVIOUS
  <1>1. [Dev!Next]_Dev!vars /\ LinkInv' /\ Dev!AlwaysInv
    BY DeviceMoves, LinkStep DEF UpdateInv, LinkInv
  <1>2. Dev!Rcv!Store!Trusted' => Dev!Rcv!Store!Trusted
    BY <1>1, Dev!TrustShrinks, Assumed
  <1>3. ASSUME Dev!Rcv!Store!Trusted' PROVE Dev!DeviceInv' /\ RecordInv'
    <2>1. Dev!DeviceInv /\ RecordInv
      BY <1>2, <1>3 DEF UpdateInv
    <2>2. Dev!DeviceInv'
      BY <1>1, <1>3, <2>1, Dev!DeviceStep, Assumed DEF NoWrap, Dev!NoWrap, Dev!DeviceTrust
    <2>3. QED
      BY <2>1, <2>2, RecordStep DEF UpdateInv, RecordInv
  <1>4. QED
    BY <1>1, <1>3 DEF UpdateInv

\* The host can rely on every answer, whatever is lost on the line and whenever the power is
\* cut: a block it counts is in flash, except in cells that failed unnoticed, after the
\* status of COMMIT the new image is whole in spite of these, and as long as no failing read
\* has misled a call and the sequence does not wrap it is what the device starts
\* (boot_handle_command, stc8h_ota_write_chunk, stc8h_ota_commit).
THEOREM AnswersAreKept == ASSUME NoWrap PROVE Spec => []AnswersHold
  <1>1. UpdateInv => AnswersHold
    BY DEF UpdateInv, LinkInv, PromiseInv, RecordInv, Told, AnswersHold, CommitIsBelievable,
           AcknowledgedBlocksAreStored, Stored, Recorded, Params!Trusted, Dev!Rcv!Store!Trusted
  <1>2. UpdateInv /\ [Next]_vars => UpdateInv'
    BY UpdateStep
  <1>3. QED
    BY <1>1, <1>2, UpdateInit, PTL DEF Spec

\* An update with this host and over this line, its faults included, is a behaviour of the
\* device of OtaDevice: what is proved for a device anyone may talk to holds in every update
\* (boot_process_complete_frame, boot_send_status, send_command).
THEOREM UpdateImplementsDevice == Spec => Dev!Spec
  <1>1. Init => Dev!Init /\ LinkInv
    BY SameInit, UpdateInit DEF Init, UpdateInv
  <1>2. LinkInv /\ [Next]_vars => [Dev!Next]_Dev!vars
    BY DeviceMoves DEF LinkInv
  <1>3. QED
    BY <1>1, <1>2, LinkStep, PTL DEF Spec, Dev!Spec

\* Whatever an update comes to, the device starts whole images only.  Until a failing read of
\* the parameters misleads a call it also tries a new image once before it is confirmed, has
\* no record of an image that is not in its flash, and keeps its record in one register, which
\* such a read breaks (boot_jump_existing_app_if_allowed, stc8h_ota_commit,
\* stc8h_ota_params_store.c:98-137).
THEOREM UpdateKeepsDevice ==
  ASSUME NoWrap
  PROVE  Spec => /\ []Dev!RunsWholeImagesOnce /\ Dev!RecordsFollowFlash
                 /\ Dev!Rcv!Store!RegisterSpec
  <1>0. Dev!NoWrap
    BY DEF NoWrap, Dev!NoWrap
  <1>1. Dev!Spec => []Dev!RunsWholeImagesOnce
    BY <1>0, Assumed, Dev!WholeImagesRunOnce
  <1>2. Dev!Spec => Dev!RecordsFollowFlash
    BY <1>0, Assumed, Dev!RecordsAreOfFlash
  <1>3. Dev!Spec => Dev!Rcv!Store!RegisterSpec
    BY <1>0, Assumed, Dev!DeviceKeepsRegister
  <1>4. QED
    BY <1>1, <1>2, <1>3, UpdateImplementsDevice, PTL

-----------------------------------------------------------------------------
(* Types. *)

\* A device that rests has answered, and a frame has a number, also one that
\* outlives the run it was sent in.
TypeInv ==
  /\ TypeOK /\ wire.seq \in Nat
  /\ op.kind = "none" => reply # "busy"

\* A call of the receiver is under way as long as its answer is "busy".
LEMMA AnsweredOrUnderWay ==
  ASSUME op.kind = "none" => reply # "busy", op \in Dev!Rcv!Op,
         \/ UNCHANGED <<op, reply>> \/ Device!Core!Step \/ Device!Core!PowerCut
         \/ wire.cmd \in {"BEGIN", "WRITE_BLOCK", "VERIFY", "COMMIT"} /\ Perform(wire)
  PROVE  op'.kind = "none" => reply' # "busy"
  <1> USE DEF Core!Answer, Core!NoOp, Core!Fail, Core!Refuse
  <1>1. CASE UNCHANGED <<op, reply>>
    BY <1>1
  <1>2. CASE Device!Core!Step
    <2> USE DEF Device!Core!Answer, Device!Core!NoOp, Device!Core!Fail, Dev!Rcv!Op
    <2>1. CASE Device!Core!EraseSector
      BY <2>1 DEF Device!Core!EraseSector
    <2>2. CASE Device!Core!ProgramUnit \/ Device!Core!ProgramUnitWorn
      BY <2>2 DEF Device!Core!ProgramUnit, Device!Core!ProgramUnitWorn, Device!Core!UnitIsDone
    <2>3. CASE Device!Core!EraseSectorFails \/ Device!Core!ProgramUnitFails
      BY <2>3 DEF Device!Core!EraseSectorFails, Device!Core!ProgramUnitFails
    <2>4. CASE Device!Core!CommitStep
      BY <2>4 DEF Device!Core!CommitStep
    <2>5. QED
      BY <1>2, <2>1, <2>2, <2>3, <2>4 DEF Device!Core!Step
  <1>3. CASE Device!Core!PowerCut
    BY <1>3 DEF Device!Core!PowerCut
  <1>4. CASE wire.cmd = "BEGIN" /\ Perform(wire)
    BY <1>4 DEF Perform, Core!Begin
  <1>5. CASE wire.cmd = "WRITE_BLOCK" /\ Perform(wire)
    BY <1>5 DEF Perform, Core!WriteChunk, Core!DuplicateChunk
  <1>6. CASE wire.cmd = "VERIFY" /\ Perform(wire)
    BY <1>6 DEF Perform, Core!Verify
  <1>7. CASE wire.cmd = "COMMIT" /\ Perform(wire)
    BY <1>7 DEF Perform, Core!Commit
  <1>8. QED
    BY <1>1, <1>2, <1>3, <1>4, <1>5, <1>6, <1>7

LEMMA TypeStep == ASSUME LinkInv, TypeInv, FlowInv', [Next]_vars PROVE TypeInv'
  <1> DEFINE Host == [stage : DOMAIN Cmd \cup {"off", "app", "passed", "failed"},
                      waits : BOOLEAN, seq : Nat, offset : 0 .. Core!Size(Image)]
             Sent == wire.cmd \in {"none", "BEGIN", "WRITE_BLOCK", "VERIFY", "COMMIT"}
                     /\ wire.seq \in Nat
             Heard == back.status \in {"none", "ok", "error", "duplicate"}
             Numbered == lastSeq \in Nat /\ (mode # "loader" => lastSeq = NoSeq)
  <1>0. Sent /\ Heard /\ Numbered /\ faults \in 0 .. MaxFaults /\ host \in Host
        /\ MaxFaults \in Nat /\ (op.kind = "none" => reply # "busy")
    BY UpdateAssumption DEF TypeInv, TypeOK
  <1>a. reply \in {"none", "busy", "ok", "error"} /\ op \in Dev!Rcv!Op
    BY ContextType
       DEF LinkInv, Dev!AlwaysInv, Dev!Rcv!CoreInv, Dev!Rcv!CoreType
  <1>1. host' \in Host
    BY DEF FlowInv
  <1>2. faults' \in 0 .. MaxFaults
    BY <1>0 DEF Next, Step, vars, HostStart, HostSend, HostHears, HostSeesApp, HostTimesOut,
         LoseRequest, LoseStatus, Receive, Respond, DeviceStep, PowerCut, deviceVars
  <1>3. NoFrame.cmd = "none" /\ NoFrame.seq \in Nat /\ NoStatus.status = "none"
    BY DEF NoFrame, NoStatus
  <1>4. Sent'
    <2>1. CASE HostSend
      <3>1. host.stage \in {"begin", "write", "verify", "commit"} /\ host.seq \in Nat
        BY <2>1, <1>0, CmdFacts DEF HostSend
      <3>2. wire'.cmd = Cmd[host.stage] /\ wire'.seq = host.seq
        BY <2>1 DEF HostSend
      <3>3. QED
        BY <3>1, <3>2, CmdFacts
    <2>2. CASE ~HostSend
      <3>1. wire' = wire \/ wire' = NoFrame
        BY <2>2 DEF Next, Step, vars, linkVars, HostStart, HostHears, HostSeesApp, HostTimesOut,
             LoseRequest, LoseStatus, Receive, Respond, DeviceStep, PowerCut
      <3>2. QED
        BY <3>1, <1>0, <1>3
    <2>3. QED
      BY <2>1, <2>2
  <1>5. Heard'
    <2>1. CASE Receive
      BY <2>1, <1>0 DEF Receive
    <2>2. CASE Respond
      <3>1. op.kind = "none" /\ cur # "none" /\ back'.status = reply
        BY <2>2 DEF Respond, Device!Respond, Device!Core!Ready
      <3>2. QED
        BY <3>1, <1>0, <1>a
    <2>3. CASE ~Receive /\ ~Respond
      <3>1. back' = back \/ back' = NoStatus
        BY <2>3 DEF Next, Step, vars, linkVars, HostStart, HostSend, HostHears, HostSeesApp,
             HostTimesOut, LoseRequest, LoseStatus, DeviceStep, PowerCut
      <3>2. QED
        BY <3>1, <1>0, <1>3
    <2>4. QED
      BY <2>1, <2>2, <2>3
  <1>6. Numbered'
    <2>1. CASE UNCHANGED <<lastSeq, mode>>
      BY <2>1, <1>0
    <2>2. CASE HostStart \/ PowerCut
      BY <2>2 DEF HostStart, PowerCut, NoSeq
    <2>3. CASE Receive
      BY <2>3, <1>0 DEF Receive, Device!Listening, deviceVars
    <2>4. CASE Respond
      BY <2>4, <1>0 DEF Respond, Device!Respond, Device!Restart, NoSeq
    <2>5. CASE DeviceStep
      <3>1. lastSeq' = lastSeq
        BY <2>5 DEF DeviceStep, linkVars
      <3>2. mode' = "loader" \/ mode # "loader"
        BY <2>5 DEF DeviceStep, Device!StayInLoader, Device!JumpToApp, Device!DecideTrial,
             Device!Decide, Device!BeginTrial, Device!TrialRefused, Device!TrialStep,
             Device!Enter, Device!CommandStep, Device!AppMarksValid, Device!AppStep,
             Device!bootVars
      <3>3. QED
        BY <3>1, <3>2, <1>0
    <2>6. QED
      BY <2>1, <2>2, <2>3, <2>4, <2>5
         DEF Next, Step, vars, linkVars, deviceVars, HostSend, HostHears, HostSeesApp,
             HostTimesOut, LoseRequest, LoseStatus
  <1>7. op'.kind = "none" => reply' # "busy"
    <2>1. \/ UNCHANGED <<op, reply>> \/ Device!Core!Step \/ Device!Core!PowerCut
          \/ Receive /\ wire.seq # lastSeq
      BY DeviceStepFacts
         DEF Next, Step, vars, deviceVars, HostStart, HostSend, HostHears, HostSeesApp,
             HostTimesOut, LoseRequest, LoseStatus, Receive, Respond, PowerCut,
             Device!Respond, Device!coreVars, Device!PowerCut
    <2>2. CASE Receive /\ wire.seq # lastSeq
      <3>1. wire.cmd \in {"BEGIN", "WRITE_BLOCK", "VERIFY", "COMMIT"} /\ Perform(wire)
        BY <2>2 DEF Receive, LinkInv, FlowInv
      <3>2. QED
        BY <3>1, <1>0, <1>a, AnsweredOrUnderWay
    <2>3. QED
      BY <2>1, <2>2, <1>0, <1>a, AnsweredOrUnderWay
  <1>8. QED
    BY <1>1, <1>2, <1>4, <1>5, <1>6, <1>7 DEF TypeInv, TypeOK

\* Host, line and device hold what they can hold: statuses only of commands that have ended,
\* and no number of a frame outside the loader (boot_send_status, boot_process_complete_frame).
THEOREM TypeCorrect == Spec => []TypeOK
  <1>1. Init => TypeInv
    BY CmdFacts, ImageFits, UpdateAssumption
       DEF Init, TypeInv, TypeOK, HostOff, NoFrame, NoStatus, NoSeq, Device!Init,
           Device!Core!Init, Device!Core!NoOp
  <1>2. Init => LinkInv
    BY UpdateInit DEF UpdateInv
  <1>3. LinkInv /\ LinkInv' /\ TypeInv /\ [Next]_vars => TypeInv'
    BY TypeStep DEF LinkInv
  <1>4. TypeInv => TypeOK
    BY DEF TypeInv
  <1>5. QED
    BY <1>1, <1>2, <1>3, <1>4, LinkStep, PTL DEF Spec
=============================================================================
