--------------------------- MODULE OtaDeviceProofs ---------------------------
(***************************************************************************)
(* Proofs about the whole device: for all images, areas and hosts, and for  *)
(* every fault and power cut.  The receiver and the store inside it take    *)
(* the steps their own proofs are about; what is new here is what the boot  *)
(* loader and the application add between them.                             *)
(***************************************************************************)
EXTENDS OtaDevice, TLAPS

Rcv == INSTANCE OtaCoreProofs

NoWrap == MaxSeq < SeqMod

\* Outside the loader the receiver is as main initialises it; in the loader it
\* and the store work only while a command is executed.
ModeInv ==
  /\ TypeOK
  /\ mode # "loader" => op.kind = "none" /\ ctx.state = "IDLE"
  /\ cur = "none" => op.kind = "none"
  /\ mode \in {"boot", "mark"} => job.phase = "idle"
  /\ mode = "trial" => job.phase # "idle"
  /\ mode = "loader" /\ job.phase # "idle" => op.kind = "commit"

\* From the moment the CRC has matched the area holds an image that fits, whatever the
\* records say by then.
WholeInv ==
  mode \in {"mark", "trial", "app"} => \E i \in Images : InRange[i] /\ Core!Holds(i)

\* An image that runs, or is about to, is that of the active record, and what is
\* written about it meanwhile is about this image.
StartedInv ==
  /\ mode \in {"mark", "trial", "app"} =>
       /\ Active(flash) # NoRecord
       /\ Core!Holds(Active(flash).app)
       /\ job.phase # "idle" => job.rec.app = Active(flash).app
  /\ mode = "mark" => BootAction(Active(flash)) = "trial"

\* A start is recorded before it happens, and only a record that declares the
\* image valid, or that of a new image, makes another one possible.
TriesInv ==
  /\ Active(flash) # NoRecord /\ ~Active(flash).app_valid =>
       tries <= 1 /\ (~Active(flash).boot_attempted => tries = 0)
  /\ mode = "trial" => tries = 0 /\ job.rec.boot_attempted
  /\ mode = "app" /\ job.phase # "idle" => job.rec.app_valid

\* What holds whichever reads fail, and what holds until one misleads a call.
AlwaysInv == Rcv!CoreInv /\ Rcv!Store!TypeOK /\ ModeInv /\ WholeInv

DeviceInv == AlwaysInv /\ Rcv!CommitInv /\ StartedInv /\ TriesInv

DeviceTrust == AlwaysInv /\ (Rcv!Store!Trusted => DeviceInv)

-----------------------------------------------------------------------------
(* The receiver and the store are the ones of their own proofs. *)

LEMMA Assumed ==
  /\ Rcv!FormatAssumption /\ Rcv!CoreAssumption
  /\ Rcv!Store!FormatAssumption /\ Rcv!Store!ParamsAssumption
  BY FormatAssumption, DeviceAssumption
     DEF Core!CoreAssumption, Rcv!CoreAssumption, Core!Size, Rcv!Size, Rcv!FormatAssumption,
         Rcv!Store!FormatAssumption, Rcv!Store!ParamsAssumption, Record, Core!Record,
         Rcv!Record, Rcv!Store!Record

\* The format is reached along several paths and is one.
LEMMA SameFormat ==
  /\ Record = Rcv!Store!Record
  /\ \A r : /\ Params!AttemptedRecord(r) = AttemptedRecord(r)
            /\ Rcv!Store!AttemptedRecord(r) = AttemptedRecord(r)
            /\ Params!ValidRecord(r) = ValidRecord(r)
            /\ Rcv!Store!ValidRecord(r) = ValidRecord(r)
  /\ \A f : /\ Params!Active(f) = Active(f) /\ Rcv!Store!Active(f) = Active(f)
            /\ Params!Loads(f) = Rcv!Store!Loads(f)
            /\ Params!Selected(f) = Rcv!Store!Selected(f)
            /\ \A s : Params!Loaded(f, s) = Rcv!Store!Loaded(f, s)
  /\ \A s : Params!Target(s) = Rcv!Store!Target(s)
  BY DEF Record, Rcv!Store!Record, AttemptedRecord, Params!AttemptedRecord,
         Rcv!Store!AttemptedRecord, ValidRecord, Params!ValidRecord, Rcv!Store!ValidRecord,
         NextSeq, Params!NextSeq, Rcv!Store!NextSeq,
         Active, Params!Active, Rcv!Store!Active, Params!Target, Rcv!Store!Target,
         Selected, Params!Selected, Rcv!Store!Selected,
         Newer, Params!Newer, Rcv!Store!Newer, NoSlot, Params!NoSlot, Rcv!Store!NoSlot,
         Other, Params!Other, Rcv!Store!Other,
         Loaded, Params!Loaded, Rcv!Store!Loaded, Params!Loads, Rcv!Store!Loads,
         Params!Seen, Rcv!Store!Seen, Params!Slots, Rcv!Store!Slots

LEMMA SameHolds == \A i : Core!Holds(i) = Rcv!Holds(i)
  BY DEF Core!Holds, Rcv!Holds, Core!Size, Rcv!Size

LEMMA SameMark ==
  /\ Params!LoadedRecords = Rcv!Store!LoadedRecords
  /\ \A r, rec : Params!WriteNext(r, rec) = Rcv!Store!WriteNext(r, rec)
  /\ \A r : Params!Load(r) = Rcv!Store!Load(r)
  /\ Params!Refuse = Rcv!Store!Refuse
  /\ Params!Trusted = Rcv!Store!Trusted
  /\ Params!MarkBootAttempted => Rcv!Store!MarkBootAttempted
  /\ Params!MarkAppValid => Rcv!Store!MarkAppValid
  <1>1. Params!LoadedRecords = Rcv!Store!LoadedRecords
    BY SameFormat DEF Params!LoadedRecords, Rcv!Store!LoadedRecords
  <1>2. \A r, s : Params!Exact(r, s) = Rcv!Store!Exact(r, s)
    BY SameFormat DEF Params!Exact, Rcv!Store!Exact
  <1>3. \A m : Params!CountMisread(m) = Rcv!Store!CountMisread(m)
    BY DEF Params!CountMisread, Rcv!Store!CountMisread
  <1>4. ASSUME NEW r, NEW rec
        PROVE  Params!WriteNext(r, rec) = Rcv!Store!WriteNext(r, rec)
    BY <1>2, <1>3, SameFormat DEF Params!WriteNext, Rcv!Store!WriteNext
  <1>5. ASSUME NEW r PROVE Params!Load(r) = Rcv!Store!Load(r)
    BY <1>1, <1>3, SameFormat DEF Params!Load, Rcv!Store!Load
  <1>6. /\ Params!MarkBootAttempted => Rcv!Store!MarkBootAttempted
        /\ Params!MarkAppValid => Rcv!Store!MarkAppValid
    BY <1>1, <1>4, SameFormat
       DEF Params!MarkBootAttempted, Params!MarkAppValid,
           Rcv!Store!MarkBootAttempted, Rcv!Store!MarkAppValid
  <1>7. QED
    BY <1>1, <1>4, <1>5, <1>6
       DEF Params!Refuse, Rcv!Store!Refuse, Params!Trusted, Rcv!Store!Trusted

LEMMA SameJobStep == Params!JobStep => Rcv!Store!JobStep
  BY DEF Params!JobStep, Params!Erase, Params!EraseFails, Params!Program,
         Params!ProgramBadCell, Params!ProgramFails, Params!Check, Params!CheckFails,
         Rcv!Store!JobStep, Rcv!Store!Erase, Rcv!Store!EraseFails, Rcv!Store!Program,
         Rcv!Store!ProgramBadCell, Rcv!Store!ProgramFails, Rcv!Store!Check,
         Rcv!Store!CheckFails, Params!SetTarget, Params!Continue, Params!Return,
         Rcv!Store!SetTarget, Rcv!Store!Continue, Rcv!Store!Return

LEMMA SameInit == Core!Init => Rcv!Init
  BY DEF Core!Init, Rcv!Init, Core!Params!Init, Rcv!Params!Init, Core!Params!Slots,
         Rcv!Params!Slots, Core!Units, Rcv!Units, Core!Size, Rcv!Size, Core!InitCtx,
         Rcv!InitCtx, Core!NoOp, Rcv!NoOp

LEMMA SamePowerCut == Core!PowerCut => Rcv!PowerCut
  BY DEF Core!PowerCut, Rcv!PowerCut, Core!TornApp, Rcv!TornApp, Core!Units, Rcv!Units,
         Core!InitCtx, Rcv!InitCtx, Core!NoOp, Rcv!NoOp, Core!ErasedUnits, Rcv!ErasedUnits,
         Core!Place, Rcv!Place, Core!Params!PowerCut, Rcv!Params!PowerCut, Core!Params!SetTarget,
         Rcv!Params!SetTarget, Core!Params!Return, Rcv!Params!Return

LEMMA SameEnds ==
  /\ Core!NoOp = Rcv!NoOp /\ Core!InitCtx = Rcv!InitCtx /\ Core!Units = Rcv!Units
  /\ Core!Ready = Rcv!Ready /\ Core!Fail = Rcv!Fail /\ Core!Refuse = Rcv!Refuse
  /\ \A r : Core!Answer(r) = Rcv!Answer(r)
  /\ \A i : Core!Size(i) = Rcv!Size(i)
  BY DEF Core!NoOp, Rcv!NoOp, Core!InitCtx, Rcv!InitCtx, Core!Units, Rcv!Units,
         Core!Ready, Rcv!Ready, Core!Fail, Rcv!Fail, Core!Refuse, Rcv!Refuse,
         Core!Answer, Rcv!Answer, Core!Size, Rcv!Size

LEMMA SameStoreStep ==
  /\ Core!Params!JobStep => Rcv!Params!JobStep /\ Rcv!Store!JobStep
  /\ \A i : Core!Params!Commit(i) => Rcv!Params!Commit(i)
  <1>1. Core!Params!JobStep => Rcv!Params!JobStep
    BY DEF Core!Params!JobStep, Core!Params!Erase, Core!Params!EraseFails,
           Core!Params!Program, Core!Params!ProgramBadCell, Core!Params!ProgramFails,
           Core!Params!Check, Core!Params!CheckFails, Core!Params!SetTarget,
           Core!Params!Continue, Core!Params!Return,
           Rcv!Params!JobStep, Rcv!Params!Erase, Rcv!Params!EraseFails,
           Rcv!Params!Program, Rcv!Params!ProgramBadCell, Rcv!Params!ProgramFails,
           Rcv!Params!Check, Rcv!Params!CheckFails, Rcv!Params!SetTarget,
           Rcv!Params!Continue, Rcv!Params!Return
  <1>2. \A r, i : Core!Params!CommitRecord(r, i) = Rcv!Params!CommitRecord(r, i)
    BY DEF Core!Params!CommitRecord, Rcv!Params!CommitRecord, Core!Params!NextSeq,
           Rcv!Params!NextSeq
  <1>3. \A f : /\ Core!Params!Active(f) = Rcv!Params!Active(f)
               /\ Core!Params!Loads(f) = Rcv!Params!Loads(f)
               /\ Core!Params!Selected(f) = Rcv!Params!Selected(f)
               /\ \A s : Core!Params!Loaded(f, s) = Rcv!Params!Loaded(f, s)
    BY DEF Core!Params!Active, Rcv!Params!Active, Core!Params!Target, Rcv!Params!Target,
           Core!Params!Selected, Rcv!Params!Selected, Core!Params!Newer, Rcv!Params!Newer,
           Core!Params!NoSlot, Rcv!Params!NoSlot, Core!Params!Loaded, Rcv!Params!Loaded,
           Core!Params!Loads, Rcv!Params!Loads, Core!Params!Seen, Rcv!Params!Seen,
           Core!Params!Slots, Rcv!Params!Slots
  <1>6. \A s : Core!Params!Target(s) = Rcv!Params!Target(s)
    BY DEF Core!Params!Target, Rcv!Params!Target, Core!Params!NoSlot, Rcv!Params!NoSlot,
           Core!Params!Other, Rcv!Params!Other
  <1>7. ASSUME NEW r, NEW rec
        PROVE  Core!Params!WriteNext(r, rec) = Rcv!Params!WriteNext(r, rec)
    <2>1. \A s : Core!Params!Exact(r, s) = Rcv!Params!Exact(r, s)
      BY <1>3, <1>6 DEF Core!Params!Exact, Rcv!Params!Exact
    <2>2. \A m : Core!Params!CountMisread(m) = Rcv!Params!CountMisread(m)
      BY DEF Core!Params!CountMisread, Rcv!Params!CountMisread
    <2>3. QED
      BY <1>3, <1>6, <2>1, <2>2 DEF Core!Params!WriteNext, Rcv!Params!WriteNext
  <1>8. Core!Params!LoadedRecords = Rcv!Params!LoadedRecords
    BY <1>3 DEF Core!Params!LoadedRecords, Rcv!Params!LoadedRecords
  <1>4. \A i : Core!Params!Commit(i) => Rcv!Params!Commit(i)
    BY <1>2, <1>7, <1>8 DEF Core!Params!Commit, Rcv!Params!Commit
  <1>5. QED
    BY <1>1, <1>4, Rcv!SameJobStep, Assumed

\* A step of the receiver in the device is one of the receiver its proofs are about.
LEMMA SameStep == Core!Step => Rcv!Step
  <1> USE DEF Core!paramVars, Rcv!paramVars
  <1>1. /\ Core!EraseEnd = Rcv!EraseEnd
        /\ Core!ErasedUnits = Rcv!ErasedUnits /\ Core!Place = Rcv!Place
        /\ \A v, w : Core!Programmed(v, w) = Rcv!Programmed(v, w)
        /\ Core!UnitIsDone = Rcv!UnitIsDone
    BY SameEnds
       DEF Core!EraseEnd, Core!ErasedUnits, Core!Place, Core!Programmed,
           Core!UnitIsDone, Core!EndOffset,
           Rcv!EraseEnd, Rcv!ErasedUnits, Rcv!Place, Rcv!Programmed,
           Rcv!UnitIsDone, Rcv!EndOffset
  <1>2. /\ Core!EraseSector => Rcv!EraseSector
        /\ Core!EraseSectorFails => Rcv!EraseSectorFails
        /\ Core!ProgramUnitFails => Rcv!ProgramUnitFails
    BY <1>1, SameEnds
       DEF Core!EraseSector, Core!EraseSectorFails, Core!ProgramUnitFails,
           Rcv!EraseSector, Rcv!EraseSectorFails, Rcv!ProgramUnitFails
  <1>3. /\ Core!ProgramUnit => Rcv!ProgramUnit
        /\ Core!ProgramUnitWorn => Rcv!ProgramUnitWorn
    <2>1. Core!UnitIsDone => Rcv!UnitIsDone
      BY <1>1
    <2>2. Core!ProgramUnit => Rcv!ProgramUnit
      BY <1>1, <2>1 DEF Core!ProgramUnit, Rcv!ProgramUnit
    <2>3. Core!ProgramUnitWorn => Rcv!ProgramUnitWorn
      BY <1>1, <2>1
         DEF Core!ProgramUnitWorn, Rcv!ProgramUnitWorn, Core!Cardinality, Rcv!Cardinality
    <2>4. QED
      BY <2>2, <2>3
  <1>4. Core!CommitStep => Rcv!CommitStep
    BY <1>1, SameEnds, SameStoreStep DEF Core!CommitStep, Rcv!CommitStep
  <1>5. QED
    BY <1>2, <1>3, <1>4 DEF Core!Step, Rcv!Step

\* boot_handle_command answers without calling the receiver.
Refused == Core!Answer("error") /\ UNCHANGED <<app, ctx, got, worn, paramVars>>

\* Every other command is a call of the receiver.
LEMMA SameCall == ASSUME NEW cmd, Handle(cmd) PROVE Rcv!Call \/ Refused
  <1>1. ASSUME NEW i \in Images, NEW known \in BOOLEAN, Core!Begin(i, known)
        PROVE  Rcv!Call
    BY <1>1, SameEnds DEF Core!Begin, Rcv!Begin, Rcv!Call, Core!paramVars, Rcv!paramVars
  <1>2. ASSUME NEW offset \in 0 .. OffsetMod - 1, NEW chunk \in Chunks,
               Core!WriteChunk(offset, chunk)
        PROVE  Rcv!Call
    <2>1. Rcv!WriteChunk(offset, chunk)
      BY <1>2, SameEnds
         DEF Core!WriteChunk, Core!DuplicateChunk, Core!Written, Core!Overlay,
             Core!IsLastChunk, Core!EndOffset, Core!BackendAccepts, Core!paramVars,
             Rcv!WriteChunk, Rcv!DuplicateChunk, Rcv!Written, Rcv!Overlay,
             Rcv!IsLastChunk, Rcv!EndOffset, Rcv!BackendAccepts, Rcv!paramVars
    <2>2. QED
      BY <2>1 DEF Rcv!Call
  <1>3. Core!Verify => Rcv!Call
    BY SameEnds, SameHolds DEF Core!Verify, Rcv!Verify, Rcv!Call, Core!paramVars, Rcv!paramVars
  <1>4. Core!Commit => Rcv!Call
    BY SameEnds, SameStoreStep
       DEF Core!Commit, Rcv!Commit, Rcv!Call, Core!paramVars, Rcv!paramVars
  <1>5. Core!Abort => Rcv!Call
    BY SameEnds DEF Core!Abort, Rcv!Abort, Rcv!Call, Core!paramVars, Rcv!paramVars
  <1>6. QED
    BY <1>1, <1>2, <1>3, <1>4, <1>5 DEF Handle, Refused

-----------------------------------------------------------------------------
(* What every step leaves of the receiver and of the store. *)

\* The receiver's own invariant does not depend on the store.
LEMMA ReceiverRests ==
  ASSUME Rcv!CoreInv, UNCHANGED coreVars
  PROVE  Rcv!CoreInv'
  BY SameEnds
     DEF coreVars, Rcv!CoreInv, Rcv!CoreType, Rcv!Erasing, Rcv!Programming,
         Rcv!Admitted, Rcv!Transferring, Rcv!ErasedAhead, Rcv!Progress,
         Rcv!AcceptedBytesAreStored, Rcv!VerifiedImageIntact, Rcv!Holds, Rcv!Receiving

LEMMA RefusedIsRefuse ==
  ASSUME op.kind = "none", Refused
  PROVE  Rcv!Refuse /\ Rcv!Ready /\ UNCHANGED <<app, worn>>
  BY SameEnds DEF Refused, Rcv!Refuse, Rcv!Ready

\* A step is one of the receiver, a refusal, or one of the store while the receiver rests.
LEMMA StepKinds ==
  ASSUME ModeInv, [Next]_vars
  PROVE  \/ [Rcv!Next]_Rcv!vars
         \/ Refused /\ op.kind = "none"
         \/ Rcv!Store!Next /\ op.kind = "none" /\ ctx.state = "IDLE" /\ UNCHANGED coreVars
  <1>1. CASE UNCHANGED <<coreVars, paramVars>>
    BY <1>1 DEF coreVars, paramVars, Rcv!vars, Rcv!coreVars, Rcv!paramVars
  <1>2. CASE JumpToApp \/ DecideTrial \/ BeginTrial \/ TrialRefused \/ TrialStep
             \/ AppMarksValid \/ AppStep
    <2>1. op.kind = "none" /\ ctx.state = "IDLE" /\ UNCHANGED coreVars
      BY <1>2 DEF ModeInv, JumpToApp, DecideTrial, Decide, BeginTrial, TrialRefused,
                  TrialStep, AppMarksValid, AppStep
    <2>2. CASE JumpToApp \/ DecideTrial
      <3>1. \E r \in Rcv!Store!LoadedRecords : Rcv!Store!Load(r)
        BY <2>2, SameMark DEF JumpToApp, DecideTrial, Decide
      <3>2. QED
        BY <2>1, <3>1 DEF Rcv!Store!Next, Rcv!Store!Call
    <2>3. CASE BeginTrial \/ TrialRefused \/ AppMarksValid
      <3>1. Rcv!Store!MarkBootAttempted \/ Rcv!Store!MarkAppValid \/ Rcv!Store!Refuse
        BY <2>3, SameMark DEF BeginTrial, TrialRefused, AppMarksValid
      <3>2. QED
        BY <2>1, <3>1 DEF Rcv!Store!Next, Rcv!Store!Call
    <2>4. CASE TrialStep \/ AppStep
      BY <2>1, <2>4, SameJobStep DEF TrialStep, AppStep, Rcv!Store!Next
    <2>5. QED
      BY <1>2, <2>2, <2>3, <2>4
  <1>3. ASSUME NEW cmd \in Commands, Accept(cmd)
        PROVE  op.kind = "none" /\ (Rcv!Next \/ Refused)
    BY <1>3, SameCall DEF Accept, Listening, ModeInv, Rcv!Next
  <1>4. CASE CommandStep
    BY <1>4, SameStep DEF CommandStep, Rcv!Next
  <1>5. CASE Core!PowerCut
    BY <1>5, SamePowerCut DEF Rcv!Next
  <1>6. QED
    BY <1>1, <1>2, <1>3, <1>4, <1>5
       DEF Next, vars, StayInLoader, Frame, Respond, PowerCut

\* Whatever the reads answer.
LEMMA AlwaysMoves ==
  ASSUME AlwaysInv, [Next]_vars
  PROVE  Rcv!CoreInv' /\ Rcv!Store!TypeOK' /\ [Rcv!Store!Next]_Rcv!Store!paramVars
  <1>1. Rcv!CoreInv' /\ [Rcv!Store!Next]_Rcv!Store!paramVars
    <2>1. CASE [Rcv!Next]_Rcv!vars
      BY <2>1, Assumed, Rcv!StepInvariant, Rcv!StoreMoves DEF AlwaysInv
    <2>2. CASE Refused /\ op.kind = "none"
      <3>1. Rcv!CoreInv'
        BY <2>2, RefusedIsRefuse, Assumed, Rcv!RefuseStep DEF AlwaysInv
      <3>2. QED
        BY <2>2, <3>1 DEF Refused, paramVars, Rcv!Store!paramVars
    <2>3. CASE Rcv!Store!Next /\ UNCHANGED coreVars
      BY <2>3, ReceiverRests DEF AlwaysInv
    <2>4. QED
      BY <2>1, <2>2, <2>3, StepKinds DEF AlwaysInv
  <1>2. QED
    BY <1>1, Assumed, Rcv!Store!TypeStep DEF AlwaysInv

\* As long as no call is misled.
LEMMA Moves ==
  ASSUME NoWrap, DeviceInv, Rcv!Store!Trusted', [Next]_vars
  PROVE  Rcv!CommitInv'
  <1>1. Rcv!CoreInv' /\ Rcv!Store!OrderInv'
    BY AlwaysMoves, Assumed, Rcv!Store!OrderStep
       DEF NoWrap, Rcv!Store!NoWrap, Rcv!CommitInv, DeviceInv
  <1>2. CASE [Rcv!Next]_Rcv!vars
    BY <1>2, Assumed, Rcv!CommitInvStep DEF NoWrap, Rcv!Store!NoWrap, DeviceInv
  <1>3. CASE Refused /\ op.kind = "none"
    <2>1. Rcv!Carried'
      BY <1>3, RefusedIsRefuse
         DEF Refused, paramVars, DeviceInv, Rcv!CommitInv, Rcv!Carried, Rcv!Refuse,
             Rcv!Answer, Rcv!NoOp
    <2>2. QED
      BY <1>1, <2>1 DEF Rcv!CommitInv
  <1>4. CASE op.kind = "none" /\ ctx.state = "IDLE" /\ UNCHANGED coreVars
    <2>1. Rcv!Carried'
      BY <1>4 DEF coreVars, Rcv!Carried
    <2>2. QED
      BY <1>1, <2>1 DEF Rcv!CommitInv
  <1>5. QED
    BY <1>2, <1>3, <1>4, StepKinds DEF DeviceInv, AlwaysInv

LEMMA JobType ==
  ASSUME Rcv!Store!TypeOK
  PROVE  /\ job \in Rcv!Store!Job
         /\ job.phase # "idle" => job.rec \in Record
         /\ Active(flash) \in Record \cup {NoRecord}
  BY SameFormat, Rcv!Store!ActiveType, Assumed DEF Rcv!Store!TypeOK, Rcv!Store!Flash

\* The active record changes by the programming step of write_next alone.
LEMMA ActiveMoves ==
  ASSUME NoWrap, DeviceInv, [Next]_vars
  PROVE  \/ Active(flash') = Active(flash)
         \/ job.phase = "program" /\ job.rec # NoRecord /\ Active(flash') = job.rec
  <1>1. job.phase # "idle" => job.rec # NoRecord
    BY JobType, FormatAssumption DEF DeviceInv, AlwaysInv
  <1>2. QED
    BY <1>1, AlwaysMoves, Assumed, SameFormat, Rcv!Store!ActiveAfterStep
       DEF NoWrap, Rcv!Store!NoWrap, DeviceInv, Rcv!CommitInv, Rcv!Store!Program

\* What write_next works on stays what it is, and it ends with the last operation.
LEMMA JobStepFacts ==
  ASSUME Rcv!Store!TypeOK, Params!JobStep
  PROVE  job'.rec = job.rec /\ job.phase # "idle"
  BY JobType, SameJobStep
     DEF Rcv!Store!Job, Rcv!Store!JobStep, Rcv!Store!Erase, Rcv!Store!EraseFails,
         Rcv!Store!Program, Rcv!Store!ProgramBadCell, Rcv!Store!ProgramFails,
         Rcv!Store!Check, Rcv!Store!CheckFails, Rcv!Store!Continue, Rcv!Store!Return

\* The record a call builds on, and the one the bootloader decides on, is the active one.
LEMMA MarkIsExact ==
  ASSUME DeviceInv, Rcv!Store!Trusted'
  PROVE  /\ Params!MarkBootAttempted =>
              /\ Active(flash) \in Record /\ flash' = flash
              /\ job'.rec = AttemptedRecord(Active(flash))
         /\ Params!MarkAppValid =>
              /\ Active(flash) \in Record /\ flash' = flash
              /\ job'.rec = ValidRecord(Active(flash))
         /\ \A r : Params!Load(r) =>
              UNCHANGED paramVars /\ r = Active(flash) /\ r \in Record
  <1>1. Rcv!Store!TypeOK /\ Rcv!Store!Trusted
    BY DEF DeviceInv, AlwaysInv, Rcv!CommitInv, Rcv!Store!OrderInv, Rcv!Store!StoreInv
  <1>2. ASSUME NEW r \in Rcv!Store!LoadedRecords \ {NoRecord}, NEW rec,
               Rcv!Store!WriteNext(r, rec)
        PROVE  Active(flash) \in Record /\ r = Active(flash) /\ flash' = flash /\ job'.rec = rec
    BY <1>1, <1>2, Assumed, SameFormat, JobType, Rcv!Store!ExactCall
  <1>3. ASSUME NEW r, Rcv!Store!Load(r)
        PROVE  UNCHANGED paramVars /\ r = Active(flash) /\ r \in Record
    BY <1>1, <1>3, Assumed, SameFormat, Rcv!Store!ExactLoad
       DEF paramVars, Rcv!Store!paramVars
  <1>4. Params!MarkBootAttempted =>
          /\ Active(flash) \in Record /\ flash' = flash
          /\ job'.rec = AttemptedRecord(Active(flash))
    BY <1>2, SameMark, SameFormat DEF Params!MarkBootAttempted
  <1>5. Params!MarkAppValid =>
          /\ Active(flash) \in Record /\ flash' = flash
          /\ job'.rec = ValidRecord(Active(flash))
    BY <1>2, SameMark, SameFormat DEF Params!MarkAppValid
  <1>6. QED
    BY <1>3, <1>4, <1>5, SameMark

LEMMA PowerCutEnds ==
  ASSUME Rcv!Store!TypeOK, Core!PowerCut
  PROVE  op'.kind = "none" /\ ctx'.state = "IDLE" /\ job'.phase = "idle"
  <1>1. op'.kind = "none" /\ ctx'.state = "IDLE"
    BY DEF Core!PowerCut, Core!NoOp, Core!InitCtx
  <1>2. job'.phase = "idle"
    BY JobType DEF Core!PowerCut, Core!Params!PowerCut, Core!Params!Return, Rcv!Store!Job
  <1>3. QED
    BY <1>1, <1>2

LEMMA PowerCutKeeps ==
  ASSUME NoWrap, DeviceInv, Core!PowerCut, [Next]_vars
  PROVE  Active(flash') = Active(flash)
  <1>1. Rcv!Store!TypeOK
    BY DEF DeviceInv, AlwaysInv
  <1>2. ~Rcv!Store!Program
    BY <1>1, JobType, PowerCutEnds DEF Rcv!Store!Program, Rcv!Store!Continue, Rcv!Store!Job
  <1>3. QED
    BY <1>2, AlwaysMoves, Assumed, SameFormat, Rcv!Store!ActiveAfterStep
       DEF NoWrap, Rcv!Store!NoWrap, DeviceInv, Rcv!CommitInv

-----------------------------------------------------------------------------
(* The mode. *)

\* A command leaves the store alone or begins a commit.
LEMMA CallStarts ==
  ASSUME op.kind = "none", job.phase = "idle", Rcv!Call \/ Refused
  PROVE  /\ flash' = flash
         /\ job'.phase # "idle" => op'.kind = "commit"
  <1>1. CASE UNCHANGED paramVars
    BY <1>1 DEF paramVars
  <1>2. CASE Rcv!Params!Commit(ctx.man) /\ op' = [Rcv!NoOp EXCEPT !.kind = "commit"]
    BY <1>2 DEF Rcv!Params!Commit, Rcv!Params!WriteNext, Rcv!NoOp
  <1>3. QED
    BY <1>1, <1>2
       DEF Refused, paramVars, Rcv!Call, Rcv!Begin, Rcv!WriteChunk, Rcv!Verify, Rcv!Commit,
           Rcv!Abort, Rcv!paramVars

\* The work of a command ends the store's work with its own.
LEMMA WorkEnds ==
  ASSUME Core!Step, job.phase # "idle" => op.kind = "commit"
  PROVE  /\ op.kind # "none"
         /\ job'.phase # "idle" => op'.kind = "commit"
  <1>1. CASE UNCHANGED paramVars /\ op.kind \in {"erase", "program"}
    BY <1>1 DEF paramVars
  <1>2. CASE Core!CommitStep
    BY <1>2 DEF Core!CommitStep
  <1>3. QED
    BY <1>1, <1>2
       DEF Core!Step, Core!EraseSector, Core!EraseSectorFails, Core!ProgramUnit,
           Core!ProgramUnitWorn, Core!ProgramUnitFails, Core!paramVars, paramVars

LEMMA ModeStep == ASSUME AlwaysInv, [Next]_vars PROVE ModeInv'
  <1> USE DEF ModeInv, TypeOK, Commands
  <1>0. ModeInv /\ Rcv!Store!TypeOK
    BY DEF AlwaysInv
  <1>1. CASE UNCHANGED vars
    BY <1>0, <1>1 DEF vars, bootVars, coreVars, paramVars
  <1>2. CASE StayInLoader
    BY <1>0, <1>2 DEF StayInLoader, Enter, coreVars, paramVars
  <1>3. CASE JumpToApp \/ DecideTrial
    BY <1>0, <1>3 DEF JumpToApp, DecideTrial, Decide, Params!Load, Enter, coreVars
  <1>4. CASE BeginTrial
    <2>1. job'.phase = "erase"
      BY <1>4 DEF BeginTrial, Params!MarkBootAttempted, Params!WriteNext
    <2>2. QED
      BY <1>0, <1>4, <2>1 DEF BeginTrial, Enter, coreVars
  <1>5. CASE TrialRefused
    BY <1>0, <1>5 DEF TrialRefused, Params!Refuse, Enter, coreVars
  <1>6. CASE TrialStep
    BY <1>0, <1>6 DEF TrialStep, Enter, bootVars, coreVars
  <1>7. ASSUME NEW cmd \in Commands, Accept(cmd) PROVE ModeInv'
    <2>1. job'.phase # "idle" => op'.kind = "commit"
      BY <1>0, <1>7, SameCall, CallStarts DEF Accept, Listening
    <2>2. QED
      BY <1>0, <1>7, <2>1 DEF Accept, Listening
  <1>8. CASE CommandStep
    <2>1. /\ op.kind # "none"
          /\ job'.phase # "idle" => op'.kind = "commit"
      BY <1>0, <1>8, WorkEnds DEF CommandStep
    <2>2. tries' \in Nat
      BY <1>0, <1>8 DEF CommandStep
    <2>3. QED
      BY <1>0, <1>8, <2>1, <2>2 DEF CommandStep, bootVars
  <1>9. CASE Core!PowerCut /\ Restart /\ UNCHANGED tries
    BY <1>0, <1>9, PowerCutEnds DEF Restart
  <1>10. CASE /\ mode = "loader" /\ Core!Ready /\ cur' = "none"
             /\ UNCHANGED <<mode, marked, tries, coreVars, paramVars>>
    BY <1>0, <1>10 DEF Core!Ready, coreVars, paramVars
  <1>11. CASE AppMarksValid \/ AppStep
    BY <1>0, <1>11 DEF AppMarksValid, AppStep, bootVars, coreVars
  <1>12. QED
    BY <1>1, <1>2, <1>3, <1>4, <1>5, <1>6, <1>7, <1>8, <1>9, <1>10, <1>11
       DEF Next, Frame, Respond, PowerCut

\* A record load_active may answer is one, whichever reads fail.
LEMMA LoadedIsRecord ==
  ASSUME Rcv!Store!TypeOK, NEW r, Params!Load(r)
  PROVE  r \in Record
  BY Assumed, SameMark, SameFormat, Rcv!Store!LoadedIsRecord DEF Rcv!Store!Load

\* The application area does not change between the CRC check and the next reset.
LEMMA WholeStep == ASSUME AlwaysInv, [Next]_vars PROVE WholeInv'
  <1> USE DEF WholeInv
  <1>1. CASE mode' \notin {"mark", "trial", "app"}
    BY <1>1
  <1>2. CASE JumpToApp \/ DecideTrial
    <2>1. PICK r : Params!Load(r) /\ BootAction(r) # "stay" /\ Core!Holds(r.app)
      BY <1>2 DEF JumpToApp, DecideTrial, Decide, MayStart, AppCrcMatches
    <2>2. r \in Record
      BY <2>1, LoadedIsRecord DEF AlwaysInv
    <2>3. r.app \in Images /\ InRange[r.app]
      BY <2>1, <2>2 DEF Record, BootAction
    <2>4. app' = app
      BY <1>2 DEF JumpToApp, DecideTrial, Decide, coreVars
    <2>5. QED
      BY <2>1, <2>3, <2>4 DEF Core!Holds
  <1>3. CASE app' = app /\ mode \in {"mark", "trial", "app"}
    BY <1>3 DEF AlwaysInv, Core!Holds
  <1>4. QED
    BY <1>1, <1>2, <1>3
       DEF Next, vars, bootVars, coreVars, StayInLoader, BeginTrial, TrialRefused, TrialStep,
           Enter, Frame, Accept, Listening, CommandStep, Respond, Restart, PowerCut,
           AppMarksValid, AppStep

-----------------------------------------------------------------------------
(* What is started. *)

LEMMA WrittenRecords ==
  ASSUME NEW r \in Record
  PROVE  /\ AttemptedRecord(r).app = r.app /\ AttemptedRecord(r).boot_attempted
         /\ ValidRecord(r).app = r.app /\ ValidRecord(r).app_valid
  BY DEF Record, AttemptedRecord, ValidRecord

\* A step in which the application area and the active record keep their image.
LEMMA KeepsImage ==
  ASSUME app' = app, Active(flash) # NoRecord, Core!Holds(Active(flash).app),
         \/ Active(flash') = Active(flash)
         \/ Active(flash') # NoRecord /\ Active(flash').app = Active(flash).app
  PROVE  Active(flash') # NoRecord /\ Core!Holds(Active(flash).app)'
  BY DEF Core!Holds

LEMMA StartedStep ==
  ASSUME NoWrap, DeviceInv, Rcv!Store!Trusted', [Next]_vars PROVE StartedInv'
  <1> USE DEF StartedInv
  <1>0. StartedInv /\ ModeInv /\ Rcv!Store!TypeOK
    BY DEF DeviceInv, AlwaysInv
  <1>1. CASE mode' \notin {"mark", "trial", "app"}
    BY <1>1
  <1>2. CASE UNCHANGED vars
    BY <1>0, <1>2, KeepsImage DEF vars, bootVars, coreVars, paramVars
  <1>3. CASE JumpToApp \/ DecideTrial
    <2>1. PICK r : /\ Params!Load(r) /\ Core!Holds(r.app)
                   /\ DecideTrial => BootAction(r) = "trial"
      BY <1>3 DEF JumpToApp, DecideTrial, Decide, MayStart, AppCrcMatches
    <2>2. UNCHANGED paramVars /\ r = Active(flash) /\ r \in Record
      BY <2>1, MarkIsExact
    <2>3. job.phase = "idle" /\ app' = app /\ (DecideTrial \/ mode' = "app")
      BY <1>0, <1>3 DEF ModeInv, JumpToApp, DecideTrial, Decide, Enter, coreVars
    <2>4. Active(flash) # NoRecord /\ Active(flash') = Active(flash) /\ job' = job
      BY <2>2, FormatAssumption DEF paramVars
    <2>5. QED
      BY <2>1, <2>2, <2>3, <2>4, KeepsImage
  <1>4. CASE BeginTrial
    <2>1. /\ Active(flash) \in Record /\ flash' = flash /\ mode' = "trial" /\ app' = app
          /\ job'.rec = AttemptedRecord(Active(flash)) /\ mode = "mark"
      BY <1>4, MarkIsExact DEF BeginTrial, Enter, coreVars
    <2>2. QED
      BY <1>0, <2>1, WrittenRecords, KeepsImage
  <1>5. CASE TrialStep \/ AppStep
    <2>1. /\ mode \in {"trial", "app"} /\ job'.rec = job.rec /\ job.phase # "idle"
          /\ app' = app /\ mode' # "mark"
      BY <1>0, <1>5, JobStepFacts DEF TrialStep, AppStep, Enter, bootVars, coreVars
    <2>2. QED
      BY <1>0, <2>1, ActiveMoves, KeepsImage
  <1>6. CASE AppMarksValid /\ Params!MarkAppValid
    <2>1. /\ Active(flash) \in Record /\ flash' = flash
          /\ job'.rec = ValidRecord(Active(flash))
      BY <1>6, MarkIsExact
    <2>2. QED
      BY <1>0, <1>6, <2>1, WrittenRecords, KeepsImage DEF AppMarksValid, coreVars
  <1>7. CASE AppMarksValid /\ Params!Refuse
    BY <1>0, <1>7, KeepsImage DEF AppMarksValid, Params!Refuse, coreVars
  <1>8. QED
    BY <1>1, <1>2, <1>3, <1>4, <1>5, <1>6, <1>7
       DEF Next, StayInLoader, TrialRefused, Enter, Frame, Accept, Listening, CommandStep,
           bootVars, Respond, Restart, PowerCut, AppMarksValid

\* How often it is started.
LEMMA TriesStep ==
  ASSUME NoWrap, DeviceInv, Rcv!Store!Trusted', [Next]_vars PROVE TriesInv'
  <1> DEFINE Tried(r, n) == r # NoRecord /\ ~r.app_valid =>
                              n <= 1 /\ (~r.boot_attempted => n = 0)
  <1>0. /\ TriesInv /\ ModeInv /\ tries \in Nat /\ Tried(Active(flash), tries)
        /\ Rcv!Store!TypeOK
    BY DEF DeviceInv, AlwaysInv, TriesInv, ModeInv, TypeOK
  <1>1. CASE UNCHANGED vars
    BY <1>0, <1>1 DEF TriesInv, vars, bootVars, coreVars, paramVars
  <1>2. CASE StayInLoader \/ TrialRefused
    BY <1>0, <1>2
       DEF TriesInv, StayInLoader, TrialRefused, Params!Refuse, Enter, coreVars, paramVars
  <1>12. CASE JumpToApp \/ DecideTrial
    <2>1. UNCHANGED paramVars
      BY <1>12, MarkIsExact DEF JumpToApp, DecideTrial, Decide
    <2>2. job.phase = "idle" /\ tries' = tries /\ mode' # "trial"
      BY <1>0, <1>12 DEF ModeInv, JumpToApp, DecideTrial, Decide, Enter
    <2>3. QED
      BY <1>0, <2>1, <2>2 DEF TriesInv, paramVars
  <1>3. CASE BeginTrial
    <2>1. /\ Active(flash) \in Record /\ flash' = flash /\ tries' = tries /\ mode' = "trial"
          /\ job'.rec = AttemptedRecord(Active(flash))
      BY <1>3, MarkIsExact DEF BeginTrial, Enter
    <2>2. ~Active(flash).app_valid /\ ~Active(flash).boot_attempted
      BY <1>3 DEF BeginTrial, BootAction, DeviceInv, StartedInv
    <2>3. QED
      BY <1>0, <2>1, <2>2, WrittenRecords, FormatAssumption DEF TriesInv
  <1>4. CASE TrialStep
    <2>1. /\ job'.rec = job.rec /\ tries = 0 /\ job.rec.boot_attempted
          /\ \/ Active(flash') = Active(flash) \/ Active(flash') = job.rec
      BY <1>0, <1>4, JobStepFacts, ActiveMoves DEF TrialStep, TriesInv
    <2>2. CASE tries' = tries /\ mode' # "app"
      BY <1>0, <2>1, <2>2 DEF TriesInv
    <2>3. CASE tries' = tries + 1 /\ mode' = "app" /\ job'.phase = "idle" /\ status' = "ok"
      <3>1. Active(flash') = job'.rec
        BY <2>3, Moves, SameFormat
           DEF Rcv!CommitInv, Rcv!Store!OrderInv, Rcv!Store!StoreInv, Rcv!Store!AckedIsActive
      <3>2. QED
        BY <2>1, <2>3, <3>1 DEF TriesInv
    <2>4. QED
      BY <1>4, <2>2, <2>3 DEF TrialStep, bootVars, Enter
  <1>5. ASSUME NEW cmd \in Commands, Accept(cmd) PROVE TriesInv'
    <2>1. flash' = flash
      BY <1>0, <1>5, SameCall, CallStarts DEF ModeInv, Accept, Listening
    <2>2. QED
      BY <1>0, <1>5, <2>1 DEF TriesInv, Accept, Listening
  <1>6. CASE CommandStep
    <2>1. mode' = "loader"
      BY <1>6 DEF CommandStep, bootVars
    <2>2. CASE Active(flash') = Active(flash)
      BY <1>0, <1>6, <2>1, <2>2 DEF TriesInv, CommandStep, CommitInstalled
    <2>3. CASE Active(flash') # Active(flash)
      <3>1. job.phase = "program"
        BY <2>3, ActiveMoves
      <3>2. tries' = 0
        BY <1>0, <1>6, <2>3, <3>1 DEF ModeInv, CommandStep, CommitInstalled
      <3>3. QED
        BY <2>1, <3>2 DEF TriesInv
    <2>4. QED
      BY <2>2, <2>3
  <1>7. CASE Core!PowerCut /\ Restart /\ UNCHANGED tries
    BY <1>0, <1>7, PowerCutKeeps DEF Restart, TriesInv
  <1>8. CASE /\ mode = "loader" /\ UNCHANGED <<mode, tries, paramVars>>
    BY <1>0, <1>8 DEF TriesInv, paramVars
  <1>9. CASE AppMarksValid
    <2>1. flash' = flash /\ tries' = tries /\ mode' = "app"
      BY <1>9, MarkIsExact DEF AppMarksValid, Params!Refuse
    <2>2. job' = job \/ job'.rec.app_valid
      BY <1>9, MarkIsExact, WrittenRecords DEF AppMarksValid, Params!Refuse
    <2>3. mode = "app"
      BY <1>9 DEF AppMarksValid
    <2>4. QED
      BY <1>0, <2>1, <2>2, <2>3 DEF TriesInv
  <1>10. CASE AppStep
    <2>1. /\ job'.rec = job.rec /\ tries' = tries /\ mode' = "app" /\ job.rec.app_valid
          /\ \/ Active(flash') = Active(flash) \/ Active(flash') = job.rec
      BY <1>0, <1>10, JobStepFacts, ActiveMoves DEF AppStep, bootVars, TriesInv
    <2>2. QED
      BY <1>0, <2>1 DEF TriesInv
  <1>11. QED
    BY <1>1, <1>2, <1>3, <1>4, <1>5, <1>6, <1>7, <1>8, <1>9, <1>10, <1>12
       DEF Next, Frame, Respond, PowerCut

-----------------------------------------------------------------------------
(* Theorems. *)

LEMMA DeviceInit == Init => DeviceTrust
  <1> SUFFICES ASSUME Init PROVE DeviceTrust
    OBVIOUS
  <1>1. Rcv!CommitInv
    BY SameInit, Assumed, Rcv!CommitInvInit DEF Init
  <1>2. mode = "boot" /\ cur = "none" /\ op.kind = "none" /\ ctx.state = "IDLE" /\ tries = 0
    BY DEF Init, Core!Init, Core!NoOp, Core!InitCtx
  <1>3. job.phase = "idle" /\ marked = FALSE
    BY DEF Init, Core!Init, Core!Params!Init
  <1>4. ModeInv
    BY <1>2, <1>3 DEF ModeInv, TypeOK
  <1>5. AlwaysInv
    BY <1>1, <1>2, <1>4
       DEF AlwaysInv, WholeInv, Rcv!CommitInv, Rcv!Store!OrderInv, Rcv!Store!StoreInv
  <1>6. QED
    BY <1>1, <1>2, <1>5 DEF DeviceTrust, DeviceInv, StartedInv, TriesInv

LEMMA TrustShrinks == AlwaysInv /\ [Next]_vars /\ Rcv!Store!Trusted' => Rcv!Store!Trusted
  BY AlwaysMoves, Assumed, Rcv!Store!MisreadsGrow DEF AlwaysInv

LEMMA DeviceStep == NoWrap /\ DeviceTrust /\ [Next]_vars => DeviceTrust'
  <1> SUFFICES ASSUME NoWrap, DeviceTrust, [Next]_vars PROVE DeviceTrust'
    OBVIOUS
  <1>1. AlwaysInv'
    BY AlwaysMoves, ModeStep, WholeStep DEF AlwaysInv, DeviceTrust
  <1>2. Rcv!Store!Trusted' => Rcv!Store!Trusted
    BY TrustShrinks DEF DeviceTrust
  <1>3. QED
    BY <1>1, <1>2, Moves, StartedStep, TriesStep DEF DeviceTrust, DeviceInv

LEMMA AlwaysStep == AlwaysInv /\ [Next]_vars => AlwaysInv'
  BY AlwaysMoves, ModeStep, WholeStep DEF AlwaysInv

\* The device is in one of its modes, and a command is under way in the loader only
\* (boot_main_loop, boot_handle_command).
THEOREM TypeCorrect == Spec => []TypeOK
  <1>1. AlwaysInv => TypeOK
    BY DEF AlwaysInv, ModeInv
  <1>2. Init => AlwaysInv
    BY DeviceInit DEF DeviceTrust
  <1>3. QED
    BY <1>1, <1>2, AlwaysStep, PTL DEF Spec

\* Whatever the host sends and whatever fails, reads of the parameters included, the
\* application that runs is complete; until such a read misleads a call and as long as the
\* sequence does not wrap it is the one of the active record, and one that never declares
\* itself valid has run once (boot_jump_existing_app_if_allowed, stc8h_boot_mark_app_valid).
THEOREM WholeImagesRunOnce == ASSUME NoWrap PROVE Spec => []RunsWholeImagesOnce
  <1>1. DeviceTrust => RunsWholeImagesOnce
    BY SameMark DEF DeviceTrust, DeviceInv, AlwaysInv, WholeInv, StartedInv, TriesInv,
           RunsWholeImagesOnce, RunsOnlyWholeImages, TriedAtMostOnce
  <1>2. DeviceTrust /\ [Next]_vars => DeviceTrust'
    BY DeviceStep
  <1>3. QED
    BY <1>1, <1>2, DeviceInit, PTL DEF Spec

\* The record that appears is that of a commit, and a commit is for a verified image.
LEMMA RecordStep ==
  ASSUME NoWrap, DeviceInv, [Next]_vars, Active(flash') # NoRecord,
         Active(flash) = NoRecord \/ Active(flash').app # Active(flash).app
  PROVE  Core!Holds(Active(flash').app)
  <1>1. job.phase = "program" /\ Active(flash') = job.rec
    BY ActiveMoves
  <1>2. op.kind = "commit"
    BY <1>1 DEF DeviceInv, AlwaysInv, ModeInv, StartedInv, TypeOK
  <1>3. job.rec.app = ctx.man /\ Rcv!Holds(ctx.man)
    BY <1>2 DEF DeviceInv, Rcv!CommitInv, Rcv!Carried, Rcv!TrialOf, Rcv!CoreInv,
                Rcv!Admitted, Rcv!VerifiedImageIntact
  <1>4. QED
    BY <1>1, <1>3, SameHolds

\* A record for another image appears only when VERIFY has found all of that image in the
\* area (stc8h_ota_verify, stc8h_ota_commit), until a failing read misleads a call.
THEOREM RecordsAreOfFlash == ASSUME NoWrap PROVE Spec => RecordsFollowFlash
  <1> DEFINE Follows ==
        Params!Trusted /\ Active(flash') # NoRecord
          /\ (Active(flash) = NoRecord \/ Active(flash').app # Active(flash).app)
          => Core!Holds(Active(flash').app)
  <1>1. DeviceTrust /\ [Next]_vars => [Follows]_flash
    BY RecordStep, SameMark DEF DeviceTrust
  <1>2. DeviceTrust /\ [Next]_vars => DeviceTrust'
    BY DeviceStep
  <1>3. QED
    BY <1>1, <1>2, DeviceInit, PTL DEF Spec, RecordsFollowFlash

\* Bootloader, receiver and application, all of which write records, leave to the store one
\* call at a time and nothing else: the device implements the parameter store
\* (stc8h_ota_params_commit, _mark_boot_attempted, stc8h_boot_mark_app_valid).
THEOREM DeviceImplementsStore == Spec => Rcv!Store!Spec
  <1>1. Init => Rcv!Store!Init
    BY Assumed, SameInit, Rcv!SameInit DEF Init, Rcv!Init
  <1>2. AlwaysInv /\ [Next]_vars => [Rcv!Store!Next]_Rcv!Store!paramVars
    BY AlwaysMoves
  <1>3. Init => AlwaysInv
    BY DeviceInit DEF DeviceTrust
  <1>4. QED
    BY <1>1, <1>2, <1>3, AlwaysStep, PTL DEF Spec, Rcv!Store!Spec

\* To the three of them the parameter record is one register that changes in an instant,
\* whatever they call and wherever the power is cut (stc8h_ota_params_store.c:98-137), and
\* that is broken once a failing read misleads one of their calls.
THEOREM DeviceKeepsRegister == ASSUME NoWrap PROVE Spec => Rcv!Store!RegisterSpec
  <1>1. Rcv!Store!Spec => Rcv!Store!RegisterSpec
    BY Assumed, Rcv!Store!StoreImplementsRegister DEF NoWrap, Rcv!Store!NoWrap
  <1>2. QED
    BY <1>1, DeviceImplementsStore, PTL
=============================================================================
