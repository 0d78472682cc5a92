------------------------------ MODULE OtaUpdate ------------------------------
(***************************************************************************)
(* A whole update: the host of tools/h8k64u_uart1_ota_smoke.py, the UART    *)
(* line and the device of OtaDevice.                                        *)
(*                                                                         *)
(* The host resets the device, sends BEGIN, the blocks, VERIFY and COMMIT,  *)
(* each once it has the status of the one before, gives up at the first     *)
(* error or timeout, and is started again by its operator as long as the    *)
(* new application does not run.  Frames may be lost, the flash may fail    *)
(* and power may be cut, MaxFaults times in all.                            *)
(***************************************************************************)
EXTENDS OtaFormat, Sequences

CONSTANTS
  Data, Blank, Junk, Content, AppUnits, SectorUnits, OffsetMod, Chunks, MaxWorn,
  FactoryRecords, MaxSeq, MaxMisreads,   \* see OtaCore and OtaParams
  Image,                    \* the image the host sends
  ChunkUnits,               \* --chunk of the host
  MaxFaults                 \* bound on the faults of a run

VARIABLES
  host,      \* progress of the host script
  wire,      \* request on the line to the device
  back,      \* status on the line to the host
  lastSeq,   \* last_seq of the bootloader
  faults,    \* faults so far
  mode, marked, cur, tries,
  app, ctx, op, reply, got, worn, flash, job, status, misreads

Device == INSTANCE OtaDevice
Core == INSTANCE OtaCore
Params == INSTANCE OtaParams

Smaller(a, b) == IF a < b THEN a ELSE b

\* The payload of the WRITE_BLOCK at offset.
BlockAt(offset) ==
  SubSeq(Content[Image], offset + 1, Smaller(offset + ChunkUnits, Core!Size(Image)))

\* load_app_image cuts the image out of the application area, so it always fits.
ASSUME UpdateAssumption ==
  /\ Core!CoreAssumption
  /\ Image \in Images /\ InRange[Image]
  /\ ChunkUnits \in Nat \ {0} /\ MaxFaults \in Nat
  /\ \A offset \in 0 .. Core!Size(Image) - 1 : BlockAt(offset) \in Chunks

deviceVars == <<mode, marked, cur, tries, app, ctx, op, reply, got, worn, flash, job, status, misreads>>
linkVars == <<host, wire, back, lastSeq>>
vars == <<linkVars, faults, deviceVars>>

NoFrame == [seq |-> 0, cmd |-> "none", offset |-> 0, chunk |-> <<>>]
NoStatus == [seq |-> 0, cmd |-> "none", status |-> "none"]

\* Seeded bug: the initial value is a number the host uses.
NoSeqUsed == 1

\* The initial last_seq, 0xFFFF; the host counts from 1.
NoSeq == 0

Cmd == [begin |-> "BEGIN", write |-> "WRITE_BLOCK", verify |-> "VERIFY", commit |-> "COMMIT"]

HostOff == [stage |-> "off", waits |-> FALSE, seq |-> 1, offset |-> 0]

TypeOK ==
  /\ host \in [stage : DOMAIN Cmd \cup {"off", "app", "passed", "failed"},
               waits : BOOLEAN, seq : Nat, offset : 0 .. Core!Size(Image)]
  /\ wire.cmd \in {"none", "BEGIN", "WRITE_BLOCK", "VERIFY", "COMMIT"}
  /\ back.status \in {"none", "ok", "error", "duplicate"}
  /\ lastSeq \in Nat /\ faults \in 0 .. MaxFaults
  /\ mode # "loader" => lastSeq = NoSeq

Init ==
  /\ Device!Init
  /\ host = HostOff /\ wire = NoFrame /\ back = NoStatus
  /\ lastSeq = NoSeq /\ faults = 0

-----------------------------------------------------------------------------
(* The host. *)

\* The new application runs: what the operator wants to see.
Wanted == mode = "app" /\ Core!Holds(Image)

\* A run starts: the device is reset and its BOOT banner is seen.  A run that
\* passed is repeated when the device is found in the bootloader later, because
\* the application ignores that marking itself valid failed.
HostStart ==
  /\ \/ host.stage \in {"off", "failed"} /\ ~Wanted
     \/ host.stage = "passed" /\ mode = "loader"
  /\ Device!PowerCut
  /\ host' = [HostOff EXCEPT !.stage = "begin"]
  /\ wire' = NoFrame /\ back' = NoStatus /\ lastSeq' = NoSeq
  /\ UNCHANGED faults

BlockEnd == Smaller(host.offset + ChunkUnits, Core!Size(Image))

\* send_command.
HostSend ==
  /\ host.stage \in DOMAIN Cmd /\ ~host.waits
  /\ wire' = [seq |-> host.seq, cmd |-> Cmd[host.stage],
              offset |-> IF host.stage = "write" THEN host.offset ELSE 0,
              chunk |-> IF host.stage = "write" THEN BlockAt(host.offset) ELSE <<>>]
  /\ host' = [host EXCEPT !.waits = TRUE]
  /\ UNCHANGED <<back, lastSeq, faults, deviceVars>>

NextStage ==
  CASE host.stage = "begin"  -> "write"
    [] host.stage = "write"  -> IF BlockEnd = Core!Size(Image) THEN "verify" ELSE "write"
    [] host.stage = "verify" -> "commit"
    [] host.stage = "commit" -> "app"

\* read_status: a status of another sequence number is passed over.
HostHears ==
  /\ host.waits /\ back # NoStatus
  /\ back' = NoStatus
  /\ host' = IF back.seq # host.seq THEN host
             ELSE IF back.cmd = Cmd[host.stage] /\ back.status = "ok"
             THEN [stage |-> NextStage, waits |-> FALSE, seq |-> host.seq + 1,
                   offset |-> IF host.stage = "write" THEN BlockEnd ELSE host.offset]
             ELSE [host EXCEPT !.stage = "failed", !.waits = FALSE]
  /\ UNCHANGED <<wire, lastSeq, faults, deviceVars>>

\* The banner of the application ends the run.
HostSeesApp ==
  /\ host.stage = "app"
  /\ mode = "app" /\ marked /\ job.phase = "idle"
  /\ host' = [host EXCEPT !.stage = "passed"]
  /\ UNCHANGED <<wire, back, lastSeq, faults, deviceVars>>

\* The device has booted (which takes far less than the timeouts of the host) and
\* no answer is under way.
NothingComes ==
  \/ /\ host.waits /\ wire = NoFrame /\ back = NoStatus
     /\ mode \in {"loader", "app"} /\ cur = "none"
  \/ host.stage = "app" /\ mode = "loader"

\* A timeout is free when nothing can come any more, and a fault when it races
\* an answer that is late.
HostTimesOut ==
  /\ host.waits \/ host.stage = "app"
  /\ host' = [host EXCEPT !.stage = "failed", !.waits = FALSE]
  /\ faults' = IF NothingComes THEN faults ELSE faults + 1
  /\ UNCHANGED <<wire, back, lastSeq, deviceVars>>

-----------------------------------------------------------------------------
(* The line. *)

LoseRequest ==
  /\ wire # NoFrame /\ wire' = NoFrame
  /\ faults' = IF mode \in {"app", "trial"} THEN faults ELSE faults + 1
  /\ UNCHANGED <<host, back, lastSeq, deviceVars>>

LoseStatus ==
  /\ back # NoStatus /\ back' = NoStatus
  /\ faults' = faults + 1
  /\ UNCHANGED <<host, wire, lastSeq, deviceVars>>

-----------------------------------------------------------------------------
(* The device. *)

Perform(request) ==
  CASE request.cmd = "BEGIN"       -> Core!Begin(Image, TRUE)
    [] request.cmd = "WRITE_BLOCK" -> Core!WriteChunk(request.offset, request.chunk)
    [] request.cmd = "VERIFY"      -> Core!Verify
    [] request.cmd = "COMMIT"      -> Core!Commit

\* VERIFY succeeds on a whole image unless a read fails, and COMMIT finds the
\* active record unless a read fails.
ReadsFail ==
  \/ /\ wire.cmd = "VERIFY" /\ ctx.state = "RECEIVING" /\ ctx.offset = Core!Size(ctx.man)
     /\ Core!Holds(ctx.man) /\ reply' = "error"
  \/ misreads' # misreads

\* boot_process_complete_frame.
Receive ==
  /\ Device!Listening /\ wire # NoFrame
  /\ wire' = NoFrame
  /\ IF wire.seq = lastSeq
     THEN /\ back' = [seq |-> wire.seq, cmd |-> wire.cmd, status |-> "duplicate"]
          /\ UNCHANGED <<lastSeq, faults, deviceVars>>
     ELSE /\ lastSeq' = wire.seq /\ cur' = wire.cmd
          /\ Perform(wire)
          /\ faults' = IF ReadsFail THEN faults + 1 ELSE faults
          /\ UNCHANGED <<back, mode, marked, tries>>
  /\ UNCHANGED host

\* boot_send_status; after a successful COMMIT the device restarts.
Respond ==
  /\ Device!Respond
  /\ back' = [seq |-> lastSeq, cmd |-> cur, status |-> reply]
  /\ lastSeq' = IF mode' = "boot" THEN NoSeq ELSE lastSeq
  /\ UNCHANGED <<host, wire, faults>>

\* The step does what it was asked to do: no flash operation of it fails.
Intact ==
  /\ job.phase # "idle" => Params!Erase \/ Params!Program \/ Params!Check
  /\ op.kind = "erase" => Core!EraseSector
  /\ op.kind = "program" => Core!ProgramUnit
  /\ mode = "boot" /\ Active(flash) # NoRecord /\ Device!MayStart(Active(flash))
       => mode' # "loader"
  /\ mode = "mark" /\ Active(flash) # NoRecord => mode' # "loader"
  /\ mode = "app" /\ ~marked /\ Active(flash) # NoRecord => job'.phase # "idle"
  /\ misreads' = misreads

DeviceStep ==
  /\ \/ Device!StayInLoader \/ Device!JumpToApp \/ Device!DecideTrial
     \/ Device!BeginTrial \/ Device!TrialRefused \/ Device!TrialStep
     \/ Device!CommandStep
     \/ Device!AppMarksValid \/ Device!AppStep
  /\ faults' = IF Intact THEN faults ELSE faults + 1
  /\ UNCHANGED linkVars

PowerCut ==
  /\ Device!PowerCut
  /\ lastSeq' = NoSeq /\ wire' = NoFrame
  /\ faults' = faults + 1
  /\ UNCHANGED <<host, back>>

-----------------------------------------------------------------------------
Step ==
  \/ HostStart \/ HostSend \/ HostHears \/ HostSeesApp \/ HostTimesOut
  \/ LoseRequest \/ LoseStatus
  \/ Receive \/ Respond \/ DeviceStep \/ PowerCut

Next == Step /\ faults' <= MaxFaults

Spec == Init /\ [][Next]_vars

\* The host, the operator and the device go on whenever they can.
Fairness == WF_vars(Next /\ faults' = faults)

FairSpec == Spec /\ Fairness

-----------------------------------------------------------------------------
(* Properties. *)

\* What the host has been told holds on the device: after the status of COMMIT,
\* whatever happens to the device then, flash holds the new image and the active
\* record is about it, the latter as long as no call was misled.
CommitIsBelievable ==
  host.stage \in {"app", "passed"} =>
    /\ Core!Holds(Image)
    /\ Params!Trusted => Active(flash) # NoRecord /\ Active(flash).app = Image

\* The host never counts a block the device has not stored: every acknowledged
\* unit is in flash, power cuts included, until the host is restarted, unless its
\* cell failed unnoticed.
AcknowledgedBlocksAreStored ==
  host.stage \in {"write", "verify", "commit"} =>
    \A k \in 1 .. host.offset : app[k - 1] = Content[Image][k] \/ k - 1 \in worn

\* The host can rely on every answer it was given.
AnswersHold == CommitIsBelievable /\ AcknowledgedBlocksAreStored

\* The new application comes to run for good.
UpdateEnds == <>[]Wanted

\* However it is interrupted, an update that is repeated ends with the new
\* application running for good, provided no call of the parameter store was ever
\* misled by a failing read (see OtaParams).
UpdateCompletes == []Params!Trusted => UpdateEnds

=============================================================================
