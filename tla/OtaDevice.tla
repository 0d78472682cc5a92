------------------------------ MODULE OtaDevice ------------------------------
(***************************************************************************)
(* The whole device: the UART1 bootloader                                   *)
(* (examples/platformio/h8k64u_uart1_ota_bootloader/src/main.c) with the    *)
(* OTA core and the parameter store inside it, and the application it       *)
(* starts (examples/platformio/h8k64u_ota_min_app).                         *)
(*                                                                         *)
(* The host is whoever can reach the line: in loader mode any well-formed   *)
(* frame may arrive at any time, which covers lost, repeated and reordered  *)
(* ones, and with them the sequence numbers of frames: OtaUpdate adds those  *)
(* and the status replies.  Power can be cut between any two steps.          *)
(***************************************************************************)
EXTENDS OtaFormat, Sequences

CONSTANTS
  Data, Blank, Junk, Content, AppUnits, SectorUnits, OffsetMod, Chunks, MaxWorn,
  FactoryRecords, MaxSeq, MaxMisreads    \* see OtaCore and OtaParams

VARIABLES
  mode,     \* "boot", "mark", "trial", "loader" or "app"
  marked,   \* the application has called mark_app_valid since it started
  cur,      \* command being executed, "none" between commands
  tries,    \* history: starts of the committed image before it is valid
  app, ctx, op, reply, got, worn, flash, job, status, misreads

Core == INSTANCE OtaCore
Params == INSTANCE OtaParams

ASSUME DeviceAssumption == Core!CoreAssumption

coreVars == <<app, ctx, op, reply, got, worn>>
paramVars == <<flash, job, status, misreads>>
bootVars == <<mode, marked, cur>>
vars == <<bootVars, tries, coreVars, paramVars>>

Commands == {"BEGIN", "WRITE_BLOCK", "VERIFY", "COMMIT", "ABORT", "OTHER"}

TypeOK ==
  /\ mode \in {"boot", "mark", "trial", "loader", "app"}
  /\ marked \in BOOLEAN /\ tries \in Nat
  /\ cur \in Commands \cup {"none"}
  /\ cur # "none" => mode = "loader"

Init ==
  /\ Core!Init
  /\ mode = "boot" /\ marked = FALSE /\ cur = "none" /\ tries = 0

-----------------------------------------------------------------------------
(* Reset: main starts again, with its static data. *)

Restart ==
  mode' = "boot" /\ marked' = FALSE /\ cur' = "none"

PowerCut ==
  /\ Core!PowerCut
  /\ Restart
  /\ UNCHANGED tries

-----------------------------------------------------------------------------
(* boot_jump_existing_app_if_allowed. *)

Enter(m) == mode' = m /\ UNCHANGED <<marked, cur>>

\* Seeded bug: the record alone decides.
AppCrcUnread(r) == TRUE

AppCrcMatches(r) == Core!Holds(r.app)

\* The record is missing or says to stay, or the flash does not match it (or
\* cannot be read).
StayInLoader ==
  /\ mode = "boot"
  /\ Enter("loader")
  /\ UNCHANGED <<tries, coreVars, paramVars>>

MayStart(r) == BootAction(r) # "stay" /\ AppCrcMatches(r)

\* load_active finds a record that asks for action, and flash holds its image.
Decide(action) ==
  /\ mode = "boot"
  /\ \E r \in Params!LoadedRecords :
       Params!Load(r) /\ MayStart(r) /\ BootAction(r) = action
  /\ UNCHANGED <<tries, coreVars>>

JumpToApp == Decide("jump") /\ Enter("app")

DecideTrial == Decide("trial") /\ Enter("mark")

BeginTrial ==
  /\ mode = "mark"
  /\ Params!MarkBootAttempted
  /\ Enter("trial")
  /\ UNCHANGED <<tries, coreVars>>

\* mark_boot_attempted cannot read the record any more.
TrialRefused ==
  /\ mode = "mark"
  /\ Params!Refuse
  /\ Enter("loader")
  /\ UNCHANGED <<tries, coreVars>>

\* mark_boot_attempted goes on; only its success starts the application.
TrialStep ==
  /\ mode = "trial"
  /\ Params!JobStep
  /\ IF job'.phase # "idle" THEN UNCHANGED <<bootVars, tries>>
     ELSE IF status' = "ok" THEN Enter("app") /\ tries' = tries + 1
     ELSE Enter("loader") /\ UNCHANGED tries
  /\ UNCHANGED coreVars

-----------------------------------------------------------------------------
(* The loader: boot_process_complete_frame. *)

Listening == mode = "loader" /\ cur = "none"

\* boot_handle_command; a payload of the wrong length, an offset beyond 16 bits
\* or an unknown command is refused before it reaches the core.
Handle(cmd) ==
  \/ cmd = "BEGIN" /\ \E i \in Images, known \in BOOLEAN : Core!Begin(i, known)
  \/ /\ cmd = "WRITE_BLOCK"
     /\ \E offset \in 0 .. OffsetMod - 1, chunk \in Chunks : Core!WriteChunk(offset, chunk)
  \/ cmd = "VERIFY" /\ Core!Verify
  \/ cmd = "COMMIT" /\ Core!Commit
  \/ cmd = "ABORT" /\ Core!Abort
  \/ /\ cmd # "ABORT"
     /\ Core!Answer("error")
     /\ UNCHANGED <<app, ctx, got, worn, paramVars>>

\* PROTO_OTA_FRAME_PARSE_OK.
Accept(cmd) ==
  /\ Listening
  /\ cur' = cmd
  /\ Handle(cmd)
  /\ UNCHANGED <<mode, marked, tries>>

\* A complete record of a commit is a new image to try.
CommitInstalled == op.kind = "commit" /\ Active(flash') # Active(flash)

CommandStep ==
  /\ mode = "loader"
  /\ Core!Step
  /\ tries' = IF CommitInstalled THEN 0 ELSE tries
  /\ UNCHANGED bootVars

\* boot_send_status, and the software reset after a successful COMMIT.
Respond ==
  /\ mode = "loader" /\ cur # "none" /\ Core!Ready
  /\ IF cur = "COMMIT" /\ reply = "ok"
     THEN /\ Core!PowerCut
          /\ Restart
     ELSE /\ cur' = "none"
          /\ UNCHANGED <<mode, marked, coreVars, paramVars>>
  /\ UNCHANGED tries

-----------------------------------------------------------------------------
(* The application. *)

\* stc8h_boot_mark_app_valid, called once after each start; the application ignores
\* its answer.
AppMarksValid ==
  /\ mode = "app" /\ ~marked
  /\ Params!MarkAppValid \/ Params!Refuse
  /\ marked' = TRUE
  /\ UNCHANGED <<mode, cur, tries, coreVars>>

AppStep ==
  /\ mode = "app"
  /\ Params!JobStep
  /\ UNCHANGED <<bootVars, tries, coreVars>>

-----------------------------------------------------------------------------
Frame == \E cmd \in Commands : Accept(cmd)

Next ==
  \/ StayInLoader \/ JumpToApp \/ DecideTrial \/ BeginTrial \/ TrialRefused \/ TrialStep
  \/ Frame \/ CommandStep \/ Respond
  \/ AppMarksValid \/ AppStep
  \/ PowerCut

Spec == Init /\ [][Next]_vars

-----------------------------------------------------------------------------
(* Properties. *)

\* Whatever was interrupted before and whatever reads fail, a running application
\* is complete: the area holds an image byte for byte, that of the active record
\* as long as no call was misled.
RunsOnlyWholeImages ==
  mode = "app" =>
    /\ \E i \in Images : InRange[i] /\ Core!Holds(i)
    /\ Params!Trusted => Active(flash) # NoRecord /\ Core!Holds(Active(flash).app)

\* An image that never declares itself valid is started at most once after it
\* was committed, however often the device restarts (docs/25 line 98), until a
\* failing read shows the device another record.
TriedAtMostOnce ==
  Params!Trusted /\ Active(flash) # NoRecord /\ ~Active(flash).app_valid => tries <= 1

\* Only whole images run, and one that does not declare itself valid runs once.
RunsWholeImagesOnce == RunsOnlyWholeImages /\ TriedAtMostOnce

\* The store never comes to describe an image that is not in flash: a record
\* for another image appears only once VERIFY has found all of it there, and no
\* power cut or failing operation in between changes that, until a call is misled.
RecordsFollowFlash ==
  [][Params!Trusted /\ Active(flash') # NoRecord
       /\ (Active(flash) = NoRecord \/ Active(flash').app # Active(flash).app)
       => Core!Holds(Active(flash').app)]_flash
=============================================================================
