------------------------------- MODULE OtaCore -------------------------------
(***************************************************************************)
(* The OTA receive state machine (protocols/stc8h_ota.c) over the program   *)
(* flash backend (hal/stc8h_iap_program.c) and the parameter store.         *)
(*                                                                         *)
(* The application area is a row of units; a sector is SectorUnits of them  *)
(* and app_base is unit 0.  A call runs alone, but power can be cut between *)
(* any two flash operations, so erasing is one step per sector, programming *)
(* one step per unit, and commit runs the steps of the parameter store.     *)
(* CRC32 is taken to tell images apart: it matches when the area holds the  *)
(* bytes of the image.  Every flash operation may fail, and a programmed    *)
(* unit may hold something else although IAP reported no failure.           *)
(***************************************************************************)
EXTENDS OtaFormat, Sequences, FiniteSets

CONSTANTS
  Data,           \* values of a unit
  Blank,          \* the erased value (0xFF), which an image may also contain
  Junk,           \* a unit programmed twice or not completely
  Content,        \* Content[i]: the units of image i
  AppUnits,       \* units of the application area
  SectorUnits,    \* units of a sector
  OffsetMod,      \* values of the 16-bit operands of offset + len
  Chunks,         \* payloads a WRITE_BLOCK may carry
  FactoryRecords, \* see OtaParams
  MaxWorn,        \* bound on the units that are worn at a time
  MaxSeq, MaxMisreads  \* see OtaParams

Size(i) == Len(Content[i])

ASSUME CoreAssumption ==
  /\ AppUnits \in Nat \ {0} /\ SectorUnits \in Nat \ {0} /\ OffsetMod \in Nat
  /\ AppUnits < OffsetMod
  /\ Blank \in Data /\ Junk \notin Data
  /\ Content \in [Images -> Seq(Data)]
  /\ \A c \in Chunks : c \in Seq(Data)
  /\ InRange = [i \in Images |-> Size(i) \in 1 .. AppUnits]
  /\ Images # {}
  /\ FactoryRecords \subseteq Record
  /\ MaxSeq \in Nat /\ MaxMisreads \in Nat /\ MaxWorn \in Nat

VARIABLES
  app,      \* app[k]: content of unit k of the application area
  ctx,      \* stc8h_ota_context_t
  op,       \* the flash work of the call in progress
  reply,    \* answer of the last call: "none", "busy", "ok" or "error"
  got,      \* history: the bytes accepted since BEGIN
  worn,     \* history: units that did not take what was programmed, unnoticed
  flash, job, status, misreads   \* the parameter store

Params == INSTANCE OtaParams

paramVars == <<flash, job, status, misreads>>
coreVars == <<app, ctx, op, reply, got, worn>>
vars == <<coreVars, paramVars>>

Units == 0 .. AppUnits - 1
States == {"IDLE", "PREPARING", "RECEIVING", "PENDING_COMMIT", "COMMITTED", "FAILED"}

TypeOK ==
  /\ app \in [Units -> Data \cup {Junk}]
  /\ ctx \in [state : States, man : Images, offset : 0 .. OffsetMod - 1,
              lastOffset : 0 .. OffsetMod - 1, lastLen : Nat]
  /\ op \in [kind : {"none", "erase", "program", "commit"}, pos : Units,
             chunk : {<<>>} \cup Chunks]
  /\ reply \in {"none", "busy", "ok", "error"}
  /\ got \in Seq(Data) /\ worn \subseteq Units
  /\ Params!TypeOK

NoOp == [kind |-> "none", pos |-> 0, chunk |-> <<>>]

\* stc8h_ota_init; the manifest stays undefined until the first BEGIN.
InitCtx == [state |-> "IDLE", man |-> CHOOSE i \in Images : TRUE, offset |-> 0,
            lastOffset |-> 0, lastLen |-> 0]

\* The application area holds the bytes of image i.
Holds(i) == \A k \in 1 .. Size(i) : app[k - 1] = Content[i][k]

\* A fresh chip, or one with the image its factory record describes.
Init ==
  /\ Params!Init
  /\ \/ app = [k \in Units |-> Blank]
     \/ /\ flash["A"] # NoRecord /\ InRange[flash["A"].app]
        /\ LET i == flash["A"].app
           IN  app = [k \in Units |-> IF k < Size(i) THEN Content[i][k + 1] ELSE Blank]
  /\ ctx = InitCtx /\ op = NoOp /\ reply = "none" /\ got = <<>> /\ worn = {}

-----------------------------------------------------------------------------
(* How a call ends. *)

Answer(r) == reply' = r /\ op' = NoOp

\* stc8h_ota_set_fail, keeping the state or entering FAILED.  The reason code
\* decides nothing and is left out.
Refuse == UNCHANGED <<ctx, got>> /\ Answer("error")
Fail == ctx' = [ctx EXCEPT !.state = "FAILED"] /\ got' = <<>> /\ Answer("error")

Ready == op.kind = "none"

-----------------------------------------------------------------------------
(* stc8h_ota_begin.  known: magic, version, chip, bootloader version and the *)
(* configured identifiers all match.                                        *)

Begin(i, known) ==
  /\ Ready
  /\ UNCHANGED <<app, worn, paramVars>>
  /\ IF known /\ InRange[i]
     THEN /\ ctx' = [InitCtx EXCEPT !.man = i, !.state = "PREPARING"]
          /\ op' = [NoOp EXCEPT !.kind = "erase"]
          /\ reply' = "busy" /\ got' = <<>>
     ELSE Fail

EraseEnd == Size(ctx.man)

ErasedUnits == op.pos .. op.pos + SectorUnits - 1

EraseSector ==
  /\ op.kind = "erase"
  /\ app' = [k \in Units |-> IF k \in ErasedUnits THEN Blank ELSE app[k]]
  /\ worn' = worn \ ErasedUnits
  /\ IF op.pos + SectorUnits < EraseEnd
     THEN op' = [op EXCEPT !.pos = @ + SectorUnits] /\ UNCHANGED <<ctx, reply>>
     ELSE ctx' = [ctx EXCEPT !.state = "RECEIVING"] /\ Answer("ok")
  /\ UNCHANGED <<got, paramVars>>

\* The backend refuses or IAP reports CMD_FAIL.
EraseSectorFails ==
  /\ op.kind = "erase"
  /\ Fail
  /\ UNCHANGED <<app, worn, paramVars>>

-----------------------------------------------------------------------------
(* stc8h_ota_write_chunk. *)

\* uint16 offset + uint16 len: the sum wraps before it is widened.
EndOffset(offset, chunk) == (offset + Len(chunk)) % OffsetMod

IsLastChunk(offset, chunk) == offset = ctx.lastOffset /\ Len(chunk) = ctx.lastLen

\* Seeded bug: a duplicate is believed without reading it back.
WrittenUnread(offset, chunk) == TRUE

\* stc8h_ota_compare_written_chunk.
Written(offset, chunk) ==
  \A k \in 1 .. Len(chunk) :
    offset + k - 1 \in Units /\ app[offset + k - 1] = chunk[k]

\* Seeded bug: the program flash does not check the range.
BackendAcceptsAll(offset, chunk) == TRUE

\* stc8h_iap_program_range_ok.
BackendAccepts(offset, chunk) == offset + Len(chunk) <= AppUnits

\* The bytes accepted so far, with chunk at offset.
Overlay(offset, chunk) ==
  [k \in 1 .. Len(got) |->
     IF k \in offset + 1 .. offset + Len(chunk) THEN chunk[k - offset] ELSE got[k]]

\* The chunk accepted last comes again; reading it back may fail.
DuplicateChunk(offset, chunk) ==
  \/ /\ Written(offset, chunk)
     /\ Answer("ok")
     /\ got' = Overlay(offset, chunk)
     /\ UNCHANGED ctx
  \/ Refuse

WriteChunk(offset, chunk) ==
  /\ Ready
  /\ UNCHANGED <<app, worn, paramVars>>
  /\ IF Len(chunk) = 0 THEN Refuse
     ELSE IF ctx.state # "RECEIVING" THEN Refuse
     ELSE IF offset < ctx.offset /\ IsLastChunk(offset, chunk)
          THEN DuplicateChunk(offset, chunk)
     ELSE IF offset # ctx.offset THEN Refuse
     ELSE IF EndOffset(offset, chunk) > Size(ctx.man) THEN Refuse
     ELSE IF ~BackendAccepts(offset, chunk) THEN Fail
     ELSE /\ op' = [kind |-> "program", pos |-> 0, chunk |-> chunk]
          /\ reply' = "busy"
          /\ UNCHANGED <<ctx, got>>

\* Flash programming only clears bits.
Programmed(old, new) == IF old \in {Blank, new} THEN new ELSE Junk

Place == ctx.offset + op.pos

\* The loop of stc8h_iap_program_write goes on; at its end the block is accepted.
UnitIsDone ==
  IF op.pos + 1 < Len(op.chunk)
  THEN op' = [op EXCEPT !.pos = @ + 1] /\ UNCHANGED <<ctx, reply, got>>
  ELSE /\ ctx' = [ctx EXCEPT !.lastOffset = ctx.offset, !.lastLen = Len(op.chunk),
                             !.offset = EndOffset(ctx.offset, op.chunk)]
       /\ got' = got \o op.chunk
       /\ Answer("ok")

ProgramUnit ==
  /\ op.kind = "program"
  /\ app' = [app EXCEPT ![Place] = Programmed(@, op.chunk[op.pos + 1])]
  /\ UnitIsDone
  /\ UNCHANGED <<worn, paramVars>>

\* IAP reports no failure and nothing is read back, but a cell keeps wrong bits.
ProgramUnitWorn ==
  /\ op.kind = "program"
  /\ \E v \in {Blank, Junk} \ {op.chunk[op.pos + 1]} : app' = [app EXCEPT ![Place] = v]
  /\ worn' = worn \cup {Place} /\ Cardinality(worn') <= MaxWorn
  /\ UnitIsDone
  /\ UNCHANGED paramVars

ProgramUnitFails ==
  /\ op.kind = "program"
  /\ Fail
  /\ UNCHANGED <<app, worn, paramVars>>

-----------------------------------------------------------------------------
(* stc8h_ota_verify: reads only, so it is one step. *)

\* Seeded bug: the CRC is computed and not compared.
VerifyBlind ==
  /\ Ready
  /\ IF ctx.state # "RECEIVING" THEN Refuse
     ELSE IF ctx.offset # Size(ctx.man) THEN Refuse
     ELSE \/ Fail
          \/ /\ ctx' = [ctx EXCEPT !.state = "PENDING_COMMIT"]
             /\ UNCHANGED got
             /\ Answer("ok")
  /\ UNCHANGED <<app, worn, paramVars>>

Verify ==
  /\ Ready
  /\ IF ctx.state # "RECEIVING" THEN Refuse
     ELSE IF ctx.offset # Size(ctx.man) THEN Refuse
     ELSE \/ Fail   \* a read failed, or the CRC does not match
          \/ /\ Holds(ctx.man)
             /\ ctx' = [ctx EXCEPT !.state = "PENDING_COMMIT"]
             /\ UNCHANGED got
             /\ Answer("ok")
  /\ UNCHANGED <<app, worn, paramVars>>

-----------------------------------------------------------------------------
(* stc8h_ota_commit and stc8h_ota_abort. *)

\* Seeded bug: an image that is being received may be committed.
CommitUnverified ==
  /\ Ready
  /\ \/ /\ ctx.state \notin {"RECEIVING", "PENDING_COMMIT"}
        /\ Refuse
        /\ UNCHANGED paramVars
     \/ /\ ctx.state \in {"RECEIVING", "PENDING_COMMIT"}
        /\ Params!Commit(ctx.man)
        /\ op' = [NoOp EXCEPT !.kind = "commit"] /\ reply' = "busy"
        /\ UNCHANGED <<ctx, got>>
  /\ UNCHANGED <<app, worn>>

Commit ==
  /\ Ready
  /\ \/ /\ ctx.state # "PENDING_COMMIT"
        /\ Refuse
        /\ UNCHANGED paramVars
     \/ /\ ctx.state = "PENDING_COMMIT"
        /\ Params!Commit(ctx.man)
        /\ op' = [NoOp EXCEPT !.kind = "commit"] /\ reply' = "busy"
        /\ UNCHANGED <<ctx, got>>
  /\ UNCHANGED <<app, worn>>

\* A flash operation of write_next; the last one ends the call.
CommitStep ==
  /\ op.kind = "commit"
  /\ Params!JobStep
  /\ \/ job'.phase # "idle" /\ UNCHANGED <<ctx, got, op, reply>>
     \/ /\ job'.phase = "idle" /\ status' = "ok"
        /\ ctx' = [ctx EXCEPT !.state = "COMMITTED"]
        /\ UNCHANGED got
        /\ Answer("ok")
     \/ job'.phase = "idle" /\ status' = "error" /\ Fail
  /\ UNCHANGED <<app, worn>>

Abort ==
  /\ Ready
  /\ ctx' = [InitCtx EXCEPT !.man = ctx.man, !.state = "FAILED"]
  /\ got' = <<>>
  /\ Answer("ok")
  /\ UNCHANGED <<app, worn, paramVars>>

-----------------------------------------------------------------------------
\* What is left of a flash operation that loses its power.
TornApp ==
  \/ UNCHANGED app
  \/ /\ op.kind = "erase"
     /\ app' = [k \in Units |-> IF k \in ErasedUnits THEN Junk ELSE app[k]]
  \/ /\ op.kind = "program"
     /\ app' = [app EXCEPT ![Place] = Junk]

\* Reset or loss of power: the context is initialised again by main.
PowerCut ==
  /\ TornApp
  /\ Params!PowerCut
  /\ ctx' = InitCtx /\ op' = NoOp /\ reply' = "none" /\ got' = <<>>
  /\ UNCHANGED worn

Call ==
  \/ \E i \in Images, known \in BOOLEAN : Begin(i, known)
  \/ \E offset \in 0 .. OffsetMod - 1, chunk \in Chunks : WriteChunk(offset, chunk)
  \/ Verify \/ Commit \/ Abort

Step ==
  \/ EraseSector \/ EraseSectorFails
  \/ ProgramUnit \/ ProgramUnitWorn \/ ProgramUnitFails
  \/ CommitStep

Next == Call \/ Step \/ PowerCut

Spec == Init /\ [][Next]_vars

-----------------------------------------------------------------------------
(* Properties. *)

Receiving == ctx.state = "RECEIVING"

Progress == ctx.offset + IF op.kind = "program" THEN op.pos ELSE 0

\* While an image is received every unit that is still to come is erased, so
\* that no unit is ever programmed over old content.
ErasedAhead ==
  Receiving => \A k \in Units : Progress <= k /\ k < Size(ctx.man) => app[k] = Blank

\* Flash holds exactly the bytes the calls accepted, in order and without gaps,
\* duplicates included: a chunk answered with STC8H_OK is in flash as it was
\* sent (stc8h_ota_write_chunk and its duplicate rule), except in cells that
\* failed unnoticed, which only VERIFY finds.
AcceptedBytesAreStored ==
  ctx.state \in {"RECEIVING", "PENDING_COMMIT", "COMMITTED"} =>
    /\ Len(got) = ctx.offset /\ ctx.offset <= Size(ctx.man)
    /\ \A k \in 1 .. Len(got) : app[k - 1] = got[k] \/ k - 1 \in worn

\* The area is erased before it is programmed, and what was accepted is in it.
BlocksAreStored == ErasedAhead /\ AcceptedBytesAreStored

\* From a successful VERIFY until the next BEGIN the area holds the image the
\* manifest describes, through the whole of COMMIT and whatever cells are worn.
VerifiedImageIntact ==
  ctx.state \in {"PENDING_COMMIT", "COMMITTED"} => Holds(ctx.man)

\* After COMMIT succeeded a restart would try exactly the committed image, if no
\* read of the parameters has misled a call.
CommittedIsTried ==
  Params!Trusted /\ ctx.state = "COMMITTED" =>
    /\ Active(flash) # NoRecord
    /\ Active(flash).app = ctx.man
    /\ BootAction(Active(flash)) = "trial"

\* What was verified is what is committed, and what a restart then tries.
CommitIsSound == VerifiedImageIntact /\ CommittedIsTried

\* The write offset only goes back when the transfer is restarted or given up:
\* the 16-bit sum never carries the receiver back into what it has written.
OffsetOnlyAdvances ==
  [][ctx'.offset < ctx.offset => ctx'.state \in {"IDLE", "PREPARING", "FAILED"}]_ctx
=============================================================================
