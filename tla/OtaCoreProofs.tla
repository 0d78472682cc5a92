---------------------------- MODULE OtaCoreProofs ----------------------------
(***************************************************************************)
(* Proofs about OtaCore: for every area, sector and chunk size, for all      *)
(* images and all faults.  What is in flash while a call is in progress is   *)
(* the heart of the invariant: how far the erase loop and the program loop   *)
(* have come, and that no sum of the program loop has wrapped.              *)
(***************************************************************************)
EXTENDS OtaCore, TLAPS

Ctx == [state : States, man : Images, offset : 0 .. OffsetMod - 1,
        lastOffset : 0 .. OffsetMod - 1, lastLen : Nat]

Op == [kind : {"none", "erase", "program", "commit"}, pos : Units,
       chunk : {<<>>} \cup Chunks]

\* The types of everything but the parameter store.
CoreType ==
  /\ app \in [Units -> Data \cup {Junk}] /\ ctx \in Ctx /\ op \in Op
  /\ reply \in {"none", "busy", "ok", "error"} /\ got \in Seq(Data) /\ worn \subseteq Units

\* Behind the erase loop the area is blank.
Erasing ==
  op.kind = "erase" =>
    /\ ctx.state = "PREPARING" /\ ctx.offset = 0 /\ got = <<>> /\ InRange[ctx.man]
    /\ \A k \in Units : k < op.pos => app[k] = Blank

\* Behind the program loop the area holds the chunk, except in worn units, and the
\* chunk ends within the image.
Programming ==
  op.kind = "program" =>
    /\ Receiving /\ op.chunk \in Chunks /\ op.pos < Len(op.chunk)
    /\ ctx.offset + Len(op.chunk) <= Size(ctx.man)
    /\ \A j \in 1 .. op.pos :
         app[ctx.offset + j - 1] = op.chunk[j] \/ ctx.offset + j - 1 \in worn

Transferring == ctx.state \in {"RECEIVING", "PENDING_COMMIT", "COMMITTED"}

\* A transfer is for an image that fits, and only a verified image is being committed.
Admitted ==
  /\ Transferring => InRange[ctx.man]
  /\ op.kind = "commit" => ctx.state = "PENDING_COMMIT"

CoreInv ==
  /\ CoreType /\ Erasing /\ Programming /\ Admitted
  /\ ErasedAhead /\ AcceptedBytesAreStored /\ VerifiedImageIntact

\* A remainder that has nothing to take away.
LEMMA ModSmall == ASSUME NEW m \in Nat, NEW k \in 0 .. m - 1 PROVE k % m = k
  OBVIOUS

LEMMA ModRange == ASSUME NEW k \in Nat, NEW m \in Nat \ {0} PROVE k % m \in 0 .. m - 1
  OBVIOUS

\* One sequence after another.
LEMMA Appended ==
  ASSUME NEW S, NEW s \in Seq(S), NEW t \in Seq(S)
  PROVE  s \o t \in Seq(S) /\ Len(s \o t) = Len(s) + Len(t)
  OBVIOUS

USE CoreAssumption

-----------------------------------------------------------------------------
(* Facts about the constants and the helpers. *)

\* An image in range has at least a unit and fits into the area.
LEMMA SizeFits ==
  ASSUME NEW i \in Images
  PROVE  /\ Size(i) \in Nat
         /\ InRange[i] => Size(i) \in 1 .. AppUnits
  <1>1. Size(i) \in Nat
    BY DEF Size
  <1>2. InRange[i] = (Size(i) \in 1 .. AppUnits)
    BY Zenon
  <1>3. QED
    BY <1>1, <1>2

LEMMA InitialValues == InitCtx \in Ctx /\ NoOp \in Op
  <1>1. 0 \in Units /\ 0 \in 0 .. OffsetMod - 1
    BY DEF Units
  <1>2. (CHOOSE i \in Images : TRUE) \in Images
    OBVIOUS
  <1>3. QED
    BY <1>1, <1>2 DEF InitCtx, Ctx, NoOp, Op, States

\* A sum that stays within the area does not wrap.
LEMMA NoSumWraps ==
  ASSUME NEW offset \in Nat, NEW chunk \in Chunks, BackendAccepts(offset, chunk)
  PROVE  EndOffset(offset, chunk) = offset + Len(chunk)
  <1>1. offset + Len(chunk) \in 0 .. OffsetMod - 1
    BY DEF BackendAccepts
  <1>2. QED
    BY <1>1, ModSmall DEF EndOffset

\* The accepted bytes with a chunk laid over them are as many bytes as before.
LEMMA OverlayType ==
  ASSUME got \in Seq(Data), NEW offset \in Nat, NEW chunk \in Chunks
  PROVE  Overlay(offset, chunk) \in Seq(Data) /\ Len(Overlay(offset, chunk)) = Len(got)
  <1>1. \A k \in 1 .. Len(got) :
          (IF k \in offset + 1 .. offset + Len(chunk) THEN chunk[k - offset] ELSE got[k]) \in Data
    OBVIOUS
  <1>2. QED
    BY <1>1 DEF Overlay

LEMMA InitInvariant == Init => CoreInv
  <1> SUFFICES ASSUME Init PROVE CoreInv
    OBVIOUS
  <1>1. ctx = InitCtx /\ op = NoOp /\ reply = "none" /\ got = <<>> /\ worn = {}
    BY DEF Init
  <1>2. app \in [Units -> Data \cup {Junk}]
    <2>1. CASE app = [k \in Units |-> Blank]
      BY <2>1
    <2>2. ASSUME NEW i \in Images,
                 app = [k \in Units |-> IF k < Size(i) THEN Content[i][k + 1] ELSE Blank]
          PROVE  app \in [Units -> Data \cup {Junk}]
      BY <2>2 DEF Size, Units
    <2>3. flash["A"] # NoRecord => flash["A"].app \in Images
      <3>1. PICK r \in FactoryRecords \cup {NoRecord} :
              flash = [s \in {"A", "B"} |-> IF s = "A" THEN r ELSE NoRecord]
        BY DEF Init, Params!Init, Params!Slots
      <3>2. flash["A"] = r
        BY <3>1
      <3>3. QED
        BY <3>2 DEF Record
    <2>4. QED
      BY <2>1, <2>2, <2>3 DEF Init
  <1>3. QED
    BY <1>1, <1>2, InitialValues
       DEF InitCtx, NoOp, CoreInv, CoreType, Erasing, Programming, Admitted, Transferring,
           ErasedAhead, AcceptedBytesAreStored, VerifiedImageIntact, Receiving

-----------------------------------------------------------------------------
(* How calls end. *)

\* The state with the failed context satisfies the invariant, whatever is in flash.
LEMMA GivenUp ==
  ASSUME CoreInv, app' \in [Units -> Data \cup {Junk}], ctx' \in Ctx, op' = NoOp, got' = <<>>,
         reply' \in {"none", "busy", "ok", "error"}, ctx'.state \in {"IDLE", "FAILED"},
         worn' = worn
  PROVE  CoreInv'
  BY InitialValues
     DEF NoOp, CoreInv, CoreType, Erasing, Programming, Admitted, Transferring, ErasedAhead,
         AcceptedBytesAreStored, VerifiedImageIntact, Receiving

LEMMA FailStep == ASSUME CoreInv, UNCHANGED <<app, worn>>, Fail PROVE CoreInv'
  <1>1. ctx' \in Ctx /\ ctx'.state = "FAILED"
    BY DEF Fail, CoreInv, CoreType, Ctx, States
  <1>2. QED
    BY <1>1, GivenUp DEF Fail, Answer, CoreInv, CoreType

LEMMA RefuseStep ==
  ASSUME CoreInv, Ready, UNCHANGED <<app, worn>>, Refuse PROVE CoreInv'
  BY InitialValues
     DEF Ready, Refuse, Answer, NoOp, CoreInv, CoreType, Erasing, Programming, Admitted,
         Transferring, ErasedAhead, Progress, AcceptedBytesAreStored, VerifiedImageIntact, Holds, Receiving

LEMMA AbortStep == ASSUME CoreInv, Abort PROVE CoreInv'
  <1>1. ctx' \in Ctx /\ ctx'.state = "FAILED"
    BY InitialValues DEF Abort, CoreInv, CoreType, Ctx, States
  <1>2. QED
    BY <1>1, GivenUp DEF Abort, Answer, CoreInv, CoreType

LEMMA PowerCutStep == ASSUME CoreInv, PowerCut PROVE CoreInv'
  <1>1. app' \in [Units -> Data \cup {Junk}]
    BY DEF PowerCut, TornApp, CoreInv, CoreType
  <1>2. ctx' \in Ctx /\ ctx'.state = "IDLE"
    BY InitialValues DEF PowerCut, InitCtx
  <1>3. QED
    BY <1>1, <1>2, GivenUp DEF PowerCut

-----------------------------------------------------------------------------
(* BEGIN and the erase loop. *)

LEMMA BeginStep ==
  ASSUME CoreInv, NEW i \in Images, NEW known \in BOOLEAN, Begin(i, known) PROVE CoreInv'
  <1>1. CASE ~(known /\ InRange[i])
    BY <1>1, FailStep DEF Begin
  <1>2. CASE known /\ InRange[i]
    <2>1. /\ ctx' \in Ctx /\ ctx'.man = i /\ ctx'.state = "PREPARING" /\ ctx'.offset = 0
          /\ op' \in Op /\ op'.kind = "erase" /\ op'.pos = 0
      BY <1>2, InitialValues DEF Begin, InitCtx, NoOp, Ctx, Op, States
    <2>2. app' = app /\ worn' = worn /\ reply' = "busy" /\ got' = <<>>
      BY <1>2 DEF Begin
    <2>3. QED
      BY <1>2, <2>1, <2>2
         DEF CoreInv, CoreType, Erasing, Programming, Admitted, Transferring, ErasedAhead,
             AcceptedBytesAreStored, VerifiedImageIntact, Receiving, Units
  <1>3. QED
    BY <1>1, <1>2

LEMMA EraseSectorStep == ASSUME CoreInv, EraseSector PROVE CoreInv'
  <1> DEFINE next == op.pos + SectorUnits
  <1>1. /\ ctx \in Ctx /\ op \in Op /\ op.kind = "erase" /\ ctx.state = "PREPARING"
        /\ ctx.offset = 0 /\ got = <<>> /\ got' = got /\ InRange[ctx.man]
        /\ app \in [Units -> Data \cup {Junk}] /\ worn' \subseteq Units
    BY DEF EraseSector, CoreInv, CoreType, Erasing
  <1>2. Size(ctx.man) \in 1 .. AppUnits
    BY <1>1, SizeFits DEF Ctx
  <1>3. op.pos \in Nat
    BY <1>1 DEF Op, Units
  <1>4. /\ app' \in [Units -> Data \cup {Junk}]
        /\ \A k \in Units : k < next => app'[k] = Blank
    BY <1>1, <1>3 DEF EraseSector, ErasedUnits, CoreInv, Erasing, Units
  <1>5. CASE next < Size(ctx.man)
    <2>1. /\ op' \in Op /\ op'.kind = "erase" /\ op'.pos = next
          /\ ctx' = ctx /\ reply' = reply
      BY <1>1, <1>2, <1>3, <1>5 DEF EraseSector, EraseEnd, Op, Units
    <2>2. QED
      BY <1>1, <1>4, <2>1
         DEF CoreInv, CoreType, Erasing, Programming, Admitted, Transferring, ErasedAhead,
             AcceptedBytesAreStored, VerifiedImageIntact, Receiving
  <1>6. CASE ~(next < Size(ctx.man))
    <2>1. /\ ctx' \in Ctx /\ ctx'.state = "RECEIVING" /\ ctx'.offset = 0
          /\ ctx'.man = ctx.man /\ op' = NoOp /\ reply' = "ok"
      BY <1>1, <1>6 DEF EraseSector, EraseEnd, Answer, Ctx, States
    <2>2. \A k \in Units : k < Size(ctx.man) => app'[k] = Blank
      BY <1>2, <1>3, <1>4, <1>6 DEF Units
    <2>3. ErasedAhead'
      BY <1>2, <2>1, <2>2 DEF ErasedAhead
    <2>4. QED
      BY <1>1, <1>2, <1>4, <2>1, <2>3, InitialValues
         DEF NoOp, CoreInv, CoreType, Erasing, Programming, Admitted,
             AcceptedBytesAreStored, VerifiedImageIntact, Receiving
  <1>7. QED
    BY <1>5, <1>6

-----------------------------------------------------------------------------
(* WRITE_BLOCK and the program loop. *)

\* The chunk accepted last, once more: what is in flash is what was sent.
LEMMA DuplicateStep ==
  ASSUME CoreInv, Ready, UNCHANGED <<app, worn>>, NEW offset \in Nat, NEW chunk \in Chunks,
         DuplicateChunk(offset, chunk)
  PROVE  CoreInv'
  <1>1. CASE Refuse
    BY <1>1, RefuseStep
  <1>2. CASE /\ Written(offset, chunk) /\ got' = Overlay(offset, chunk)
             /\ Answer("ok") /\ UNCHANGED ctx
    <2>1. got \in Seq(Data) /\ got' \in Seq(Data) /\ Len(got') = Len(got)
      BY <1>2, OverlayType DEF CoreInv, CoreType
    <2>2. ASSUME Transferring, NEW k \in 1 .. Len(got)
          PROVE  app[k - 1] = got'[k] \/ k - 1 \in worn
      <3>1. CASE k \in offset + 1 .. offset + Len(chunk)
        <4>1. k - offset \in 1 .. Len(chunk) /\ got'[k] = chunk[k - offset]
          BY <1>2, <2>1, <3>1 DEF Overlay
        <4>2. app[offset + (k - offset) - 1] = chunk[k - offset]
          BY <1>2, <4>1 DEF Written
        <4>3. QED
          BY <2>1, <4>1, <4>2
      <3>2. CASE k \notin offset + 1 .. offset + Len(chunk)
        BY <1>2, <2>2, <3>2 DEF Overlay, CoreInv, AcceptedBytesAreStored, Transferring
      <3>3. QED
        BY <3>1, <3>2
    <2>3. AcceptedBytesAreStored'
      BY <1>2, <2>1, <2>2 DEF AcceptedBytesAreStored, CoreInv, Transferring
    <2>4. QED
      BY <1>2, <2>1, <2>3, InitialValues
         DEF Ready, Answer, NoOp, CoreInv, CoreType, Erasing, Programming, Admitted,
             Transferring, ErasedAhead, Progress, VerifiedImageIntact, Holds, Receiving
  <1>3. QED
    BY <1>1, <1>2 DEF DuplicateChunk

LEMMA WriteChunkStep ==
  ASSUME CoreInv, NEW offset \in 0 .. OffsetMod - 1, NEW chunk \in Chunks,
         WriteChunk(offset, chunk)
  PROVE  CoreInv'
  <1>1. Ready /\ UNCHANGED <<app, worn>> /\ chunk \in Seq(Data) /\ offset \in Nat
    BY DEF WriteChunk
  <1>2. CASE Refuse
    BY <1>1, <1>2, RefuseStep
  <1>3. CASE Fail
    BY <1>1, <1>3, FailStep
  <1>4. CASE DuplicateChunk(offset, chunk)
    BY <1>1, <1>4, DuplicateStep
  <1>5. CASE /\ Len(chunk) # 0 /\ Receiving /\ offset = ctx.offset
             /\ EndOffset(offset, chunk) <= Size(ctx.man) /\ BackendAccepts(offset, chunk)
             /\ op' = [kind |-> "program", pos |-> 0, chunk |-> chunk]
             /\ reply' = "busy" /\ UNCHANGED <<ctx, got>>
    <2>1. op' \in Op /\ 0 < Len(chunk)
      BY <1>1, <1>5 DEF Op, Units
    <2>2. ctx.offset + Len(chunk) <= Size(ctx.man)
      BY <1>1, <1>5, NoSumWraps
    <2>3. ErasedAhead'
      BY <1>1, <1>5 DEF CoreInv, CoreType, ErasedAhead, Progress, Ready, Receiving, Ctx
    <2>4. QED
      BY <1>1, <1>5, <2>1, <2>2, <2>3
         DEF CoreInv, CoreType, Erasing, Programming, Admitted, Transferring,
             AcceptedBytesAreStored, VerifiedImageIntact, Receiving
  <1>6. EndOffset(offset, chunk) \in Nat /\ Size(ctx.man) \in Nat
    <2>1. offset + Len(chunk) \in Nat /\ ctx.man \in Images
      BY <1>1 DEF CoreInv, CoreType, Ctx
    <2>2. QED
      BY <2>1, ModRange, SizeFits DEF EndOffset
  <1>7. QED
    BY <1>2, <1>3, <1>4, <1>5, <1>6 DEF WriteChunk, Receiving

\* A unit is programmed, and holds its value or is worn.
PutUnit(v) ==
  /\ op.kind = "program" /\ UnitIsDone
  /\ app' = [app EXCEPT ![Place] = v]
  /\ v = op.chunk[op.pos + 1] \/ Place \in worn'
  /\ worn \subseteq worn' /\ worn' \subseteq worn \cup {Place}

LEMMA PutUnitStep ==
  ASSUME CoreInv, NEW v \in Data \cup {Junk}, PutUnit(v) PROVE CoreInv'
  <1> DEFINE k == ctx.offset + op.pos
  <1>1. /\ ctx \in Ctx /\ op \in Op /\ op.kind = "program" /\ Receiving
        /\ op.chunk \in Chunks /\ op.chunk \in Seq(Data) /\ op.pos < Len(op.chunk)
        /\ ctx.offset + Len(op.chunk) <= Size(ctx.man)
        /\ InRange[ctx.man] /\ got \in Seq(Data) /\ Len(got) = ctx.offset
        /\ app \in [Units -> Data \cup {Junk}]
    BY DEF PutUnit, CoreInv, CoreType, Programming, Admitted, Transferring, Receiving,
           AcceptedBytesAreStored
  <1>2. /\ Size(ctx.man) \in 1 .. AppUnits /\ ctx.offset \in Nat /\ op.pos \in Nat
        /\ Len(op.chunk) \in Nat
    BY <1>1, SizeFits DEF Ctx, Op, Units
  <1>3. k \in Units /\ k < Size(ctx.man)
    BY <1>1, <1>2 DEF Units
  <1>4. worn \subseteq worn' /\ worn' \subseteq Units
    BY <1>3 DEF PutUnit, Place, CoreInv, CoreType
  <1>5. app' = [app EXCEPT ![k] = v]
    BY DEF PutUnit, Place
  <1>6. /\ app' \in [Units -> Data \cup {Junk}]
        /\ app'[k] = op.chunk[op.pos + 1] \/ k \in worn'
    BY <1>1, <1>3, <1>5 DEF PutUnit, Place
  <1>7. \A m \in Units : k + 1 <= m /\ m < Size(ctx.man) => app'[m] = Blank
    BY <1>1, <1>2, <1>3, <1>5 DEF CoreInv, ErasedAhead, Progress, Units
  <1>8. \A j \in 1 .. op.pos + 1 :
          app'[ctx.offset + j - 1] = op.chunk[j] \/ ctx.offset + j - 1 \in worn'
    <2> TAKE j \in 1 .. op.pos + 1
    <2>1. CASE j = op.pos + 1
      BY <1>2, <1>6, <2>1
    <2>2. CASE j \in 1 .. op.pos
      <3>1. app[ctx.offset + j - 1] = op.chunk[j] \/ ctx.offset + j - 1 \in worn
        BY <1>1, <2>2 DEF CoreInv, Programming
      <3>2. app'[ctx.offset + j - 1] = app[ctx.offset + j - 1]
        BY <1>1, <1>2, <1>5, <2>2 DEF Units
      <3>3. QED
        BY <1>4, <3>1, <3>2
    <2>3. QED
      BY <1>2, <2>1, <2>2
  <1>9. \A m \in 1 .. Len(got) : app'[m - 1] = got[m] \/ m - 1 \in worn'
    BY <1>1, <1>2, <1>4, <1>5 DEF CoreInv, AcceptedBytesAreStored, Receiving
  <1>10. CASE op.pos + 1 < Len(op.chunk)
    <2>1. /\ op' \in Op /\ op'.kind = "program" /\ op'.pos = op.pos + 1
          /\ op'.chunk = op.chunk /\ ctx' = ctx /\ reply' = reply /\ got' = got
      BY <1>1, <1>2, <1>10 DEF PutUnit, UnitIsDone, Op, Units
    <2>2. ErasedAhead'
      <3>1. Progress' = ctx.offset + (op.pos + 1)
        BY <2>1 DEF Progress
      <3>2. QED
        BY <1>2, <1>7, <2>1, <3>1 DEF ErasedAhead, Units
    <2>3. QED
      BY <1>1, <1>2, <1>4, <1>6, <1>8, <1>9, <1>10, <2>1, <2>2
         DEF CoreInv, CoreType, Erasing, Programming, Admitted, Transferring,
             AcceptedBytesAreStored, VerifiedImageIntact, Receiving
  <1>11. CASE ~(op.pos + 1 < Len(op.chunk))
    <2>1. Len(op.chunk) = op.pos + 1
      BY <1>1, <1>2, <1>11
    <2>2. EndOffset(ctx.offset, op.chunk) = ctx.offset + Len(op.chunk)
      <3>1. BackendAccepts(ctx.offset, op.chunk)
        BY <1>1, <1>2 DEF BackendAccepts
      <3>2. QED
        BY <1>1, <1>2, <3>1, NoSumWraps
    <2>3. /\ ctx' \in Ctx /\ ctx'.state = "RECEIVING" /\ ctx'.man = ctx.man
          /\ ctx'.offset = ctx.offset + Len(op.chunk)
      <3>1. /\ ctx.offset + Len(op.chunk) \in 0 .. OffsetMod - 1
            /\ ctx.offset \in 0 .. OffsetMod - 1
        BY <1>1, <1>2 DEF Ctx
      <3>2. ctx' = [ctx EXCEPT !.lastOffset = ctx.offset, !.lastLen = Len(op.chunk),
                               !.offset = ctx.offset + Len(op.chunk)]
        BY <1>11, <2>2 DEF PutUnit, UnitIsDone
      <3>3. QED
        BY <1>1, <1>2, <3>1, <3>2 DEF Ctx, Receiving
    <2>4. got' = got \o op.chunk /\ reply' = "ok" /\ op' = NoOp
      BY <1>11 DEF PutUnit, UnitIsDone, Answer
    <2>9. /\ got \o op.chunk \in Seq(Data) /\ Len(got \o op.chunk) = Len(got) + Len(op.chunk)
          /\ \A m \in 1 .. Len(got) : (got \o op.chunk)[m] = got[m]
          /\ \A m \in 1 .. Len(op.chunk) : (got \o op.chunk)[Len(got) + m] = op.chunk[m]
      <3>1. got \in Seq(Data) /\ op.chunk \in Seq(Data)
        BY <1>1
      <3>2. /\ got \o op.chunk \in Seq(Data)
            /\ Len(got \o op.chunk) = Len(got) + Len(op.chunk)
        BY <3>1, Appended, Zenon
      <3>3. \A m \in 1 .. Len(got) : (got \o op.chunk)[m] = got[m]
        BY <3>1
      <3>4. \A m \in 1 .. Len(op.chunk) : (got \o op.chunk)[Len(got) + m] = op.chunk[m]
        BY <3>1
      <3>5. QED
        BY <3>2, <3>3, <3>4
    <2>5. got' \in Seq(Data) /\ Len(got') = ctx'.offset
      BY <1>1, <2>3, <2>4, <2>9
    <2>6. \A m \in 1 .. Len(got') : app'[m - 1] = got'[m] \/ m - 1 \in worn'
      <3> TAKE m \in 1 .. Len(got')
      <3>1. CASE m \in 1 .. Len(got)
        BY <1>1, <1>9, <2>4, <2>9, <3>1
      <3>2. CASE m - Len(got) \in 1 .. Len(op.chunk)
        <4>1. got'[m] = op.chunk[m - Len(got)]
          <5>1. (got \o op.chunk)[Len(got) + (m - Len(got))] = op.chunk[m - Len(got)]
            BY <2>9, <3>2
          <5>2. QED
            BY <1>1, <2>4, <5>1
        <4>2. \/ app'[ctx.offset + (m - Len(got)) - 1] = op.chunk[m - Len(got)]
              \/ ctx.offset + (m - Len(got)) - 1 \in worn'
          BY <1>8, <2>1, <3>2
        <4>3. QED
          BY <1>1, <1>2, <4>1, <4>2
      <3>3. QED
        BY <1>1, <1>2, <2>3, <2>5, <3>1, <3>2
    <2>7. ErasedAhead'
      BY <1>2, <1>7, <2>1, <2>3, <2>4 DEF ErasedAhead, Progress, NoOp
    <2>8. QED
      BY <1>1, <1>2, <1>4, <1>6, <2>3, <2>4, <2>5, <2>6, <2>7, InitialValues
         DEF NoOp, CoreInv, CoreType, Erasing, Programming, Admitted, Transferring,
             AcceptedBytesAreStored, VerifiedImageIntact, Receiving
  <1>12. QED
    BY <1>10, <1>11

LEMMA ProgramUnitStep == ASSUME CoreInv, ProgramUnit \/ ProgramUnitWorn PROVE CoreInv'
  <1>1. CASE ProgramUnit
    <2>1. /\ ctx \in Ctx /\ op \in Op /\ op.chunk \in Seq(Data) /\ op.pos < Len(op.chunk)
          /\ ctx.offset + Len(op.chunk) <= Size(ctx.man) /\ Receiving /\ InRange[ctx.man]
      BY <1>1 DEF ProgramUnit, CoreInv, CoreType, Programming, Admitted, Transferring, Receiving
    <2>2. Size(ctx.man) \in 1 .. AppUnits /\ ctx.offset \in Nat /\ op.pos \in Nat
      BY <2>1, SizeFits DEF Ctx, Op, Units
    <2>3. app[Place] = Blank /\ op.chunk[op.pos + 1] \in Data
      <3>1. Place \in Units /\ Place < Size(ctx.man) /\ op.pos + 1 \in 1 .. Len(op.chunk)
        BY <2>1, <2>2 DEF Place, Units
      <3>2. Progress = Place
        BY <1>1 DEF ProgramUnit, Progress, Place
      <3>3. Receiving => \A k \in Units : Progress <= k /\ k < Size(ctx.man) => app[k] = Blank
        BY DEF CoreInv, ErasedAhead
      <3>4. Place <= Place
        BY <3>1 DEF Units
      <3>5. app[Place] = Blank
        BY <2>1, <3>1, <3>2, <3>3, <3>4
      <3>6. op.chunk[op.pos + 1] \in Data
        BY <2>1, <3>1
      <3>7. QED
        BY <3>5, <3>6
    <2>4. PutUnit(op.chunk[op.pos + 1])
      BY <1>1, <2>3 DEF ProgramUnit, Programmed, PutUnit
    <2>5. QED
      BY <2>3, <2>4, PutUnitStep
  <1>2. CASE ProgramUnitWorn
    <2>1. PICK v \in {Blank, Junk} : PutUnit(v)
      BY <1>2 DEF ProgramUnitWorn, PutUnit
    <2>2. QED
      BY <2>1, PutUnitStep
  <1>3. QED
    BY <1>1, <1>2

-----------------------------------------------------------------------------
(* VERIFY and COMMIT. *)

\* The state moves on within a transfer, and nothing else.
LEMMA MovedOn ==
  ASSUME CoreInv, UNCHANGED <<app, got, worn>>, NEW state \in {"PENDING_COMMIT", "COMMITTED"},
         Transferring, Holds(ctx.man), ctx' = [ctx EXCEPT !.state = state],
         op' = NoOp, reply' = "ok"
  PROVE  CoreInv'
  <1>1. /\ ctx' \in Ctx /\ ctx'.state = state /\ ctx'.man = ctx.man
        /\ ctx'.offset = ctx.offset
    BY DEF CoreInv, CoreType, Ctx, States
  <1>2. QED
    BY <1>1, InitialValues
       DEF NoOp, CoreInv, CoreType, Erasing, Programming, Admitted, Transferring, ErasedAhead,
           AcceptedBytesAreStored, VerifiedImageIntact, Holds, Receiving

LEMMA VerifyStep == ASSUME CoreInv, Verify PROVE CoreInv'
  <1>1. CASE Refuse
    BY <1>1, RefuseStep DEF Verify
  <1>2. CASE Fail
    BY <1>2, FailStep DEF Verify
  <1>3. CASE /\ Receiving /\ Holds(ctx.man) /\ UNCHANGED got /\ Answer("ok")
             /\ ctx' = [ctx EXCEPT !.state = "PENDING_COMMIT"]
    BY <1>3, MovedOn DEF Verify, Answer, Transferring, Receiving
  <1>4. QED
    BY <1>1, <1>2, <1>3 DEF Verify, Receiving

LEMMA CommitCallStep == ASSUME CoreInv, Commit PROVE CoreInv'
  <1>1. CASE Refuse
    BY <1>1, RefuseStep DEF Commit
  <1>2. CASE /\ ctx.state = "PENDING_COMMIT" /\ op' = [NoOp EXCEPT !.kind = "commit"]
             /\ reply' = "busy" /\ UNCHANGED <<ctx, got>>
    <2>1. op' \in Op /\ op'.kind = "commit"
      BY <1>2, InitialValues DEF Op, NoOp
    <2>2. QED
      BY <1>2, <2>1
         DEF Commit, CoreInv, CoreType, Erasing, Programming, Admitted, Transferring,
             ErasedAhead, AcceptedBytesAreStored, VerifiedImageIntact, Holds, Receiving
  <1>3. QED
    BY <1>1, <1>2 DEF Commit

LEMMA CommitStepStep == ASSUME CoreInv, CommitStep PROVE CoreInv'
  <1>1. ctx.state = "PENDING_COMMIT"
    BY DEF CommitStep, CoreInv, Admitted
  <1>2. CASE UNCHANGED <<ctx, got, op, reply>>
    BY <1>2 DEF CommitStep, CoreInv, CoreType, Erasing, Programming, Admitted, Transferring,
                ErasedAhead, Progress, AcceptedBytesAreStored, VerifiedImageIntact, Holds,
                Receiving
  <1>3. CASE ctx' = [ctx EXCEPT !.state = "COMMITTED"] /\ UNCHANGED got /\ Answer("ok")
    BY <1>1, <1>3, MovedOn
       DEF CommitStep, Answer, Transferring, CoreInv, VerifiedImageIntact
  <1>4. CASE Fail
    BY <1>4, FailStep DEF CommitStep
  <1>5. QED
    BY <1>2, <1>3, <1>4 DEF CommitStep

LEMMA StepInvariant == CoreInv /\ [Next]_vars => CoreInv'
  <1> SUFFICES ASSUME CoreInv, [Next]_vars PROVE CoreInv'
    OBVIOUS
  <1>1. CASE UNCHANGED vars
    BY <1>1 DEF vars, coreVars, CoreInv, CoreType, Erasing, Programming, Admitted,
                Transferring, ErasedAhead, Progress, AcceptedBytesAreStored,
                VerifiedImageIntact, Holds, Receiving
  <1>2. CASE EraseSectorFails \/ ProgramUnitFails
    BY <1>2, FailStep DEF EraseSectorFails, ProgramUnitFails
  <1>3. CASE Call
    BY <1>3, BeginStep, WriteChunkStep, VerifyStep, CommitCallStep, AbortStep DEF Call
  <1>4. CASE EraseSector \/ ProgramUnit \/ ProgramUnitWorn \/ CommitStep \/ PowerCut
    BY <1>4, EraseSectorStep, ProgramUnitStep, CommitStepStep, PowerCutStep
  <1>5. QED
    BY <1>1, <1>2, <1>3, <1>4 DEF Next, Step

\* For every area, sector and chunk size: nothing is programmed over old content, and what
\* was accepted is in flash (stc8h_ota_begin, stc8h_ota_write_chunk).
THEOREM BlocksStayStored == Spec => []BlocksAreStored
  <1>1. CoreInv => BlocksAreStored
    BY DEF CoreInv, BlocksAreStored
  <1>2. QED
    BY <1>1, InitInvariant, StepInvariant, PTL DEF Spec

-----------------------------------------------------------------------------
\* Only a transfer that ends or starts takes the offset back.
LEMMA OffsetStep ==
  ASSUME CoreInv, Next, ctx'.offset < ctx.offset
  PROVE  ctx'.state \in {"IDLE", "PREPARING", "FAILED"}
  <1> USE DEF Ctx
  <1>1. ctx \in Ctx
    BY DEF CoreInv, CoreType
  <1>2. CASE Fail
    BY <1>1, <1>2 DEF Fail
  <1>3. CASE ctx'.offset = ctx.offset
    BY <1>1, <1>3
  <1>4. ASSUME NEW i \in Images, NEW known \in BOOLEAN, Begin(i, known), ~Fail
        PROVE  ctx'.state = "PREPARING"
    BY <1>4, InitialValues DEF Begin, InitCtx
  <1>5. ASSUME NEW offset, NEW chunk, WriteChunk(offset, chunk), ~Fail PROVE ctx' = ctx
    BY <1>5 DEF WriteChunk, Refuse, DuplicateChunk
  <1>6. CASE Verify /\ ~Fail
    BY <1>1, <1>3, <1>6 DEF Verify, Refuse
  <1>7. CASE Commit
    BY <1>3, <1>7 DEF Commit, Refuse
  <1>8. CASE Abort \/ PowerCut
    <2>1. CASE Abort
      BY <2>1, InitialValues DEF Abort
    <2>2. CASE PowerCut
      BY <2>2 DEF PowerCut, InitCtx
    <2>3. QED
      BY <1>8, <2>1, <2>2
  <1>9. CASE EraseSector
    BY <1>1, <1>3, <1>9 DEF EraseSector
  <1>10. CASE ProgramUnit \/ ProgramUnitWorn
    <2> UnitIsDone /\ op.kind = "program"
      BY <1>10 DEF ProgramUnit, ProgramUnitWorn
    <2>1. CASE op.pos + 1 < Len(op.chunk)
      BY <1>3, <2>1 DEF UnitIsDone
    <2>2. CASE ~(op.pos + 1 < Len(op.chunk))
      <3>1. /\ op.chunk \in Chunks /\ Len(op.chunk) \in Nat
            /\ ctx.offset + Len(op.chunk) <= Size(ctx.man) /\ InRange[ctx.man]
        BY DEF CoreInv, Programming, Admitted, Transferring, Receiving
      <3>2. Size(ctx.man) \in 1 .. AppUnits /\ ctx.offset \in Nat
        BY <1>1, <3>1, SizeFits
      <3>3. BackendAccepts(ctx.offset, op.chunk)
        BY <3>1, <3>2 DEF BackendAccepts
      <3>4. EndOffset(ctx.offset, op.chunk) = ctx.offset + Len(op.chunk)
        BY <3>1, <3>2, <3>3, NoSumWraps
      <3>5. ctx'.offset = ctx.offset + Len(op.chunk)
        BY <1>1, <2>2, <3>4 DEF UnitIsDone
      <3>6. QED
        BY <3>1, <3>2, <3>5
    <2>3. QED
      BY <2>1, <2>2
  <1>11. CASE CommitStep
    BY <1>1, <1>2, <1>3, <1>11 DEF CommitStep
  <1>12. QED
    BY <1>2, <1>3, <1>4, <1>5, <1>6, <1>7, <1>8, <1>9, <1>10, <1>11
       DEF Next, Call, Step, EraseSectorFails, ProgramUnitFails

\* The receiver is never carried back into what it has written, for every width of the
\* offset that is wider than the area (STC8H_OTA_ERR_OFFSET, stc8h_ota.c).
THEOREM OffsetNeverGoesBack == Spec => OffsetOnlyAdvances
  <1>1. CoreInv /\ [Next]_vars =>
          [ctx'.offset < ctx.offset => ctx'.state \in {"IDLE", "PREPARING", "FAILED"}]_ctx
    BY OffsetStep DEF vars, coreVars
  <1>2. QED
    BY <1>1, InitInvariant, StepInvariant, PTL DEF Spec, OffsetOnlyAdvances

-----------------------------------------------------------------------------
(* The parameter store inside COMMIT: it takes the steps its own proofs are   *)
(* about, so that what they show of it holds here too.                      *)

Store == INSTANCE OtaParamsProofs

LEMMA SameAssumptions == Store!FormatAssumption /\ Store!ParamsAssumption
  BY FormatAssumption DEF Store!FormatAssumption, Store!ParamsAssumption, Record, Store!Record

LEMMA SameInit == Params!Init => Store!Init
  BY DEF Params!Init, Store!Init, Params!Slots, Store!Slots

\* The format is reached along three paths and is one.
LEMMA SameFormat ==
  /\ Record = Store!Record
  /\ \A r, i : /\ Params!CommitRecord(r, i) = Store!CommitRecord(r, i)
              /\ Store!CommitRecord(r, i) = CommitRecord(r, i)
  /\ \A f : /\ Params!Active(f) = Store!Active(f) /\ Active(f) = Store!Active(f)
           /\ Params!Loads(f) = Store!Loads(f) /\ Params!Selected(f) = Store!Selected(f)
           /\ \A s : Params!Loaded(f, s) = Store!Loaded(f, s)
  /\ \A s : Params!Target(s) = Store!Target(s)
  BY DEF Record, Store!Record, CommitRecord, Params!CommitRecord, Store!CommitRecord,
         NextSeq, Params!NextSeq, Store!NextSeq,
         Active, Params!Active, Store!Active, Params!Target, Store!Target,
         Loaded, Params!Loaded, Store!Loaded, Params!Loads, Store!Loads,
         Params!Seen, Store!Seen, Params!Slots, Store!Slots,
         Selected, Params!Selected, Store!Selected, Newer, Params!Newer, Store!Newer,
         NoSlot, Params!NoSlot, Store!NoSlot, Other, Params!Other, Store!Other

LEMMA SameCall ==
  /\ \A r, rec : Params!WriteNext(r, rec) = Store!WriteNext(r, rec)
  /\ \A r : Params!Load(r) = Store!Load(r)
  /\ Params!LoadedRecords = Store!LoadedRecords
  /\ Params!Refuse = Store!Refuse
  /\ Params!Trusted = Store!Trusted
  <1>1. Params!LoadedRecords = Store!LoadedRecords
    BY SameFormat DEF Params!LoadedRecords, Store!LoadedRecords
  <1>2. \A r, s : Params!Exact(r, s) = Store!Exact(r, s)
    BY SameFormat DEF Params!Exact, Store!Exact
  <1>3. \A m : Params!CountMisread(m) = Store!CountMisread(m)
    BY DEF Params!CountMisread, Store!CountMisread
  <1>4. ASSUME NEW r, NEW rec PROVE Params!WriteNext(r, rec) = Store!WriteNext(r, rec)
    BY <1>2, <1>3, SameFormat DEF Params!WriteNext, Store!WriteNext
  <1>5. ASSUME NEW r PROVE Params!Load(r) = Store!Load(r)
    BY <1>1, <1>3, SameFormat DEF Params!Load, Store!Load
  <1>6. QED
    BY <1>1, <1>4, <1>5
       DEF Params!Refuse, Store!Refuse, Params!Trusted, Store!Trusted

LEMMA SameCommit == ASSUME NEW i, Params!Commit(i) PROVE Store!Commit(i)
  BY SameFormat, SameCall DEF Params!Commit, Store!Commit

LEMMA SameJobStep == Params!JobStep => Store!JobStep
  BY DEF Params!JobStep, Params!Erase, Params!EraseFails, Params!Program,
         Params!ProgramBadCell, Params!ProgramFails, Params!Check, Params!CheckFails,
         Store!JobStep, Store!Erase, Store!EraseFails, Store!Program,
         Store!ProgramBadCell, Store!ProgramFails, Store!Check, Store!CheckFails,
         Params!SetTarget, Params!Continue, Params!Return,
         Store!SetTarget, Store!Continue, Store!Return

LEMMA SamePowerCut == Params!PowerCut => Store!PowerCut
  BY DEF Params!PowerCut, Store!PowerCut, Params!SetTarget, Params!Return,
         Store!SetTarget, Store!Return

\* What a step of the receiver does to the store.
LEMMA StoreMoves ==
  ASSUME CoreInv, [Next]_vars
  PROVE  [Store!Next]_Store!paramVars
  <1>1. \/ Params!Commit(ctx.man) \/ Params!JobStep \/ Params!PowerCut
        \/ UNCHANGED paramVars
    BY DEF vars, Next, Call, Step, Begin, WriteChunk, Verify, Commit, Abort, EraseSector,
           EraseSectorFails, ProgramUnit, ProgramUnitWorn, ProgramUnitFails, CommitStep,
           PowerCut
  <1>2. ctx.man \in Images
    BY DEF CoreInv, CoreType, Ctx
  <1>3. QED
    BY <1>1, <1>2, SameCommit, SameJobStep, SamePowerCut
       DEF Store!Next, Store!Call, paramVars, Store!paramVars

\* Type correctness of the receiver with its store, for all constants.
THEOREM TypeCorrect == Spec => []TypeOK
  <1>1. Init => CoreInv /\ Store!TypeOK
    BY InitInvariant, SameInit, SameAssumptions, Store!TrustInit DEF Init, Store!StoreTrust
  <1>2. CoreInv /\ Store!TypeOK /\ [Next]_vars => (CoreInv /\ Store!TypeOK)'
    BY StepInvariant, StoreMoves, SameAssumptions, Store!TypeStep
  <1>3. CoreInv /\ Store!TypeOK => TypeOK
    BY DEF CoreInv, CoreType, Ctx, Op, TypeOK, Store!TypeOK, Params!TypeOK,
           Store!Job, Params!Job, Store!Slots, Params!Slots, Store!Record, Params!Record
  <1>4. QED
    BY <1>1, <1>2, <1>3, PTL DEF Spec

-----------------------------------------------------------------------------
(* The committed image is the one that is tried. *)

\* A record that makes the boot loader try image i.
TrialOf(r, i) == r \in Record /\ r.app = i /\ BootAction(r) = "trial"

\* The record of the call in progress, or of the one that succeeded, is for the image of
\* the context.
Carried ==
  /\ op.kind = "commit" => TrialOf(job.rec, ctx.man)
  /\ ctx.state = "COMMITTED" => status = "ok" /\ TrialOf(job.rec, ctx.man)

CommitInv == CoreInv /\ Store!OrderInv /\ Carried

LEMMA CommitInvInit == Init => CommitInv
  BY InitInvariant, SameInit, SameAssumptions, Store!OrderInit
     DEF Init, CommitInv, Carried, InitCtx, NoOp

\* A flash operation of write_next leaves the record it writes alone.
LEMMA JobKeepsRecord == ASSUME Store!OrderInv, Params!JobStep PROVE job'.rec = job.rec
  <1>1. job \in Store!Job
    BY DEF Store!OrderInv, Store!StoreInv, Store!TypeOK
  <1>2. QED
    BY <1>1, SameJobStep
       DEF Store!Job, Store!JobStep, Store!Erase, Store!EraseFails, Store!Program,
           Store!ProgramBadCell, Store!ProgramFails, Store!Check, Store!CheckFails,
           Store!Continue, Store!Return

LEMMA CommitCallCarries == ASSUME CommitInv, Commit, Store!OrderInv' PROVE Carried'
  <1>1. CASE Refuse /\ UNCHANGED paramVars
    BY <1>1 DEF Commit, Refuse, Answer, NoOp, paramVars, CommitInv, Carried
  <1>2. CASE /\ ctx.state = "PENDING_COMMIT" /\ Params!Commit(ctx.man)
             /\ UNCHANGED <<ctx, got>>
    <2>1. PICK r : job'.rec = CommitRecord(r, ctx.man) /\ job'.phase = "erase"
      BY <1>2, SameCommit, SameFormat DEF Store!Commit, Store!WriteNext
    <2>2. job'.rec \in Record
      BY <2>1, SameFormat DEF Store!OrderInv, Store!StoreInv, Store!TypeOK
    <2>3. InRange[ctx.man]
      BY <1>2 DEF CommitInv, CoreInv, Admitted, Transferring
    <2>4. TrialOf(job'.rec, ctx.man)
      BY <2>1, <2>2, <2>3 DEF TrialOf, CommitRecord, BootAction
    <2>5. QED
      BY <1>2, <2>4 DEF Carried
  <1>3. QED
    BY <1>1, <1>2 DEF Commit

\* A step that has nothing to do with a commit.
Aside ==
  /\ UNCHANGED paramVars /\ op'.kind # "commit"
  /\ ctx'.state = "COMMITTED" => ctx' = ctx

LEMMA OtherStepsAside ==
  ASSUME CoreInv, Next, ~Commit, ~CommitStep, ~PowerCut PROVE Aside
  <1> USE DEF Aside, Answer, NoOp
  <1>1. ctx \in Ctx /\ op \in Op
    BY DEF CoreInv, CoreType
  <1>2. ASSUME Fail, UNCHANGED paramVars PROVE Aside
    BY <1>1, <1>2 DEF Fail, Ctx
  <1>3. ASSUME Refuse, UNCHANGED paramVars PROVE Aside
    BY <1>3 DEF Refuse
  <1>4. ASSUME NEW i \in Images, NEW known \in BOOLEAN, Begin(i, known) PROVE Aside
    BY <1>2, <1>4 DEF Begin, InitCtx
  <1>5. ASSUME NEW offset, NEW chunk, WriteChunk(offset, chunk) PROVE Aside
    BY <1>2, <1>3, <1>5 DEF WriteChunk, DuplicateChunk
  <1>6. CASE Verify
    <2>1. CASE Refuse \/ Fail
      BY <1>2, <1>3, <1>6, <2>1 DEF Verify
    <2>2. CASE ctx' = [ctx EXCEPT !.state = "PENDING_COMMIT"] /\ op' = NoOp
      BY <1>1, <1>6, <2>2 DEF Verify, Ctx
    <2>3. QED
      BY <1>6, <2>1, <2>2 DEF Verify
  <1>7. CASE Abort
    BY <1>7, InitialValues DEF Abort, Ctx
  <1>8. CASE EraseSector
    <2>1. CASE op' = [op EXCEPT !.pos = @ + SectorUnits] /\ ctx' = ctx
      BY <1>1, <1>8, <2>1 DEF EraseSector, Op
    <2>2. CASE ctx' = [ctx EXCEPT !.state = "RECEIVING"] /\ op' = NoOp
      BY <1>1, <1>8, <2>2 DEF EraseSector, Ctx
    <2>3. QED
      BY <1>8, <2>1, <2>2 DEF EraseSector
  <1>9. CASE ProgramUnit \/ ProgramUnitWorn
    <2>1. ctx.state = "RECEIVING" /\ UNCHANGED paramVars /\ op.kind = "program" /\ UnitIsDone
      BY <1>9 DEF ProgramUnit, ProgramUnitWorn, CoreInv, Programming, Receiving
    <2>2. ctx'.state = ctx.state
      BY <1>1, <2>1 DEF UnitIsDone, Ctx
    <2>3. op'.kind # "commit"
      BY <1>1, <2>1 DEF UnitIsDone, Op
    <2>4. QED
      BY <2>1, <2>2, <2>3
  <1>10. CASE EraseSectorFails \/ ProgramUnitFails
    BY <1>2, <1>10 DEF EraseSectorFails, ProgramUnitFails
  <1>11. QED
    BY <1>4, <1>5, <1>6, <1>7, <1>8, <1>9, <1>10 DEF Next, Call, Step

LEMMA CommitInvStep ==
  ASSUME Store!NoWrap, CommitInv, Store!Trusted', [Next]_vars PROVE CommitInv'
  <1>1. CoreInv' /\ Store!OrderInv'
    BY StepInvariant, StoreMoves, SameAssumptions, Store!OrderStep DEF CommitInv
  <1>2. CASE Commit
    BY <1>1, <1>2, CommitCallCarries DEF CommitInv
  <1>3. CASE CommitStep
    <2>1. job'.rec = job.rec /\ TrialOf(job.rec, ctx.man) /\ ctx.state = "PENDING_COMMIT"
      BY <1>3, JobKeepsRecord DEF CommitStep, CommitInv, CoreInv, Admitted, Carried
    <2>2. ctx \in Ctx
      BY DEF CommitInv, CoreInv, CoreType
    <2>3. QED
      BY <1>1, <1>3, <2>1, <2>2
         DEF CommitStep, Fail, Answer, NoOp, Ctx, CommitInv, Carried
  <1>4. CASE PowerCut
    BY <1>1, <1>4 DEF PowerCut, InitCtx, NoOp, CommitInv, Carried
  <1>5. CASE UNCHANGED vars
    BY <1>1, <1>5 DEF vars, coreVars, paramVars, CommitInv, Carried
  <1>6. CASE Aside
    BY <1>1, <1>6 DEF Aside, paramVars, CommitInv, Carried
  <1>7. QED
    BY <1>2, <1>3, <1>4, <1>5, <1>6, OtherStepsAside DEF CommitInv

\* The invariant of every behaviour; about the record only until a call is misled.
CommitTrust == CoreInv /\ Store!TypeOK /\ (Store!Trusted => CommitInv)

LEMMA CommitTrustInit == Init => CommitTrust
  BY CommitInvInit DEF CommitTrust, CommitInv, Store!OrderInv, Store!StoreInv

LEMMA CommitTrustStep ==
  ASSUME Store!NoWrap, CommitTrust, [Next]_vars PROVE CommitTrust'
  <1>1. [Store!Next]_Store!paramVars /\ CoreInv'
    BY StoreMoves, StepInvariant DEF CommitTrust
  <1>2. Store!TypeOK' /\ (Store!Trusted' => Store!Trusted)
    BY <1>1, SameAssumptions, Store!TypeStep, Store!MisreadsGrow DEF CommitTrust
  <1>3. QED
    BY <1>1, <1>2, CommitInvStep DEF CommitTrust

\* What was verified is what is committed, through all faults, worn cells and power cuts,
\* and as long as the sequence does not wrap and no failing read of the parameters misled
\* a call, a restart tries exactly that image (stc8h_ota_commit).
THEOREM CommitStaysSound == ASSUME Store!NoWrap PROVE Spec => []CommitIsSound
  <1>1. CommitTrust => CommitIsSound
    <2> SUFFICES ASSUME CommitTrust PROVE CommitIsSound
      OBVIOUS
    <2> SUFFICES ASSUME CommitInv PROVE CommittedIsTried
      BY SameCall DEF CommitTrust, CommitIsSound, CommittedIsTried, CoreInv
    <2>1. ctx.state = "COMMITTED" => Active(flash) = job.rec /\ TrialOf(job.rec, ctx.man)
      BY SameFormat
         DEF CommitInv, Carried, Store!OrderInv, Store!StoreInv, Store!AckedIsActive
    <2>2. QED
      BY <2>1, FormatAssumption DEF CommittedIsTried, TrialOf
  <1>2. CommitTrust /\ [Next]_vars => CommitTrust'
    BY CommitTrustStep
  <1>3. QED
    BY <1>1, <1>2, CommitTrustInit, PTL DEF Spec
=============================================================================
