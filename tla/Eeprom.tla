-------------------------------- MODULE Eeprom --------------------------------
(***************************************************************************)
(* The data flash (hal/stc8h_eeprom.c): reading, programming and erasing,    *)
(* byte by byte, and the fixed block that is saved as a whole, under power   *)
(* cuts and failing commands.  A byte is the set of its bits that are one:   *)
(* erasing sets them all, programming clears some.                         *)
(***************************************************************************)
EXTENDS Naturals, Sequences

CONSTANTS
  Word,       \* addresses and lengths are modulo this (2^16)
  Size,       \* STC8H_EEPROM_SIZE
  SectorSize,
  Allocated,  \* bytes the chip has for it; commands beyond fail
  FixedAddr, FixedSize, \* the fixed block
  Bits,
  MaxWrite    \* bound: bytes of a write

\* The block must fit into one sector (stc8h_eeprom.h:45-55); a chip has whole sectors.
ASSUME EepromAssumption ==
  /\ {Word, SectorSize, FixedSize} \subseteq Nat \ {0}
  /\ {Size, Allocated, FixedAddr, MaxWrite} \subseteq Nat
  /\ Size <= Word /\ Allocated <= Word /\ Allocated % SectorSize = 0
  /\ FixedAddr % SectorSize = 0 /\ FixedSize <= SectorSize /\ FixedAddr + FixedSize <= Size

Addresses == 0 .. Word - 1
Byte == SUBSET Bits
Erased == Bits
Sector(addr) == {a \in Addresses : a \div SectorSize = addr \div SectorSize}

VARIABLES
  cells,  \* content of the flash
  job,    \* the call in progress: what is still to be done
  buffer, \* what the caller has read
  status, \* status of the last call
  before, \* history: cells when the call was made
  asked   \* history: the call

eepromVars == <<cells, job, buffer, status, before, asked>>

Idle == [op |-> "idle", addr |-> 0, data |-> <<>>, left |-> 0]
Ops == {"read", "write", "erase", "save"}

EepromTypeOK ==
  /\ cells \in [0 .. Allocated - 1 -> Byte] /\ before \in [0 .. Allocated - 1 -> Byte]
  /\ job.op \in Ops \cup {"idle"} /\ job.addr \in Addresses
  /\ status \in {"none", "OK", "ERROR"}

EepromInit ==
  /\ cells \in [0 .. Allocated - 1 -> {Erased, {}}]
  /\ job = Idle /\ buffer = <<>> /\ status = "none"
  /\ before = cells /\ asked = Idle

-----------------------------------------------------------------------------
\* Seeded bug: the end of the range is computed, and may pass 2^16.
RangeOkWraps(addr, len) == len = 0 \/ (addr + len) % Word <= Size

range_ok(addr, len) == len = 0 \/ (addr < Size /\ len <= Size - addr)

Made(op, addr, data, len) == [op |-> op, addr |-> addr, data |-> data, left |-> len]

\* A call: refused, or its first command is next.
Call(call, allowed) ==
  /\ job = Idle
  /\ asked' = call /\ before' = cells /\ buffer' = <<>>
  /\ IF ~allowed THEN job' = Idle /\ status' = "ERROR"
     ELSE IF call.left = 0 THEN job' = Idle /\ status' = "OK"
     ELSE job' = call /\ status' = "none"
  /\ UNCHANGED cells

read(addr, len) == Call(Made("read", addr, <<>>, len), range_ok(addr, len))
write(addr, data) == Call(Made("write", addr, data, Len(data)), range_ok(addr, Len(data)))
erase_sector(addr) ==
  Call(Made("erase", addr, <<>>, 1), addr < Size /\ addr % SectorSize = 0)
read_fixed == Call(Made("read", FixedAddr, <<>>, FixedSize), TRUE)
save_fixed(data) == Call(Made("save", FixedAddr, data, FixedSize + 1), TRUE)

\* The first command of a save erases; the others program.
NextCommand ==
  CASE job.op = "save" /\ job.left > FixedSize -> "erase"
    [] job.op = "save" /\ job.left <= FixedSize -> "write"
    [] OTHER -> job.op

Programmed(old, value) == old \cap value
Value == job.data[Len(job.data) + 1 - job.left]

\* What a command makes of the flash.
Commanded(command) ==
  CASE command = "erase" -> [a \in DOMAIN cells |-> IF a \in Sector(job.addr) THEN Erased ELSE cells[a]]
    [] command = "write" -> [cells EXCEPT ![job.addr] = Programmed(@, Value)]
    [] OTHER -> cells

Advanced(command) ==
  [job EXCEPT !.left = @ - 1, !.addr = IF command = "erase" THEN @ ELSE (@ + 1) % Word]

\* stc8h_eeprom_trigger; with the last byte, or after a failure, the call returns.
trigger ==
  /\ job # Idle /\ job.addr < Allocated
  /\ cells' = Commanded(NextCommand)
  /\ buffer' = IF NextCommand = "read" THEN Append(buffer, cells[job.addr]) ELSE buffer
  /\ IF job.left = 1 THEN job' = Idle /\ status' = "OK"
     ELSE job' = Advanced(NextCommand) /\ UNCHANGED status
  /\ UNCHANGED <<before, asked>>

CommandFails ==
  /\ job # Idle
  /\ job' = Idle /\ status' = "ERROR"
  /\ UNCHANGED <<cells, buffer, before, asked>>

\* Erasing has set some of the bits, or programming cleared some.
Between(old, new) == {b \in Byte : old \cap new \subseteq b /\ b \subseteq old \cup new}

PowerCut ==
  /\ job # Idle /\ job.addr < Allocated
  /\ cells' \in {c \in [0 .. Allocated - 1 -> Byte] :
                   \A a \in DOMAIN c : c[a] \in Between(cells[a], Commanded(NextCommand)[a])}
  /\ job' = Idle /\ status' = "none" /\ buffer' = <<>>
  /\ UNCHANGED <<before, asked>>

Datas(len) == [1 .. len -> Byte]

EepromNext ==
  \/ \E addr \in Addresses :
       \/ erase_sector(addr)
       \/ \E len \in 0 .. Word - 1 : read(addr, len)
       \/ \E len \in 0 .. MaxWrite : \E data \in Datas(len) : write(addr, data)
  \/ read_fixed \/ \E data \in Datas(FixedSize) : save_fixed(data)
  \/ trigger \/ CommandFails \/ PowerCut

EepromSpec == EepromInit /\ [][EepromNext]_eepromVars

-----------------------------------------------------------------------------
(* Properties. *)

Touched ==
  CASE asked.op \in {"save", "erase"} -> Sector(asked.addr)
    [] asked.op = "write" -> (asked.addr .. asked.addr + asked.left - 1) \cap 0 .. Size - 1
    [] OTHER -> {}
Block == FixedAddr .. FixedAddr + FixedSize - 1
Content(a) == asked.data[a - asked.addr + 1]

\* A call leaves alone what it was not asked to change, for every address and length the
\* caller may pass (stc8h_eeprom.c:21-34), and fails, is cut or ends with just this.
OthersAreKept == \A a \in DOMAIN cells : a \notin Touched => cells[a] = before[a]

\* A call that answers OK has stored, erased or read what it was asked to; a byte that was
\* not erased keeps its zeros.
OkIsDone ==
  status = "OK" =>
    CASE asked.op = "save" -> \A a \in Block : cells[a] = Content(a)
      [] asked.op = "write" -> \A a \in Touched : cells[a] = Content(a) \cap before[a]
      [] asked.op = "erase" -> \A a \in Touched : cells[a] = Erased
      [] OTHER -> buffer = [i \in 1 .. asked.left |-> cells[asked.addr + i - 1]]

\* A save that is cut or fails may lose the block, but it never leaves bytes of the old
\* block that pass for some of the new one: until all of it is erased no bit is cleared,
\* and from then on none but for the new block (stc8h_eeprom.c:189-207).
NoMixture ==
  asked.op = "save" => \/ \A a \in Block : before[a] \subseteq cells[a]
                       \/ \A a \in Block : Content(a) \subseteq cells[a]

\* The flash keeps what it is not asked to change, stores what it says it has stored, and
\* never mixes two blocks.
EepromKeeps == OthersAreKept /\ OkIsDone /\ NoMixture
=============================================================================
