------------------------------- MODULE TwoWire -------------------------------
(***************************************************************************)
(* The two bit-banged buses, wire by wire: I2C (hal/stc8h_i2c.c) with a       *)
(* device that is written and read, and the bus of the TM1637 display        *)
(* (drivers/drv_tm1637.c).  The device follows the wires and knows nothing    *)
(* of the calls; it may refuse any byte.  Both wires are open drain.  Bytes   *)
(* are the tuples of their bits in the order of transmission, ByteBits long. *)
(* The microcontroller may be reset between any two edges.                  *)
(***************************************************************************)
EXTENDS Naturals, Sequences

CONSTANTS
  Payloads,  \* what a call transfers: sequences of bytes
  MaxResets  \* bound

VARIABLES
  chip,     \* the device: "i2c" or "tm1637"
  scl, sda, \* as the master drives them
  hold,     \* level at which the device leaves SDA: 0 when it pulls
  todo,     \* steps the call in progress still has to make
  request,  \* what it is to achieve
  input,    \* bits the master has read
  reply,    \* status of the last call
  device,
  resets, stuck \* stuck: history, a reset has left SDA held low

wires == <<scl, sda, hold>>
wireVars == <<chip, wires, todo, request, input, reply, device, resets, stuck>>

ByteBits == 3
Bit == {0, 1}
WireByte == Bit \X Bit \X Bit
Level(s, h) == IF s = 0 \/ h = 0 THEN 0 ELSE 1
Flat(seqs) ==
  LET flat[i \in 0 .. Len(seqs)] == IF i = 0 THEN <<>> ELSE flat[i - 1] \o seqs[i]
  IN  flat[Len(seqs)]

ASSUME TwoWireAssumption == Payloads \subseteq Seq(WireByte) /\ MaxResets \in Nat

-----------------------------------------------------------------------------
(* The drivers: sequences of edges.  Delays only make them slow enough. *)

Scl(level) == <<[do |-> "scl", to |-> level]>>
Sda(level) == <<[do |-> "sda", to |-> level]>>
ReadSda == <<[do |-> "read", to |-> 0]>>
CheckAck == <<[do |-> "ack", to |-> 0]>>

start == Sda(1) \o Scl(1) \o Sda(0) \o Scl(0)
i2c_stop == Sda(0) \o Scl(1) \o Sda(1)
tm1637_stop == Scl(0) \o Sda(0) \o Scl(1) \o Sda(1)
stop == IF chip = "i2c" THEN i2c_stop ELSE tm1637_stop

Acknowledged == Sda(1) \o Scl(1) \o CheckAck \o Scl(0)

i2c_write_byte(byte) ==
  Flat([i \in 1 .. ByteBits |-> Sda(byte[i]) \o Scl(1) \o Scl(0)]) \o Acknowledged

tm1637_write_byte(byte) ==
  Flat([i \in 1 .. ByteBits |-> Scl(0) \o Sda(byte[i]) \o Scl(1)]) \o Scl(0) \o Acknowledged

\* Seeded bug: every byte is acknowledged, the last one too.
I2cReadByteAlways(ack) ==
  Sda(1) \o Flat([i \in 1 .. ByteBits |-> Scl(1) \o ReadSda \o Scl(0)])
    \o Sda(0) \o Scl(1) \o Scl(0) \o Sda(1)

i2c_read_byte(ack) ==
  Sda(1) \o Flat([i \in 1 .. ByteBits |-> Scl(1) \o ReadSda \o Scl(0)])
    \o Sda(IF ack THEN 0 ELSE 1) \o Scl(1) \o Scl(0) \o Sda(1)

\* Two address bits and the direction.
AddressByte(dir) == <<1, 0, dir>>

i2c_write(data) ==
  start \o i2c_write_byte(AddressByte(0))
    \o Flat([i \in DOMAIN data |-> i2c_write_byte(data[i])]) \o i2c_stop

i2c_read(len) ==
  start \o i2c_write_byte(AddressByte(1))
    \o Flat([i \in 1 .. len |-> i2c_read_byte(i < len)]) \o i2c_stop

i2c_probe == start \o i2c_write_byte(AddressByte(0)) \o i2c_stop

\* The three commands of the display, least significant bit first: 0x40, 0xC0 and 0x88 or 0x80.
DataAuto == <<0, 1, 0>>
AddrBase == <<0, 1, 1>>
Display(on) == <<on, 0, 1>>

tm1637_write_cmd(cmd) == start \o tm1637_write_byte(cmd) \o tm1637_stop

tm1637_display_raw(segments, on) ==
  tm1637_write_cmd(DataAuto)
    \o start \o tm1637_write_byte(AddrBase)
    \o Flat([i \in DOMAIN segments |-> tm1637_write_byte(segments[i])]) \o tm1637_stop
    \o tm1637_write_cmd(Display(on))

ReleaseWires == {Sda(1) \o Scl(1), Scl(1) \o Sda(1)}

-----------------------------------------------------------------------------
(* The device, which acts on edges. *)

Waiting == [mode |-> "idle", bits |-> <<>>, frame |-> <<>>, sent |-> 0, ram |-> <<>>]

\* Bytes a reader gets, over and over.
Source == <<<<0, 1, 1>>, <<1, 0, 0>>>>
SendingBit(n) == Source[1 + ((n \div ByteBits) % 2)][1 + (n % ByteBits)]

WireTypeOK ==
  /\ {scl, sda, hold} \subseteq Bit
  /\ device.mode \in {"idle", "in", "ackout", "out", "ackin"}
  /\ device.bits \in Seq(Bit) /\ device.frame \in Seq(WireByte)
  /\ reply \in {"none", "OK", "ERROR"}

Started == device' = [Waiting EXCEPT !.mode = "in", !.ram = device.ram] /\ hold' = 1
Stopped ==
  /\ device' = [device EXCEPT !.mode = "idle",
                              !.ram = IF device.frame # <<>> /\ device.frame[1] = AddrBase
                                      THEN Tail(device.frame) ELSE @]
  /\ hold' = 1

Rises ==
  /\ hold' = hold
  /\ device' = IF device.mode \in {"in", "ackin"}
               THEN [device EXCEPT !.bits = Append(@, Level(sda, hold))] ELSE device

IsRead == chip = "i2c" /\ device.frame[1] = AddressByte(1)
SendBit(d) == device' = d /\ hold' = SendingBit(d.sent)

Falls ==
  CASE device.mode = "in" /\ Len(device.bits) = ByteBits ->
         \/ /\ device' = [device EXCEPT !.mode = "ackout", !.bits = <<>>, !.frame = Append(@, device.bits)]
            /\ hold' = 0
         \/ device' = [device EXCEPT !.mode = "idle"] /\ hold' = 1
    [] device.mode = "ackout" /\ IsRead -> SendBit([device EXCEPT !.mode = "out", !.sent = 0])
    [] device.mode = "ackout" /\ ~IsRead -> device' = [device EXCEPT !.mode = "in"] /\ hold' = 1
    [] device.mode = "out" /\ (device.sent + 1) % ByteBits # 0 -> SendBit([device EXCEPT !.sent = @ + 1])
    [] device.mode = "out" /\ (device.sent + 1) % ByteBits = 0 ->
         device' = [device EXCEPT !.mode = "ackin", !.sent = (@ + 1) % (2 * ByteBits), !.bits = <<>>] /\ hold' = 1
    [] device.mode = "ackin" /\ device.bits = <<0>> -> SendBit([device EXCEPT !.mode = "out", !.bits = <<>>])
    [] device.mode = "ackin" /\ device.bits # <<0>> -> device' = [device EXCEPT !.mode = "idle"] /\ hold' = 1
    [] OTHER -> UNCHANGED <<device, hold>>

-----------------------------------------------------------------------------
(* The steps of the master. *)

Now == Head(todo)
StepDone == todo' = Tail(todo)

SclStep ==
  /\ todo # <<>> /\ Now.do = "scl" /\ StepDone
  /\ scl' = Now.to
  /\ CASE scl = 0 /\ Now.to = 1 -> Rises
       [] scl = 1 /\ Now.to = 0 -> Falls
       [] OTHER -> UNCHANGED <<device, hold>>
  /\ UNCHANGED <<chip, sda, request, input, reply, resets, stuck>>

\* An edge of SDA while SCL is high starts or stops; one that the device holds back is none.
SdaStep ==
  /\ todo # <<>> /\ Now.do = "sda" /\ StepDone
  /\ sda' = Now.to
  /\ CASE scl = 1 /\ Level(sda, hold) = 1 /\ Now.to = 0 -> Started
       [] scl = 1 /\ sda = 0 /\ Level(Now.to, hold) = 1 -> Stopped
       [] OTHER -> UNCHANGED <<device, hold>>
  /\ UNCHANGED <<chip, scl, request, input, reply, resets, stuck>>

ReadStep ==
  /\ todo # <<>> /\ Now.do = "read" /\ StepDone
  /\ input' = Append(input, Level(sda, hold))
  /\ UNCHANGED <<chip, wires, request, reply, device, resets, stuck>>

\* A byte that is not acknowledged ends the call.
AckStep ==
  /\ todo # <<>> /\ Now.do = "ack"
  /\ IF Level(sda, hold) = 0 THEN StepDone /\ UNCHANGED reply
     ELSE todo' = Scl(0) \o stop /\ reply' = "ERROR"
  /\ UNCHANGED <<chip, wires, request, input, device, resets, stuck>>

BusCall(asked, steps) ==
  /\ todo = <<>>
  /\ request' = asked /\ todo' = steps /\ reply' = "OK" /\ input' = <<>>
  /\ UNCHANGED <<chip, wires, device, resets>>
  /\ stuck' = (stuck /\ hold = 0)

Asked(op, data) == [op |-> op, data |-> data]

\* A read asks for at least one byte.
I2cCall ==
  /\ chip = "i2c"
  /\ \/ \E data \in Payloads : BusCall(Asked("write", data), i2c_write(data))
     \/ \E len \in 1 .. 2 : BusCall(Asked("read", SubSeq(Source, 1, len)), i2c_read(len))
     \/ BusCall(Asked("write", <<>>), i2c_probe)

\* The data is refreshed, and the display switched on or off by the control byte.
TmCall ==
  /\ chip = "tm1637"
  /\ \E data \in Payloads \ {<<>>}, on \in Bit :
       BusCall(Asked("display", <<data, on>>), tm1637_display_raw(data, on))

Reset ==
  /\ resets < MaxResets /\ todo # <<>>
  /\ resets' = resets + 1 /\ stuck' = TRUE
  /\ reply' = "none" /\ input' = <<>> /\ request' = Asked("none", <<>>)
  /\ todo' \in ReleaseWires
  /\ UNCHANGED <<chip, wires, device>>

WireInit ==
  /\ chip \in {"i2c", "tm1637"}
  /\ scl = 1 /\ sda = 1 /\ hold = 1
  /\ todo = <<>> /\ request = Asked("none", <<>>) /\ input = <<>> /\ reply = "none"
  /\ device = Waiting /\ resets = 0 /\ stuck = FALSE

WireNext == SclStep \/ SdaStep \/ ReadStep \/ AckStep \/ I2cCall \/ TmCall \/ Reset

WireSpec == WireInit /\ [][WireNext]_wireVars

-----------------------------------------------------------------------------
(* Properties. *)

Returned == todo = <<>> /\ ~stuck

\* When a call returns, the device has seen the end of the frame and has let go of the
\* bus, whichever byte it refused.
BusIsFree == Returned => device.mode = "idle" /\ scl = 1 /\ Level(sda, hold) = 1

\* A call that answers OK has carried every bit: no edge of SDA inside a byte looks like a
\* start or a stop, and both sides agree on where a byte begins and who drives the wire
\* (stc8h_i2c.c:49-106, drv_tm1637.c:69-96).
OkIsCarried ==
  Returned /\ reply = "OK" =>
    CASE request.op = "write" -> device.frame = <<AddressByte(0)>> \o request.data
      [] request.op = "read" -> input = Flat(request.data)
      [] request.op = "display" -> device.frame = <<Display(request.data[2])>> /\ device.ram = request.data[1]
      [] OTHER -> TRUE

\* What was transferred arrived, and the bus is free afterwards.
BusIsCarried == BusIsFree /\ OkIsCarried
=============================================================================
