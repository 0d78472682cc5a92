------------------------------ MODULE IrDecoder ------------------------------
(***************************************************************************)
(* The NEC decoder of drivers/drv_ir_rx.c and the encoder of                 *)
(* drivers/drv_ir_tx.c as functions of their state.                         *)
(*                                                                         *)
(* A frame is its bits in the order of transmission: address, its inverse,   *)
(* command, its inverse, ByteBits each (8 in the code).  raw and bit_index    *)
(* are the sequence of the bits pushed so far.  Widths are microseconds.     *)
(***************************************************************************)
EXTENDS Naturals, Sequences

CONSTANT ByteBits

ASSUME BitsAssumption == ByteBits \in Nat \ {0}

FrameBits == 4 * ByteBits

States == {"IDLE", "LEAD_SPACE", "BIT_MARK", "BIT_SPACE", "STOP_MARK",
           "FALLING_BITS", "FALLING_REPEAT"}
IrEvents == {"NONE", "FRAME", "REPEAT", "ERROR"}

Frames == [1 .. FrameBits -> {0, 1}]

Reset == [state |-> "IDLE", bits |-> <<>>, event |-> "NONE",
          frame |-> [i \in 1 .. FrameBits |-> 0]]

Between(value, low, high) == low <= value /\ value <= high

\* Seeded bug: the inverted address is not compared.
ValidCommandOnly(bits) ==
  \A i \in 1 .. ByteBits : bits[2 * ByteBits + i] # bits[3 * ByteBits + i]

Valid(bits) ==
  \A i \in 1 .. ByteBits :
    /\ bits[i] # bits[ByteBits + i]
    /\ bits[2 * ByteBits + i] # bits[3 * ByteBits + i]

-----------------------------------------------------------------------------

SetEvent(rx, event) ==
  IF rx.event = "NONE" THEN [rx EXCEPT !.event = event] ELSE rx

Idle(rx) == [rx EXCEPT !.state = "IDLE", !.bits = <<>>]

Error(rx) == SetEvent(Idle(rx), "ERROR")

FinishFrame(rx) ==
  IF ~Valid(rx.bits) THEN SetEvent(Idle(rx), "ERROR")
  ELSE IF rx.event # "NONE" THEN Idle(rx)
  ELSE [Idle(rx) EXCEPT !.event = "FRAME", !.frame = rx.bits]

PushBit(rx, bit) == [rx EXCEPT !.bits = Append(@, bit)]

-----------------------------------------------------------------------------
(* Intervals between falling edges. *)

FallingLead(width) == Between(width, 12500, 16000)
FallingRepeat(width) == Between(width, 10000, 12500)
FallingZero(width) == Between(width, 900, 1350)
FallingOne(width) == Between(width, 1800, 2700)

IsFallingBit(width) == FallingZero(width) \/ FallingOne(width)

FallingBit(rx, width) ==
  LET pushed == PushBit([rx EXCEPT !.state = "FALLING_BITS"],
                        IF FallingZero(width) THEN 0 ELSE 1)
  IN  IF Len(pushed.bits) >= FrameBits THEN FinishFrame(pushed) ELSE pushed

\* drv_ir_rx_feed_nec_falling_interval
FeedFalling(rx, width) ==
  CASE rx.state = "IDLE" ->
         IF FallingLead(width) THEN [Idle(rx) EXCEPT !.state = "FALLING_BITS"]
         ELSE IF FallingRepeat(width) THEN [Idle(rx) EXCEPT !.state = "FALLING_REPEAT"]
         ELSE rx
    [] rx.state \in {"FALLING_REPEAT", "FALLING_BITS"} /\ IsFallingBit(width) ->
         FallingBit(rx, width)
    [] rx.state = "FALLING_REPEAT" /\ ~IsFallingBit(width) ->
         SetEvent([rx EXCEPT !.state = "IDLE"], "REPEAT")
    [] OTHER -> Error(rx)

-----------------------------------------------------------------------------
(* Pulses: level 0 is a mark, 1 a space. *)

Mark == 0
Space == 1

LeadMark(width) == Between(width, 7200, 10800)
ShortPulse(width) == Between(width, 400, 750)
LeadSpace(width) == Between(width, 3600, 5400)
RepeatSpace(width) == Between(width, 1800, 2700)
OneSpace(width) == Between(width, 1350, 2050)

\* A mark where the space of a bit is due is an error, yet the receiver goes on in
\* BIT_MARK: the branch does not return (drv_ir_rx.c:218-230).
BitSpace(rx, level, width) ==
  LET next == IF level # Space THEN Error(rx)
              ELSE PushBit(rx, IF ShortPulse(width) THEN 0 ELSE 1)
  IN  IF level = Space /\ ~ShortPulse(width) /\ ~OneSpace(width) THEN Error(rx)
      ELSE [next EXCEPT !.state = IF Len(next.bits) >= FrameBits
                                  THEN "STOP_MARK" ELSE "BIT_MARK"]

\* drv_ir_rx_feed_pulse
FeedPulse(rx, level, width) ==
  CASE rx.state = "IDLE" ->
         IF level = Mark /\ LeadMark(width)
         THEN [Idle(rx) EXCEPT !.state = "LEAD_SPACE"] ELSE rx
    [] rx.state = "LEAD_SPACE" /\ level = Space /\ LeadSpace(width) ->
         [rx EXCEPT !.state = "BIT_MARK"]
    [] rx.state = "LEAD_SPACE" /\ level = Space /\ RepeatSpace(width) ->
         SetEvent([rx EXCEPT !.state = "IDLE"], "REPEAT")
    [] rx.state = "BIT_MARK" /\ level = Mark /\ ShortPulse(width) ->
         [rx EXCEPT !.state = "BIT_SPACE"]
    [] rx.state = "BIT_SPACE" -> BitSpace(rx, level, width)
    [] rx.state = "STOP_MARK" /\ level = Mark /\ ShortPulse(width) -> FinishFrame(rx)
    [] OTHER -> Error(rx)

-----------------------------------------------------------------------------
(* drv_ir_tx: the pulses of a frame and of a repeat code, step by step. *)

TotalSteps == 2 * FrameBits + 3
RepeatSteps == 3

\* drv_ir_tx_nec_next for the frame with these bits; step counts from 0.
FramePulse(bits, step) ==
  CASE step = 0 -> <<Mark, 9000>>
    [] step = 1 -> <<Space, 4500>>
    [] step > 1 /\ (step = TotalSteps - 1 \/ step % 2 = 0) -> <<Mark, 562>>
    [] OTHER -> <<Space, IF bits[((step - 2) \div 2) + 1] = 1 THEN 1687 ELSE 562>>

RepeatPulse(step) == <<<<Mark, 9000>>, <<Space, 2250>>, <<Mark, 562>>>>[step + 1]
=============================================================================
