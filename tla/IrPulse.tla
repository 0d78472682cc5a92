------------------------------- MODULE IrPulse -------------------------------
(***************************************************************************)
(* A NEC remote control (drivers/drv_ir_tx.c) heard by the pulse decoder of   *)
(* drivers/drv_ir_rx.c.  A capture layer of the board delivers the pulses one *)
(* by one, noise and disturbed pulses among them; the application fetches     *)
(* events when it likes.                                                     *)
(***************************************************************************)
EXTENDS IrDecoder

CONSTANTS
  Widths,     \* widths a disturbed pulse may have, that of a silence included
  Silence     \* the width of the space between two transmissions, no NEC space

ASSUME PulseAssumption ==
  /\ Widths \subseteq Nat
  /\ Silence \in Nat /\ Silence > 5400

VARIABLES
  rx,      \* drv_ir_rx_t
  tx,      \* drv_ir_tx_nec_t; kind "off" when nothing is sent
  level,   \* level of the pulse delivered last
  fit,     \* history: pulses that look like the beginning of a frame
  shape,   \* history: the bits of those pulses
  astray,  \* history: a mark came where the space of a bit was due, since the lead
  clean    \* history: frames received without disturbance in a row, up to 2

pulseVars == <<rx, tx, level, fit, shape, astray, clean>>

Off == [kind |-> "off", bits |-> Reset.frame, step |-> 0]

PulseTypeOK ==
  /\ rx \in [state : States, bits : Seq({0, 1}), event : IrEvents, frame : Frames]
  /\ Len(rx.bits) <= FrameBits
  /\ tx \in [kind : {"off", "frame", "repeat"}, bits : Frames, step : 0 .. TotalSteps]
  /\ level \in {Mark, Space}
  /\ fit \in 0 .. TotalSteps /\ clean \in 0 .. 2 /\ astray \in BOOLEAN
  /\ shape \in Seq({0, 1}) /\ Len(shape) <= FrameBits
  /\ rx.state = "STOP_MARK" => Len(rx.bits) = FrameBits
  /\ rx.state \in {"IDLE", "LEAD_SPACE"} => rx.bits = <<>>

PulseInit ==
  /\ rx = Reset /\ tx = Off /\ level = Space
  /\ fit = 0 /\ shape = <<>> /\ astray = FALSE /\ clean = 0

-----------------------------------------------------------------------------
(* The reference: what a frame looks like (docs/10, NEC). *)

Fits(position, l, width) ==
  CASE position = 0 -> l = Mark /\ LeadMark(width)
    [] position = 1 -> l = Space /\ LeadSpace(width)
    [] position \in 2 .. TotalSteps - 1 /\ position % 2 = 0 -> l = Mark /\ ShortPulse(width)
    [] position \in 2 .. TotalSteps - 1 /\ position % 2 = 1 ->
         l = Space /\ (ShortPulse(width) \/ OneSpace(width))
    [] OTHER -> FALSE

Observe(l, width) ==
  /\ fit' = IF Fits(fit, l, width) THEN fit + 1 ELSE IF Fits(0, l, width) THEN 1 ELSE 0
  /\ shape' = IF fit' < 3 THEN <<>>
              ELSE IF fit' % 2 = 0 THEN Append(shape, IF ShortPulse(width) THEN 0 ELSE 1)
              ELSE shape

Deliver(l, width) ==
  /\ rx' = FeedPulse(rx, l, width)
  /\ astray' = (rx'.state # "LEAD_SPACE" /\ (astray \/ (rx.state = "BIT_SPACE" /\ l = Mark)))
  /\ level' = l
  /\ Observe(l, width)

-----------------------------------------------------------------------------
\* drv_ir_tx_nec_begin and drv_ir_tx_nec_repeat_begin; the line is quiet before.
Begin(kind, bits) ==
  /\ tx.kind = "off" /\ level = Space
  /\ Valid(bits)
  /\ tx' = [kind |-> kind, bits |-> bits, step |-> 0]
  /\ UNCHANGED <<rx, level, fit, shape, astray, clean>>

SentSteps == IF tx.kind = "frame" THEN TotalSteps ELSE RepeatSteps
Pulse == IF tx.kind = "frame" THEN FramePulse(tx.bits, tx.step) ELSE RepeatPulse(tx.step)

\* drv_ir_tx_nec_next, received as it was sent.
Transmit ==
  /\ tx.kind # "off" /\ tx.step < SentSteps
  /\ Deliver(Pulse[1], Pulse[2])
  /\ tx' = [tx EXCEPT !.step = @ + 1]
  /\ UNCHANGED clean

\* After the last pulse the line is quiet.
Done ==
  /\ tx.kind # "off" /\ tx.step = SentSteps
  /\ Deliver(Space, Silence)
  /\ tx' = Off
  /\ clean' = IF tx.kind = "repeat" \/ clean = 2 THEN clean ELSE clean + 1

\* A pulse nobody sent, or that replaces one that was sent; the sender may stop.
Disturb(l, width) ==
  /\ Deliver(l, width)
  /\ tx' \in {Off} \cup IF tx.kind = "off" \/ tx.step = SentSteps THEN {}
                        ELSE {[tx EXCEPT !.step = @ + 1]}
  /\ clean' = 0

\* Seeded bug: fetching an event resets the decoder.
FetchEventReset ==
  /\ rx.event # "NONE"
  /\ rx' = Reset
  /\ UNCHANGED <<tx, level, fit, shape, astray, clean>>

\* drv_ir_rx_get_event
FetchEvent ==
  /\ rx.event # "NONE"
  /\ rx' = [rx EXCEPT !.event = "NONE"]
  /\ UNCHANGED <<tx, level, fit, shape, astray, clean>>

PulseNext ==
  \/ \E bits \in Frames : Begin("frame", bits)
  \/ \E bits \in Frames : Begin("repeat", bits)
  \/ Transmit \/ Done
  \/ \E l \in {Mark, Space}, width \in Widths : Disturb(l, width)
  \/ FetchEvent

PulseSpec == PulseInit /\ [][PulseNext]_pulseVars

-----------------------------------------------------------------------------
(* Properties. *)

\* Each byte is followed by its inverse.
Paired(bits) ==
  \A i \in 1 .. ByteBits :
    bits[i] + bits[ByteBits + i] = 1 /\ bits[2 * ByteBits + i] + bits[3 * ByteBits + i] = 1

\* docs/10 line 87: a frame is a lead mark, a lead space, the bits and a stop mark.
\* The decoder reports one only when exactly that has been received last, with the
\* bits it reports; or when a mark that came for the space of a bit (line 219) had been
\* answered with an error without the decoder leaving the frame.
FrameIsWhole ==
  [][rx.event # "FRAME" /\ rx'.event = "FRAME" =>
       /\ Paired(rx'.frame)
       /\ astray \/ (fit' = TotalSteps /\ rx'.frame = shape')]_pulseVars

\* A disturbance costs one more frame at most: whatever was received before, the
\* second of two undisturbed frames is reported if the event slot is free.
SecondIsReported ==
  [][tx.kind = "frame" /\ tx.step = TotalSteps - 1 /\ tx'.step = TotalSteps
       /\ clean >= 1 /\ clean' >= 1 /\ rx.event = "NONE"
       => rx'.event = "FRAME" /\ rx'.frame = tx.bits]_pulseVars

\* An event that waits to be fetched is not changed by what is received meanwhile,
\* and neither is the frame that belongs to it.
EventWaits ==
  [][rx.event # "NONE" /\ rx'.event # "NONE"
       => rx'.event = rx.event /\ rx'.frame = rx.frame]_pulseVars

\* What a disturbance costs, and what it does not: one frame more, and never an event
\* that waits.
SecondFrameIsDecoded == SecondIsReported /\ EventWaits
=============================================================================
