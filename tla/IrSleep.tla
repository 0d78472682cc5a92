------------------------------- MODULE IrSleep -------------------------------
(***************************************************************************)
(* The receiver of examples/platformio/ir_nec_rx_int_sleep: INT0 interrupts   *)
(* on the falling edges of a NEC remote control, its handler feeds the        *)
(* intervals to the decoder, and the main loop fetches events, ends a         *)
(* transmission after 30 ms of silence and powers down after a hundred such    *)
(* silences.  The handler runs between any two steps of the main loop.        *)
(*                                                                         *)
(* Time passes in units of 1.125 ms, the width of a bit 0.  The free running   *)
(* timer and last_falling_ticks only matter through their difference, which    *)
(* is what the model keeps; the timer is halted in power down.                *)
(***************************************************************************)
EXTENDS IrDecoder, IrSizes

VARIABLES
  ir,        \* ir_rx
  falling,   \* falling_seen
  age,       \* timer minus last_falling_ticks
  active,    \* active_mode
  chunks,    \* active_chunks
  sleeping,  \* sleeping_mode
  woke,      \* woke_from_ir
  main,      \* what the main loop does next
  ahead,     \* timer minus now_ticks of poll_active_timeout
  late,      \* time passed in this round of the main loop
  remote,    \* the remote control: kind, bits, edges made, time to the next edge
  raced      \* history: an edge of this transmission met the main loop in Window

loop == <<main, ahead, late>>
flags == <<falling, age, active, chunks, sleeping, woke>>
sleepVars == <<ir, flags, loop, remote, raced>>

Unit == 1125

Positions ==
  {"wake", "event", "print", "poll", "width", "finish", "expire_repeat", "expire_bits",
   "forget", "renew", "count", "reset", "idle", "clear", "mark", "unwake", "drain", "flag",
   "down", "asleep"}

\* Those of poll_active_timeout behind the reading of the timer, and before renewing it.
Timing == {"width", "finish", "expire_repeat", "expire_bits", "forget", "renew"}

Ahead(steps) == (age + Wrap - steps) % Wrap

SleepTypeOK ==
  /\ ir \in [state : States, bits : Seq({0, 1}), event : IrEvents, frame : Frames]
  /\ Len(ir.bits) < FrameBits
  /\ falling \in BOOLEAN /\ active \in BOOLEAN /\ sleeping \in BOOLEAN
  /\ woke \in BOOLEAN /\ raced \in BOOLEAN
  /\ age \in 0 .. Wrap - 1 /\ ahead \in 0 .. Wrap - 1 /\ chunks \in 0 .. Chunks
  /\ main \in Positions /\ late \in 0 .. 2
  /\ remote \in [kind : {"off", "frame", "repeat"}, bits : Frames,
                 step : 0 .. FrameBits + 1, wait : Nat]
  /\ sleeping => ~woke \/ main = "unwake"

SleepInit ==
  /\ ir = Reset /\ falling = FALSE /\ age = 0
  /\ active = TRUE /\ chunks = 0 /\ sleeping = FALSE /\ woke = FALSE
  /\ main = "wake" /\ ahead = 0 /\ late = 0
  /\ remote = [kind |-> "off", bits |-> Reset.frame, step |-> 0, wait |-> Gap]
  /\ raced = FALSE

-----------------------------------------------------------------------------
(* The remote control and the interrupt. *)

\* Seeded bug: an interval is fed to the decoder even after a silence.
FedAlways == FeedFalling(ir, age * Unit)

\* The decoder gets stc8h_timer0_12t_ticks_to_us of the interval.
Fed == IF falling THEN FeedFalling(ir, age * Unit) ELSE ir

\* int0_isr when the edge ends the sleep
Wake ==
  /\ sleeping' = FALSE /\ woke' = TRUE /\ active' = TRUE /\ chunks' = 0
  /\ ir' = Reset /\ falling' = TRUE /\ age' = 0

\* int0_isr otherwise
Feed ==
  /\ ir' = Fed
  /\ falling' = TRUE /\ age' = 0 /\ active' = TRUE /\ chunks' = 0
  /\ UNCHANGED <<sleeping, woke>>

\* An edge ends power down: the main loop goes on behind it.
Resume ==
  /\ main' = IF main = "asleep" THEN "wake" ELSE main
  /\ late' = IF main = "asleep" THEN 0 ELSE late
  /\ UNCHANGED ahead

int0_isr == Resume /\ IF sleeping THEN Wake ELSE Feed

\* An edge that comes with the write that clears the flag is taken away by it.
LostEdge ==
  /\ main = "flag" /\ main' = "down"
  /\ UNCHANGED <<ir, flags, ahead, late>>

Falls == int0_isr \/ LostEdge

\* Positions in which an edge makes the main loop act on what is no longer true.
Window ==
  {"width", "finish", "forget", "reset", "idle", "clear", "mark", "unwake", "drain", "flag", "down"}

Intervals(kind, bits) ==
  IF kind = "repeat" THEN <<10>>
  ELSE <<12>> \o [i \in 1 .. FrameBits |-> bits[i] + 1]

\* The first edge of a transmission, after a silence.
FirstEdge(kind, bits) ==
  /\ remote.kind = "off" /\ remote.wait = Gap
  /\ kind = "frame" => Valid(bits)
  /\ remote' = [kind |-> kind, bits |-> bits, step |-> 1, wait |-> Intervals(kind, bits)[1]]
  /\ raced' = (main \in Window)
  /\ Falls

LastEdge == remote.step = Len(Intervals(remote.kind, remote.bits))

Edge ==
  /\ remote.kind # "off" /\ remote.wait = 0
  /\ remote' = IF LastEdge THEN [remote EXCEPT !.kind = "off", !.step = 0]
               ELSE [remote EXCEPT !.step = @ + 1,
                                   !.wait = Intervals(remote.kind, remote.bits)[remote.step + 1]]
  /\ raced' = (raced \/ main \in Window)
  /\ Falls

\* The lead mark of 9 ms; the other marks are shorter than a unit.
Low == remote.step = 1 /\ remote.wait > IF remote.kind = "frame" THEN 4 ELSE 2

Waiting == main = "asleep" \/ (main = "drain" /\ Low)

\* A round of the main loop takes less than a unit, or two when it prints a frame.
Tick ==
  /\ \/ Waiting
     \/ late < IF main = "print" THEN 2 ELSE 1
  /\ remote.kind # "off" => remote.wait > 0
  /\ remote' = [remote EXCEPT !.wait = IF remote.kind # "off" THEN @ - 1
                                       ELSE IF @ < Gap THEN @ + 1 ELSE @]
  /\ age' = IF main = "asleep" THEN age ELSE (age + 1) % Wrap
  /\ ahead' = IF main \in Timing THEN (ahead + 1) % Wrap ELSE ahead
  /\ late' = IF Waiting THEN late ELSE late + 1
  /\ UNCHANGED <<ir, falling, active, chunks, sleeping, woke, main, raced>>

-----------------------------------------------------------------------------
(* The main loop: one action per access to what the handler shares with it. *)

Go(from, to) ==
  /\ main = from /\ main' = to
  /\ late' = IF to = "wake" THEN 0 ELSE late
  /\ UNCHANGED <<remote, raced>>

PrintWake ==
  /\ Go("wake", "event")
  /\ woke' = FALSE
  /\ UNCHANGED <<ir, falling, age, active, chunks, sleeping, ahead>>

\* handle_event, which fetches the event with interrupts disabled
handle_event ==
  /\ Go("event", IF ir.event = "NONE" THEN "poll" ELSE "print")
  /\ ir' = [ir EXCEPT !.event = "NONE"]
  /\ UNCHANGED <<flags, ahead>>

print_frame == Go("print", "poll") /\ UNCHANGED <<ir, flags, ahead>>

ReadTimer ==
  /\ Go("poll", IF active THEN "width" ELSE "wake")
  /\ ahead' = 0
  /\ UNCHANGED <<ir, flags>>

\* last_falling_ticks may be younger than now_ticks by now: the width wraps.
Compare ==
  /\ Go("width", IF Ahead(ahead) > Timeout THEN "finish" ELSE "wake")
  /\ UNCHANGED <<ir, flags, ahead>>

Finish ==
  /\ Go("finish", CASE ir.state = "FALLING_REPEAT" -> "expire_repeat"
                    [] ir.state = "FALLING_BITS" -> "expire_bits"
                    [] OTHER -> "forget")
  /\ UNCHANGED <<ir, flags, ahead>>

ExpireRepeat ==
  /\ Go("expire_repeat", "forget")
  /\ ir' = SetEvent([ir EXCEPT !.state = "IDLE"], "REPEAT")
  /\ UNCHANGED <<flags, ahead>>

ExpireBits ==
  /\ Go("expire_bits", "forget")
  /\ ir' = Idle(ir)
  /\ UNCHANGED <<flags, ahead>>

Forget ==
  /\ Go("forget", "renew")
  /\ falling' = FALSE
  /\ UNCHANGED <<ir, age, active, chunks, sleeping, woke, ahead>>

Renew ==
  /\ Go("renew", "count")
  /\ age' = ahead
  /\ UNCHANGED <<ir, falling, active, chunks, sleeping, woke, ahead>>

\* Seeded bug: the count starts over before it is compared.
CountOver ==
  /\ Go("count", IF chunks >= Chunks THEN "reset" ELSE "wake")
  /\ chunks' = (chunks + 1) % Chunks
  /\ UNCHANGED <<ir, falling, age, active, sleeping, woke, ahead>>

Count ==
  /\ Go("count", IF chunks + 1 >= Chunks THEN "reset" ELSE "wake")
  /\ chunks' = chunks + 1
  /\ UNCHANGED <<ir, falling, age, active, sleeping, woke, ahead>>

-----------------------------------------------------------------------------
(* enter_power_down_until_ir *)

ResetDecoder ==
  /\ Go("reset", "idle")
  /\ ir' = Reset
  /\ UNCHANGED <<flags, ahead>>

SetIdle ==
  /\ Go("idle", "clear")
  /\ active' = FALSE
  /\ UNCHANGED <<ir, falling, age, chunks, sleeping, woke, ahead>>

ClearEdges ==
  /\ Go("clear", "mark")
  /\ chunks' = 0 /\ falling' = FALSE
  /\ UNCHANGED <<ir, age, active, sleeping, woke, ahead>>

MarkSleeping ==
  /\ Go("mark", "unwake")
  /\ sleeping' = TRUE
  /\ UNCHANGED <<ir, falling, age, active, chunks, woke, ahead>>

ClearWoke ==
  /\ Go("unwake", "drain")
  /\ woke' = FALSE
  /\ UNCHANGED <<ir, falling, age, active, chunks, sleeping, ahead>>

\* The pin is high, the flag is cleared, the device powers down: an edge between two of
\* these is handled (or lost with the flag) and the device sleeps all the same.
PinIsHigh ==
  /\ ~Low
  /\ Go("drain", "flag")
  /\ UNCHANGED <<ir, flags, ahead>>

clear_flag == Go("flag", "down") /\ UNCHANGED <<ir, flags, ahead>>

PowerDown == Go("down", "asleep") /\ UNCHANGED <<ir, flags, ahead>>

Main ==
  \/ PrintWake \/ handle_event \/ print_frame \/ ReadTimer \/ Compare \/ Finish
  \/ ExpireRepeat \/ ExpireBits \/ Forget \/ Renew \/ Count
  \/ ResetDecoder \/ SetIdle \/ ClearEdges \/ MarkSleeping \/ ClearWoke
  \/ PinIsHigh \/ clear_flag \/ PowerDown

SleepNext ==
  \/ \E bits \in Frames : FirstEdge("frame", bits)
  \/ FirstEdge("repeat", Reset.frame)
  \/ Edge \/ Tick \/ Main

SleepSpec == SleepInit /\ [][SleepNext]_sleepVars

FairSleepSpec == SleepSpec /\ WF_sleepVars(Main) /\ WF_sleepVars(Edge) /\ WF_sleepVars(Tick)
-----------------------------------------------------------------------------
(* Properties. *)

\* What the receiver reports has been sent: a frame at its last edge and with its
\* bits, a repeat after a repeat code, never an error, although frames may be cut
\* short by the main loop at any point (main.c:108-140).
OnlySentIsReported ==
  [][ir.event = "NONE" /\ ir'.event # "NONE"
       => \/ ir'.event = "FRAME" /\ remote.kind = "frame" /\ LastEdge /\ ir'.frame = remote.bits
          \/ ir'.event = "REPEAT" /\ remote.kind = "off" /\ remote.bits = Reset.frame]_sleepVars

FrameEnds == remote.kind = "frame" /\ LastEdge /\ remote'.kind = "off"

\* The positions in Window are the only ones that cost a frame: one none of whose
\* edges meets the main loop there is reported, also when it ends the sleep.
UndisturbedIsReported ==
  [][FrameEnds /\ ~raced' => ir'.event = "FRAME" /\ ir'.frame = remote.bits]_sleepVars

\* Both: what the sleeping receiver reports has been sent, and an undisturbed frame is
\* reported (main.c:108-175).
SleeperReports == OnlySentIsReported /\ UndisturbedIsReported

\* Once the remote control is silent for good the device sleeps, whatever edges
\* met it on the way to sleep before.
SleepFollowsSilence == <>[](remote.kind = "off") => <>[](main = "asleep")
=============================================================================
