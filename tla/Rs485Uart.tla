------------------------------ MODULE Rs485Uart ------------------------------
(***************************************************************************)
(* A half-duplex RS485 node: the driver drivers/drv_rs485_uart.c with its RX *)
(* interrupt, the UART2 primitives of hal/stc8h_uart.c, and the interrupt    *)
(* and main loop of examples/platformio/h8k64u_rs485_uart2_irq_echo, which    *)
(* share a receive buffer.                                                  *)
(*                                                                         *)
(* One step is one access of the CPU to a shared register or variable; the   *)
(* UART works between any two of them, and the interrupt stops the main loop.*)
(* The UART is what docs/27 section 2 says of it: one vector for S2RI and    *)
(* S2TI, S2TI set when the stop bit starts.  S2CON and IE2 are changed by one *)
(* read-modify-write instruction each.  The transceiver does not receive      *)
(* while it drives the bus.                                                 *)
(***************************************************************************)
EXTENDS Naturals, Sequences

CONSTANTS
  Bytes,       \* values of a byte
  RingSize,    \* RX_BUFFER_SIZE
  Lengths      \* lengths of the writes (the echo writes one byte)

ASSUME UartAssumption ==
  /\ 0 \in Bytes /\ RingSize \in Nat \ {0, 1}
  /\ Lengths \subseteq Nat \ {0}

VARIABLES
  uart,     \* UART2: sbuf and ri of the receiver, ti and line of the transmitter
  enabled,  \* IE2.ES2
  dir,      \* direction of the transceiver
  ring,     \* rx_buffer, rx_head, rx_tail and rx_overflow
  isr,      \* where the interrupt is, "out" when it does not run
  pc, value, left, \* the main loop: place, local byte, bytes still to send
  late      \* history: TX_POLL_LIMIT has run out with a byte on the line

vars == <<uart, enabled, dir, ring, isr, pc, value, left, late>>

Places == {"loop", "remove", "write", "drive", "load", "poll", "delay",
           "release", "clear", "unmask", "flag", "unflag"}

TypeOK ==
  /\ uart \in [sbuf : Bytes, ri : BOOLEAN, ti : BOOLEAN, line : {"idle", "bits", "stop"}]
  /\ enabled \in BOOLEAN /\ dir \in {"RX", "TX"}
  /\ ring \in [buffer : [0 .. RingSize - 1 -> Bytes], head : 0 .. RingSize - 1,
               tail : 0 .. RingSize - 1, overflow : BOOLEAN]
  /\ isr \in {"out", "take", "clear"}
  /\ pc \in Places /\ value \in Bytes
  /\ left \in Nat /\ \E n \in Lengths \cup {0} : left <= n
  /\ late \in BOOLEAN

\* After drv_rs485_uart_init and the global interrupt enable.
Init ==
  /\ uart = [sbuf |-> 0, ri |-> FALSE, ti |-> FALSE, line |-> "idle"]
  /\ enabled = TRUE /\ dir = "RX"
  /\ ring = [buffer |-> [i \in 0 .. RingSize - 1 |-> 0], head |-> 0, tail |-> 0,
             overflow |-> FALSE]
  /\ isr = "out" /\ pc = "loop" /\ value = 0 /\ left = 0 /\ late = FALSE

-----------------------------------------------------------------------------
(* The UART. *)

\* A byte of another node; it is lost in the UART when the last one is unread.
Receive(b) ==
  /\ dir = "RX"
  /\ uart' = IF uart.ri THEN uart ELSE [uart EXCEPT !.sbuf = b, !.ri = TRUE]
  /\ UNCHANGED <<enabled, dir, ring, isr, pc, value, left, late>>

StopBitStarts ==
  /\ uart.line = "bits"
  /\ uart' = [uart EXCEPT !.line = "stop", !.ti = TRUE]
  /\ UNCHANGED <<enabled, dir, ring, isr, pc, value, left, late>>

StopBitEnds ==
  /\ uart.line = "stop"
  /\ uart' = [uart EXCEPT !.line = "idle"]
  /\ UNCHANGED <<enabled, dir, ring, isr, pc, value, left, late>>

-----------------------------------------------------------------------------
(* The interrupt. *)

NextIndex(i) == (i + 1) % RingSize

\* Seeded bug: the slot that tells full from empty is used.
StoredUnchecked(b) ==
  [ring EXCEPT !.buffer[ring.head] = b, !.head = NextIndex(ring.head)]

Stored(b) ==
  IF NextIndex(ring.head) = ring.tail
  THEN [ring EXCEPT !.overflow = TRUE]
  ELSE [ring EXCEPT !.buffer[ring.head] = b, !.head = NextIndex(ring.head)]

IsrEnter ==
  /\ isr = "out" /\ enabled
  /\ uart.ri \/ uart.ti
  /\ isr' = "take"
  /\ UNCHANGED <<uart, enabled, dir, ring, pc, value, left, late>>

\* stc8h_uart_try_getc and what the interrupt does with its byte.
IsrTake ==
  /\ isr = "take"
  /\ isr' = "clear"
  /\ IF uart.ri THEN ring' = Stored(uart.sbuf) /\ uart' = [uart EXCEPT !.ri = FALSE]
                ELSE UNCHANGED <<ring, uart>>
  /\ UNCHANGED <<enabled, dir, pc, value, left, late>>

\* Seeded bug: the interrupt returns without stc8h_uart_clear_tx_flag.
IsrClearOmitted ==
  /\ isr = "clear"
  /\ isr' = "out"
  /\ UNCHANGED <<uart, enabled, dir, ring, pc, value, left, late>>

IsrClear ==
  /\ isr = "clear"
  /\ isr' = "out"
  /\ uart' = [uart EXCEPT !.ti = FALSE]
  /\ UNCHANGED <<enabled, dir, ring, pc, value, left, late>>

-----------------------------------------------------------------------------
(* The main loop; it runs only while the interrupt does not. *)

At(place, next) == isr = "out" /\ pc = place /\ pc' = next

\* app_try_pop: the byte is read, then the tail moves.
Pop ==
  /\ ring.head # ring.tail
  /\ At("loop", "remove")
  /\ value' = ring.buffer[ring.tail]
  /\ UNCHANGED <<uart, enabled, dir, ring, isr, left, late>>

PopNothing ==
  /\ ring.head = ring.tail
  /\ At("loop", "flag")
  /\ UNCHANGED <<uart, enabled, dir, ring, isr, value, left, late>>

Remove ==
  /\ At("remove", "write")
  /\ ring' = [ring EXCEPT !.tail = NextIndex(@)]
  /\ UNCHANGED <<uart, enabled, dir, isr, value, left, late>>

\* Seeded bug: the write polls S2TI with the interrupt enabled.
WriteUnmasked(len) ==
  /\ At("write", "drive")
  /\ left' = len
  /\ UNCHANGED <<uart, enabled, dir, ring, isr, value, late>>

\* drv_rs485_uart_write masks the interrupt first.
Write(len) ==
  /\ At("write", "drive")
  /\ left' = len
  /\ enabled' = FALSE
  /\ UNCHANGED <<uart, dir, ring, isr, value, late>>

Drive ==
  /\ At("drive", "load")
  /\ dir' = "TX"
  /\ UNCHANGED <<uart, enabled, ring, isr, value, left, late>>

\* stc8h_uart_putc_bounded: S2TI is cleared and the byte goes to S2BUF; ...
LoadByte ==
  /\ At("load", "poll")
  /\ uart' = [uart EXCEPT !.ti = FALSE, !.line = "bits"]
  /\ UNCHANGED <<enabled, dir, ring, isr, value, left, late>>

\* ... the flag comes within the limit ...
ByteSent ==
  /\ uart.ti
  /\ At("poll", IF left = 1 THEN "delay" ELSE "load")
  /\ uart' = [uart EXCEPT !.ti = FALSE]
  /\ left' = left - 1
  /\ UNCHANGED <<enabled, dir, ring, isr, value, late>>

\* Seeded bug: the write leaves after a failed byte with the interrupt still masked.
GiveUpMasked ==
  /\ ~uart.ti
  /\ late' = (late \/ uart.line = "bits")
  /\ At("poll", "flag")
  /\ left' = 0
  /\ dir' = "RX"
  /\ UNCHANGED <<uart, enabled, ring, isr, value>>

\* ... or the limit runs out; it is late for one that is shorter than a byte.
GiveUp ==
  /\ ~uart.ti
  /\ late' = (late \/ uart.line = "bits")
  /\ At("poll", "release")
  /\ left' = 0
  /\ UNCHANGED <<uart, enabled, dir, ring, isr, value>>

\* Seeded bug: no delay after the last byte.
DelayOmitted ==
  /\ At("delay", "release")
  /\ UNCHANGED <<uart, enabled, dir, ring, isr, value, left, late>>

\* TX_COMPLETE_DELAY_US covers a stop bit.
Delay ==
  /\ uart.line # "stop"
  /\ At("delay", "release")
  /\ UNCHANGED <<uart, enabled, dir, ring, isr, value, left, late>>

Release ==
  /\ At("release", "clear")
  /\ dir' = "RX"
  /\ UNCHANGED <<uart, enabled, ring, isr, value, left, late>>

ClearTxFlag ==
  /\ At("clear", "unmask")
  /\ uart' = [uart EXCEPT !.ti = FALSE]
  /\ UNCHANGED <<enabled, dir, ring, isr, value, left, late>>

Unmask ==
  /\ At("unmask", "flag")
  /\ enabled' = TRUE
  /\ UNCHANGED <<uart, dir, ring, isr, value, left, late>>

TestOverflow ==
  /\ At("flag", IF ring.overflow THEN "unflag" ELSE "loop")
  /\ UNCHANGED <<uart, enabled, dir, ring, isr, value, left, late>>

ClearOverflow ==
  /\ At("unflag", "loop")
  /\ ring' = [ring EXCEPT !.overflow = FALSE]
  /\ UNCHANGED <<uart, enabled, dir, isr, value, left, late>>

Main ==
  \/ Pop \/ PopNothing \/ Remove
  \/ \E len \in Lengths : Write(len)
  \/ Drive \/ LoadByte \/ ByteSent \/ GiveUp \/ Delay
  \/ Release \/ ClearTxFlag \/ Unmask \/ TestOverflow \/ ClearOverflow

Interrupt == IsrEnter \/ IsrTake \/ IsrClear

Next ==
  \/ \E b \in Bytes : Receive(b)
  \/ StopBitStarts \/ StopBitEnds
  \/ Interrupt \/ Main

Spec == Init /\ [][Next]_vars

\* The CPU executes at least one instruction of the main loop between two runs of
\* the interrupt, so the main loop is treated strongly fairly.  A stop bit ends;
\* that it ever starts is not assumed.
FairSpec == Spec /\ SF_vars(Main) /\ WF_vars(Interrupt) /\ WF_vars(StopBitEnds)

-----------------------------------------------------------------------------
(* Properties. *)

Contents ==
  [i \in 1 .. (ring.head + RingSize - ring.tail) % RingSize |->
     ring.buffer[(ring.tail + i - 1) % RingSize]]

Queue == INSTANCE ByteQueue WITH
  Capacity <- RingSize - 1, queue <- Contents, seen <- value, overflow <- ring.overflow

\* Whatever the interrupt does between two steps of the main loop, the buffer is
\* a FIFO: no byte is skipped, repeated or overwritten, and one is refused only
\* when RingSize - 1 are stored (main.c:21-27 against main.c:40-44).
RingIsQueue == Queue!Spec

\* The driver keeps hold of the bus until the last stop bit has left, and lets the
\* others talk only then (drv_rs485_uart.c:62-76), unless a poll limit shorter than a
\* byte has run out.
BusHeldToTheEnd == ~late /\ dir = "RX" => uart.line = "idle"

\* A write fails only for a transmitter that is late: nobody else takes the flag the
\* write waits for (drv_rs485_uart.c:57, 64).
WriteSucceeds == ~late /\ pc = "poll" => uart.ti \/ uart.line = "bits"

\* After every write, failed ones included, the node hears again: the receive
\* interrupt is enabled (drv_rs485_uart.c:70, 79).
NodeHearsAgain == ~enabled ~> enabled

\* A transmit flag that comes late, after its write has given up, does not request
\* the interrupt for ever (main.c:28).
LateFlagIsCleared == uart.ti ~> ~uart.ti

\* Every byte the interrupt has stored leaves the buffer.
StoredBytesLeave == []<>(ring.head = ring.tail \/ pc = "remove")

\* The node stays alive in both directions.
NodeStaysAlive == NodeHearsAgain /\ StoredBytesLeave
=============================================================================
