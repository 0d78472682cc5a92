------------------------------- MODULE IrSizes -------------------------------
(* The parameters of the receiver that sleeps.                               *)
EXTENDS Naturals

CONSTANTS
  Timeout,  \* IR_RX_ACTIVE_TIMEOUT_TICKS
  Chunks,   \* IR_RX_ACTIVE_TIMEOUT_CHUNKS
  Wrap,     \* the timer counts modulo Wrap
  Gap       \* silence between two transmissions of the remote control, at least

\* The lead of a frame is shorter than the time limit, which in turn runs out before the
\* timer wraps and before the next transmission, however late the main loop looks.
ASSUME SleepAssumption ==
  /\ {Timeout, Chunks, Wrap, Gap} \subseteq Nat
  /\ Timeout >= 13 /\ Timeout + 3 < Wrap /\ Timeout + 3 < Gap
  /\ Chunks >= 2
=============================================================================
