----------------------------- MODULE CounterRead -----------------------------
(***************************************************************************)
(* Reading a running 16-bit counter through its two byte registers: high,   *)
(* low, high again, until both reads of the high byte agree                 *)
(* (stc8h_timer0_read in hal/stc8h_timer.c, stc8h_qei_pwmb_read in          *)
(* hal/stc8h_qei.c).  The counter moves between any two accesses: Timer0    *)
(* only up, the quadrature counter PWMB up and down.  An interrupt that     *)
(* falls between two accesses makes the gap longer; Slack bounds what the   *)
(* counter does meanwhile.                                                  *)
(***************************************************************************)
EXTENDS CounterSizes

VARIABLES
  counter, \* the counter: [high, low]
  pc,      \* the access the reader makes next; "idle": no read is under way
  before,  \* high1, high_before
  low,     \* low
  result,  \* what the last read returned
  changes, \* changes of the high byte since the reader read it
  values   \* history: the values of the counter since the read was called

readVars == <<counter, pc, before, low, result, changes, values>>

Values == [high : 0 .. HighSize - 1, low : 0 .. LowSize - 1]
Zero == [high |-> 0, low |-> 0]

ReadTypeOK ==
  /\ counter \in Values /\ result \in Values
  /\ pc \in {"idle", "low", "again", "retry"}
  /\ before \in 0 .. HighSize - 1 /\ low \in 0 .. LowSize - 1
  /\ changes \in 0 .. Slack
  /\ values \subseteq Values

ReadInit ==
  /\ counter = Zero /\ result = Zero /\ values = {Zero}
  /\ pc = "idle" /\ before = 0 /\ low = 0 /\ changes = 0

-----------------------------------------------------------------------------
(* The counter. *)

Up(c) ==
  IF c.low < LowSize - 1 THEN [high |-> c.high, low |-> c.low + 1]
  ELSE [high |-> IF c.high < HighSize - 1 THEN c.high + 1 ELSE 0, low |-> 0]

Down(c) ==
  IF c.low > 0 THEN [high |-> c.high, low |-> c.low - 1]
  ELSE [high |-> IF c.high > 0 THEN c.high - 1 ELSE HighSize - 1, low |-> LowSize - 1]

Reading == pc \in {"low", "again"}

(* The counter takes the value c. *)
Becomes(c) ==
  /\ changes' = IF Reading /\ c.high # counter.high THEN changes + 1 ELSE changes
  /\ changes' <= Slack
  /\ counter' = c
  /\ values' = IF pc = "idle" THEN values ELSE values \cup {c}
  /\ UNCHANGED <<pc, before, low, result>>

CountUp == "up" \in Moves /\ Becomes(Up(counter))
CountDown == "down" \in Moves /\ Becomes(Down(counter))

-----------------------------------------------------------------------------
(* The reader. *)

ReadHigh ==
  /\ pc \in {"idle", "retry"}
  /\ pc' = "low" /\ before' = counter.high /\ changes' = 0
  /\ values' = IF pc = "idle" THEN {counter} ELSE values
  /\ UNCHANGED <<counter, low, result>>

ReadLow ==
  /\ pc = "low"
  /\ pc' = "again" /\ low' = counter.low
  /\ UNCHANGED <<counter, before, result, changes, values>>

AgreeUnchecked == TRUE
Agree == counter.high = before

ReadAgain ==
  /\ pc = "again"
  /\ IF Agree THEN pc' = "idle" /\ result' = [high |-> before, low |-> low]
              ELSE pc' = "retry" /\ UNCHANGED result
  /\ UNCHANGED <<counter, before, low, changes, values>>

ReadNext == CountUp \/ CountDown \/ ReadHigh \/ ReadLow \/ ReadAgain

ReadSpec == ReadInit /\ [][ReadNext]_readVars

-----------------------------------------------------------------------------
(* What must be known of the counter for its reads to be whole: it turns one  *)
(* way only, or its high byte changes at most once within an attempt.        *)
Tame == Slack <= 1 \/ Moves \subseteq {"up"} \/ Moves \subseteq {"down"}

(* A read returns a value the counter really had while the read was under    *)
(* way, never one put together from two values (docs/26, section 5: the      *)
(* second read of the high byte is there to avoid a torn value).             *)
NotTorn == pc = "idle" => result \in values
=============================================================================
