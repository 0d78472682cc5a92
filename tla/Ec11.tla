-------------------------------- MODULE Ec11 --------------------------------
(***************************************************************************)
(* The rotary encoder decoders of drivers/drv_ec11.c on one shaft: the full    *)
(* API (drv_ec11_scan, acceleration, delta fetched by the application) and the *)
(* small one (drv_ec11_scan_delta_small, and its twin for interrupt handlers). *)
(* Positions of the shaft are quarter steps; contact bounce is a shaft that    *)
(* goes to and fro.                                                          *)
(***************************************************************************)
EXTENDS Integers

CONSTANTS
  Shaft,      \* positions the shaft may reach
  MaxJump,    \* quarter steps the shaft turns between two scans, at most
  Steps,      \* steps_per_detent, and DRV_EC11_SMALL_STEPS_PER_DETENT
  Reverse,    \* reverse, and DRV_EC11_SMALL_REVERSE
  FastStep, Threshold,  \* fast_step, fast_threshold_ms
  Elapsed,    \* milliseconds from scan to scan
  TimeMax,    \* 0xFFFF
  Sums        \* bound of delta, fetched before it runs out, and of the histories' sums

ASSUME ShaftAssumption == Shaft \subseteq Int /\ MaxJump \in 1 .. 2
ASSUME StepsAssumption == Steps \in 1 .. 4 /\ Reverse \in {0, 1}
ASSUME FastAssumption ==
  /\ FastStep \in Nat \ {0} /\ TimeMax \in Nat /\ Threshold \in 0 .. TimeMax - 1
  /\ Elapsed \subseteq 0 .. TimeMax /\ Sums \subseteq Int

VARIABLES
  pos,    \* position of the shaft
  seen,   \* history: its position at the last scan
  first,  \* history: its position at the first scan
  full,   \* drv_ec11_t
  small,  \* drv_ec11_small_t
  origin, \* history: the position the full decoder started to count from
  total,  \* history: what the application has fetched from the full decoder
  base,   \* history: the position at the last detent the small decoder saw
  count   \* history: sum of what the small decoder returned

decoders == <<full, small>>
histories == <<seen, first, origin, total, base, count>>
vars == <<pos, decoders, histories>>

Unknown == 255

\* Contact levels (A, B) as a number, by position.
Levels(p) ==
  IF p % 4 = 0 THEN 0 ELSE IF p % 4 = 1 THEN 2 ELSE IF p % 4 = 2 THEN 3 ELSE 1

\* Seeded bug: the sign of one entry is wrong.
TransitionTypo(previous, current) ==
  IF <<previous, current>> \in {<<0, 2>>, <<2, 3>>, <<1, 0>>} THEN 1
  ELSE IF <<previous, current>> \in {<<3, 1>>, <<2, 0>>, <<3, 2>>, <<1, 3>>, <<0, 1>>}
  THEN -1 ELSE 0

\* drv_ec11_transition
Transition(previous, current) ==
  IF <<previous, current>> \in {<<0, 2>>, <<2, 3>>, <<3, 1>>, <<1, 0>>} THEN 1
  ELSE IF <<previous, current>> \in {<<2, 0>>, <<3, 2>>, <<1, 3>>, <<0, 1>>} THEN -1
  ELSE 0

Signed(n) == IF Reverse = 0 THEN n ELSE 0 - n

TypeOK ==
  /\ {pos, seen, first} \subseteq Int
  /\ full \in [last_state : 0 .. 3, has_last_detent : BOOLEAN, step_accum : -3 .. 3,
               detent_elapsed_ms : 0 .. TimeMax, delta : Int]
  /\ small \in [last_state : 0 .. 3, detent_state : (0 .. 3) \cup {Unknown},
                step_accum : Int]
  /\ {origin, total, base, count} \subseteq Int

\* drv_ec11_init and drv_ec11_small_init, wherever the shaft stands
Init ==
  /\ pos \in Shaft /\ seen = pos /\ first = pos /\ origin = pos
  /\ full = [last_state |-> 0, has_last_detent |-> FALSE, step_accum |-> 0,
             detent_elapsed_ms |-> TimeMax, delta |-> 0]
  /\ small = [last_state |-> 0, detent_state |-> Unknown, step_accum |-> 0]
  /\ total = 0 /\ base = pos /\ count = 0

-----------------------------------------------------------------------------
\* drv_ec11_add_ms
AddMs(value, elapsed) ==
  IF value + elapsed > TimeMax THEN TimeMax ELSE value + elapsed

StepValue(elapsed) ==
  IF full.has_last_detent /\ elapsed <= Threshold THEN FastStep ELSE 1

Turn ==
  /\ pos' \in {pos - 1, pos + 1} \intersect Shaft
  /\ pos' - seen \in -MaxJump .. MaxJump
  /\ UNCHANGED <<decoders, histories>>

Detent(accum) == IF accum >= Steps THEN 1 ELSE IF accum <= -Steps THEN -1 ELSE 0

FullElapsed(ms) == AddMs(full.detent_elapsed_ms, ms)
FullAccum == full.step_accum + Transition(full.last_state, Levels(pos))
FullDetent == Detent(FullAccum)

\* drv_ec11_scan
FullScan(ms) ==
  /\ full' = [last_state |-> Levels(pos),
              has_last_detent |-> full.has_last_detent \/ FullDetent # 0,
              step_accum |-> IF FullDetent = 0 THEN FullAccum ELSE 0,
              detent_elapsed_ms |-> IF FullDetent = 0 THEN FullElapsed(ms) ELSE 0,
              delta |-> full.delta + Signed(FullDetent * StepValue(FullElapsed(ms)))]
  /\ full'.delta \in Sums

Required == IF Steps > 2 THEN 2 ELSE Steps

SmallAccum == small.step_accum + Transition(small.last_state, Levels(pos))

AtDetent == Levels(pos) = small.detent_state

\* Seeded bug: the contacts need not stand at the detent.
SmallReturnsAny ==
  IF small.detent_state = Unknown THEN 0
  ELSE IF SmallAccum >= Required THEN Signed(1)
  ELSE IF SmallAccum <= -Required THEN Signed(-1)
  ELSE 0

\* What drv_ec11_scan_delta_small returns.
SmallReturns ==
  IF small.detent_state = Unknown \/ ~AtDetent THEN 0
  ELSE IF SmallAccum >= Required THEN Signed(1)
  ELSE IF SmallAccum <= -Required THEN Signed(-1)
  ELSE 0

\* drv_ec11_scan_delta_small
SmallScan ==
  small' = IF small.detent_state = Unknown
           THEN [last_state |-> Levels(pos), detent_state |-> Levels(pos), step_accum |-> 0]
           ELSE [small EXCEPT !.last_state = Levels(pos),
                              !.step_accum = IF AtDetent THEN 0 ELSE SmallAccum]

Scanned == small.detent_state # Unknown

\* The main loop scans both decoders.
Scan(ms) ==
  /\ FullScan(ms) /\ SmallScan
  /\ count' = count + SmallReturns /\ count' \in Sums
  /\ seen' = pos
  \* The full decoder takes the shaft for standing at level 0 before the first scan.
  /\ first' = IF Scanned THEN first ELSE pos
  /\ origin' = IF Scanned THEN origin ELSE pos - Transition(0, Levels(pos))
  /\ base' = IF ~Scanned \/ AtDetent THEN pos ELSE base
  /\ UNCHANGED <<pos, total>>

\* drv_ec11_get_delta
GetDelta ==
  /\ full.delta # 0
  /\ total' = total + full.delta /\ total' \in Sums
  /\ full' = [full EXCEPT !.delta = 0]
  /\ UNCHANGED <<pos, small, seen, first, origin, base, count>>

Next == Turn \/ (\E ms \in Elapsed : Scan(ms)) \/ GetDelta

Spec == Init /\ [][Next]_vars
-----------------------------------------------------------------------------
(* Properties. *)

Within(n, bound) == -bound < n /\ n < bound

\* The full decoder, scanned often enough and without acceleration, reports how far
\* the shaft has turned to within a detent, however it turned and bounced and
\* whenever the application fetched (drv_ec11.c:102-157).
FullAccounts ==
  Scanned => Within(seen - origin - Steps * Signed(total + full.delta), Steps)

\* So does the small one, whose detent is a whole cycle of the contacts
\* (drv_ec11.c:180-221).
SmallAccounts == Scanned => Within(seen - first - 4 * Signed(count), 4)

=============================================================================
