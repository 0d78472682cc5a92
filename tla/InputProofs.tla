----------------------------- MODULE InputProofs -----------------------------
(***************************************************************************)
(* What the inputs promise, for every shaft, every counter, every button     *)
(* timing and every noise: Ec11, CounterRead, Button and IrPulse, which share *)
(* no state.                                                              *)
(***************************************************************************)
EXTENDS Ec11, CounterRead, Button, IrPulse, IrSleep, TLAPS

-----------------------------------------------------------------------------
(* The contacts: one quarter step is one transition. *)

\* The contacts show one of four levels (the index of the table, drv_ec11.c:5-13).
LEMMA LevelsType == \A p \in Int : Levels(p) \in 0 .. 3
  BY DEF Levels

\* The table yields a step, forward or backward, or none.
LEMMA TransitionType ==
  \A a, b : Transition(a, b) \in -1 .. 1
  BY DEF Transition

LEMMA Remainders ==
  ASSUME NEW p \in Int
  PROVE  /\ p % 4 \in 0 .. 3
         /\ (p + 1) % 4 = IF p % 4 = 3 THEN 0 ELSE (p % 4) + 1
  BY SMT

\* A scan that misses no quarter step adds the way the shaft has turned.
LEMMA TransitionCounts ==
  ASSUME NEW p \in Int, NEW q \in Int, q - p \in -1 .. 1
  PROVE  Transition(Levels(p), Levels(q)) = q - p
<1>1. CASE q = p
  BY <1>1 DEF Transition, Levels
<1>2. CASE q = p + 1
  BY <1>2, Remainders DEF Transition, Levels
<1>3. CASE p = q + 1
  BY <1>3, Remainders DEF Transition, Levels
<1>4. QED  BY <1>1, <1>2, <1>3

\* The contacts stand at the level of the detent only whole cycles away from it.
LEMMA LevelsRepeat ==
  ASSUME NEW p \in Int, NEW q \in Int, Levels(p) = Levels(q), q - p \in -4 .. 4
  PROVE  q - p \in {-4, 0, 4}
<1>1. p % 4 = q % 4
  BY Remainders DEF Levels
<1>2. QED  BY <1>1, SMT

-----------------------------------------------------------------------------
(* The type invariant, which needs that less than a detent is accumulated. *)

TypeInv == TypeOK /\ Within(full.step_accum, Steps)

LEMMA SignedType ==
  ASSUME NEW n \in Int
  PROVE  Signed(n) \in Int /\ Signed(0) = 0
  BY SMT DEF Signed

LEMMA SmallReturnsType == SmallReturns \in -1 .. 1
  BY SMT DEF SmallReturns, Signed

LEMMA FullScanType ==
  ASSUME TypeInv, NEW ms \in Elapsed, FullScan(ms)
  PROVE  /\ full' \in [last_state : 0 .. 3, has_last_detent : BOOLEAN,
                       step_accum : -3 .. 3, detent_elapsed_ms : 0 .. TimeMax, delta : Int]
         /\ Within(full'.step_accum, Steps)
<1> USE StepsAssumption, FastAssumption, ShaftAssumption
<1>1. FullElapsed(ms) \in 0 .. TimeMax
  BY DEF TypeInv, TypeOK, FullElapsed, AddMs
<1>2. FullAccum \in Int /\ Levels(pos) \in 0 .. 3
  BY TransitionType, LevelsType DEF TypeInv, TypeOK, FullAccum
<1>3. FullDetent = 0 => Within(FullAccum, Steps)
  BY <1>2 DEF FullDetent, Detent, Within
<1>4. full'.delta \in Int
  BY DEF FullScan
<1>5. (full.has_last_detent \/ FullDetent # 0) \in BOOLEAN
  BY Zenon
<1>6. Within(IF FullDetent = 0 THEN FullAccum ELSE 0, Steps)
  BY <1>2, <1>3 DEF Within
<1>7. (IF FullDetent = 0 THEN FullAccum ELSE 0) \in -3 .. 3
  BY <1>2, <1>6 DEF Within
<1>8. /\ full'.last_state = Levels(pos)
      /\ full'.has_last_detent = (full.has_last_detent \/ FullDetent # 0)
      /\ full'.step_accum = IF FullDetent = 0 THEN FullAccum ELSE 0
      /\ full'.detent_elapsed_ms = IF FullDetent = 0 THEN FullElapsed(ms) ELSE 0
      /\ full' = [last_state |-> full'.last_state, has_last_detent |-> full'.has_last_detent,
                  step_accum |-> full'.step_accum,
                  detent_elapsed_ms |-> full'.detent_elapsed_ms, delta |-> full'.delta]
  BY Zenon DEF FullScan
<1>9. full'.detent_elapsed_ms \in 0 .. TimeMax
  BY <1>1, <1>8
<1>10. full'.has_last_detent \in BOOLEAN
  BY <1>5, <1>8, Zenon
<1>11. QED  BY <1>2, <1>4, <1>6, <1>7, <1>8, <1>9, <1>10

LEMMA SmallScanType ==
  ASSUME TypeOK, SmallScan
  PROVE  small' \in [last_state : 0 .. 3, detent_state : (0 .. 3) \cup {Unknown},
                     step_accum : Int]
<1>1. Levels(pos) \in 0 .. 3 /\ SmallAccum \in Int
  BY TransitionType, LevelsType DEF TypeOK, SmallAccum
<1>2. CASE small.detent_state = Unknown
  BY <1>1, <1>2 DEF SmallScan
<1>3. CASE small.detent_state # Unknown
  <2>1. small' = [small EXCEPT !.last_state = Levels(pos),
                               !.step_accum = IF AtDetent THEN 0 ELSE SmallAccum]
    BY <1>3 DEF SmallScan
  <2>2. (IF AtDetent THEN 0 ELSE SmallAccum) \in Int
    BY <1>1
  <2>3. QED  BY <1>1, <2>1, <2>2 DEF TypeOK
<1>4. QED  BY <1>2, <1>3

LEMMA TypeInvInit == Init => TypeInv
  BY ShaftAssumption, StepsAssumption, FastAssumption
     DEF Init, TypeInv, TypeOK, Within, Unknown

LEMMA TypeInvNext == TypeInv /\ [Next]_vars => TypeInv'
<1> SUFFICES ASSUME TypeInv, [Next]_vars PROVE TypeInv'
  OBVIOUS
<1> USE ShaftAssumption, StepsAssumption, FastAssumption
<1>1. CASE Turn
  BY <1>1 DEF Turn, TypeInv, TypeOK, Within, decoders, histories
<1>2. ASSUME NEW ms \in Elapsed, Scan(ms) PROVE TypeInv'
  <2>1. FullScan(ms) /\ SmallScan
    BY <1>2 DEF Scan
  <2>2. /\ full' \in [last_state : 0 .. 3, has_last_detent : BOOLEAN,
                      step_accum : -3 .. 3, detent_elapsed_ms : 0 .. TimeMax, delta : Int]
        /\ Within(full'.step_accum, Steps)
    BY <2>1, FullScanType
  <2>3. small' \in [last_state : 0 .. 3, detent_state : (0 .. 3) \cup {Unknown},
                    step_accum : Int]
    BY <2>1, SmallScanType DEF TypeInv
  <2>4. {pos', seen', first', origin', total', base', count'} \subseteq Int
    BY <1>2, TransitionType DEF Scan, TypeInv, TypeOK
  <2>5. QED  BY <2>2, <2>3, <2>4 DEF TypeInv, TypeOK, Within
<1>3. CASE GetDelta
  BY <1>3 DEF GetDelta, TypeInv, TypeOK, Within
<1>4. CASE UNCHANGED vars
  BY <1>4 DEF vars, decoders, histories, TypeInv, TypeOK, Within
<1>5. QED  BY <1>1, <1>2, <1>3, <1>4 DEF Next

\* The state of both decoders keeps its types, and the full one accumulates less than a
\* detent (drv_ec11.c:102-157, 180-221).
THEOREM TypeCorrect == Spec => []TypeOK
<1>1. TypeInv => TypeOK
  BY DEF TypeInv
<1>2. QED  BY <1>1, TypeInvInit, TypeInvNext, PTL DEF Spec

-----------------------------------------------------------------------------
(* The decoders follow the shaft when every quarter step is scanned. *)

\* What the full decoder knows: where it has been scanned last, and how far that is
\* from the last detent it reported.
FullFollows ==
  /\ ~Scanned => full.last_state = 0 /\ full.step_accum = 0
                  /\ total + full.delta = 0
  /\ Scanned =>
       /\ full.last_state = Levels(seen)
       /\ seen - origin = Steps * Signed(total + full.delta) + full.step_accum

\* What the small decoder knows: how far it is from the last detent it saw.
SmallFollows ==
  /\ ~Scanned => count = 0
  /\ Scanned =>
       /\ small.last_state = Levels(seen)
       /\ small.detent_state = Levels(base)
       /\ small.step_accum = seen - base /\ seen - base \in -3 .. 3
       /\ base - first = 4 * Signed(count)

EveryStep == pos - seen \in -1 .. 1

LEMMA FullFollowsScan ==
  ASSUME TypeInv, FullFollows, EveryStep, FastStep = 1, NEW ms \in Elapsed, Scan(ms)
  PROVE  FullFollows'
<1> USE StepsAssumption, ShaftAssumption, FastAssumption
<1>1. /\ full'.last_state = Levels(pos)
      /\ full'.step_accum = IF FullDetent = 0 THEN FullAccum ELSE 0
      /\ full'.delta = full.delta + Signed(FullDetent * StepValue(FullElapsed(ms)))
  BY Zenon DEF Scan, FullScan
<1>2. total' = total /\ seen' = pos /\ Scanned'
  BY LevelsType DEF Scan, SmallScan, Scanned, Unknown, TypeInv, TypeOK
<1>3. StepValue(FullElapsed(ms)) = 1
  BY Zenon DEF StepValue
<1>4. /\ FullAccum \in Int /\ FullDetent \in -1 .. 1
      /\ FullAccum \in -Steps .. Steps
      /\ FullDetent = 0 \/ FullAccum = Steps * FullDetent
  BY TransitionType DEF TypeInv, TypeOK, Within, FullAccum, FullDetent, Detent
<1>5. full'.delta = full.delta + Signed(FullDetent)
  BY <1>1, <1>3, <1>4
<1>6. pos - origin' = Steps * Signed(total + full.delta) + FullAccum
  <2>1. CASE ~Scanned
    BY <2>1, TransitionType, LevelsType
       DEF Scan, FullFollows, FullAccum, Signed, TypeInv, TypeOK
  <2>2. CASE Scanned
    <3>1. Transition(full.last_state, Levels(pos)) = pos - seen
      BY <2>2, TransitionCounts DEF FullFollows, EveryStep, TypeInv, TypeOK
    <3>2. seen - origin = Steps * Signed(total + full.delta) + full.step_accum
      BY <2>2 DEF FullFollows
    <3>3. Steps * Signed(total + full.delta) \in Int
      BY SignedType DEF TypeInv, TypeOK
    <3>4. origin' = origin
      BY <2>2 DEF Scan
    <3>5. QED
      BY <3>1, <3>2, <3>3, <3>4 DEF FullAccum, TypeInv, TypeOK
  <2>3. QED  BY <2>1, <2>2
<1>7. Steps * Signed(total + full'.delta) + full'.step_accum
        = Steps * Signed(total + full.delta) + FullAccum
  <2> HIDE DEF FullAccum
  <2>1. CASE FullDetent = 0
    BY <1>1, <1>4, <1>5, <2>1 DEF Signed, TypeInv, TypeOK
  <2>2. CASE FullDetent # 0
    <3>1. FullAccum = Steps * FullDetent /\ full'.step_accum = 0
      BY <1>1, <1>4, <2>2
    <3>2. Signed(total + full'.delta) = Signed(total + full.delta) + FullDetent
      BY <1>4, <1>5 DEF Signed, TypeInv, TypeOK
    <3>3. Signed(total + full.delta) \in Int
      BY SignedType DEF TypeInv, TypeOK
    <3>4. CASE FullDetent = 1
      BY <3>1, <3>2, <3>3, <3>4
    <3>5. CASE FullDetent = -1
      BY <3>1, <3>2, <3>3, <3>5
    <3>6. QED  BY <1>4, <2>2, <3>4, <3>5
  <2>3. QED  BY <2>1, <2>2
<1>8. QED  BY <1>1, <1>2, <1>6, <1>7 DEF FullFollows

LEMMA SmallFollowsScan ==
  ASSUME TypeInv, SmallFollows, EveryStep, NEW ms \in Elapsed, Scan(ms)
  PROVE  SmallFollows'
<1> USE StepsAssumption, ShaftAssumption
<1>1. /\ SmallScan /\ seen' = pos /\ count' = count + SmallReturns
      /\ pos \in Int /\ seen \in Int /\ base \in Int /\ first \in Int /\ count \in Int
  BY DEF Scan, TypeInv, TypeOK
<1>2. CASE ~Scanned
  <2>1. small' = [last_state |-> Levels(pos), detent_state |-> Levels(pos), step_accum |-> 0]
    BY <1>1, <1>2 DEF SmallScan, Scanned
  <2>2. base' = pos /\ first' = pos
    BY <1>2 DEF Scan
  <2>3. count' = 0
    BY <1>1, <1>2 DEF SmallReturns, SmallFollows, Scanned
  <2>4. QED  BY <1>1, <2>1, <2>2, <2>3, SignedType DEF SmallFollows
<1>3. CASE Scanned
  <2>1. small' = [small EXCEPT !.last_state = Levels(pos),
                               !.step_accum = IF AtDetent THEN 0 ELSE SmallAccum]
    BY <1>1, <1>3 DEF SmallScan, Scanned
  <2>2. /\ small'.last_state = Levels(pos) /\ small'.detent_state = small.detent_state
        /\ small'.step_accum = IF AtDetent THEN 0 ELSE SmallAccum
    BY <2>1, Zenon DEF TypeInv, TypeOK
  <2>3. first' = first /\ Scanned'
    <3>1. first' = first
      BY <1>3 DEF Scan
    <3>2. QED  BY <1>3, <2>2, <3>1, Zenon DEF Scanned
  <2>4. SmallAccum = pos - base /\ pos - base \in -4 .. 4
    <3>1. /\ small.last_state = Levels(seen) /\ small.step_accum = seen - base
          /\ seen - base \in -3 .. 3
      BY <1>3 DEF SmallFollows
    <3>2. Transition(small.last_state, Levels(pos)) = pos - seen
      BY <1>1, <3>1, TransitionCounts DEF EveryStep
    <3>3. QED  BY <1>1, <3>1, <3>2 DEF SmallAccum, EveryStep
  <2>5. CASE AtDetent
    <3>1. base' = pos
      BY <2>5 DEF Scan
    <3>2. Levels(pos) = Levels(base)
      BY <1>3, <2>5 DEF SmallFollows, AtDetent
    <3>3. pos - base \in {-4, 0, 4}
      BY <1>1, <2>4, <3>2, LevelsRepeat
    <3>4. pos - base = 4 * Signed(SmallReturns)
      BY <1>1, <1>3, <2>4, <2>5, <3>3 DEF SmallReturns, Signed, Required, Scanned
    <3>5. pos - first = 4 * Signed(count + SmallReturns)
      BY <1>1, <1>3, <3>4, SmallReturnsType DEF SmallFollows, Signed
    <3>6. QED
      BY <1>1, <2>2, <2>3, <2>5, <3>1, <3>2, <3>5, <1>3 DEF SmallFollows
  <2>6. CASE ~AtDetent
    <3>1. base' = base /\ SmallReturns = 0
      BY <1>3, <2>6 DEF Scan, SmallReturns
    <3>2. pos - base \in -3 .. 3
      <4>1. pos - base \in {-4, 4} => Levels(pos) = Levels(base)
        <5>1. pos - base \in {-4, 4} => pos % 4 = base % 4
          BY <1>1, SMT
        <5>2. QED  BY <5>1 DEF Levels
      <4>2. QED  BY <1>1, <1>3, <2>4, <2>6, <4>1 DEF AtDetent, SmallFollows
    <3>3. QED  BY <1>1, <1>3, <2>2, <2>3, <2>4, <2>6, <3>1, <3>2 DEF SmallFollows
  <2>7. QED  BY <2>5, <2>6
<1>4. QED  BY <1>2, <1>3

-----------------------------------------------------------------------------
(* The inductive invariant and the theorems. *)

\* Every quarter step is scanned and the full decoder does not accelerate.
Plain == MaxJump = 1 /\ FastStep = 1

Follows == TypeInv /\ EveryStep /\ FullFollows /\ SmallFollows

LEMMA FollowsInit == Plain /\ Init => Follows
<1> SUFFICES ASSUME Init PROVE EveryStep /\ FullFollows /\ SmallFollows
  BY TypeInvInit DEF Follows
<1>1. pos \in Int /\ ~Scanned /\ full.delta = 0
  BY ShaftAssumption DEF Init, Scanned
<1>2. QED  BY <1>1 DEF Init, EveryStep, FullFollows, SmallFollows

LEMMA FollowsNext == Plain /\ Follows /\ [Next]_vars => Follows'
<1> SUFFICES ASSUME Plain, Follows, [Next]_vars PROVE Follows'
  OBVIOUS
<1>1. TypeInv'
  BY TypeInvNext DEF Follows
<1>2. CASE Turn
  <2>1. EveryStep'
    BY <1>2 DEF Turn, histories, EveryStep, Plain, Follows, TypeInv, TypeOK
  <2>2. FullFollows' /\ SmallFollows'
    BY <1>2 DEF Turn, decoders, histories, Follows, FullFollows, SmallFollows, Scanned
  <2>3. QED  BY <1>1, <2>1, <2>2 DEF Follows
<1>3. ASSUME NEW ms \in Elapsed, Scan(ms) PROVE Follows'
  <2>1. EveryStep'
    BY <1>3 DEF Scan, EveryStep, Follows, TypeInv, TypeOK
  <2>2. QED
    BY <1>1, <1>3, <2>1, FullFollowsScan, SmallFollowsScan DEF Follows, Plain
<1>4. CASE GetDelta
  <2>1. /\ total' + full'.delta = total + full.delta
        /\ full'.last_state = full.last_state /\ full'.step_accum = full.step_accum
    BY <1>4 DEF GetDelta, Follows, TypeInv, TypeOK
  <2>2. EveryStep' /\ FullFollows' /\ SmallFollows'
    BY <1>4, <2>1 DEF GetDelta, Follows, EveryStep, FullFollows, SmallFollows, Scanned
  <2>3. QED  BY <1>1, <2>2 DEF Follows
<1>5. CASE UNCHANGED vars
  BY <1>1, <1>5 DEF vars, decoders, histories, Follows, EveryStep, FullFollows,
                    SmallFollows, Scanned
<1>6. QED  BY <1>2, <1>3, <1>4, <1>5 DEF Next

LEMMA FollowsAccounts == Follows => FullAccounts /\ SmallAccounts
<1> SUFFICES ASSUME Follows, Scanned
             PROVE  /\ Within(seen - origin - Steps * Signed(total + full.delta), Steps)
                    /\ Within(seen - first - 4 * Signed(count), 4)
  BY DEF FullAccounts, SmallAccounts
<1>1. Steps * Signed(total + full.delta) \in Int /\ Signed(count) \in Int
  BY StepsAssumption, SignedType DEF Follows, TypeInv, TypeOK
<1>2. seen - origin - Steps * Signed(total + full.delta) = full.step_accum
  BY <1>1 DEF Follows, FullFollows, TypeInv, TypeOK
<1>3. seen - first - 4 * Signed(count) \in -3 .. 3
  BY <1>1 DEF Follows, SmallFollows, TypeInv, TypeOK
<1>4. QED  BY <1>2, <1>3 DEF Follows, TypeInv, Within

\* However the shaft turns and bounces, however far, and whenever the application
\* fetches: what the full decoder has reported, with what it holds ready, is the way
\* of the shaft to within a detent (drv_ec11.c:102-157).
THEOREM FullDecoderAccounts ==
  ASSUME Plain
  PROVE  Spec => []FullAccounts
<1>1. Init => Follows
  BY FollowsInit
<1>2. Follows /\ [Next]_vars => Follows'
  BY FollowsNext
<1>3. Follows => FullAccounts
  BY FollowsAccounts
<1>4. QED  BY <1>1, <1>2, <1>3, PTL DEF Spec

\* What the small decoder has returned is the way of the shaft in cycles of the
\* contacts, to within a cycle (drv_ec11.c:180-221).
THEOREM SmallDecoderAccounts ==
  ASSUME Plain
  PROVE  Spec => []SmallAccounts
<1>1. Init => Follows
  BY FollowsInit
<1>2. Follows /\ [Next]_vars => Follows'
  BY FollowsNext
<1>3. Follows => SmallAccounts
  BY FollowsAccounts
<1>4. QED  BY <1>1, <1>2, <1>3, PTL DEF Spec

-----------------------------------------------------------------------------
(* The read of a running counter returns a value the counter had, for every *)
(* width of the bytes, if the counter is Tame.  The invariant follows the   *)
(* high byte: how often it changed since the reader read it says where it   *)
(* stands, so that two equal reads mean that it did not change at all.      *)

(* The high byte against the one the reader holds. *)
HighFollows ==
  Reading =>
    /\ changes = 0 => counter.high = before
    /\ changes = 1 => counter.high # before
    /\ Moves \subseteq {"up"} =>
         before + changes = counter.high \/ before + changes = counter.high + HighSize
    /\ Moves \subseteq {"down"} =>
         before = counter.high + changes \/ before + HighSize = counter.high + changes

(* The low byte belongs to the high one as long as that has not changed. *)
LowFits == pc = "again" /\ changes = 0 => [high |-> before, low |-> low] \in values

ReadFollows == ReadTypeOK /\ HighFollows /\ LowFits /\ (pc # "idle" => counter \in values) /\ NotTorn

(* A step of the counter stays in its range, and its high byte moves by one. *)
LEMMA UpMoves ==
  ASSUME NEW c \in Values
  PROVE  /\ Up(c) \in Values
         /\ Up(c).high # c.high => Up(c).high = c.high + 1 \/ Up(c).high + HighSize = c.high + 1
BY CounterAssumption DEF Up, Values

LEMMA DownMoves ==
  ASSUME NEW c \in Values
  PROVE  /\ Down(c) \in Values
         /\ Down(c).high # c.high => Down(c).high + 1 = c.high \/ Down(c).high + 1 = c.high + HighSize
BY CounterAssumption DEF Down, Values

LEMMA InitReadFollows == ReadInit => ReadFollows
BY CounterAssumption DEF ReadInit, ReadFollows, ReadTypeOK, HighFollows, LowFits, NotTorn, Values, Zero, Reading

(* Two equal reads of the high byte: it did not change in between. *)
LEMMA EqualMeansUnchanged ==
  ASSUME Tame, ReadTypeOK, HighFollows, pc = "again", counter.high = before
  PROVE  changes = 0
<1>1. changes \in 0 .. Slack /\ counter.high \in Nat /\ before \in Nat
  BY CounterAssumption DEF ReadTypeOK, Values
<1>2. CASE Slack <= 1
  BY <1>1, <1>2, CounterAssumption DEF HighFollows, Reading
<1>3. CASE Moves \subseteq {"up"}
  BY <1>1, <1>3, CounterAssumption DEF HighFollows, Reading
<1>4. CASE Moves \subseteq {"down"}
  BY <1>1, <1>4, CounterAssumption DEF HighFollows, Reading
<1> QED BY <1>2, <1>3, <1>4 DEF Tame

(* The counter takes a neighbouring value. *)
LEMMA MoveReadFollows ==
  ASSUME ReadFollows, CountUp \/ CountDown
  PROVE  ReadFollows'
<1>1. PICK c \in Values :
        /\ Becomes(c)
        /\ c.high # counter.high =>
             \/ "up" \in Moves /\ (c.high = counter.high + 1 \/ c.high + HighSize = counter.high + 1)
             \/ "down" \in Moves /\ (c.high + 1 = counter.high \/ c.high + 1 = counter.high + HighSize)
  <2>1. counter \in Values
    BY DEF ReadFollows, ReadTypeOK
  <2>2. CASE CountUp
    BY <2>1, <2>2, UpMoves DEF CountUp
  <2>3. CASE CountDown
    BY <2>1, <2>3, DownMoves DEF CountDown
  <2> QED BY <2>2, <2>3
<1>2. /\ counter.high \in 0 .. HighSize - 1 /\ c.high \in 0 .. HighSize - 1
      /\ before \in 0 .. HighSize - 1 /\ changes \in 0 .. Slack
      /\ HighSize \in Nat /\ Slack \in Nat
  BY CounterAssumption DEF ReadFollows, ReadTypeOK, Values
<1>3. /\ counter' = c /\ changes' <= Slack
      /\ changes' = IF Reading /\ c.high # counter.high THEN changes + 1 ELSE changes
      /\ values' = IF pc = "idle" THEN values ELSE values \cup {c}
      /\ pc' = pc /\ before' = before /\ low' = low /\ result' = result
  BY <1>1 DEF Becomes
<1>4. ReadTypeOK'
  BY <1>2, <1>3 DEF ReadFollows, ReadTypeOK
<1>5. HighFollows'
  <2> SUFFICES ASSUME Reading'
               PROVE  /\ changes' = 0 => c.high = before
                      /\ changes' = 1 => c.high # before
                      /\ Moves \subseteq {"up"} =>
                           before + changes' = c.high \/ before + changes' = c.high + HighSize
                      /\ Moves \subseteq {"down"} =>
                           before = c.high + changes' \/ before + HighSize = c.high + changes'
    BY <1>3 DEF HighFollows
  <2>1. Reading
    BY <1>3 DEF Reading
  <2>2. /\ changes = 0 => counter.high = before
        /\ changes = 1 => counter.high # before
        /\ Moves \subseteq {"up"} =>
             before + changes = counter.high \/ before + changes = counter.high + HighSize
        /\ Moves \subseteq {"down"} =>
             before = counter.high + changes \/ before + HighSize = counter.high + changes
    BY <2>1 DEF ReadFollows, HighFollows
  <2>3. CASE c.high = counter.high
    BY <2>2, <2>3, <1>3
  <2>4. CASE c.high # counter.high
    <3>1. changes' = changes + 1 /\ changes + 1 <= Slack /\ Slack < HighSize
      BY <2>1, <2>4, <1>3, CounterAssumption
    <3>2. changes' = 1 => c.high # before
      BY <3>1, <2>2, <2>4, <1>2
    <3>3. Moves \subseteq {"up"} =>
            before + changes' = c.high \/ before + changes' = c.high + HighSize
      BY <3>1, <2>2, <2>4, <1>1, <1>2
    <3>4. Moves \subseteq {"down"} =>
            before = c.high + changes' \/ before + HighSize = c.high + changes'
      BY <3>1, <2>2, <2>4, <1>1, <1>2
    <3> QED BY <3>1, <3>2, <3>3, <3>4, <1>2
  <2> QED BY <2>3, <2>4
<1>6. LowFits'
  BY <1>2, <1>3 DEF ReadFollows, LowFits, Reading
<1>7. (pc # "idle" => counter \in values)' /\ NotTorn'
  BY <1>3 DEF ReadFollows, NotTorn
<1> QED BY <1>4, <1>5, <1>6, <1>7 DEF ReadFollows

LEMMA StepReadFollows == Tame /\ ReadFollows /\ [ReadNext]_readVars => ReadFollows'
<1> SUFFICES ASSUME Tame, ReadFollows, [ReadNext]_readVars PROVE ReadFollows'
  OBVIOUS
<1> USE DEF ReadFollows, ReadTypeOK, HighFollows, LowFits, NotTorn, Reading
<1>1. CASE CountUp \/ CountDown
  BY <1>1, MoveReadFollows
<1>2. CASE ReadHigh
  <2>1. counter.high \in 0 .. HighSize - 1 /\ HighSize \in Nat /\ Slack \in Nat
    BY CounterAssumption DEF Values
  <2> QED BY <1>2, <2>1 DEF ReadHigh, Values
<1>3. CASE ReadLow
  <2>1. changes = 0 => counter = [high |-> before, low |-> counter.low]
    BY <1>3 DEF ReadLow, Values
  <2> QED BY <1>3, <2>1 DEF ReadLow, Values
<1>4. CASE ReadAgain
  <2>1. CASE Agree
    <3>1. changes = 0
      BY <1>4, <2>1, EqualMeansUnchanged DEF ReadAgain, Agree
    <3> QED BY <1>4, <2>1, <3>1 DEF ReadAgain, Values
  <2>2. CASE ~Agree
    BY <1>4, <2>2 DEF ReadAgain
  <2> QED BY <2>1, <2>2
<1>5. CASE UNCHANGED readVars
  BY <1>5 DEF readVars
<1> QED BY <1>1, <1>2, <1>3, <1>4, <1>5 DEF ReadNext

LEMMA AlwaysReadFollows ==
  ASSUME Tame
  PROVE  ReadSpec => []ReadFollows
<1>1. ReadInit => ReadFollows
  BY InitReadFollows
<1>2. ReadFollows /\ [ReadNext]_readVars => ReadFollows'
  BY StepReadFollows
<1> QED BY <1>1, <1>2, PTL DEF ReadSpec

(* stc8h_timer0_read, and stc8h_qei_pwmb_read as long as the shaft turns one  *)
(* way or the high byte changes once at most: what is returned is whole.     *)
THEOREM ReadIsWhole ==
  ASSUME Tame
  PROVE  ReadSpec => []NotTorn
<1>1. ReadFollows => NotTorn
  BY DEF ReadFollows
<1> QED BY <1>1, AlwaysReadFollows, PTL

(* The type invariant, whatever the counter does.                            *)
THEOREM ReadTypeCorrect == ReadSpec => []ReadTypeOK
<1>1. ReadInit => ReadTypeOK
  BY InitReadFollows DEF ReadFollows
<1>2. ReadTypeOK /\ [ReadNext]_readVars => ReadTypeOK'
  <2> SUFFICES ASSUME ReadTypeOK, [ReadNext]_readVars PROVE ReadTypeOK'
    OBVIOUS
  <2> USE DEF ReadTypeOK
  <2>1. CASE CountUp \/ CountDown
    <3>1. PICK c \in Values : Becomes(c)
      BY <2>1, UpMoves, DownMoves DEF CountUp, CountDown
    <3> QED BY <3>1, CounterAssumption DEF Becomes
  <2>2. CASE ReadHigh
    BY <2>2, CounterAssumption DEF ReadHigh, Values
  <2>3. CASE ReadLow
    BY <2>3 DEF ReadLow, Values
  <2>4. CASE ReadAgain
    BY <2>4 DEF ReadAgain, Values
  <2>5. CASE UNCHANGED readVars
    BY <2>5 DEF readVars
  <2> QED BY <2>1, <2>2, <2>3, <2>4, <2>5 DEF ReadNext
<1> QED BY <1>1, <1>2, PTL DEF ReadSpec

-----------------------------------------------------------------------------
(* The button.  The driver stops counting when the debounce time is reached,  *)
(* and its counter stops at MaxMs, so that it does not say how long the        *)
(* contact is at rest: it says whether it is long enough.                    *)

USE DEF ButtonStates

CountsTheRest ==
  IF button.debounce_count_ms < button.debounce_ms THEN still = button.debounce_count_ms
                                                   ELSE still >= button.debounce_ms

\* An application that fetches after every scan: nothing waits after a fetch, and what it
\* was told last is the state of the button.
Fetched == polls /\ ~scanned => button.event = "NONE"

ToldAsItIs ==
  polls => CASE button.event = "NONE" ->
                  IF ~button.stable_state THEN told \in {"NONE", "SHORT", "RELEASE"}
                  ELSE told = IF button.long_reported THEN "LONG" ELSE "PRESS"
             [] button.event = "PRESS" ->
                  /\ button.stable_state /\ ~button.long_reported
                  /\ told \in {"NONE", "SHORT", "RELEASE"}
             [] button.event = "LONG" ->
                  button.stable_state /\ button.long_reported /\ told = "PRESS"
             [] button.event = "SHORT" -> ~button.stable_state /\ told = "PRESS"
             [] button.event = "RELEASE" -> ~button.stable_state /\ told \in {"PRESS", "LONG"}

ButtonInv == ButtonTypeOK /\ CountsTheRest /\ ButtonIsFollowed /\ Fetched /\ ToldAsItIs

LEMMA ButtonInitInv == ButtonInit => ButtonInv
<1> SUFFICES ASSUME ButtonInit PROVE ButtonInv
  OBVIOUS
<1>1. PICK d \in DebounceMs, l \in LongMs :
        button = [stable_state |-> FALSE, last_raw |-> FALSE, long_reported |-> FALSE,
                  event |-> "NONE", debounce_ms |-> d, debounce_count_ms |-> 0,
                  press_ms |-> 0, long_press_ms |-> l]
  BY DEF ButtonInit
<1>2. 0 \in 0 .. MaxMs /\ d \in Nat
  BY ButtonAssumption
<1>3. button \in ButtonStates
  BY <1>1, <1>2 DEF Events
<1>4. ButtonTypeOK
  BY <1>2, <1>3 DEF ButtonInit, ButtonTypeOK, Events
<1>5. ButtonIsFollowed
  <2>1. button.stable_state = FALSE /\ button.event = "NONE"
    BY <1>1
  <2> QED BY <2>1 DEF ButtonInit, ButtonIsFollowed, BouncesAreFiltered, WaitingEventIsCurrent
<1>6. CountsTheRest
  <2>1. button.debounce_count_ms = 0 /\ button.debounce_ms = d
    BY <1>1
  <2> QED BY <1>2, <2>1 DEF ButtonInit, CountsTheRest
<1>7. Fetched /\ ToldAsItIs
  BY <1>1 DEF ButtonInit, Fetched, ToldAsItIs
<1> QED BY <1>4, <1>5, <1>6, <1>7 DEF ButtonInv

\* What the counters of a scan come to.
LEMMA AddButtonMsType ==
  ASSUME NEW value \in 0 .. MaxMs, NEW elapsed \in Gaps
  PROVE  AddButtonMs(value, elapsed) \in 0 .. MaxMs /\ AddButtonMs(value, elapsed) >= value
  BY ButtonAssumption DEF AddButtonMs

\* The press is timed: its state stays, and a long press is one that is reported.
LEMMA PressTimed ==
  ASSUME ButtonTypeOK, NEW elapsed \in Gaps
  PROVE  LET b == Pressed(button, elapsed)
         IN  /\ b \in ButtonStates
             /\ b.stable_state = button.stable_state
             /\ b.debounce_ms = button.debounce_ms
             /\ b.debounce_count_ms = button.debounce_count_ms
             /\ b.stable_state => (b.press_ms >= b.long_press_ms => b.long_reported)
             /\ \/ b.event = button.event /\ b.long_reported = button.long_reported
                \/ /\ b.event = "LONG" /\ b.long_reported
                   /\ button.stable_state /\ ~button.long_reported
<1> DEFINE press == AddButtonMs(button.press_ms, elapsed)
           long == ~button.long_reported /\ press >= button.long_press_ms
<1>1. press \in 0 .. MaxMs
  BY AddButtonMsType DEF ButtonTypeOK
<1>2. CASE ~button.stable_state
  BY <1>2 DEF Pressed, ButtonTypeOK
<1>3. CASE button.stable_state
  <2>1. Pressed(button, elapsed) =
          [button EXCEPT !.press_ms = press, !.long_reported = @ \/ long,
                         !.event = IF long THEN "LONG" ELSE @]
    BY <1>3 DEF Pressed
  <2>2. CASE long
    BY <1>1, <1>3, <2>1, <2>2 DEF ButtonTypeOK, Events
  <2>3. CASE ~long
    BY <1>1, <1>3, <2>1, <2>3 DEF ButtonTypeOK, Events
  <2> QED BY <2>2, <2>3
<1> QED BY <1>2, <1>3

LEMMA ScanKeeps ==
  ASSUME ButtonInv, NEW raw \in BOOLEAN, NEW elapsed \in Gaps, ScanButton(raw, elapsed)
  PROVE  ButtonInv'
<1> DEFINE timed == Pressed(button, elapsed)
           next == Debounced(timed, raw, elapsed)
           moved == raw # button.last_raw
           rests == ~moved /\ next.debounce_count_ms >= next.debounce_ms
<1> HIDE DEF timed
<1>1. /\ timed \in ButtonStates
      /\ timed.stable_state = button.stable_state
      /\ timed.debounce_ms = button.debounce_ms
      /\ timed.debounce_count_ms = button.debounce_count_ms
      /\ timed.stable_state => (timed.press_ms >= timed.long_press_ms => timed.long_reported)
      /\ \/ timed.event = button.event /\ timed.long_reported = button.long_reported
         \/ /\ timed.event = "LONG" /\ timed.long_reported
            /\ button.stable_state /\ ~button.long_reported
  BY PressTimed DEF ButtonInv, timed
<1>2. timed.last_raw = button.last_raw
  BY DEF timed, Pressed, ButtonInv, ButtonTypeOK
<1>3. /\ next \in ButtonStates
      /\ next = [timed EXCEPT !.last_raw = raw, !.debounce_count_ms = next.debounce_count_ms]
      /\ next.debounce_count_ms =
           IF moved THEN 0
           ELSE IF button.debounce_count_ms < button.debounce_ms
                THEN AddButtonMs(button.debounce_count_ms, elapsed)
                ELSE button.debounce_count_ms
  <2> DEFINE counted == IF moved THEN 0
                      ELSE IF button.debounce_count_ms < button.debounce_ms
                           THEN AddButtonMs(button.debounce_count_ms, elapsed)
                           ELSE button.debounce_count_ms
  <2>1. button.debounce_count_ms \in 0 .. MaxMs
    BY DEF ButtonInv, ButtonTypeOK
  <2>2. counted \in 0 .. MaxMs
    BY <2>1, AddButtonMsType, ButtonAssumption
  <2>3. next = [timed EXCEPT !.last_raw = raw, !.debounce_count_ms = counted]
    BY <1>1, <1>2 DEF Debounced
  <2> HIDE DEF counted, next
  <2>4. next \in ButtonStates /\ next.debounce_count_ms = counted
    BY <1>1, <2>2, <2>3
  <2> QED BY <2>3, <2>4 DEF counted
<1> HIDE DEF next
<1>4. /\ next.debounce_ms = button.debounce_ms /\ next.stable_state = button.stable_state
      /\ next.event = timed.event /\ next.long_reported = timed.long_reported
      /\ next.press_ms = timed.press_ms /\ next.long_press_ms = timed.long_press_ms
  BY <1>1, <1>3
<1>5. button' = IF ~rests \/ raw = button.stable_state THEN next ELSE Settles(next, raw)
  <2>1. button' = IF \/ raw # button.last_raw
                     \/ next.debounce_count_ms < next.debounce_ms
                     \/ raw = button.stable_state
                  THEN next ELSE Settles(next, raw)
    BY DEF ScanButton, AfterScan, timed, next
  <2> QED BY <2>1, <1>3, ButtonAssumption
<1>6. /\ still' = IF moved THEN 0 ELSE AddButtonMs(still, elapsed)
      /\ settled' = IF ~moved /\ still' >= button.debounce_ms THEN raw ELSE settled
      /\ scanned' = TRUE /\ polls' = polls /\ told' = told /\ (polls => ~scanned)
  BY DEF ScanButton, AddButtonMs
<1>7. still' \in 0 .. MaxMs
  BY <1>6, AddButtonMsType, ButtonAssumption DEF ButtonInv, ButtonTypeOK
<1>8. IF next.debounce_count_ms < next.debounce_ms THEN still' = next.debounce_count_ms
                                                    ELSE still' >= next.debounce_ms
  BY <1>3, <1>4, <1>6, AddButtonMsType, ButtonAssumption
     DEF ButtonInv, ButtonTypeOK, CountsTheRest
<1>9. settled' = IF rests THEN raw ELSE settled
  BY <1>3, <1>4, <1>6, <1>7, <1>8, ButtonAssumption DEF ButtonInv, ButtonTypeOK
<1> HIDE DEF moved, rests
<1>10. CASE ~rests \/ raw = button.stable_state
  <2>1. button' = next
    BY <1>5, <1>10
  <2>2. ButtonTypeOK'
    BY <1>3, <1>6, <1>7, <1>9, <2>1 DEF ButtonInv, ButtonTypeOK
  <2>3. CountsTheRest'
    BY <1>8, <2>1 DEF CountsTheRest
  <2>4. BouncesAreFiltered'
    BY <1>4, <1>9, <1>10, <2>1 DEF ButtonInv, ButtonIsFollowed, BouncesAreFiltered
  <2>5. WaitingEventIsCurrent'
    BY <1>1, <1>4, <2>1 DEF ButtonInv, ButtonIsFollowed, WaitingEventIsCurrent
  <2>6. Fetched' /\ ToldAsItIs'
    BY <1>1, <1>4, <1>6, <2>1 DEF ButtonInv, Fetched, ToldAsItIs, ButtonTypeOK, Events
  <2> QED BY <2>2, <2>3, <2>4, <2>5, <2>6 DEF ButtonInv, ButtonIsFollowed
<1>11. CASE rests /\ raw /\ ~button.stable_state
  <2>1. button' = [next EXCEPT !.stable_state = TRUE, !.press_ms = 0,
                               !.long_reported = FALSE, !.event = "PRESS"]
    BY <1>5, <1>11 DEF Settles
  <2>2. /\ button' \in ButtonStates
        /\ button'.stable_state /\ ~button'.long_reported /\ button'.event = "PRESS"
        /\ button'.debounce_count_ms = next.debounce_count_ms
        /\ button'.debounce_ms = next.debounce_ms
    <3>1. 0 \in 0 .. MaxMs
      BY ButtonAssumption
    <3> QED BY <1>3, <2>1, <3>1 DEF Events
  <2>3. ButtonTypeOK' /\ CountsTheRest' /\ ButtonIsFollowed'
    BY <1>6, <1>7, <1>8, <1>9, <1>11, <2>2
       DEF ButtonInv, ButtonTypeOK, CountsTheRest, ButtonIsFollowed, BouncesAreFiltered,
           WaitingEventIsCurrent
  <2>4. Fetched' /\ ToldAsItIs'
    BY <1>6, <1>11, <2>2 DEF ButtonInv, Fetched, ToldAsItIs
  <2> QED BY <2>3, <2>4 DEF ButtonInv
<1>12. CASE rests /\ ~raw /\ button.stable_state
  <2>1. ~(~next.long_reported /\ next.press_ms >= next.long_press_ms)
    BY <1>1, <1>4, <1>12
  <2>2. button' = [next EXCEPT !.stable_state = FALSE,
                               !.event = IF next.long_reported THEN "RELEASE" ELSE "SHORT"]
    BY <1>3, <1>5, <1>12, <2>1 DEF Settles
  <2>3. /\ button' \in ButtonStates
        /\ ~button'.stable_state
        /\ button'.event = IF next.long_reported THEN "RELEASE" ELSE "SHORT"
        /\ button'.debounce_count_ms = next.debounce_count_ms
        /\ button'.debounce_ms = next.debounce_ms
    BY <1>3, <2>2 DEF Events
  <2>4. ButtonTypeOK' /\ CountsTheRest' /\ ButtonIsFollowed'
    BY <1>6, <1>7, <1>8, <1>9, <1>12, <2>3
       DEF ButtonInv, ButtonTypeOK, CountsTheRest, ButtonIsFollowed, BouncesAreFiltered,
           WaitingEventIsCurrent
  <2>5. Fetched' /\ ToldAsItIs'
    BY <1>1, <1>4, <1>6, <1>12, <2>3 DEF ButtonInv, Fetched, ToldAsItIs
  <2> QED BY <2>4, <2>5 DEF ButtonInv
<1> QED BY <1>10, <1>11, <1>12 DEF ButtonInv, ButtonTypeOK

LEMMA FetchKeeps == ASSUME ButtonInv, GetEvent PROVE ButtonInv'
<1>1. /\ button' = [button EXCEPT !.event = "NONE"]
      /\ button' \in ButtonStates
  BY DEF GetEvent, ButtonInv, ButtonTypeOK, Events
<1>2. ButtonTypeOK'
  BY <1>1 DEF GetEvent, ButtonInv, ButtonTypeOK
<1>3. ButtonIsFollowed' /\ CountsTheRest' /\ Fetched'
  BY <1>1 DEF GetEvent, ButtonInv, ButtonTypeOK, ButtonIsFollowed, BouncesAreFiltered,
              WaitingEventIsCurrent, CountsTheRest, Fetched
<1>4. ToldAsItIs'
  BY <1>1 DEF GetEvent, ButtonInv, ButtonTypeOK, Events, ToldAsItIs
<1> QED BY <1>2, <1>3, <1>4 DEF ButtonInv

LEMMA ButtonNextInv == ButtonInv /\ [ButtonNext]_buttonVars => ButtonInv'
<1> SUFFICES ASSUME ButtonInv, [ButtonNext]_buttonVars PROVE ButtonInv'
  OBVIOUS
<1>1. CASE UNCHANGED buttonVars
  BY <1>1 DEF buttonVars, ButtonInv, ButtonTypeOK, CountsTheRest, ButtonIsFollowed,
              BouncesAreFiltered, WaitingEventIsCurrent, Fetched, ToldAsItIs
<1> QED BY <1>1, ScanKeeps, FetchKeeps DEF ButtonNext

\* For every timing, however the contact bounces and however late the events are fetched:
\* the state is the position that was held, and a waiting event speaks of it
\* (drv_button_scan, drv_button_get_event).
THEOREM ButtonFollowsContact == ButtonSpec => []ButtonIsFollowed
<1>1. ButtonInv => ButtonIsFollowed
  BY DEF ButtonInv
<1> QED BY <1>1, ButtonInitInv, ButtonNextInv, PTL DEF ButtonSpec

\* For every timing: who fetches after every scan is told each press as PRESS, at most one
\* LONG, and its end (drv_button.c:41-101).
THEOREM EventsAreAStory == ButtonSpec => EventsTellOneStory
<1>1. ASSUME ButtonInv, polls, GetEvent
      PROVE  CASE button.event = "PRESS"   -> told \in {"NONE", "SHORT", "RELEASE"}
               [] button.event = "SHORT"   -> told = "PRESS"
               [] button.event = "LONG"    -> told = "PRESS"
               [] button.event = "RELEASE" -> told \in {"PRESS", "LONG"}
               [] OTHER -> TRUE
  BY <1>1 DEF ButtonInv, ButtonTypeOK, Events, ToldAsItIs
<1>2. ButtonInv /\ [ButtonNext]_buttonVars =>
        [polls /\ GetEvent =>
           CASE button.event = "PRESS"   -> told \in {"NONE", "SHORT", "RELEASE"}
             [] button.event = "SHORT"   -> told = "PRESS"
             [] button.event = "LONG"    -> told = "PRESS"
             [] button.event = "RELEASE" -> told \in {"PRESS", "LONG"}
             [] OTHER -> TRUE]_buttonVars
  BY <1>1
<1> QED BY <1>2, ButtonInitInv, ButtonNextInv, PTL DEF ButtonSpec, EventsTellOneStory

-----------------------------------------------------------------------------
(* The pulse decoder: what one pulse makes of it, state by state. *)

Decoders == [state : States, bits : Seq({0, 1}), event : IrEvents, frame : Frames]

\* A decoder of pulses is in one of these states, with as many bits.
Decodes(r) ==
  /\ r.state \in {"IDLE", "LEAD_SPACE", "BIT_MARK", "BIT_SPACE", "STOP_MARK"}
  /\ r.state \in {"IDLE", "LEAD_SPACE"} => r.bits = <<>>
  /\ r.state \in {"BIT_MARK", "BIT_SPACE"} => Len(r.bits) < FrameBits
  /\ r.state = "STOP_MARK" => Len(r.bits) = FrameBits

\* An event is set in a free slot only (drv_ir_rx.c:112-117).
Noted(r, event) == IF r.event = "NONE" THEN event ELSE r.event

Decoder(state, bits, event, frame) ==
  [state |-> state, bits |-> bits, event |-> event, frame |-> frame]

LEMMA FrameBitsType == FrameBits \in Nat /\ FrameBits >= 4
  BY BitsAssumption DEF FrameBits

LEMMA DecoderIsRecord ==
  ASSUME NEW r \in Decoders
  PROVE  r = Decoder(r.state, r.bits, r.event, r.frame)
  BY DEF Decoders, Decoder

LEMMA InState ==
  ASSUME NEW r \in Decoders, NEW state
  PROVE  [r EXCEPT !.state = state] = Decoder(state, r.bits, r.event, r.frame)
  BY DecoderIsRecord DEF Decoder

LEMMA IdleIs ==
  ASSUME NEW r \in Decoders
  PROVE  Idle(r) = Decoder("IDLE", <<>>, r.event, r.frame)
<1>1. Idle(r) = [[r EXCEPT !.state = "IDLE"] EXCEPT !.bits = <<>>]  BY DEF Idle
<1>2. [r EXCEPT !.state = "IDLE"] = Decoder("IDLE", r.bits, r.event, r.frame)  BY InState
<1>3. QED  BY <1>1, <1>2 DEF Decoder

LEMMA SetEventIs ==
  ASSUME NEW state, NEW bits, NEW event, NEW frame, NEW set
  PROVE  SetEvent(Decoder(state, bits, event, frame), set) =
           Decoder(state, bits, IF event = "NONE" THEN set ELSE event, frame)
<1>1. CASE event = "NONE"
  <2>1. SetEvent(Decoder(state, bits, event, frame), set) =
          [Decoder(state, bits, event, frame) EXCEPT !.event = set]
    BY <1>1 DEF SetEvent, Decoder
  <2>2. QED  BY <1>1, <2>1 DEF Decoder
<1>2. CASE event # "NONE"
  BY <1>2 DEF SetEvent, Decoder
<1>3. QED  BY <1>1, <1>2

LEMMA ErrorIs ==
  ASSUME NEW r \in Decoders
  PROVE  Error(r) = Decoder("IDLE", <<>>, Noted(r, "ERROR"), r.frame)
  BY IdleIs, SetEventIs DEF Error, Noted

LEMMA FinishFrameIs ==
  ASSUME NEW r \in Decoders
  PROVE  FinishFrame(r) =
           IF Valid(r.bits)
           THEN Decoder("IDLE", <<>>, Noted(r, "FRAME"),
                        IF r.event = "NONE" THEN r.bits ELSE r.frame)
           ELSE Decoder("IDLE", <<>>, Noted(r, "ERROR"), r.frame)
<1>1. Idle(r) = Decoder("IDLE", <<>>, r.event, r.frame)  BY IdleIs
<1>2. CASE ~Valid(r.bits)
  <2>1. FinishFrame(r) = SetEvent(Idle(r), "ERROR")  BY <1>2 DEF FinishFrame
  <2>2. QED  BY <1>1, <1>2, <2>1, SetEventIs DEF Noted
<1>3. CASE Valid(r.bits) /\ r.event # "NONE"
  BY <1>1, <1>3 DEF FinishFrame, Noted
<1>4. CASE Valid(r.bits) /\ r.event = "NONE"
  <2>1. FinishFrame(r) = [Idle(r) EXCEPT !.event = "FRAME", !.frame = r.bits]
    BY <1>4 DEF FinishFrame
  <2>2. [Idle(r) EXCEPT !.event = "FRAME", !.frame = r.bits] =
          [[Idle(r) EXCEPT !.event = "FRAME"] EXCEPT !.frame = r.bits]
    OBVIOUS
  <2>3. [Idle(r) EXCEPT !.event = "FRAME"] = Decoder("IDLE", <<>>, "FRAME", r.frame)
    BY <1>1 DEF Decoder
  <2>4. FinishFrame(r) = Decoder("IDLE", <<>>, "FRAME", r.bits)
    BY <2>1, <2>2, <2>3 DEF Decoder
  <2>5. QED  BY <1>4, <2>4 DEF Noted
<1>5. QED  BY <1>2, <1>3, <1>4

LEMMA FeedIdle ==
  ASSUME NEW r \in Decoders, Decodes(r), r.state = "IDLE", NEW l, NEW w
  PROVE  FeedPulse(r, l, w) =
           IF l = Mark /\ LeadMark(w) THEN Decoder("LEAD_SPACE", <<>>, r.event, r.frame)
           ELSE Decoder("IDLE", <<>>, r.event, r.frame)
<1>1. r.bits = <<>>  BY DEF Decodes
<1>2. CASE l = Mark /\ LeadMark(w)
  <2>1. FeedPulse(r, l, w) = [Idle(r) EXCEPT !.state = "LEAD_SPACE"]
    BY <1>2 DEF FeedPulse
  <2>2. QED  BY <1>2, <2>1, IdleIs DEF Decoder
<1>3. CASE ~(l = Mark /\ LeadMark(w))
  <2>1. FeedPulse(r, l, w) = r  BY <1>3 DEF FeedPulse
  <2>2. QED  BY <1>1, <1>3, <2>1, DecoderIsRecord
<1>4. QED  BY <1>2, <1>3

LEMMA FeedLead ==
  ASSUME NEW r \in Decoders, Decodes(r), r.state = "LEAD_SPACE", NEW l, NEW w \in Nat
  PROVE  FeedPulse(r, l, w) =
           IF l = Space /\ LeadSpace(w) THEN Decoder("BIT_MARK", <<>>, r.event, r.frame)
           ELSE IF l = Space /\ RepeatSpace(w)
           THEN Decoder("IDLE", <<>>, Noted(r, "REPEAT"), r.frame)
           ELSE Decoder("IDLE", <<>>, Noted(r, "ERROR"), r.frame)
<1>1. ~(LeadSpace(w) /\ RepeatSpace(w))  BY DEF LeadSpace, RepeatSpace, Between
<1>2. r.bits = <<>>  BY DEF Decodes
<1>3. CASE l = Space /\ LeadSpace(w)
  <2>1. FeedPulse(r, l, w) = [r EXCEPT !.state = "BIT_MARK"]
    BY <1>1, <1>3 DEF FeedPulse
  <2>2. QED  BY <1>2, <1>3, <2>1, InState
<1>4. CASE l = Space /\ RepeatSpace(w)
  <2>1. FeedPulse(r, l, w) = SetEvent([r EXCEPT !.state = "IDLE"], "REPEAT")
    BY <1>1, <1>4 DEF FeedPulse
  <2>2. QED  BY <1>1, <1>2, <1>4, <2>1, InState, SetEventIs DEF Noted
<1>5. CASE ~(l = Space /\ (LeadSpace(w) \/ RepeatSpace(w)))
  <2>1. FeedPulse(r, l, w) = Error(r)  BY <1>5 DEF FeedPulse
  <2>2. QED  BY <2>1, <1>5, ErrorIs
<1>6. QED  BY <1>1, <1>3, <1>4, <1>5

LEMMA FeedBitMark ==
  ASSUME NEW r \in Decoders, r.state = "BIT_MARK", NEW l, NEW w
  PROVE  FeedPulse(r, l, w) =
           IF l = Mark /\ ShortPulse(w) THEN Decoder("BIT_SPACE", r.bits, r.event, r.frame)
           ELSE Decoder("IDLE", <<>>, Noted(r, "ERROR"), r.frame)
<1>1. CASE l = Mark /\ ShortPulse(w)
  BY <1>1, DecoderIsRecord DEF FeedPulse, Decoder
<1>2. CASE ~(l = Mark /\ ShortPulse(w))
  <2>1. FeedPulse(r, l, w) = Error(r)  BY <1>2 DEF FeedPulse
  <2>2. QED  BY <2>1, <1>2, ErrorIs
<1>3. QED  BY <1>1, <1>2

LEMMA FeedStopMark ==
  ASSUME NEW r \in Decoders, r.state = "STOP_MARK", NEW l, NEW w
  PROVE  FeedPulse(r, l, w) =
           IF l = Mark /\ ShortPulse(w) THEN FinishFrame(r)
           ELSE Decoder("IDLE", <<>>, Noted(r, "ERROR"), r.frame)
<1>1. CASE l = Mark /\ ShortPulse(w)  BY <1>1 DEF FeedPulse
<1>2. CASE ~(l = Mark /\ ShortPulse(w))
  <2>1. FeedPulse(r, l, w) = Error(r)  BY <1>2 DEF FeedPulse
  <2>2. QED  BY <2>1, <1>2, ErrorIs
<1>3. QED  BY <1>1, <1>2

\* The bit that a space of this width stands for.
BitOf(width) == IF ShortPulse(width) THEN 0 ELSE 1

LEMMA FeedBitSpace ==
  ASSUME NEW r \in Decoders, Decodes(r), r.state = "BIT_SPACE",
         NEW l \in {Mark, Space}, NEW w
  PROVE  FeedPulse(r, l, w) =
           IF l = Mark THEN Decoder("BIT_MARK", <<>>, Noted(r, "ERROR"), r.frame)
           ELSE IF ShortPulse(w) \/ OneSpace(w)
           THEN Decoder(IF Len(r.bits) + 1 >= FrameBits THEN "STOP_MARK" ELSE "BIT_MARK",
                        Append(r.bits, BitOf(w)), r.event, r.frame)
           ELSE Decoder("IDLE", <<>>, Noted(r, "ERROR"), r.frame)
<1>0. FeedPulse(r, l, w) = BitSpace(r, l, w)  BY DEF FeedPulse
<1>1. CASE l = Mark
  <2>1. BitSpace(r, l, w) =
          [Error(r) EXCEPT !.state = IF Len(Error(r).bits) >= FrameBits
                                     THEN "STOP_MARK" ELSE "BIT_MARK"]
    BY <1>1 DEF BitSpace, Mark, Space
  <2>2. Error(r) = Decoder("IDLE", <<>>, Noted(r, "ERROR"), r.frame)  BY ErrorIs
  <2>3. Error(r).bits = <<>> /\ ~(Len(<<>>) >= FrameBits)
    BY <2>2, FrameBitsType DEF Decoder
  <2>4. QED  BY <1>0, <1>1, <2>1, <2>2, <2>3 DEF Decoder
<1>2. CASE l = Space /\ ~ShortPulse(w) /\ ~OneSpace(w)
  <2>1. BitSpace(r, l, w) = Error(r)  BY <1>2 DEF BitSpace
  <2>2. QED  BY <1>0, <1>2, <2>1, ErrorIs DEF Mark, Space
<1>3. CASE l = Space /\ (ShortPulse(w) \/ OneSpace(w))
  <2> DEFINE pushed == PushBit(r, BitOf(w))
  <2>1. BitSpace(r, l, w) =
          [pushed EXCEPT !.state = IF Len(pushed.bits) >= FrameBits
                                   THEN "STOP_MARK" ELSE "BIT_MARK"]
    BY <1>3 DEF BitSpace, BitOf
  <2>2. pushed = Decoder(r.state, Append(r.bits, BitOf(w)), r.event, r.frame)
    BY DecoderIsRecord DEF PushBit, Decoder
  <2>3. Len(Append(r.bits, BitOf(w))) = Len(r.bits) + 1
    BY DEF Decoders
  <2>4. QED  BY <1>0, <1>3, <2>1, <2>2, <2>3 DEF Decoder, Mark, Space
<1>4. QED  BY <1>1, <1>2, <1>3

LEMMA DecoderType ==
  ASSUME NEW state \in States, NEW bits \in Seq({0, 1}), NEW event \in IrEvents,
         NEW frame \in Frames
  PROVE  /\ Decoder(state, bits, event, frame) \in Decoders
         /\ Decoder(state, bits, event, frame).state = state
         /\ Decoder(state, bits, event, frame).bits = bits
         /\ Decoder(state, bits, event, frame).event = event
         /\ Decoder(state, bits, event, frame).frame = frame
  BY DEF Decoder, Decoders

LEMMA NotedType ==
  ASSUME NEW r \in Decoders, NEW event \in IrEvents
  PROVE  Noted(r, event) \in IrEvents
  BY DEF Noted, Decoders

\* After any pulse the decoder is in a state of its own, and an event that waits is as it was.
Continues(r, next) ==
  /\ next \in Decoders /\ Decodes(next)
  /\ r.event # "NONE" => next.event = r.event /\ next.frame = r.frame

LEMMA DecoderContinues ==
  ASSUME NEW r \in Decoders,
         NEW state \in {"IDLE", "LEAD_SPACE", "BIT_MARK", "BIT_SPACE", "STOP_MARK"},
         NEW bits \in Seq({0, 1}), NEW event \in IrEvents, NEW frame \in Frames,
         state \in {"IDLE", "LEAD_SPACE"} => bits = <<>>,
         state \in {"BIT_MARK", "BIT_SPACE"} => Len(bits) < FrameBits,
         state = "STOP_MARK" => Len(bits) = FrameBits,
         r.event # "NONE" => event = r.event /\ frame = r.frame
  PROVE  Continues(r, Decoder(state, bits, event, frame))
<1>1. state \in States  BY DEF States
<1>2. QED  BY <1>1, DecoderType DEF Continues, Decodes

LEMMA ErrorContinues ==
  ASSUME NEW r \in Decoders, NEW set \in IrEvents
  PROVE  Continues(r, Decoder("IDLE", <<>>, Noted(r, set), r.frame))
<1>1. Noted(r, set) \in IrEvents /\ r.frame \in Frames
  BY NotedType DEF Decoders
<1>2. r.event # "NONE" => Noted(r, set) = r.event  BY DEF Noted
<1>3. <<>> \in Seq({0, 1})  OBVIOUS
<1>4. QED  BY <1>1, <1>2, <1>3, DecoderContinues

LEMMA FinishContinues ==
  ASSUME NEW r \in Decoders, Len(r.bits) = FrameBits
  PROVE  Continues(r, FinishFrame(r))
<1>1. CASE ~Valid(r.bits)
  BY <1>1, FinishFrameIs, ErrorContinues DEF IrEvents
<1>2. CASE Valid(r.bits)
  <2> DEFINE frame == IF r.event = "NONE" THEN r.bits ELSE r.frame
  <2>1. FinishFrame(r) = Decoder("IDLE", <<>>, Noted(r, "FRAME"), frame)
    BY <1>2, FinishFrameIs
  <2>2. r.bits \in Frames
    BY DEF Frames, Decoders
  <2>3. frame \in Frames  BY <2>2 DEF Decoders
  <2>4. Noted(r, "FRAME") \in IrEvents  BY NotedType DEF IrEvents
  <2>5. r.event # "NONE" => Noted(r, "FRAME") = r.event /\ frame = r.frame  BY DEF Noted
  <2>6. <<>> \in Seq({0, 1})  OBVIOUS
  <2> HIDE DEF frame
  <2>7. QED  BY <2>1, <2>3, <2>4, <2>5, <2>6, DecoderContinues
<1>3. QED  BY <1>1, <1>2

LEMMA PulseContinues ==
  ASSUME NEW r \in Decoders, Decodes(r), NEW l \in {Mark, Space}, NEW w \in Nat
  PROVE  Continues(r, FeedPulse(r, l, w))
<1>0. /\ r.bits \in Seq({0, 1}) /\ r.event \in IrEvents /\ r.frame \in Frames
      /\ r.state \in {"IDLE", "LEAD_SPACE", "BIT_MARK", "BIT_SPACE", "STOP_MARK"}
  BY DEF Decodes, Decoders
<1>1. /\ {"IDLE", "LEAD_SPACE", "BIT_MARK", "BIT_SPACE", "STOP_MARK"} \subseteq States
      /\ {"ERROR", "REPEAT"} \subseteq IrEvents
      /\ <<>> \in Seq({0, 1}) /\ Len(<<>>) < FrameBits
  BY FrameBitsType DEF States, IrEvents
<1>2. Continues(r, Decoder("IDLE", <<>>, Noted(r, "ERROR"), r.frame))
  BY <1>1, ErrorContinues
<1>3. CASE r.state = "IDLE"
  BY <1>0, <1>1, <1>3, FeedIdle, DecoderContinues
<1>4. CASE r.state = "LEAD_SPACE"
  <2>1. Continues(r, Decoder("IDLE", <<>>, Noted(r, "REPEAT"), r.frame))
    BY <1>1, ErrorContinues
  <2>2. Continues(r, Decoder("BIT_MARK", <<>>, r.event, r.frame))
    BY <1>0, <1>1, DecoderContinues
  <2>3. QED  BY <1>2, <1>4, <2>1, <2>2, FeedLead
<1>5. CASE r.state = "BIT_MARK"
  <2>1. Continues(r, Decoder("BIT_SPACE", r.bits, r.event, r.frame))
    BY <1>0, <1>1, <1>5, DecoderContinues DEF Decodes
  <2>2. QED  BY <1>2, <1>5, <2>1, FeedBitMark
<1>6. CASE r.state = "BIT_SPACE"
  <2> DEFINE more == Append(r.bits, BitOf(w))
  <2>1. more \in Seq({0, 1}) /\ Len(more) = Len(r.bits) + 1 /\ Len(r.bits) \in Nat
    BY <1>0 DEF BitOf
  <2>2. Len(r.bits) < FrameBits  BY <1>6 DEF Decodes
  <2> HIDE DEF more
  <2>3. CASE l = Mark
    <3>1. /\ Noted(r, "ERROR") \in IrEvents
          /\ r.event # "NONE" => Noted(r, "ERROR") = r.event
      BY <1>1, NotedType DEF Noted
    <3>2. Continues(r, Decoder("BIT_MARK", <<>>, Noted(r, "ERROR"), r.frame))
      BY <1>0, <1>1, <3>1, DecoderContinues
    <3>3. QED  BY <1>6, <2>3, <3>2, FeedBitSpace
  <2>4. CASE l = Space /\ (ShortPulse(w) \/ OneSpace(w))
    <3>1. CASE Len(r.bits) + 1 >= FrameBits
      <4>1. Continues(r, Decoder("STOP_MARK", more, r.event, r.frame))
        BY <1>0, <1>1, <2>1, <2>2, <3>1, FrameBitsType, DecoderContinues
      <4>2. QED  BY <1>6, <2>4, <3>1, <4>1, FeedBitSpace DEF Mark, Space, more
    <3>2. CASE ~(Len(r.bits) + 1 >= FrameBits)
      <4>1. Continues(r, Decoder("BIT_MARK", more, r.event, r.frame))
        BY <1>0, <1>1, <2>1, <3>2, FrameBitsType, DecoderContinues
      <4>2. QED  BY <1>6, <2>4, <3>2, <4>1, FeedBitSpace DEF Mark, Space, more
    <3>3. QED  BY <3>1, <3>2
  <2>5. CASE l = Space /\ ~ShortPulse(w) /\ ~OneSpace(w)
    BY <1>2, <1>6, <2>5, FeedBitSpace DEF Mark, Space
  <2>6. QED  BY <2>3, <2>4, <2>5
<1>7. CASE r.state = "STOP_MARK"
  <2>1. Continues(r, FinishFrame(r))  BY <1>7, FinishContinues DEF Decodes
  <2>2. QED  BY <1>2, <1>7, <2>1, FeedStopMark
<1>8. QED  BY <1>0, <1>3, <1>4, <1>5, <1>6, <1>7

-----------------------------------------------------------------------------
(* What the reference has seen of a frame, and what the decoder has of it. *)

LEMMA TotalStepsType == TotalSteps \in Nat /\ TotalSteps = 2 * FrameBits + 3 /\ TotalSteps >= 11
  BY FrameBitsType DEF TotalSteps

LEMMA Parity ==
  ASSUME NEW n \in Nat
  PROVE  /\ (2 * n + 2) % 2 = 0 /\ (2 * n + 3) % 2 = 1
         /\ (2 * n + 3 - 2) \div 2 = n
  OBVIOUS

\* The mark of a bit, or the stop mark.
LEMMA MarkFits ==
  ASSUME NEW n \in 0 .. FrameBits, NEW l, NEW w
  PROVE  Fits(2 * n + 2, l, w) = (l = Mark /\ ShortPulse(w))
<1> DEFINE p == 2 * n + 2
<1>1. n \in Nat  BY FrameBitsType
<1>2. p \in Nat /\ p >= 2 /\ p <= TotalSteps - 1 /\ p % 2 = 0
  BY <1>1, FrameBitsType, TotalStepsType, Parity
<1> HIDE DEF p
<1>3. p \in 2 .. TotalSteps - 1 /\ p # 0 /\ p # 1 /\ p % 2 # 1  BY <1>2, TotalStepsType
<1>4. Fits(p, l, w) = (l = Mark /\ ShortPulse(w))  BY <1>2, <1>3 DEF Fits
<1>5. QED  BY <1>4 DEF p

LEMMA SpaceFits ==
  ASSUME NEW n \in 0 .. FrameBits - 1, NEW l, NEW w
  PROVE  Fits(2 * n + 3, l, w) = (l = Space /\ (ShortPulse(w) \/ OneSpace(w)))
<1> DEFINE p == 2 * n + 3
<1>1. n \in Nat  BY FrameBitsType
<1>2. p \in Nat /\ p >= 2 /\ p <= TotalSteps - 1 /\ p % 2 = 1
  BY <1>1, FrameBitsType, TotalStepsType, Parity
<1> HIDE DEF p
<1>3. p \in 2 .. TotalSteps - 1 /\ p # 0 /\ p # 1 /\ p % 2 # 0  BY <1>2, TotalStepsType
<1>4. Fits(p, l, w) = (l = Space /\ (ShortPulse(w) \/ OneSpace(w)))  BY <1>2, <1>3 DEF Fits
<1>5. QED  BY <1>4 DEF p

LEMMA LeadFits ==
  ASSUME NEW l, NEW w
  PROVE  /\ Fits(0, l, w) = (l = Mark /\ LeadMark(w))
         /\ Fits(1, l, w) = (l = Space /\ LeadSpace(w))
  BY DEF Fits

LEMMA NothingFitsAfterTheFrame ==
  ASSUME NEW l, NEW w
  PROVE  ~Fits(TotalSteps, l, w)
<1>1. TotalSteps # 0 /\ TotalSteps # 1 /\ ~(TotalSteps \in 2 .. TotalSteps - 1)
  BY TotalStepsType
<1>2. QED  BY <1>1 DEF Fits

\* The pulses that look like the beginning of a frame, and the bits in them.
LooksLikeAFrame ==
  /\ fit \in 0 .. TotalSteps
  /\ shape \in Seq({0, 1}) /\ Len(shape) <= FrameBits
  /\ fit < 3 => shape = <<>>
  /\ fit >= 2 => fit = 2 * Len(shape) + 2 \/ fit = 2 * Len(shape) + 3

LEMMA ObserveStep ==
  ASSUME LooksLikeAFrame, NEW l \in {Mark, Space}, NEW w \in Nat, Observe(l, w)
  PROVE  LooksLikeAFrame'
<1>0. /\ fit \in 0 .. TotalSteps /\ shape \in Seq({0, 1}) /\ Len(shape) <= FrameBits
      /\ Len(shape) \in Nat /\ <<>> \in Seq({0, 1}) /\ Len(<<>>) = 0
  BY DEF LooksLikeAFrame
<1>1. CASE ~Fits(fit, l, w)
  <2>1. fit' \in {0, 1}  BY <1>1 DEF Observe
  <2>2. fit' < 3  BY <2>1
  <2>3. shape' = <<>>  BY <2>2 DEF Observe
  <2>4. fit' \in 0 .. TotalSteps /\ ~(fit' >= 2)  BY <2>1, TotalStepsType
  <2>5. QED  BY <1>0, <2>2, <2>3, <2>4, FrameBitsType DEF LooksLikeAFrame
<1>2. CASE Fits(fit, l, w)
  <2>1. fit' = fit + 1  BY <1>2 DEF Observe
  <2>2. fit # TotalSteps  BY <1>2, NothingFitsAfterTheFrame
  <2>3. fit' \in 1 .. TotalSteps  BY <1>0, <2>1, <2>2, TotalStepsType
  <2>4. CASE fit < 2
    <3>1. fit' < 3 /\ shape' = <<>>  BY <1>0, <2>1, <2>4 DEF Observe
    <3>2. fit' >= 2 => fit' = 2 * 0 + 2  BY <1>0, <2>1, <2>4
    <3>3. QED  BY <1>0, <2>3, <3>1, <3>2, FrameBitsType DEF LooksLikeAFrame
  <2>5. CASE fit >= 2 /\ fit = 2 * Len(shape) + 2
    <3>1. fit' = 2 * Len(shape) + 3 /\ fit' % 2 = 1 /\ ~(fit' < 3)
      BY <1>0, <2>1, <2>5, Parity
    <3>2. shape' = shape  BY <3>1 DEF Observe
    <3>3. QED  BY <1>0, <2>3, <3>1, <3>2 DEF LooksLikeAFrame
  <2>6. CASE fit >= 2 /\ fit = 2 * Len(shape) + 3
    <3>1. fit' = 2 * (Len(shape) + 1) + 2 /\ ~(fit' < 3)
      BY <1>0, <2>1, <2>6
    <3>2. fit' % 2 = 0  BY <1>0, <3>1, Parity
    <3>3. shape' = Append(shape, BitOf(w))  BY <3>1, <3>2 DEF Observe, BitOf
    <3>4. shape' \in Seq({0, 1}) /\ Len(shape') = Len(shape) + 1
      BY <1>0, <3>3 DEF BitOf
    <3>5. Len(shape') <= FrameBits
      BY <1>0, <2>3, <3>1, <3>4, TotalStepsType, FrameBitsType
    <3>6. QED  BY <1>0, <2>3, <3>1, <3>4, <3>5 DEF LooksLikeAFrame
  <2>7. QED  BY <1>0, <2>4, <2>5, <2>6 DEF LooksLikeAFrame
<1>3. QED  BY <1>1, <1>2

Received == 2 * Len(rx.bits) + 2

\* Unless it went astray, the decoder is where the reference is, with the same bits.
InStep ==
  ~astray =>
    /\ rx.state = "LEAD_SPACE" => fit = 1
    /\ rx.state \in {"BIT_MARK", "STOP_MARK"} => fit = Received /\ shape = rx.bits
    /\ rx.state = "BIT_SPACE" => fit = Received + 1 /\ shape = rx.bits

DecoderInv ==
  /\ rx \in Decoders /\ Decodes(rx)
  /\ LooksLikeAFrame
  /\ level \in {Mark, Space} /\ astray \in BOOLEAN
  /\ InStep

LEMMA ValidIsPaired ==
  ASSUME NEW bits \in Frames, Valid(bits)
  PROVE  Paired(bits)
<1> SUFFICES ASSUME NEW i \in 1 .. ByteBits
             PROVE  /\ bits[i] + bits[ByteBits + i] = 1
                    /\ bits[2 * ByteBits + i] + bits[3 * ByteBits + i] = 1
  BY DEF Paired
<1>1. /\ i \in 1 .. FrameBits /\ ByteBits + i \in 1 .. FrameBits
      /\ 2 * ByteBits + i \in 1 .. FrameBits /\ 3 * ByteBits + i \in 1 .. FrameBits
  BY BitsAssumption DEF FrameBits
<1>2. /\ bits[i] \in {0, 1} /\ bits[ByteBits + i] \in {0, 1}
      /\ bits[2 * ByteBits + i] \in {0, 1} /\ bits[3 * ByteBits + i] \in {0, 1}
  BY <1>1 DEF Frames
<1>3. bits[i] # bits[ByteBits + i] /\ bits[2 * ByteBits + i] # bits[3 * ByteBits + i]
  BY DEF Valid
<1>4. QED  BY <1>2, <1>3

\* A pulse that fits brings the reference one pulse further.
LEMMA ObserveFits ==
  ASSUME NEW l, NEW w, Observe(l, w), Fits(fit, l, w)
  PROVE  fit' = fit + 1
  BY DEF Observe

LEMMA MarkObserved ==
  ASSUME NEW n \in 0 .. FrameBits, fit = 2 * n + 2, NEW l, NEW w, l = Mark, ShortPulse(w),
         Observe(l, w)
  PROVE  fit' = 2 * n + 3 /\ shape' = shape
<1>0. n \in Nat  BY FrameBitsType
<1>1. Fits(fit, l, w)  BY MarkFits
<1>2. fit' = fit + 1  BY <1>1, ObserveFits
<1>3. fit' = 2 * n + 3 /\ ~(fit' < 3)  BY <1>0, <1>2
<1>4. ~(fit' % 2 = 0)  BY <1>0, <1>3, Parity
<1>5. shape' = shape  BY <1>3, <1>4 DEF Observe
<1>6. QED  BY <1>3, <1>5

LEMMA SpaceObserved ==
  ASSUME NEW n \in 0 .. FrameBits - 1, fit = 2 * n + 3, NEW l, NEW w, l = Space,
         ShortPulse(w) \/ OneSpace(w), Observe(l, w)
  PROVE  fit' = 2 * (n + 1) + 2 /\ shape' = Append(shape, BitOf(w))
<1>0. n \in Nat /\ n + 1 \in Nat  BY FrameBitsType
<1>1. Fits(fit, l, w)  BY SpaceFits
<1>2. fit' = fit + 1  BY <1>1, ObserveFits
<1>3. fit' = 2 * (n + 1) + 2 /\ ~(fit' < 3)  BY <1>0, <1>2
<1>4. fit' % 2 = 0  BY <1>0, <1>3, Parity
<1>5. shape' = Append(shape, BitOf(w))  BY <1>3, <1>4 DEF Observe, BitOf
<1>6. QED  BY <1>3, <1>5

\* A frame is reported of what was received last, or astray.
FrameReported ==
  rx.event # "FRAME" /\ rx'.event = "FRAME" =>
    /\ Paired(rx'.frame)
    /\ astray \/ (fit' = TotalSteps /\ rx'.frame = shape')

\* Failing or starting over reports no frame and promises nothing about what follows.
LEMMA FailureReportsNothing ==
  ASSUME NEW set \in {"ERROR", "REPEAT"},
         rx' = Decoder("IDLE", <<>>, Noted(rx, set), rx.frame)
  PROVE  InStep' /\ FrameReported
<1>1. rx'.state = "IDLE" /\ rx'.event = Noted(rx, set)  BY DEF Decoder
<1>2. InStep'  BY <1>1 DEF InStep
<1>3. Noted(rx, set) = "FRAME" => rx.event = "FRAME"  BY DEF Noted
<1>4. QED  BY <1>1, <1>2, <1>3 DEF FrameReported

LEMMA DeliverStep ==
  ASSUME DecoderInv, NEW l \in {Mark, Space}, NEW w \in Nat, Deliver(l, w)
  PROVE  DecoderInv' /\ FrameReported
<1>0. /\ rx \in Decoders /\ Decodes(rx) /\ LooksLikeAFrame /\ InStep
      /\ rx.bits \in Seq({0, 1}) /\ Len(rx.bits) \in Nat
      /\ rx' = FeedPulse(rx, l, w) /\ Observe(l, w) /\ level' = l
      /\ rx.state \in {"IDLE", "LEAD_SPACE", "BIT_MARK", "BIT_SPACE", "STOP_MARK"}
  BY DEF DecoderInv, Deliver, Decoders, Decodes
<1>1. rx' \in Decoders /\ Decodes(rx')
  BY <1>0, PulseContinues DEF Continues
<1>2. LooksLikeAFrame'  BY <1>0, ObserveStep
<1>3. astray' \in BOOLEAN  BY DEF Deliver
<1>4. ~astray' => rx'.state = "LEAD_SPACE" \/ (~astray /\ ~(rx.state = "BIT_SPACE" /\ l = Mark))
  BY DEF Deliver
<1>5. InStep' /\ FrameReported
  <2>1. CASE rx.state = "IDLE"
    <3>1. CASE l = Mark /\ LeadMark(w)
      <4>1. rx' = Decoder("LEAD_SPACE", <<>>, rx.event, rx.frame)
        BY <1>0, <2>1, <3>1, FeedIdle
      <4>2. ~Fits(fit, l, w) \/ fit = 0
        <5>1. ~ShortPulse(w)  BY <3>1 DEF LeadMark, ShortPulse, Between
        <5>2. l # Space  BY <3>1 DEF Mark, Space
        <5>3. CASE fit < 2
          <6>1. fit = 0 \/ fit = 1  BY <1>0, <5>3, TotalStepsType DEF LooksLikeAFrame
          <6>2. ~Fits(1, l, w)  BY <5>2, LeadFits
          <6>3. QED  BY <6>1, <6>2
        <5>4. CASE fit >= 2 /\ fit = 2 * Len(shape) + 2
          <6>1. Len(shape) \in 0 .. FrameBits
            BY <1>0, FrameBitsType DEF LooksLikeAFrame
          <6>2. QED  BY <5>1, <5>4, <6>1, MarkFits
        <5>5. CASE fit >= 2 /\ fit = 2 * Len(shape) + 3
          <6>1. Len(shape) \in 0 .. FrameBits
            BY <1>0, FrameBitsType DEF LooksLikeAFrame
          <6>2. CASE Len(shape) = FrameBits
            BY <5>5, <6>2, TotalStepsType, NothingFitsAfterTheFrame
          <6>3. CASE Len(shape) # FrameBits
            <7>1. Len(shape) \in 0 .. FrameBits - 1
              BY <6>1, <6>3, FrameBitsType
            <7>2. QED  BY <5>2, <5>5, <7>1, SpaceFits
          <6>4. QED  BY <6>2, <6>3
        <5>6. QED  BY <1>0, <5>3, <5>4, <5>5 DEF LooksLikeAFrame
      <4>3. Fits(0, l, w)  BY <3>1, LeadFits
      <4>4. fit' = 1  BY <1>0, <4>2, <4>3 DEF Observe
      <4>5. rx'.state = "LEAD_SPACE" /\ rx'.event = rx.event  BY <4>1 DEF Decoder
      <4>6. QED  BY <4>4, <4>5 DEF InStep, FrameReported
    <3>2. CASE ~(l = Mark /\ LeadMark(w))
      <4>1. rx' = Decoder("IDLE", <<>>, rx.event, rx.frame)
        BY <1>0, <2>1, <3>2, FeedIdle
      <4>2. rx'.state = "IDLE" /\ rx'.event = rx.event  BY <4>1 DEF Decoder
      <4>3. QED  BY <4>2 DEF InStep, FrameReported
    <3>3. QED  BY <3>1, <3>2
  <2>2. CASE rx.state = "LEAD_SPACE"
    <3>1. CASE l = Space /\ LeadSpace(w)
      <4>1. rx' = Decoder("BIT_MARK", <<>>, rx.event, rx.frame)
        BY <1>0, <2>2, <3>1, FeedLead
      <4>2. rx'.state = "BIT_MARK" /\ rx'.bits = <<>> /\ rx'.event = rx.event
        BY <4>1 DEF Decoder
      <4>3. ASSUME ~astray'  PROVE fit' = 2 /\ shape' = <<>>
        <5>1. fit = 1  BY <1>0, <1>4, <2>2, <4>2, <4>3 DEF InStep
        <5>2. Fits(1, l, w)  BY <3>1, LeadFits
        <5>3. fit' = fit + 1  BY <1>0, <5>1, <5>2, ObserveFits
        <5>4. fit' = 2 /\ fit' < 3  BY <5>1, <5>3
        <5>5. shape' = <<>>  BY <1>0, <5>4 DEF Observe
        <5>6. QED  BY <5>4, <5>5
      <4>4. Len(rx'.bits) = 0  BY <4>2
      <4>5. InStep'  BY <4>2, <4>3, <4>4 DEF InStep, Received
      <4>6. QED  BY <4>2, <4>5 DEF FrameReported
    <3>2. CASE ~(l = Space /\ LeadSpace(w))
      <4>1. \E set \in {"ERROR", "REPEAT"} :
              rx' = Decoder("IDLE", <<>>, Noted(rx, set), rx.frame)
        BY <1>0, <2>2, <3>2, FeedLead
      <4>2. QED  BY <4>1, FailureReportsNothing
    <3>3. QED  BY <3>1, <3>2
  <2>3. CASE rx.state = "BIT_MARK"
    <3>1. CASE l = Mark /\ ShortPulse(w)
      <4>1. rx' = Decoder("BIT_SPACE", rx.bits, rx.event, rx.frame)
        BY <1>0, <2>3, <3>1, FeedBitMark
      <4>2. rx'.state = "BIT_SPACE" /\ rx'.bits = rx.bits /\ rx'.event = rx.event
        BY <4>1 DEF Decoder
      <4>3. ASSUME ~astray'  PROVE fit' = Received + 1 /\ shape' = rx.bits
        <5>1. fit = 2 * Len(rx.bits) + 2 /\ shape = rx.bits
          BY <1>0, <1>4, <2>3, <4>2, <4>3 DEF InStep, Received
        <5>2. Len(rx.bits) \in 0 .. FrameBits
          BY <1>0, <2>3, FrameBitsType DEF Decodes
        <5>3. fit' = 2 * Len(rx.bits) + 3 /\ shape' = shape
          BY <1>0, <3>1, <5>1, <5>2, MarkObserved
        <5>4. QED  BY <1>0, <5>1, <5>3 DEF Received
      <4>4. Received' = Received  BY <4>2 DEF Received
      <4>5. InStep'  BY <4>2, <4>3, <4>4 DEF InStep
      <4>6. QED  BY <4>2, <4>5 DEF FrameReported
    <3>2. CASE ~(l = Mark /\ ShortPulse(w))
      BY <1>0, <2>3, <3>2, FeedBitMark, FailureReportsNothing
    <3>3. QED  BY <3>1, <3>2
  <2>4. CASE rx.state = "BIT_SPACE"
    <3>1. CASE l = Mark
      <4>1. rx' = Decoder("BIT_MARK", <<>>, Noted(rx, "ERROR"), rx.frame)
        BY <1>0, <2>4, <3>1, FeedBitSpace
      <4>2. rx'.state = "BIT_MARK" /\ rx'.event = Noted(rx, "ERROR")  BY <4>1 DEF Decoder
      <4>3. astray'  BY <1>3, <1>4, <2>4, <3>1, <4>2
      <4>4. Noted(rx, "ERROR") = "FRAME" => rx.event = "FRAME"  BY DEF Noted
      <4>5. QED  BY <4>2, <4>3, <4>4 DEF InStep, FrameReported
    <3>2. CASE l = Space /\ (ShortPulse(w) \/ OneSpace(w))
      <4> DEFINE more == Append(rx.bits, BitOf(w))
      <4>1. PICK state \in {"STOP_MARK", "BIT_MARK"} :
              rx' = Decoder(state, more, rx.event, rx.frame)
        BY <1>0, <2>4, <3>2, FeedBitSpace DEF Mark, Space
      <4>2. rx'.state = state /\ rx'.bits = more /\ rx'.event = rx.event
        BY <4>1 DEF Decoder
      <4>3. Len(more) = Len(rx.bits) + 1  BY <1>0 DEF BitOf
      <4>4. ASSUME ~astray'
            PROVE  fit' = 2 * (Len(rx.bits) + 1) + 2 /\ shape' = more
        <5>1. fit = 2 * Len(rx.bits) + 3 /\ shape = rx.bits
          BY <1>0, <1>4, <2>4, <4>2, <4>4 DEF InStep, Received
        <5>2. Len(rx.bits) \in 0 .. FrameBits - 1
          BY <1>0, <2>4, FrameBitsType DEF Decodes
        <5>3. QED  BY <1>0, <3>2, <5>1, <5>2, SpaceObserved
      <4>5. InStep'  BY <4>2, <4>3, <4>4 DEF InStep, Received
      <4>6. QED  BY <4>2, <4>5 DEF FrameReported
    <3>3. CASE l = Space /\ ~ShortPulse(w) /\ ~OneSpace(w)
      BY <1>0, <2>4, <3>3, FeedBitSpace, FailureReportsNothing DEF Mark, Space
    <3>4. QED  BY <3>1, <3>2, <3>3
  <2>5. CASE rx.state = "STOP_MARK"
    <3>1. CASE l = Mark /\ ShortPulse(w) /\ Valid(rx.bits)
      <4> DEFINE frame == IF rx.event = "NONE" THEN rx.bits ELSE rx.frame
      <4>1. rx' = Decoder("IDLE", <<>>, Noted(rx, "FRAME"), frame)
        BY <1>0, <2>5, <3>1, FeedStopMark, FinishFrameIs
      <4>2. rx'.state = "IDLE" /\ rx'.event = Noted(rx, "FRAME") /\ rx'.frame = frame
        BY <4>1 DEF Decoder
      <4>3. Len(rx.bits) = FrameBits  BY <1>0, <2>5 DEF Decodes
      <4>4. rx.bits \in Frames  BY <1>0, <4>3 DEF Frames
      <4>5. Paired(rx.bits)  BY <3>1, <4>4, ValidIsPaired
      <4>6. ASSUME ~astray  PROVE fit' = TotalSteps /\ shape' = rx.bits
        <5>1. fit = 2 * Len(rx.bits) + 2 /\ shape = rx.bits
          BY <1>0, <2>5, <4>6 DEF InStep, Received
        <5>2. Len(rx.bits) \in 0 .. FrameBits
          BY <4>3, FrameBitsType
        <5>3. fit' = 2 * Len(rx.bits) + 3 /\ shape' = shape
          BY <1>0, <3>1, <5>1, <5>2, MarkObserved
        <5>4. QED  BY <4>3, <5>1, <5>3, TotalStepsType
      <4>7. rx.event # "FRAME" /\ Noted(rx, "FRAME") = "FRAME" => frame = rx.bits
        BY DEF Noted
      <4>8. InStep'  BY <4>2 DEF InStep
      <4>9. QED  BY <4>2, <4>5, <4>6, <4>7, <4>8 DEF FrameReported
    <3>2. CASE ~(l = Mark /\ ShortPulse(w) /\ Valid(rx.bits))
      BY <1>0, <2>5, <3>2, FeedStopMark, FinishFrameIs, FailureReportsNothing
    <3>3. QED  BY <3>1, <3>2
  <2>6. QED  BY <1>0, <2>1, <2>2, <2>3, <2>4, <2>5
<1>6. QED  BY <1>0, <1>1, <1>2, <1>3, <1>5 DEF DecoderInv

-----------------------------------------------------------------------------
(* The sender, and a decoder that has not been disturbed for a frame. *)

SenderInv ==
  /\ tx \in [kind : {"off", "frame", "repeat"}, bits : Frames, step : 0 .. TotalSteps]
  /\ tx.kind # "off" => tx.step <= SentSteps /\ Valid(tx.bits)
  /\ clean \in 0 .. 2

LEMMA FirstPulses ==
  ASSUME NEW bits
  PROVE  FramePulse(bits, 0) = <<Mark, 9000>> /\ FramePulse(bits, 1) = <<Space, 4500>>
  BY TotalStepsType DEF FramePulse

LEMMA MarkPulse ==
  ASSUME NEW bits, NEW n \in 0 .. FrameBits
  PROVE  FramePulse(bits, 2 * n + 2) = <<Mark, 562>>
<1> DEFINE p == 2 * n + 2
<1>1. n \in Nat  BY FrameBitsType
<1>2. p \in Nat /\ p > 1 /\ p # 0 /\ p # 1 /\ p % 2 = 0  BY <1>1, Parity
<1> HIDE DEF p
<1>3. FramePulse(bits, p) = <<Mark, 562>>  BY <1>2 DEF FramePulse
<1>4. QED  BY <1>3 DEF p

LEMMA SpacePulse ==
  ASSUME NEW bits, NEW n \in 0 .. FrameBits - 1
  PROVE  FramePulse(bits, 2 * n + 3) = <<Space, IF bits[n + 1] = 1 THEN 1687 ELSE 562>>
<1> DEFINE p == 2 * n + 3
<1>1. n \in Nat /\ n < FrameBits  BY FrameBitsType
<1>2. p \in Nat /\ p > 1 /\ p # 0 /\ p # 1 /\ p % 2 = 1 /\ (p - 2) \div 2 = n
  BY <1>1, Parity
<1>3. p # TotalSteps - 1  BY <1>1, TotalStepsType, FrameBitsType
<1> HIDE DEF p
<1>4. ~(p > 1 /\ (p = TotalSteps - 1 \/ p % 2 = 0))  BY <1>2, <1>3
<1>5. FramePulse(bits, p) = <<Space, IF bits[((p - 2) \div 2) + 1] = 1 THEN 1687 ELSE 562>>
  BY <1>2, <1>4 DEF FramePulse
<1>6. QED  BY <1>2, <1>5 DEF p

\* A step from the first bit on is the mark of a bit, its space or the stop mark.
LEMMA StepOfBit ==
  ASSUME NEW step \in 2 .. TotalSteps - 1
  PROVE  \E n \in 0 .. FrameBits :
           step = 2 * n + 2 \/ (n < FrameBits /\ step = 2 * n + 3)
<1> DEFINE n == (step - 2) \div 2
<1>1. step \in Nat /\ step >= 2 /\ step <= 2 * FrameBits + 2
  BY TotalStepsType, FrameBitsType
<1>2. n \in Nat /\ (step = 2 * n + 2 \/ step = 2 * n + 3)
  BY <1>1
<1> HIDE DEF n
<1>3. n \in 0 .. FrameBits /\ (step = 2 * n + 3 => n < FrameBits)
  BY <1>1, <1>2, FrameBitsType
<1>4. QED  BY <1>2, <1>3

LEMMA PulseType ==
  ASSUME SenderInv, tx.kind # "off", tx.step < SentSteps
  PROVE  Pulse[1] \in {Mark, Space} /\ Pulse[2] \in Nat
<1>1. CASE tx.kind = "frame"
  <2>1. Pulse = FramePulse(tx.bits, tx.step) /\ tx.step \in 0 .. TotalSteps - 1
    BY <1>1, TotalStepsType DEF Pulse, SentSteps, SenderInv
  <2>2. CASE tx.step \in {0, 1}  BY <2>1, <2>2, FirstPulses DEF Mark, Space
  <2>3. CASE tx.step \in 2 .. TotalSteps - 1
    <3>1. PICK n \in 0 .. FrameBits :
            tx.step = 2 * n + 2 \/ (n < FrameBits /\ tx.step = 2 * n + 3)
      BY <2>3, StepOfBit
    <3>2. CASE tx.step = 2 * n + 2  BY <2>1, <3>2, MarkPulse
    <3>3. CASE n < FrameBits /\ tx.step = 2 * n + 3
      <4>1. n \in 0 .. FrameBits - 1  BY <3>3, FrameBitsType
      <4>2. QED  BY <2>1, <3>3, <4>1, SpacePulse
    <3>4. QED  BY <3>1, <3>2, <3>3
  <2>4. QED  BY <2>1, <2>2, <2>3, TotalStepsType
<1>2. CASE tx.kind = "repeat"
  <2>1. tx.step \in 0 .. 2 /\ Pulse = RepeatPulse(tx.step)
    BY <1>2 DEF Pulse, SentSteps, RepeatSteps, SenderInv
  <2>2. QED  BY <2>1 DEF RepeatPulse, Mark, Space
<1>3. QED  BY <1>1, <1>2 DEF SenderInv

\* The decoder has heard each pulse that has been sent.
InTheBits ==
  /\ \/ rx.state \in {"BIT_MARK", "STOP_MARK"} /\ tx.step = Received
     \/ rx.state = "BIT_SPACE" /\ tx.step = Received + 1
  /\ \A i \in 1 .. Len(rx.bits) : rx.bits[i] = tx.bits[i]

Abreast ==
  /\ tx.kind = "off" => rx.state = "IDLE"
  /\ tx.kind = "repeat" => rx.state = IF tx.step = 1 THEN "LEAD_SPACE" ELSE "IDLE"
  /\ tx.kind = "frame" =>
       /\ tx.step \in {0, TotalSteps} => rx.state = "IDLE"
       /\ tx.step = 1 => rx.state = "LEAD_SPACE"
       /\ tx.step \in 2 .. TotalSteps - 1 => InTheBits

PulseInv == DecoderInv /\ SenderInv /\ (clean >= 1 => Abreast)

\* The last pulse of a frame is heard as its end.
LastPulse == tx.kind = "frame" /\ tx.step = TotalSteps - 1

LEMMA TransmitFrame ==
  ASSUME PulseInv, Transmit, tx.kind = "frame", Abreast
  PROVE  /\ Abreast'
         /\ LastPulse /\ rx.event = "NONE" => rx'.event = "FRAME" /\ rx'.frame = tx.bits
<1>0. /\ rx \in Decoders /\ Decodes(rx) /\ rx.bits \in Seq({0, 1}) /\ Len(rx.bits) \in Nat
      /\ tx.bits \in Frames /\ tx.step \in 0 .. TotalSteps - 1 /\ Valid(tx.bits)
  BY TotalStepsType
  DEF PulseInv, DecoderInv, SenderInv, Decoders, Transmit, SentSteps
<1> DEFINE pulse == FramePulse(tx.bits, tx.step)
<1>1. rx' = FeedPulse(rx, pulse[1], pulse[2])  BY DEF Transmit, Deliver, Pulse
<1>2. /\ tx'.kind = "frame" /\ tx'.bits = tx.bits /\ tx'.step = tx.step + 1
  BY <1>0 DEF Transmit, PulseInv, SenderInv
<1> HIDE DEF pulse
<1>3. CASE tx.step = 0
  <2>1. rx.state = "IDLE"  BY <1>3 DEF Abreast
  <2>2. pulse[1] = Mark /\ LeadMark(pulse[2])
    BY <1>3, FirstPulses DEF pulse, LeadMark, Between
  <2>3. rx'.state = "LEAD_SPACE"  BY <1>0, <1>1, <2>1, <2>2, FeedIdle DEF Decoder
  <2>4. ~LastPulse  BY <1>3, TotalStepsType DEF LastPulse
  <2>5. tx'.step = 1  BY <1>2, <1>3
  <2>6. QED  BY <1>2, <2>3, <2>4, <2>5, TotalStepsType DEF Abreast
<1>4. CASE tx.step = 1
  <2>1. rx.state = "LEAD_SPACE"  BY <1>4 DEF Abreast
  <2>2. pulse[1] = Space /\ LeadSpace(pulse[2]) /\ pulse[2] \in Nat
    BY <1>4, FirstPulses DEF pulse, LeadSpace, Between
  <2>3. rx'.state = "BIT_MARK" /\ rx'.bits = <<>>
    BY <1>0, <1>1, <2>1, <2>2, FeedLead DEF Decoder
  <2>4. tx'.step = 2 /\ Len(rx'.bits) = 0  BY <1>2, <1>4, <2>3
  <2>5. InTheBits'  BY <2>3, <2>4 DEF InTheBits, Received
  <2>6. ~LastPulse  BY <1>4, TotalStepsType DEF LastPulse
  <2>7. QED  BY <1>2, <2>4, <2>5, <2>6, TotalStepsType DEF Abreast
<1>5. CASE tx.step \in 2 .. TotalSteps - 1
  <2> DEFINE n == Len(rx.bits)
  <2>0. InTheBits  BY <1>5 DEF Abreast
  <2>1. CASE rx.state = "BIT_MARK"
    <3>1. tx.step = 2 * n + 2 /\ n < FrameBits
      BY <1>0, <2>0, <2>1 DEF InTheBits, Received, Decodes
    <3>2. n \in 0 .. FrameBits  BY <1>0, <3>1, FrameBitsType
    <3>3. pulse[1] = Mark /\ ShortPulse(pulse[2])
      <4>1. pulse = <<Mark, 562>>  BY <3>1, <3>2, MarkPulse DEF pulse
      <4>2. QED  BY ONLY <4>1 DEF ShortPulse, Between
    <3>4. rx'.state = "BIT_SPACE" /\ rx'.bits = rx.bits
      BY <1>0, <1>1, <2>1, <3>3, FeedBitMark DEF Decoder
    <3>5. tx'.step = 2 * n + 3 /\ tx'.step < TotalSteps - 1 /\ tx'.step >= 2
      BY <1>0, <1>2, <3>1, TotalStepsType, FrameBitsType
    <3>6. InTheBits'  BY <1>0, <1>2, <2>0, <3>4, <3>5 DEF InTheBits, Received
    <3>7. ~LastPulse  BY <1>0, <3>1, TotalStepsType, FrameBitsType DEF LastPulse
    <3>8. QED  BY <1>0, <1>2, <3>5, <3>6, <3>7, TotalStepsType DEF Abreast
  <2>2. CASE rx.state = "BIT_SPACE"
    <3>1. tx.step = 2 * n + 3 /\ n < FrameBits
      BY <1>0, <2>0, <2>2 DEF InTheBits, Received, Decodes
    <3>2. n \in 0 .. FrameBits - 1 /\ n + 1 \in 1 .. FrameBits
      BY <1>0, <3>1, FrameBitsType
    <3>3. tx.bits[n + 1] \in {0, 1}  BY <1>0, <3>2 DEF Frames
    <3>4. pulse = <<Space, IF tx.bits[n + 1] = 1 THEN 1687 ELSE 562>>
      BY <3>1, <3>2, SpacePulse DEF pulse
    <3>5. /\ pulse[1] = Space /\ pulse[2] \in Nat
          /\ ShortPulse(pulse[2]) \/ OneSpace(pulse[2])
          /\ BitOf(pulse[2]) = tx.bits[n + 1]
      BY <3>3, <3>4 DEF ShortPulse, OneSpace, Between, BitOf
    <3>6. rx' = Decoder(IF n + 1 >= FrameBits THEN "STOP_MARK" ELSE "BIT_MARK",
                        Append(rx.bits, tx.bits[n + 1]), rx.event, rx.frame)
      BY <1>0, <1>1, <2>2, <3>5, FeedBitSpace DEF Mark, Space
    <3>7. rx'.state \in {"STOP_MARK", "BIT_MARK"} /\ rx'.bits = Append(rx.bits, tx.bits[n + 1])
      BY <3>6 DEF Decoder
    <3>8. /\ Len(rx'.bits) = n + 1
          /\ \A i \in 1 .. n + 1 : rx'.bits[i] = tx.bits[i]
      BY <1>0, <2>0, <3>3, <3>7 DEF InTheBits
    <3>9. tx'.step = 2 * (n + 1) + 2 /\ tx'.step <= TotalSteps - 1 /\ tx'.step >= 2
      BY <1>0, <1>2, <3>1, TotalStepsType, FrameBitsType
    <3>10. InTheBits'  BY <1>2, <3>7, <3>8, <3>9 DEF InTheBits, Received
    <3>11. ~LastPulse  BY <1>0, <3>1, TotalStepsType, FrameBitsType DEF LastPulse
    <3>12. QED  BY <1>0, <1>2, <3>9, <3>10, <3>11, TotalStepsType DEF Abreast
  <2>3. CASE rx.state = "STOP_MARK"
    <3>1. tx.step = 2 * n + 2 /\ n = FrameBits
      BY <1>0, <2>0, <2>3 DEF InTheBits, Received, Decodes
    <3>2. n \in 0 .. FrameBits  BY <1>0, <3>1, FrameBitsType
    <3>3. pulse[1] = Mark /\ ShortPulse(pulse[2])
      <4>1. pulse = <<Mark, 562>>  BY <3>1, <3>2, MarkPulse DEF pulse
      <4>2. QED  BY ONLY <4>1 DEF ShortPulse, Between
    <3>4. rx.bits = tx.bits
      BY <1>0, <2>0, <3>1 DEF InTheBits, Frames
    <3>5. rx' = Decoder("IDLE", <<>>, Noted(rx, "FRAME"),
                        IF rx.event = "NONE" THEN rx.bits ELSE rx.frame)
      BY <1>0, <1>1, <2>3, <3>3, <3>4, FeedStopMark, FinishFrameIs
    <3>6. rx'.state = "IDLE" /\ (rx.event = "NONE" => rx'.event = "FRAME" /\ rx'.frame = tx.bits)
      BY <3>4, <3>5 DEF Decoder, Noted
    <3>7. tx'.step = TotalSteps  BY <1>0, <1>2, <3>1, TotalStepsType
    <3>8. QED  BY <1>2, <3>6, <3>7, TotalStepsType DEF Abreast
  <2>4. QED  BY <2>0, <2>1, <2>2, <2>3 DEF InTheBits
<1>6. QED  BY <1>0, <1>3, <1>4, <1>5, TotalStepsType

LEMMA TransmitRepeat ==
  ASSUME PulseInv, Transmit, tx.kind = "repeat", Abreast
  PROVE  Abreast'
<1>0. /\ rx \in Decoders /\ Decodes(rx) /\ tx.step \in 0 .. 2
      /\ rx.state = IF tx.step = 1 THEN "LEAD_SPACE" ELSE "IDLE"
  BY DEF PulseInv, DecoderInv, SenderInv, Transmit, SentSteps, RepeatSteps, Abreast
<1>1. rx' = FeedPulse(rx, RepeatPulse(tx.step)[1], RepeatPulse(tx.step)[2])
  BY DEF Transmit, Deliver, Pulse
<1>2. tx'.kind = "repeat" /\ tx'.step = tx.step + 1
  BY <1>0 DEF Transmit, PulseInv, SenderInv
<1>3. CASE tx.step = 0
  <2>1. RepeatPulse(tx.step)[1] = Mark /\ LeadMark(RepeatPulse(tx.step)[2])
    BY <1>3 DEF RepeatPulse, LeadMark, Between
  <2>2. rx'.state = "LEAD_SPACE"  BY <1>0, <1>1, <1>3, <2>1, FeedIdle DEF Decoder
  <2>3. QED  BY <1>2, <1>3, <2>2 DEF Abreast
<1>4. CASE tx.step = 1
  <2>1. /\ RepeatPulse(tx.step)[1] = Space /\ RepeatPulse(tx.step)[2] \in Nat
        /\ ~LeadSpace(RepeatPulse(tx.step)[2])
    BY <1>4 DEF RepeatPulse, LeadSpace, Between
  <2>2. \E event : rx' = Decoder("IDLE", <<>>, event, rx.frame)
    BY <1>0, <1>1, <1>4, <2>1, FeedLead
  <2>3. rx'.state = "IDLE"  BY <2>2 DEF Decoder
  <2>4. QED  BY <1>2, <1>4, <2>3 DEF Abreast
<1>5. CASE tx.step = 2
  <2>1. RepeatPulse(tx.step)[1] = Mark /\ ~LeadMark(RepeatPulse(tx.step)[2])
    BY <1>5 DEF RepeatPulse, LeadMark, Between
  <2>2. rx' = Decoder("IDLE", <<>>, rx.event, rx.frame)
    BY <1>0, <1>1, <1>5, <2>1, FeedIdle
  <2>3. rx'.state = "IDLE"  BY <2>2 DEF Decoder
  <2>4. QED  BY <1>2, <1>5, <2>3 DEF Abreast
<1>6. QED  BY <1>0, <1>3, <1>4, <1>5

\* A silence ends whatever the decoder was in.
LEMMA SilenceEnds ==
  ASSUME DecoderInv, Deliver(Space, Silence)
  PROVE  rx'.state = "IDLE"
<1>0. rx \in Decoders /\ Decodes(rx) /\ rx' = FeedPulse(rx, Space, Silence)
  BY DEF DecoderInv, Deliver
<1>1. /\ Silence \in Nat /\ ~LeadSpace(Silence) /\ ~RepeatSpace(Silence)
      /\ ~ShortPulse(Silence) /\ ~OneSpace(Silence)
  BY PulseAssumption DEF LeadSpace, RepeatSpace, ShortPulse, OneSpace, Between
<1>2. Space # Mark /\ Space \in {Mark, Space}  BY DEF Mark, Space
<1>3. \E event : rx' = Decoder("IDLE", <<>>, event, rx.frame)
  <2>1. CASE rx.state = "IDLE"  BY <1>0, <1>2, <2>1, FeedIdle
  <2>2. CASE rx.state = "LEAD_SPACE"  BY <1>0, <1>1, <2>2, FeedLead
  <2>3. CASE rx.state = "BIT_MARK"  BY <1>0, <1>2, <2>3, FeedBitMark
  <2>4. CASE rx.state = "BIT_SPACE"  BY <1>0, <1>1, <1>2, <2>4, FeedBitSpace
  <2>5. CASE rx.state = "STOP_MARK"  BY <1>0, <1>2, <2>5, FeedStopMark
  <2>6. QED  BY <1>0, <2>1, <2>2, <2>3, <2>4, <2>5 DEF Decodes
<1>4. QED  BY <1>3 DEF Decoder

\* Off has the bits of a decoder that was reset.
LEMMA OffType == Off \in [kind : {"off", "frame", "repeat"}, bits : Frames, step : 0 .. TotalSteps]
<1>1. Reset.frame \in Frames  BY DEF Reset, Frames
<1>2. QED  BY <1>1, TotalStepsType DEF Off

LEMMA PulseInitInv == PulseInit => PulseInv
<1> SUFFICES ASSUME PulseInit PROVE PulseInv  OBVIOUS
<1>1. rx \in Decoders /\ rx.state = "IDLE" /\ rx.bits = <<>>
  BY DEF PulseInit, Reset, Decoders, States, IrEvents, Frames
<1>2. DecoderInv
  <2>1. Decodes(rx) /\ InStep  BY <1>1 DEF Decodes, InStep
  <2>2. <<>> \in Seq({0, 1}) /\ Len(<<>>) = 0  OBVIOUS
  <2>3. LooksLikeAFrame
    BY <2>2, TotalStepsType, FrameBitsType DEF PulseInit, LooksLikeAFrame
  <2>4. QED  BY <1>1, <2>1, <2>3 DEF PulseInit, DecoderInv, Mark, Space
<1>3. SenderInv  BY OffType DEF PulseInit, SenderInv, Off
<1>4. QED  BY <1>2, <1>3 DEF PulseInv, PulseInit

\* What one step does to the events: a frame is reported for a reason, an undisturbed
\* frame is reported, and an event that waits stays.
StepReports ==
  /\ FrameReported
  /\ tx.kind = "frame" /\ tx.step = TotalSteps - 1 /\ tx'.step = TotalSteps
       /\ clean >= 1 /\ clean' >= 1 /\ rx.event = "NONE"
     => rx'.event = "FRAME" /\ rx'.frame = tx.bits
  /\ rx.event # "NONE" /\ rx'.event # "NONE" => rx'.event = rx.event /\ rx'.frame = rx.frame

LEMMA DeliverWaits ==
  ASSUME DecoderInv, NEW l \in {Mark, Space}, NEW w \in Nat, Deliver(l, w)
  PROVE  rx.event # "NONE" /\ rx'.event # "NONE" => rx'.event = rx.event /\ rx'.frame = rx.frame
  BY PulseContinues DEF DecoderInv, Deliver, Continues

LEMMA PulseStep ==
  ASSUME PulseInv, [PulseNext]_pulseVars
  PROVE  PulseInv' /\ StepReports
<1>0. DecoderInv /\ SenderInv /\ (clean >= 1 => Abreast)  BY DEF PulseInv
<1>t. TotalSteps - 1 # TotalSteps  BY TotalStepsType
<1>1. ASSUME NEW kind \in {"frame", "repeat"}, NEW bits \in Frames, Begin(kind, bits)
      PROVE  PulseInv' /\ StepReports
  <2>1. /\ tx.kind = "off" /\ tx'.kind = kind /\ tx'.bits = bits /\ tx'.step = 0 /\ Valid(bits)
        /\ tx' = [kind |-> kind, bits |-> bits, step |-> 0]
        /\ UNCHANGED <<rx, level, fit, shape, astray, clean>>
    BY <1>1 DEF Begin
  <2>2. DecoderInv'
    BY <1>0, <2>1 DEF DecoderInv, LooksLikeAFrame, InStep, Received
  <2>3. 0 <= SentSteps'  BY TotalStepsType DEF SentSteps, RepeatSteps
  <2>4. SenderInv'  BY <1>0, <2>1, <2>3, TotalStepsType DEF SenderInv
  <2>5. clean' >= 1 => Abreast'
    BY <1>0, <2>1, TotalStepsType DEF Abreast
  <2>6. StepReports  BY <2>1 DEF StepReports, FrameReported
  <2>7. QED  BY <2>2, <2>4, <2>5, <2>6 DEF PulseInv
<1>2. ASSUME Transmit  PROVE PulseInv' /\ StepReports
  <2>1. /\ tx.kind # "off" /\ tx.step < SentSteps /\ clean' = clean
        /\ Deliver(Pulse[1], Pulse[2])
    BY <1>2 DEF Transmit
  <2>2. Pulse[1] \in {Mark, Space} /\ Pulse[2] \in Nat  BY <1>0, <2>1, PulseType
  <2>3. DecoderInv' /\ FrameReported  BY <1>0, <2>1, <2>2, DeliverStep
  <2>4. rx.event # "NONE" /\ rx'.event # "NONE" => rx'.event = rx.event /\ rx'.frame = rx.frame
    BY <1>0, <2>1, <2>2, DeliverWaits
  <2>5. SenderInv'
    <3>1. /\ tx' \in [kind : {"off", "frame", "repeat"}, bits : Frames, step : Nat]
          /\ tx'.kind = tx.kind /\ tx'.bits = tx.bits /\ tx'.step = tx.step + 1
      BY <1>0, <1>2 DEF Transmit, SenderInv
    <3>2. SentSteps' = SentSteps /\ SentSteps \in Nat /\ SentSteps <= TotalSteps
      BY <3>1, TotalStepsType DEF SentSteps, RepeatSteps
    <3>3. tx'.step \in 0 .. TotalSteps /\ tx'.step <= SentSteps'
      BY <1>0, <2>1, <3>1, <3>2, TotalStepsType DEF SenderInv
    <3>4. QED  BY <1>0, <2>1, <3>1, <3>3 DEF SenderInv
  <2>6. ASSUME clean >= 1
        PROVE  /\ Abreast'
               /\ LastPulse /\ rx.event = "NONE" => rx'.event = "FRAME" /\ rx'.frame = tx.bits
    <3>1. CASE tx.kind = "frame"  BY <1>0, <1>2, <2>6, <3>1, TransmitFrame
    <3>2. CASE tx.kind = "repeat"
      BY <1>0, <1>2, <2>6, <3>2, TransmitRepeat DEF LastPulse
    <3>3. QED  BY <1>0, <2>1, <3>1, <3>2 DEF SenderInv
  <2>7. StepReports  BY <2>3, <2>4, <2>6 DEF StepReports, LastPulse
  <2>8. QED  BY <2>1, <2>3, <2>5, <2>6, <2>7 DEF PulseInv
<1>3. ASSUME Done  PROVE PulseInv' /\ StepReports
  <2>1. Deliver(Space, Silence) /\ tx' = Off /\ tx.step = SentSteps /\ tx.kind # "off"
    BY <1>3 DEF Done
  <2>2. Space \in {Mark, Space} /\ Silence \in Nat  BY PulseAssumption DEF Mark, Space
  <2>3. DecoderInv' /\ FrameReported  BY <1>0, <2>1, <2>2, DeliverStep
  <2>4. rx.event # "NONE" /\ rx'.event # "NONE" => rx'.event = rx.event /\ rx'.frame = rx.frame
    BY <1>0, <2>1, <2>2, DeliverWaits
  <2>5. clean' \in 0 .. 2  BY <1>0, <1>3 DEF Done, SenderInv
  <2>6. SenderInv'  BY <2>1, <2>5, OffType DEF SenderInv, Off
  <2>7. rx'.state = "IDLE"  BY <1>0, <2>1, SilenceEnds
  <2>8. Abreast'  BY <2>1, <2>7 DEF Abreast, Off
  <2>9. ~(tx.kind = "frame" /\ tx.step = TotalSteps - 1)
    BY <1>t, <2>1 DEF SentSteps
  <2>10. QED  BY <2>3, <2>4, <2>6, <2>8, <2>9 DEF PulseInv, StepReports
<1>4. ASSUME NEW l \in {Mark, Space}, NEW w \in Widths, Disturb(l, w)
      PROVE  PulseInv' /\ StepReports
  <2>1. Deliver(l, w) /\ clean' = 0 /\ ~(clean' >= 1)  BY <1>4 DEF Disturb
  <2>2. w \in Nat  BY PulseAssumption
  <2>3. DecoderInv' /\ FrameReported  BY <1>0, <2>1, <2>2, DeliverStep
  <2>4. rx.event # "NONE" /\ rx'.event # "NONE" => rx'.event = rx.event /\ rx'.frame = rx.frame
    BY <1>0, <2>1, <2>2, DeliverWaits
  <2>5. SenderInv'
    <3>1. CASE tx' = Off  BY <2>1, <3>1, OffType DEF SenderInv, Off
    <3>2. CASE tx' # Off
      <4>1. /\ tx.kind # "off" /\ tx.step # SentSteps /\ tx' = [tx EXCEPT !.step = @ + 1]
        BY <1>4, <3>2 DEF Disturb
      <4>2. /\ tx' \in [kind : {"off", "frame", "repeat"}, bits : Frames, step : Nat]
            /\ tx'.kind = tx.kind /\ tx'.bits = tx.bits /\ tx'.step = tx.step + 1
        BY <1>0, <4>1 DEF SenderInv
      <4>3. SentSteps' = SentSteps /\ SentSteps \in Nat /\ SentSteps <= TotalSteps
        BY <4>2, TotalStepsType DEF SentSteps, RepeatSteps
      <4>4. tx'.step \in 0 .. TotalSteps /\ tx'.step <= SentSteps'
        BY <1>0, <4>1, <4>2, <4>3, TotalStepsType DEF SenderInv
      <4>5. QED  BY <1>0, <2>1, <4>1, <4>2, <4>4 DEF SenderInv
    <3>3. QED  BY <3>1, <3>2
  <2>6. QED  BY <2>1, <2>3, <2>4, <2>5 DEF PulseInv, StepReports
<1>5. ASSUME FetchEvent  PROVE PulseInv' /\ StepReports
  <2>1. /\ rx' = [rx EXCEPT !.event = "NONE"]
        /\ UNCHANGED <<tx, level, fit, shape, astray, clean>>
    BY <1>5 DEF FetchEvent
  <2>2. /\ rx' \in Decoders /\ rx'.state = rx.state /\ rx'.bits = rx.bits
        /\ rx'.event = "NONE"
    BY <1>0, <2>1 DEF DecoderInv, Decoders, IrEvents
  <2>3. DecoderInv'
    BY <1>0, <2>1, <2>2 DEF DecoderInv, Decodes, LooksLikeAFrame, InStep, Received
  <2>4. SenderInv'  BY <1>0, <2>1 DEF SenderInv, SentSteps
  <2>5. Abreast => Abreast'  BY <2>1, <2>2 DEF Abreast, InTheBits, Received
  <2>6. StepReports  BY <1>t, <2>1, <2>2 DEF StepReports, FrameReported
  <2>7. QED  BY <1>0, <2>1, <2>3, <2>4, <2>5, <2>6 DEF PulseInv
<1>6. ASSUME UNCHANGED pulseVars  PROVE PulseInv' /\ StepReports
  <2>1. PulseInv'
    BY <1>0, <1>6
    DEF pulseVars, PulseInv, DecoderInv, LooksLikeAFrame, InStep, Received, SenderInv, SentSteps,
        Abreast, InTheBits
  <2>2. StepReports  BY <1>t, <1>6 DEF pulseVars, StepReports, FrameReported
  <2>3. QED  BY <2>1, <2>2
<1>7. QED  BY <1>1, <1>2, <1>3, <1>4, <1>5, <1>6 DEF PulseNext

THEOREM PulseTypeCorrect == PulseSpec => []PulseTypeOK
<1>1. PulseInv => PulseTypeOK
  <2>1. SUFFICES ASSUME PulseInv PROVE PulseTypeOK  OBVIOUS
  <2>2. Len(rx.bits) <= FrameBits
    BY <2>1, FrameBitsType DEF PulseInv, DecoderInv, Decodes, Decoders
  <2>3. QED  BY <2>1, <2>2
    DEF PulseInv, DecoderInv, SenderInv, LooksLikeAFrame, Decodes, Decoders, PulseTypeOK
<1>2. PulseInv /\ [PulseNext]_pulseVars => PulseInv'  BY PulseStep
<1>3. QED  BY <1>1, <1>2, PulseInitInv, PTL DEF PulseSpec

THEOREM ReportedFramesAreWhole == PulseSpec => FrameIsWhole
<1>1. PulseInv /\ [PulseNext]_pulseVars =>
        PulseInv' /\ [rx.event # "FRAME" /\ rx'.event = "FRAME" =>
                        /\ Paired(rx'.frame)
                        /\ astray \/ (fit' = TotalSteps /\ rx'.frame = shape')]_pulseVars
  BY PulseStep DEF StepReports, FrameReported
<1>2. QED  BY <1>1, PulseInitInv, PTL DEF PulseSpec, FrameIsWhole

THEOREM UndisturbedFramesAreReported == PulseSpec => SecondFrameIsDecoded
<1>1. PulseInv /\ [PulseNext]_pulseVars =>
        PulseInv' /\ [tx.kind = "frame" /\ tx.step = TotalSteps - 1 /\ tx'.step = TotalSteps
                        /\ clean >= 1 /\ clean' >= 1 /\ rx.event = "NONE"
                      => rx'.event = "FRAME" /\ rx'.frame = tx.bits]_pulseVars
  BY PulseStep DEF StepReports
<1>2. PulseInv /\ [PulseNext]_pulseVars =>
        [rx.event # "NONE" /\ rx'.event # "NONE"
           => rx'.event = rx.event /\ rx'.frame = rx.frame]_pulseVars
  BY PulseStep DEF StepReports
<1>3. QED
  BY <1>1, <1>2, PulseInitInv, PTL DEF PulseSpec, SecondFrameIsDecoded, SecondIsReported, EventWaits

-----------------------------------------------------------------------------
(* The receiver that sleeps. *)

Early == {"wake", "event", "print", "poll"}

\* Between the end of a transmission and the next round, or the way to sleep.
Rest == {"finish", "expire_repeat", "expire_bits", "forget", "renew", "count"}
Path == {"reset", "idle", "clear", "mark", "unwake", "drain", "flag", "down", "asleep"}

On == remote.kind # "off"
Interval == Intervals(remote.kind, remote.bits)[remote.step]

\* Time since the last edge.
Gone == Interval - remote.wait

\* The decoder of intervals never reports an error.
Receivers ==
  [state : {"IDLE", "FALLING_REPEAT", "FALLING_BITS"}, bits : Seq({0, 1}),
   event : {"NONE", "FRAME", "REPEAT"}, frame : Frames]

RemoteInv ==
  /\ remote \in [kind : {"off", "frame", "repeat"}, bits : Frames,
                 step : 0 .. FrameBits + 1, wait : Nat]
  /\ ~On => remote.step = 0 /\ remote.wait <= Gap
  /\ On => remote.step >= 1 /\ remote.wait <= Interval
  /\ remote.kind = "frame" => Valid(remote.bits)
  /\ remote.kind = "repeat" => remote.step = 1 /\ remote.bits = Reset.frame

LoopInv ==
  /\ falling \in BOOLEAN /\ active \in BOOLEAN /\ sleeping \in BOOLEAN
  /\ woke \in BOOLEAN /\ raced \in BOOLEAN
  /\ age \in 0 .. Wrap - 1 /\ ahead \in {0, 1}
  /\ chunks \in 0 .. Chunks /\ (main \notin {"reset", "idle", "clear"} => chunks < Chunks)
  /\ main \in Positions /\ late \in 0 .. 2
  /\ main \in {"wake", "event"} => late <= 1
  /\ main \in Timing => ahead <= late
  /\ main \notin {"clear", "mark", "unwake", "drain", "flag", "down", "asleep"} => active
  /\ sleeping => main \in {"unwake", "drain", "flag", "down", "asleep"} /\ (woke => main = "unwake")

IrInv ==
  /\ ir \in Receivers
  /\ Len(ir.bits) < FrameBits
  /\ ir.state # "FALLING_BITS" => ir.bits = <<>>
  /\ main = "expire_bits" => ir.state = "FALLING_BITS"
  /\ main \in {"idle", "clear", "mark", "unwake", "drain", "flag", "down", "asleep"} => ir.event = "NONE"

AgeInv ==
  /\ main \in Early \cup Timing => age <= Timeout + 1 + late
  /\ main \in {"count", "reset", "idle", "clear", "mark", "unwake"} => age <= 1 + late
  /\ main \in {"drain", "flag", "down"} /\ ~On => age <= 1 + late
  /\ On /\ main # "asleep" /\ (main # "down" \/ falling) => age <= Gone + 1
  /\ On /\ main = "down" => age <= Gone + 3

Heard == \A i \in 1 .. Len(ir.bits) : ir.bits[i] = remote.bits[i]

\* While the remote control sends.
HearsInv ==
  On =>
    /\ remote.step >= 2 /\ falling => age = Gone
    /\ remote.step = 1 /\ falling /\ ~sleeping =>
         IF main = "asleep" THEN age <= 10 ELSE age >= Gone
    /\ main = "renew" /\ falling => remote.step = 1 /\ Gone <= ahead
    /\ remote.step = 1 => ir.state = "IDLE"
    /\ ir.state = "FALLING_REPEAT" =>
         /\ remote.step = 2 /\ falling /\ main \in Early \cup {"width"}
         /\ main = "width" => age >= ahead
    /\ ir.state = "FALLING_BITS" =>
         Len(ir.bits) <= remote.step - 2 /\ (Len(ir.bits) = remote.step - 2 => Heard)

\* Where the main loop can be meanwhile.
MeetsInv ==
  On =>
    /\ main = "width" /\ age < ahead => falling /\ chunks = 0
    /\ main \in Rest => remote.wait >= 1 /\ (late = 0 => remote.wait >= 2) /\ chunks = 0
    /\ main # "expire_repeat"
    /\ main \in Path => remote.step = 1 /\ raced
    /\ main \in Path \ {"asleep"} =>
         IF remote.kind = "frame"
         THEN remote.wait >= 4 \/ (remote.wait = 3 /\ late >= 1)
         ELSE remote.wait >= 2 \/ (remote.wait = 1 /\ late >= 1)
    /\ ir.event # "NONE" =>
         /\ remote.step = 1
         /\ \/ main \in {"forget", "renew", "count", "reset"} /\ remote.wait + late >= 10
            \/ main \in {"wake", "event"} /\ remote.wait + late >= 8

\* While it is silent.
SilentInv ==
  ~On =>
    /\ (falling \/ ir.state # "IDLE") /\ main # "asleep" => remote.wait = age /\ age < Gap
    /\ ir.state = "FALLING_REPEAT" => remote.bits = Reset.frame
    /\ main \in {"forget", "renew", "count"} \cup Path => ir.state = "IDLE"
    /\ main \in {"renew", "count"} \cup Path => ~falling
    /\ main = "width" /\ age < ahead => falling /\ chunks = 0
    /\ main \in {"unwake", "drain", "flag", "down", "asleep"} => sleeping
    /\ main = "expire_repeat" => ir.state = "FALLING_REPEAT"
    /\ ir.event # "NONE"
       /\ main \in {"print", "poll", "width", "finish", "expire_repeat", "expire_bits"}
       => remote.wait <= late

\* A frame none of whose edges met the main loop in Window.
UndisturbedInv ==
  remote.kind = "frame" /\ ~raced =>
    /\ falling /\ ~sleeping
    /\ main \in Early \cup {"width", "renew", "count"}
    /\ main = "width" => age >= ahead
    /\ main \in {"renew", "count"} => chunks = 0 /\ remote.step = 1
    /\ remote.step >= 2 =>
         ir.state = "FALLING_BITS" /\ Len(ir.bits) = remote.step - 2 /\ Heard

SleepInv ==
  /\ RemoteInv /\ LoopInv /\ IrInv /\ AgeInv
  /\ HearsInv /\ MeetsInv /\ SilentInv /\ UndisturbedInv

-----------------------------------------------------------------------------

LEMMA IntervalsAre ==
  ASSUME NEW bits \in Frames
  PROVE  /\ Intervals("repeat", bits)[1] = 10 /\ Len(Intervals("repeat", bits)) = 1
         /\ Intervals("frame", bits)[1] = 12 /\ Len(Intervals("frame", bits)) = FrameBits + 1
         /\ \A n \in 2 .. FrameBits + 1 : Intervals("frame", bits)[n] = bits[n - 1] + 1
<1> DEFINE data == [i \in 1 .. FrameBits |-> bits[i] + 1]
<1>1. FrameBits \in Nat  BY FrameBitsType
<1>2. \A i \in 1 .. FrameBits : bits[i] \in {0, 1}  BY DEF Frames
<1>3. data \in Seq(Nat) /\ Len(data) = FrameBits
  BY <1>1, <1>2
<1>4. Intervals("frame", bits) = <<12>> \o data /\ Intervals("repeat", bits) = <<10>>
  BY DEF Intervals
<1>5. <<12>> \in Seq(Nat) /\ Len(<<12>>) = 1  OBVIOUS
<1>6. Len(<<12>> \o data) = FrameBits + 1 /\ (<<12>> \o data)[1] = 12
  BY <1>1, <1>3, <1>5
<1>7. ASSUME NEW n \in 2 .. FrameBits + 1 PROVE (<<12>> \o data)[n] = bits[n - 1] + 1
  <2>1. n - 1 \in 1 .. FrameBits /\ n > 1 /\ n <= 1 + FrameBits  BY <1>1
  <2>2. (<<12>> \o data)[n] = data[n - 1]
    <3> HIDE DEF data
    <3> QED  BY <1>1, <1>3, <1>5, <2>1
  <2>3. QED  BY <2>1, <2>2
<1> HIDE DEF data
<1>8. <<10>>[1] = 10 /\ Len(<<10>>) = 1  OBVIOUS
<1>9. QED  BY <1>4, <1>6, <1>7, <1>8, Zenon

\* What is said of an interval, without its definition.
IntervalIs ==
  /\ On => Interval \in Nat
  /\ On /\ remote.step = 1 => Interval = IF remote.kind = "frame" THEN 12 ELSE 10
  /\ On /\ remote.step >= 2 => remote.kind = "frame" /\ Interval = remote.bits[remote.step - 1] + 1
  /\ On /\ remote.step >= 2 => remote.bits[remote.step - 1] \in {0, 1}
  /\ On => (LastEdge <=> remote.kind = "repeat" \/ remote.step = FrameBits + 1)

LEMMA WidthsAre ==
  ASSUME NEW k \in Nat
  PROVE  /\ FallingLead(k * Unit) <=> k \in 12 .. 14
         /\ FallingRepeat(k * Unit) <=> k \in 9 .. 11
         /\ FallingZero(k * Unit) <=> k = 1
         /\ FallingOne(k * Unit) <=> k = 2
  BY DEF FallingLead, FallingRepeat, FallingZero, FallingOne, Between, Unit

LEMMA FeedLeadInterval ==
  ASSUME NEW r \in Decoders, r.state = "IDLE", r.bits = <<>>, NEW k \in Nat
  PROVE  FeedFalling(r, k * Unit) =
           IF k \in 12 .. 14 THEN Decoder("FALLING_BITS", <<>>, r.event, r.frame)
           ELSE IF k \in 9 .. 11 THEN Decoder("FALLING_REPEAT", <<>>, r.event, r.frame)
           ELSE r
<1> DEFINE w == k * Unit
<1>1. FeedFalling(r, w) =
        IF FallingLead(w) THEN [Idle(r) EXCEPT !.state = "FALLING_BITS"]
        ELSE IF FallingRepeat(w) THEN [Idle(r) EXCEPT !.state = "FALLING_REPEAT"] ELSE r
  BY DEF FeedFalling
<1>2. /\ [Idle(r) EXCEPT !.state = "FALLING_BITS"] =
           Decoder("FALLING_BITS", <<>>, r.event, r.frame)
      /\ [Idle(r) EXCEPT !.state = "FALLING_REPEAT"] =
           Decoder("FALLING_REPEAT", <<>>, r.event, r.frame)
  BY IdleIs DEF Decoder
<1>3. QED  BY <1>1, <1>2, WidthsAre

LEMMA FeedBitInterval ==
  ASSUME NEW r \in Decoders, r.state \in {"FALLING_REPEAT", "FALLING_BITS"},
         NEW b \in {0, 1}, NEW k \in Nat, k = b + 1
  PROVE  LET pushed == Decoder("FALLING_BITS", Append(r.bits, b), r.event, r.frame)
         IN  FeedFalling(r, k * Unit) =
               IF Len(r.bits) + 1 >= FrameBits THEN FinishFrame(pushed) ELSE pushed
<1> DEFINE pushed == Decoder("FALLING_BITS", Append(r.bits, b), r.event, r.frame)
<1>1. IsFallingBit(k * Unit) /\ (FallingZero(k * Unit) <=> b = 0)
  BY WidthsAre DEF IsFallingBit
<1>2. FeedFalling(r, k * Unit) = FallingBit(r, k * Unit)
  BY <1>1 DEF FeedFalling
<1>3. PushBit([r EXCEPT !.state = "FALLING_BITS"],
              IF FallingZero(k * Unit) THEN 0 ELSE 1) = pushed
  <2>1. (IF FallingZero(k * Unit) THEN 0 ELSE 1) = b  BY <1>1
  <2>2. [r EXCEPT !.state = "FALLING_BITS"] = Decoder("FALLING_BITS", r.bits, r.event, r.frame)
    BY InState
  <2>3. PushBit([r EXCEPT !.state = "FALLING_BITS"], b) =
          [Decoder("FALLING_BITS", r.bits, r.event, r.frame) EXCEPT !.bits = Append(r.bits, b)]
    BY <2>2 DEF PushBit, Decoder
  <2>4. QED  BY <2>1, <2>3 DEF Decoder
<1>4. pushed.bits = Append(r.bits, b) /\ Len(Append(r.bits, b)) = Len(r.bits) + 1
  BY DEF Decoders, Decoder
<1>5. FallingBit(r, k * Unit) = IF Len(pushed.bits) >= FrameBits THEN FinishFrame(pushed) ELSE pushed
  BY <1>3 DEF FallingBit
<1>6. QED  BY <1>2, <1>4, <1>5

LEMMA SpanFacts == RemoteInv => IntervalIs
<1> SUFFICES ASSUME RemoteInv, On PROVE IntervalIs
  BY DEF IntervalIs
<1>0. FrameBits \in Nat /\ FrameBits >= 4  BY FrameBitsType
<1>1. CASE remote.kind = "frame"
  <2>1. remote.bits \in Frames /\ remote.step \in 1 .. FrameBits + 1
    BY <1>0, <1>1 DEF RemoteInv
  <2>2. CASE remote.step = 1
    BY <1>0, <1>1, <2>1, <2>2, IntervalsAre DEF IntervalIs, Interval, LastEdge
  <2>3. CASE remote.step >= 2
    <3>1. remote.step \in 2 .. FrameBits + 1 /\ remote.step - 1 \in 1 .. FrameBits
      BY <1>0, <2>1, <2>3
    <3>2. remote.bits[remote.step - 1] \in {0, 1}
      BY <2>1, <3>1 DEF Frames
    <3>3. Interval = remote.bits[remote.step - 1] + 1
      BY <1>1, <2>1, <3>1, IntervalsAre DEF Interval
    <3>4. LastEdge <=> remote.step = FrameBits + 1
      BY <1>1, <2>1, IntervalsAre DEF LastEdge
    <3>5. QED  BY <1>1, <2>3, <3>2, <3>3, <3>4 DEF IntervalIs
  <2>4. QED  BY <2>1, <2>2, <2>3
<1>2. CASE remote.kind = "repeat"
  <2>1. remote.bits \in Frames /\ remote.step = 1
    BY <1>2 DEF RemoteInv
  <2>2. QED  BY <1>2, <2>1, IntervalsAre DEF IntervalIs, Interval, LastEdge
<1>3. QED  BY <1>1, <1>2 DEF On, RemoteInv

LEMMA SpanFactsAfter == RemoteInv' => IntervalIs'
  BY SpanFacts, PTL

LEMMA SleepSizes ==
  /\ Timeout \in Nat /\ Chunks \in Nat /\ Wrap \in Nat /\ Gap \in Nat
  /\ Timeout >= 13 /\ Timeout + 3 < Wrap /\ Timeout + 3 < Gap /\ Chunks >= 2
  BY SleepAssumption

LEMMA SmallRemainder == ASSUME NEW m \in Nat, NEW k \in 0 .. m - 1 PROVE k % m = k /\ (m + k) % m = k
  BY SleepAssumption

LEMMA AheadIs ==
  ASSUME NEW steps \in {0, 1}, age \in 0 .. Wrap - 1
  PROVE  Ahead(steps) = IF age >= steps THEN age - steps ELSE Wrap - 1
<1>1. CASE age >= steps
  <2>1. age - steps \in 0 .. Wrap - 1 /\ age + Wrap - steps = Wrap + (age - steps)
    BY <1>1, SleepSizes
  <2>2. QED  BY <1>1, <2>1, SmallRemainder, SleepSizes DEF Ahead
<1>2. CASE ~(age >= steps)
  <2>1. age + Wrap - steps = Wrap - 1 /\ Wrap - 1 \in 0 .. Wrap - 1
    BY <1>2, SleepSizes
  <2>2. QED  BY <1>2, <2>1, SmallRemainder, SleepSizes DEF Ahead
<1>3. QED  BY <1>1, <1>2

LEMMA ReceiversDecode == ASSUME NEW r \in Receivers PROVE r \in Decoders
  BY DEF Receivers, Decoders, States, IrEvents

LEMMA ResetType == Reset \in Receivers /\ Reset.bits = <<>> /\ Reset.state = "IDLE" /\ Reset.event = "NONE"
  BY FrameBitsType DEF Reset, Receivers, Frames

SameRemote == UNCHANGED <<remote, raced>> /\ Interval' = Interval

LEMMA MainStaysBehind == ASSUME Main PROVE SameRemote
<1>1. UNCHANGED <<remote, raced>>
  BY DEF Main, Go, PrintWake, handle_event, print_frame, ReadTimer, Compare, Finish,
         ExpireRepeat, ExpireBits, Forget, Renew, Count, ResetDecoder, SetIdle, ClearEdges,
         MarkSleeping, ClearWoke, PinIsHigh, clear_flag, PowerDown
<1>2. QED  BY <1>1 DEF SameRemote, Interval

\* What the main loop makes of the decoder.
LEMMA MainAndDecoder ==
  ASSUME SleepInv, Main
  PROVE  /\ ir' \in Receivers
         /\ \/ /\ UNCHANGED <<ir>>
               /\ main \notin {"event", "expire_repeat", "expire_bits", "reset"}
            \/ main = "event" /\ ir'.state = ir.state /\ ir'.bits = ir.bits /\ ir'.event = "NONE"
            \/ /\ main = "expire_repeat" /\ ir'.state = "IDLE" /\ ir'.bits = ir.bits
               /\ ir'.event # "NONE" /\ (ir.event # "NONE" => ir'.event = ir.event)
            \/ /\ main = "expire_bits" /\ ir'.state = "IDLE" /\ ir'.bits = <<>>
               /\ ir'.event = ir.event
            \/ main = "reset" /\ ir' = Reset
<1> USE DEF SleepInv, Go
<1>1. ir \in Receivers /\ ir \in Decoders  BY ReceiversDecode DEF IrInv
<1>2. CASE handle_event
  BY <1>1, <1>2 DEF handle_event, Receivers
<1>3. CASE ExpireRepeat
  <2>1. ir' = Decoder("IDLE", ir.bits, Noted(ir, "REPEAT"), ir.frame)
    BY <1>1, <1>3, InState, SetEventIs DEF ExpireRepeat, Noted
  <2>2. ir' \in Receivers  BY <1>1, <2>1 DEF Receivers, Decoder, Noted
  <2>3. QED  BY <1>1, <1>3, <2>1, <2>2 DEF ExpireRepeat, Decoder, Noted, Receivers
<1>4. CASE ExpireBits
  <2>1. ir' = Decoder("IDLE", <<>>, ir.event, ir.frame)  BY <1>1, <1>4, IdleIs DEF ExpireBits
  <2>2. ir' \in Receivers  BY <1>1, <2>1 DEF Receivers, Decoder
  <2>3. QED  BY <1>4, <2>1, <2>2 DEF ExpireBits, Decoder
<1>5. CASE ResetDecoder  BY <1>5, ResetType DEF ResetDecoder
<1>6. CASE PrintWake \/ print_frame \/ ReadTimer \/ Compare \/ Finish \/ Forget \/ Renew \/ Count
           \/ SetIdle \/ ClearEdges \/ MarkSleeping \/ ClearWoke \/ PinIsHigh \/ clear_flag \/ PowerDown
  BY <1>1, <1>6 DEF PrintWake, print_frame, ReadTimer, Compare, Finish, Forget, Renew, Count,
                    SetIdle, ClearEdges, MarkSleeping, ClearWoke, PinIsHigh, clear_flag, PowerDown
<1>7. QED  BY <1>2, <1>3, <1>4, <1>5, <1>6 DEF Main

LEMMA MainAndBits ==
  ASSUME SleepInv, Main
  PROVE  /\ Len(ir'.bits) < FrameBits /\ (ir'.state # "FALLING_BITS" => ir'.bits = <<>>)
         /\ ir'.state \in {ir.state, "IDLE"}
         /\ ir'.state # "IDLE" => ir'.bits = ir.bits /\ (Heard' <=> Heard)
<1>1. SameRemote  BY MainStaysBehind
<1>2. ir'.bits = ir.bits => (Heard' <=> Heard)  BY <1>1 DEF SameRemote, Heard
<1>3. ir \in Receivers /\ Len(ir.bits) < FrameBits
      /\ (ir.state # "FALLING_BITS" => ir.bits = <<>>) /\ Len(<<>>) < FrameBits
  BY FrameBitsType DEF SleepInv, IrInv
<1>4. CASE main = "expire_repeat"
  <2>1. ir.bits = <<>>  BY <1>3, <1>4 DEF SleepInv, MeetsInv, SilentInv, On
  <2>2. QED  BY <1>2, <1>3, <1>4, <2>1, MainAndDecoder
<1>5. CASE main # "expire_repeat"
  BY <1>2, <1>3, <1>5, ResetType, MainAndDecoder
<1>6. QED  BY <1>4, <1>5

LEMMA MainKeepsRemote == ASSUME SleepInv, Main PROVE RemoteInv'
  BY MainStaysBehind DEF SleepInv, SameRemote, RemoteInv, On

Round == PrintWake \/ handle_event \/ print_frame \/ ReadTimer
Ends == Compare \/ Finish \/ ExpireRepeat \/ ExpireBits \/ Forget \/ Renew \/ Count
FallsAsleep == ResetDecoder \/ SetIdle \/ ClearEdges \/ MarkSleeping \/ ClearWoke \/ PinIsHigh \/ clear_flag \/ PowerDown

LEMMA AheadHere ==
  ASSUME LoopInv
  PROVE  Ahead(ahead) = IF age >= ahead THEN age - ahead ELSE Wrap - 1
  BY AheadIs DEF LoopInv

LEMMA MainKeepsLoop == ASSUME SleepInv, Main PROVE LoopInv'
<1>1. SameRemote /\ LoopInv  BY MainStaysBehind DEF SleepInv
<1> USE <1>1, SleepSizes DEF Go, flags, Positions, Timing, LoopInv, SameRemote
<1>2. CASE Round
  <2>1. CASE PrintWake  BY <2>1 DEF PrintWake
  <2>2. CASE handle_event  BY <2>2 DEF handle_event
  <2>3. CASE print_frame  BY <2>3 DEF print_frame
  <2>4. CASE ReadTimer  BY <2>4 DEF ReadTimer
  <2>5. QED  BY <1>2, <2>1, <2>2, <2>3, <2>4 DEF Round
<1>3. CASE Ends
  <2>1. CASE Compare  BY <2>1 DEF Compare
  <2>2. CASE Finish  BY <2>2 DEF Finish
  <2>3. CASE ExpireRepeat  BY <2>3 DEF ExpireRepeat
  <2>4. CASE ExpireBits  BY <2>4 DEF ExpireBits
  <2>5. CASE Forget  BY <2>5 DEF Forget
  <2>6. CASE Renew  BY <2>6 DEF Renew
  <2>7. CASE Count  BY <2>7 DEF Count
  <2>8. QED  BY <1>3, <2>1, <2>2, <2>3, <2>4, <2>5, <2>6, <2>7 DEF Ends
<1>4. CASE FallsAsleep
  <2>1. CASE ResetDecoder  BY <2>1 DEF ResetDecoder
  <2>2. CASE SetIdle  BY <2>2 DEF SetIdle
  <2>3. CASE ClearEdges
    <3>1. main = "clear" /\ main' = "mark" /\ late' = late  BY <2>3 DEF ClearEdges
    <3>2. ~sleeping /\ sleeping' = sleeping  BY <2>3, <3>1 DEF ClearEdges
    <3>3. chunks' \in 0 .. Chunks /\ chunks' < Chunks  BY <2>3 DEF ClearEdges
    <3>4. /\ falling' \in BOOLEAN /\ active' \in BOOLEAN /\ sleeping' \in BOOLEAN
          /\ woke' \in BOOLEAN /\ raced' \in BOOLEAN
      BY <2>3 DEF ClearEdges
    <3>5. age' \in 0 .. Wrap - 1 /\ ahead' \in {0, 1}  BY <2>3 DEF ClearEdges
    <3>6. QED  BY <3>1, <3>2, <3>3, <3>4, <3>5
  <2>4. CASE MarkSleeping  BY <2>4 DEF MarkSleeping
  <2>5. CASE ClearWoke  BY <2>5 DEF ClearWoke
  <2>6. CASE PinIsHigh  BY <2>6 DEF PinIsHigh
  <2>7. CASE clear_flag  BY <2>7 DEF clear_flag
  <2>8. CASE PowerDown  BY <2>8 DEF PowerDown
  <2>9. QED  BY <1>4, <2>1, <2>2, <2>3, <2>4, <2>5, <2>6, <2>7, <2>8 DEF FallsAsleep
<1>5. QED  BY <1>2, <1>3, <1>4 DEF Main, Round, Ends, FallsAsleep

LEMMA MainKeepsIr == ASSUME SleepInv, Main PROVE IrInv'
<1>1. SameRemote  BY MainStaysBehind
<1> USE <1>1, SleepSizes, MainAndDecoder, MainAndBits, ResetType DEF Go, SleepInv, SameRemote
<1>2. CASE Round  BY <1>2 DEF Round, PrintWake, handle_event, print_frame, ReadTimer, IrInv
<1>3. CASE Ends
  BY <1>3 DEF Ends, Compare, Finish, ExpireRepeat, ExpireBits, Forget, Renew, Count, IrInv
<1>4. CASE FallsAsleep
  BY <1>4 DEF FallsAsleep, ResetDecoder, SetIdle, ClearEdges, MarkSleeping, ClearWoke, PinIsHigh, clear_flag,
     PowerDown, IrInv
<1>5. QED  BY <1>2, <1>3, <1>4 DEF Main, Round, Ends, FallsAsleep

LEMMA MainKeepsAge == ASSUME SleepInv, Main PROVE AgeInv'
<1>1. SameRemote /\ IntervalIs  BY MainStaysBehind, SpanFacts DEF SleepInv
<1> USE <1>1, SleepSizes, AheadHere DEF Go, flags, SleepInv, SameRemote, AgeInv, RemoteInv,
        LoopInv, IntervalIs, On, Gone, Early, Timing
<1>2. CASE Round  BY <1>2 DEF Round, PrintWake, handle_event, print_frame, ReadTimer
<1>3. CASE Ends
  BY <1>3 DEF Ends, Compare, Finish, ExpireRepeat, ExpireBits, Forget, Renew, Count
<1>4. CASE FallsAsleep
  BY <1>4 DEF FallsAsleep, ResetDecoder, SetIdle, ClearEdges, MarkSleeping, ClearWoke, PinIsHigh, clear_flag, PowerDown
<1>5. QED  BY <1>2, <1>3, <1>4 DEF Main, Round, Ends, FallsAsleep

LEMMA MainKeepsHears == ASSUME SleepInv, Main PROVE HearsInv'
<1>1. SameRemote /\ IntervalIs  BY MainStaysBehind, SpanFacts DEF SleepInv
<1> USE <1>1, SleepSizes, AheadHere, MainAndBits DEF Go, flags, SleepInv, SameRemote, AgeInv,
        RemoteInv, LoopInv, IntervalIs, HearsInv, MeetsInv, On, Gone, Early, Timing, Path, Rest
<1>2. CASE Round
  <2>1. CASE PrintWake  BY <2>1 DEF PrintWake
  <2>2. CASE handle_event  BY <2>2 DEF handle_event
  <2>3. CASE print_frame  BY <2>3 DEF print_frame
  <2>4. CASE ReadTimer  BY <2>4 DEF ReadTimer
  <2>5. QED  BY <1>2, <2>1, <2>2, <2>3, <2>4 DEF Round
<1>3. CASE Ends
  <2>1. CASE Compare
    <3>1. /\ main = "width" /\ main' \in {"finish", "wake"} /\ (main' = "finish" => Ahead(ahead) > Timeout)
          /\ UNCHANGED <<ir, falling, age, active, chunks, sleeping, woke, ahead>>
      BY <2>1 DEF Compare
    <3>2. Gone' = Gone /\ (On' <=> On) /\ (Heard' <=> Heard)
      BY <3>1 DEF Heard
    <3>3. ASSUME On, ir.state = "FALLING_REPEAT" PROVE main' = "wake"
      <4>1. remote.step = 2 /\ age >= ahead /\ age = Gone
        BY <3>1, <3>3
      <4>2. Gone <= 12 /\ Ahead(ahead) = age - ahead
        BY <4>1, <3>3
      <4> QED BY <3>1, <4>1, <4>2
    <3> QED BY ONLY <1>1, <3>1, <3>2, <3>3, HearsInv DEF HearsInv, SameRemote, Early
  <2>2. CASE Finish  BY <2>2 DEF Finish
  <2>3. CASE ExpireRepeat  BY <2>3 DEF ExpireRepeat
  <2>4. CASE ExpireBits  BY <2>4 DEF ExpireBits
  <2>5. CASE Forget  BY <2>5 DEF Forget
  <2>6. CASE Renew  BY <2>6 DEF Renew
  <2>7. CASE Count  BY <2>7 DEF Count
  <2>8. QED  BY <1>3, <2>1, <2>2, <2>3, <2>4, <2>5, <2>6, <2>7 DEF Ends
<1>4. CASE FallsAsleep
  <2>1. CASE ResetDecoder  BY <2>1 DEF ResetDecoder
  <2>2. CASE SetIdle  BY <2>2 DEF SetIdle
  <2>3. CASE ClearEdges  BY <2>3 DEF ClearEdges
  <2>4. CASE MarkSleeping  BY <2>4 DEF MarkSleeping
  <2>5. CASE ClearWoke  BY <2>5 DEF ClearWoke
  <2>6. CASE PinIsHigh  BY <2>6 DEF PinIsHigh, Low
  <2>7. CASE clear_flag  BY <2>7 DEF clear_flag
  <2>8. CASE PowerDown  BY <2>8 DEF PowerDown
  <2>9. QED  BY <1>4, <2>1, <2>2, <2>3, <2>4, <2>5, <2>6, <2>7, <2>8 DEF FallsAsleep
<1>5. QED  BY <1>2, <1>3, <1>4 DEF Main, Round, Ends, FallsAsleep

LEMMA MainKeepsMeets == ASSUME SleepInv, Main PROVE MeetsInv'
<1>1. SameRemote /\ IntervalIs  BY MainStaysBehind, SpanFacts DEF SleepInv
<1> USE <1>1, SleepSizes, AheadHere, MainAndDecoder, ResetType DEF Go, flags, SleepInv,
        SameRemote, AgeInv, RemoteInv, LoopInv, IntervalIs, HearsInv, MeetsInv, IrInv,
        Receivers, On, Gone, Early, Timing, Path, Rest
<1>2. CASE Round
  <2>1. CASE PrintWake  BY <2>1 DEF PrintWake
  <2>2. CASE handle_event  BY <2>2 DEF handle_event
  <2>3. CASE print_frame  BY <2>3 DEF print_frame
  <2>4. CASE ReadTimer  BY <2>4 DEF ReadTimer
  <2>5. QED  BY <1>2, <2>1, <2>2, <2>3, <2>4 DEF Round
<1>3. CASE Ends
  <2>1. CASE Compare  BY <2>1 DEF Compare
  <2>2. CASE Finish  BY <2>2 DEF Finish
  <2>3. CASE ExpireRepeat  BY <2>3 DEF ExpireRepeat
  <2>4. CASE ExpireBits  BY <2>4 DEF ExpireBits
  <2>5. CASE Forget  BY <2>5 DEF Forget
  <2>6. CASE Renew  BY <2>6 DEF Renew
  <2>7. CASE Count  BY <2>7 DEF Count
  <2>8. QED  BY <1>3, <2>1, <2>2, <2>3, <2>4, <2>5, <2>6, <2>7 DEF Ends
<1>4. CASE FallsAsleep
  BY <1>4 DEF FallsAsleep, ResetDecoder, SetIdle, ClearEdges, MarkSleeping, ClearWoke, PinIsHigh, clear_flag,
     PowerDown, Low
<1>5. QED  BY <1>2, <1>3, <1>4 DEF Main, Round, Ends, FallsAsleep

LEMMA MainKeepsSilent == ASSUME SleepInv, Main PROVE SilentInv'
<1>1. SameRemote  BY MainStaysBehind DEF SleepInv
<1> USE <1>1, SleepSizes, AheadHere, MainAndDecoder, MainAndBits, ResetType DEF Go, flags,
        SleepInv, SameRemote, RemoteInv, LoopInv, SilentInv, IrInv, Receivers, On, Path
<1>2. CASE Round  BY <1>2 DEF Round, PrintWake, handle_event, print_frame, ReadTimer
<1>3. CASE Ends
  BY <1>3 DEF Ends, Compare, Finish, ExpireRepeat, ExpireBits, Forget, Renew, Count
<1>4. CASE FallsAsleep
  BY <1>4 DEF FallsAsleep, ResetDecoder, SetIdle, ClearEdges, MarkSleeping, ClearWoke, PinIsHigh, clear_flag,
     PowerDown, Low
<1>5. QED  BY <1>2, <1>3, <1>4 DEF Main, Round, Ends, FallsAsleep

LEMMA MainKeepsUndisturbed == ASSUME SleepInv, Main PROVE UndisturbedInv'
<1>1. SameRemote /\ IntervalIs  BY MainStaysBehind, SpanFacts DEF SleepInv
<1> USE <1>1, SleepSizes, AheadHere, MainAndDecoder, MainAndBits DEF Go, flags, SleepInv,
        SameRemote, AgeInv, RemoteInv, LoopInv, IntervalIs, UndisturbedInv, On, Gone, Early, Rest
<1>2. CASE Round
  <2>1. CASE PrintWake  BY <2>1 DEF PrintWake
  <2>2. CASE handle_event  BY <2>2 DEF handle_event
  <2>3. CASE print_frame  BY <2>3 DEF print_frame
  <2>4. CASE ReadTimer  BY <2>4 DEF ReadTimer
  <2>5. QED  BY <1>2, <2>1, <2>2, <2>3, <2>4 DEF Round
<1>3. CASE Ends
  <2>1. CASE Compare  BY <2>1 DEF Compare
  <2>2. CASE Finish  BY <2>2 DEF Finish
  <2>3. CASE ExpireRepeat  BY <2>3 DEF ExpireRepeat
  <2>4. CASE ExpireBits  BY <2>4 DEF ExpireBits
  <2>5. CASE Forget  BY <2>5 DEF Forget
  <2>6. CASE Renew  BY <2>6 DEF Renew
  <2>7. CASE Count  BY <2>7 DEF Count
  <2>8. QED  BY <1>3, <2>1, <2>2, <2>3, <2>4, <2>5, <2>6, <2>7 DEF Ends
<1>4. CASE FallsAsleep
  BY <1>4 DEF FallsAsleep, ResetDecoder, SetIdle, ClearEdges, MarkSleeping, ClearWoke, PinIsHigh, clear_flag, PowerDown
<1>5. QED  BY <1>2, <1>3, <1>4 DEF Main, Round, Ends, FallsAsleep


LEMMA YoungerThanAWrap ==
  ASSUME SleepInv, Tick, main # "asleep"
  PROVE  age + 1 < Wrap
<1> USE SleepSizes DEF SleepInv
<1>1. IntervalIs  BY SpanFacts
<1>2. age \in Nat /\ late \in 0 .. 2 /\ main \in Positions  BY DEF LoopInv
<1>3. CASE On
  <2>1. remote.wait \in Nat /\ remote.wait > 0 /\ remote.step \in Nat /\ remote.step >= 1
        /\ remote.kind \in {"frame", "repeat"}
    BY <1>3, FrameBitsType DEF Tick, RemoteInv, On
  <2>2. Interval \in Nat /\ Interval <= 12  BY <1>1, <1>3, <2>1 DEF IntervalIs
  <2>3. age <= Gone + 3
    <3>1. Gone \in Int  BY <2>1, <2>2 DEF Gone
    <3>2. age <= Gone + 1 \/ age <= Gone + 3  BY <1>3 DEF AgeInv
    <3> QED BY <1>2, <3>1, <3>2
  <2>4. QED  BY <1>2, <2>1, <2>2, <2>3 DEF Gone
<1>4. CASE ~On
  <2>1. remote.step = 0  BY <1>4 DEF RemoteInv
  <2>2. late <= 1  BY <1>2, <2>1 DEF Tick, Waiting, Low
  <2>3. age <= Timeout + 1 + late
    BY <1>2, <1>4 DEF AgeInv, Early, Timing, Positions
  <2>4. QED  BY <1>2, <2>2, <2>3
<1>5. QED  BY <1>3, <1>4

LEMMA TickMoves ==
  ASSUME SleepInv, Tick
  PROVE  /\ UNCHANGED <<ir, falling, active, chunks, sleeping, woke, main, raced>>
         /\ Interval' = Interval /\ (Heard' <=> Heard)
         /\ remote' \in [kind : {"off", "frame", "repeat"}, bits : Frames,
                         step : 0 .. FrameBits + 1, wait : Nat]
         /\ remote'.kind = remote.kind /\ remote'.bits = remote.bits /\ remote'.step = remote.step
         /\ IF On THEN remote.wait >= 1 /\ remote'.wait = remote.wait - 1
            ELSE remote'.wait = IF remote.wait < Gap THEN remote.wait + 1 ELSE remote.wait
         /\ age' = IF main = "asleep" THEN age ELSE age + 1
         /\ ahead' = IF main \in Timing THEN 1 ELSE ahead
         /\ main \in Timing => ahead = 0 /\ late = 0
         /\ late' = IF Waiting THEN late ELSE late + 1
         /\ ~Waiting => late < IF main = "print" THEN 2 ELSE 1
<1> USE SleepSizes DEF SleepInv
<1>1. UNCHANGED <<ir, falling, active, chunks, sleeping, woke, main, raced>>  BY DEF Tick
<1>2. /\ remote'.kind = remote.kind /\ remote'.bits = remote.bits /\ remote'.step = remote.step
      /\ remote' \in [kind : {"off", "frame", "repeat"}, bits : Frames,
                      step : 0 .. FrameBits + 1, wait : Nat]
      /\ IF On THEN remote.wait >= 1 /\ remote'.wait = remote.wait - 1
         ELSE remote'.wait = IF remote.wait < Gap THEN remote.wait + 1 ELSE remote.wait
  BY DEF Tick, RemoteInv, On
<1>3. Interval' = Interval  BY <1>2 DEF Interval
<1>4. Heard' <=> Heard  BY <1>1, <1>2 DEF Heard
<1>5. age' = IF main = "asleep" THEN age ELSE age + 1
  <2>1. CASE main = "asleep"  BY <2>1 DEF Tick
  <2>2. CASE main # "asleep"
    <3>1. age + 1 \in 0 .. Wrap - 1  BY <2>2, YoungerThanAWrap DEF LoopInv
    <3>2. (age + 1) % Wrap = age + 1  BY <3>1, SmallRemainder
    <3>3. QED  BY <2>2, <3>2 DEF Tick
  <2>3. QED  BY <2>1, <2>2
<1>6. /\ late' = IF Waiting THEN late ELSE late + 1
      /\ ~Waiting => late < IF main = "print" THEN 2 ELSE 1
  BY DEF Tick
<1>7. main \in Timing => ahead = 0 /\ late = 0
  BY <1>6 DEF Waiting, Timing, LoopInv
<1>8. ahead' = IF main \in Timing THEN 1 ELSE ahead
  <2>1. (0 + 1) % Wrap = 1  BY SmallRemainder
  <2>2. QED  BY <1>7, <2>1 DEF Tick
<1>9. QED  BY <1>1, <1>2, <1>3, <1>4, <1>5, <1>6, <1>7, <1>8

LEMMA TickKeeps == ASSUME SleepInv, Tick PROVE SleepInv'
<1>1. IntervalIs /\ LoopInv /\ RemoteInv  BY SpanFacts DEF SleepInv
<1>2. /\ age \in Nat /\ late \in 0 .. 2 /\ ahead \in {0, 1} /\ remote.wait \in Nat
      /\ remote.step \in Nat /\ main \in Positions
  BY FrameBitsType DEF SleepInv, LoopInv, RemoteInv
<1> USE <1>2, SleepSizes, TickMoves DEF SleepInv, On, Gone
<1>3. RemoteInv'  BY <1>1 DEF RemoteInv, IntervalIs
<1>4. LoopInv'
  <2>1. age' \in 0 .. Wrap - 1  BY <1>1, YoungerThanAWrap DEF LoopInv
  <2>2. late' \in 0 .. 2 /\ (main' \in {"wake", "event"} => late' <= 1)
    BY DEF Waiting
  <2>3. ahead' \in {0, 1} /\ (main' \in Timing => ahead' <= late')  BY DEF Waiting, Timing
  <2>4. QED  BY <2>1, <2>2, <2>3 DEF LoopInv
<1>5. IrInv'  BY DEF IrInv
<1>6. AgeInv'  BY <1>1 DEF AgeInv, Waiting, Low, RemoteInv, IntervalIs, Early, Timing
<1>7. HearsInv'
  <2> SUFFICES ASSUME On PROVE HearsInv'
    BY DEF HearsInv
  <2>1. Interval \in Nat /\ Gone' = Gone + 1  BY <1>1 DEF IntervalIs
  <2>2. remote.step >= 2 => main # "asleep"  BY DEF MeetsInv, Path
  <2>3. main = "renew" => ahead = 0 /\ ahead' = 1  BY DEF Timing
  <2>4. main = "width" => ahead = 0 /\ ahead' = 1 /\ age' = age + 1  BY DEF Timing
  <2>5. (remote.step >= 2 /\ falling => age = Gone)'  BY <2>1, <2>2 DEF HearsInv
  <2>6. (remote.step = 1 /\ falling /\ ~sleeping =>
           IF main = "asleep" THEN age <= 10 ELSE age >= Gone)'
    <3>1. CASE main = "asleep"  BY <3>1 DEF HearsInv
    <3>2. CASE main # "asleep"
      <4>1. age' = age + 1 /\ Gone \in Nat  BY <1>1, <2>1, <3>2 DEF RemoteInv
      <4>2. remote.step = 1 /\ falling /\ ~sleeping => age >= Gone  BY <3>2 DEF HearsInv
      <4>3. /\ remote'.step = remote.step /\ main' = main
            /\ (falling' <=> falling) /\ (sleeping' <=> sleeping)
        OBVIOUS
      <4>4. age >= Gone => age' >= Gone'
        <5> HIDE DEF Gone
        <5>1. QED  BY <2>1, <4>1
      <4>5. QED  BY ONLY <3>2, <4>2, <4>3, <4>4
    <3>3. QED  BY <3>1, <3>2
  <2>7. (main = "renew" /\ falling => remote.step = 1 /\ Gone <= ahead)'
    <3>1. Gone \in Nat  BY <1>1, <2>1 DEF RemoteInv
    <3>2. main = "renew" /\ falling => remote.step = 1 /\ Gone <= ahead  BY DEF HearsInv
    <3>3. remote'.step = remote.step /\ main' = main /\ (falling' <=> falling)
      OBVIOUS
    <3>4. main = "renew" /\ Gone <= ahead => Gone' <= ahead'
      <4> HIDE DEF Gone
      <4>1. QED  BY <2>1, <2>3, <3>1
    <3>5. QED  BY ONLY <3>2, <3>3, <3>4
  <2> HIDE DEF Gone
  <2>8. QED  BY <2>4, <2>5, <2>6, <2>7 DEF HearsInv
<1>8. MeetsInv'  BY <1>1 DEF MeetsInv, RemoteInv, IntervalIs, Timing, Rest, Path, Waiting, Low
<1>9. SilentInv'  BY <1>1 DEF SilentInv, AgeInv, RemoteInv, Timing, Early, Path, Waiting, Low,
            Positions
<1>10. UndisturbedInv'  BY <1>1 DEF UndisturbedInv, RemoteInv, Timing, Early
<1>11. QED  BY <1>3, <1>4, <1>5, <1>6, <1>7, <1>8, <1>9, <1>10

\* What every edge does.
LEMMA EdgeMoves ==
  ASSUME LoopInv, int0_isr
  PROVE  /\ falling' /\ age' = 0 /\ active' /\ chunks' = 0 /\ ~sleeping' /\ ahead' = ahead
         /\ falling' \in BOOLEAN /\ active' \in BOOLEAN /\ sleeping' \in BOOLEAN /\ woke' \in BOOLEAN
         /\ main' = IF main = "asleep" THEN "wake" ELSE main
         /\ late' = IF main = "asleep" THEN 0 ELSE late
         /\ ir' = IF sleeping THEN Reset ELSE Fed
<1>1. CASE sleeping  BY <1>1 DEF int0_isr, Resume, Wake, LoopInv
<1>2. CASE ~sleeping  BY <1>2 DEF int0_isr, Resume, Feed, LoopInv
<1>3. QED  BY <1>1, <1>2

LEMMA EdgeKeepsLoop == ASSUME SleepInv, int0_isr, raced' \in BOOLEAN PROVE LoopInv'
<1> USE SleepSizes, EdgeMoves DEF SleepInv
<1>1. /\ age' \in 0 .. Wrap - 1 /\ ahead' \in {0, 1} /\ chunks' \in 0 .. Chunks /\ chunks' < Chunks
      /\ main' \in Positions /\ late' \in 0 .. 2
  BY DEF LoopInv, Positions
<1>2. (main' \in {"wake", "event"} => late' <= 1) /\ (main' \in Timing => ahead' <= late')
  BY DEF LoopInv, Timing
<1>3. QED  BY <1>1, <1>2 DEF LoopInv

\* A transmission begins: the decoder is idle and the edge brings no interval.
LEMMA FirstEdgeMeets ==
  ASSUME SleepInv, ~On, remote.wait = Gap
  PROVE  /\ ir.state = "IDLE" /\ ~falling /\ ir.bits = <<>>
         /\ main = "asleep" => sleeping
         /\ main \notin {"expire_repeat", "expire_bits"}
         /\ ir.event # "NONE" => main \in {"wake", "event", "forget", "renew", "count", "reset"}
<1> USE SleepSizes DEF SleepInv
<1>1. ir.state = "IDLE" /\ ~falling
  <2>1. CASE main = "asleep"  BY <2>1 DEF SilentInv, Path
  <2>2. CASE main # "asleep"  BY <2>2 DEF SilentInv, LoopInv
  <2>3. QED  BY <2>1, <2>2
<1>2. main = "asleep" => sleeping  BY DEF SilentInv
<1>3. main \notin {"expire_repeat", "expire_bits"}  BY <1>1 DEF SilentInv, IrInv
<1>4. late \in 0 .. 2 /\ main \in Positions  BY DEF LoopInv
<1>5. ir.event # "NONE" => main \in {"wake", "event", "forget", "renew", "count", "reset"}
  BY <1>4 DEF IrInv, SilentInv, Positions
<1>6. QED  BY <1>1, <1>2, <1>3, <1>5 DEF IrInv

LEMMA FirstEdgeHeard ==
  ASSUME SleepInv, NEW kind, NEW bits, FirstEdge(kind, bits)
  PROVE  ir' \in Receivers /\ ir'.state = "IDLE" /\ ir'.bits = <<>> /\ ir'.event = ir.event
<1>1. ~On /\ remote.wait = Gap /\ LoopInv /\ IrInv /\ Falls
  BY DEF FirstEdge, SleepInv, On
<1>2. ir.state = "IDLE" /\ ~falling /\ ir.bits = <<>> /\ (main = "asleep" => sleeping)
  BY <1>1, FirstEdgeMeets
<1>3. CASE LostEdge
  BY <1>1, <1>2, <1>3 DEF LostEdge, IrInv
<1>4. CASE int0_isr /\ sleeping
  <2>1. ir.event = "NONE"  BY <1>1, <1>4 DEF LoopInv, IrInv
  <2>2. QED  BY <1>1, <1>4, <2>1, EdgeMoves, ResetType
<1>5. CASE int0_isr /\ ~sleeping
  BY <1>1, <1>2, <1>5, EdgeMoves DEF Fed, IrInv
<1>6. QED  BY <1>1, <1>3, <1>4, <1>5 DEF Falls

LEMMA ServedFirstEdgeKeeps ==
  ASSUME SleepInv, NEW kind \in {"frame", "repeat"}, NEW bits \in Frames,
         kind = "repeat" => bits = Reset.frame, FirstEdge(kind, bits), int0_isr
  PROVE  SleepInv'
<1> USE SleepSizes
<1>1. /\ ~On /\ remote.wait = Gap /\ LoopInv /\ IrInv /\ int0_isr
      /\ raced' = (main \in Window) /\ raced' \in BOOLEAN
  BY DEF FirstEdge, SleepInv, On
<1>2. /\ ir.state = "IDLE" /\ ~falling /\ ir.bits = <<>> /\ (main = "asleep" => sleeping)
      /\ main \notin {"expire_repeat", "expire_bits"}
      /\ ir.event # "NONE" => main \in {"wake", "event", "forget", "renew", "count", "reset"}
  BY <1>1, FirstEdgeMeets
<1>3. ir' \in Receivers /\ ir'.state = "IDLE" /\ ir'.bits = <<>> /\ ir'.event = ir.event
  BY FirstEdgeHeard
<1>4. /\ remote' = [kind |-> kind, bits |-> bits, step |-> 1, wait |-> IF kind = "frame" THEN 12 ELSE 10]
      /\ Interval' = IF kind = "frame" THEN 12 ELSE 10
  BY IntervalsAre DEF FirstEdge, Interval
<1>5. /\ remote'.kind = kind /\ remote'.bits = bits /\ remote'.step = 1
      /\ remote'.wait = Interval' /\ Gone' = 0
      /\ remote' \in [kind : {"off", "frame", "repeat"}, bits : Frames,
                     step : 0 .. FrameBits + 1, wait : Nat]
  BY <1>4, FrameBitsType DEF Gone
<1>6. main' = (IF main = "asleep" THEN "wake" ELSE main)
      /\ late' = (IF main = "asleep" THEN 0 ELSE late) /\ late' \in 0 .. 2 /\ main \in Positions
  BY <1>1, EdgeMoves DEF LoopInv
<1>7. falling' /\ ~sleeping' /\ age' = 0 /\ chunks' = 0 /\ ahead' \in {0, 1}
  BY <1>1, EdgeMoves DEF LoopInv
<1>8. On'  BY <1>5 DEF On
<1> USE <1>2, <1>3, <1>4, <1>5, <1>6, <1>7, <1>8
<1>9. RemoteInv'  BY DEF RemoteInv, FirstEdge, On
<1>10. LoopInv'  BY <1>1, EdgeKeepsLoop
<1>11. IrInv'  BY FrameBitsType DEF IrInv
<1>12. AgeInv'
  <2>1. PICK l \in Nat : late' = l  OBVIOUS
  <2>2. age' = 0 /\ late' = l /\ Gone' = 0  BY <2>1
  <2>3. QED  BY ONLY <2>2, SleepSizes DEF AgeInv
<1>13. HearsInv'
  <2>1. age' = 0 /\ Gone' = 0 /\ remote'.step = 1 /\ ahead' \in Nat /\ ir'.state = "IDLE"
    OBVIOUS
  <2>2. main' # "asleep"  OBVIOUS
  <2>3. QED  BY ONLY <2>1, <2>2 DEF HearsInv
<1>14. MeetsInv'
  <2>1. /\ remote'.kind = kind /\ remote'.step = 1 /\ remote'.wait \in Nat
        /\ remote'.wait >= 10 /\ chunks' = 0 /\ late' \in Nat
    OBVIOUS
  <2>2. main' = "width" => falling'  OBVIOUS
  <2>3. main' # "expire_repeat" /\ main' # "asleep"  OBVIOUS
  <2>4. main' \in Path => raced'
    BY <1>1 DEF Path, Window
  <2>5. ir'.event # "NONE" =>
          main' \in {"wake", "event", "forget", "renew", "count", "reset"}
    OBVIOUS
  <2>6. QED  BY ONLY <2>1, <2>2, <2>3, <2>4, <2>5 DEF MeetsInv, On, Rest, Path
<1>15. SilentInv'  BY DEF SilentInv
<1>16. UndisturbedInv'
  <2>1. ~raced' => main' \in Early \cup {"renew", "count"}
    BY <1>1 DEF Early, Window, Positions
  <2>2. main' # "width" \/ raced'  BY <1>1 DEF Window
  <2>3. QED  BY <2>1, <2>2 DEF UndisturbedInv
<1>17. QED  BY <1>9, <1>10, <1>11, <1>12, <1>13, <1>14, <1>15, <1>16 DEF SleepInv

\* The flag was cleared with the edge: the device sleeps as if nothing had come.
LEMMA LostFirstEdgeKeeps ==
  ASSUME SleepInv, NEW kind \in {"frame", "repeat"}, NEW bits \in Frames,
         kind = "repeat" => bits = Reset.frame, FirstEdge(kind, bits), LostEdge
  PROVE  SleepInv'
<1>1. /\ ~On /\ remote.wait = Gap /\ LoopInv /\ IrInv /\ AgeInv /\ SilentInv
      /\ raced' /\ raced' \in BOOLEAN /\ main = "flag" /\ main' = "down"
      /\ UNCHANGED <<ir, falling, age, active, chunks, sleeping, woke, ahead, late>>
  BY DEF FirstEdge, LostEdge, SleepInv, On, Window, flags
<1>2. ir.state = "IDLE" /\ ~falling /\ ir.bits = <<>>
  BY <1>1, FirstEdgeMeets
<1>3. ir.event = "NONE" /\ sleeping
  BY <1>1 DEF IrInv, SilentInv
<1>4. /\ remote' = [kind |-> kind, bits |-> bits, step |-> 1, wait |-> IF kind = "frame" THEN 12 ELSE 10]
      /\ Interval' = IF kind = "frame" THEN 12 ELSE 10
  BY IntervalsAre DEF FirstEdge, Interval
<1>5. /\ remote'.kind = kind /\ remote'.bits = bits /\ remote'.step = 1
      /\ remote'.wait = Interval' /\ remote'.wait \in Nat /\ remote'.wait >= 10 /\ Gone' = 0
      /\ remote' \in [kind : {"off", "frame", "repeat"}, bits : Frames,
                     step : 0 .. FrameBits + 1, wait : Nat]
  BY <1>4, FrameBitsType DEF Gone
<1>6. On'  BY <1>5 DEF On
<1>7. RemoteInv'  BY <1>4, <1>5, <1>6 DEF RemoteInv, FirstEdge, On
<1>8. LoopInv'  BY <1>1 DEF LoopInv, Positions, Timing
<1>9. IrInv'  BY <1>1, <1>2, <1>3 DEF IrInv
<1>10. AgeInv'
  <2>1. age \in Nat /\ age <= 3
    <3>1. age <= 1 + late /\ late \in 0 .. 2 /\ age \in Nat
      BY <1>1, SleepSizes DEF AgeInv, LoopInv
    <3> QED BY <3>1
  <2>2. main' \notin Early \cup Timing \cup {"count", "reset", "idle", "clear", "mark", "unwake"}
    BY <1>1 DEF Early, Timing
  <2>3. QED  BY <1>1, <1>2, <1>3, <1>5, <1>6, <2>1, <2>2 DEF AgeInv
<1>11. HearsInv'  BY <1>1, <1>2, <1>3, <1>5 DEF HearsInv
<1>12. MeetsInv'  BY <1>1, <1>3, <1>5 DEF MeetsInv, Rest, Path
<1>13. SilentInv'  BY <1>6 DEF SilentInv
<1>14. UndisturbedInv'  BY <1>1 DEF UndisturbedInv
<1>15. QED  BY <1>7, <1>8, <1>9, <1>10, <1>11, <1>12, <1>13, <1>14 DEF SleepInv

LEMMA FirstEdgeKeeps ==
  ASSUME SleepInv, NEW kind \in {"frame", "repeat"}, NEW bits \in Frames,
         kind = "repeat" => bits = Reset.frame, FirstEdge(kind, bits)
  PROVE  SleepInv'
<1>1. CASE int0_isr  BY <1>1, ServedFirstEdgeKeeps
<1>2. CASE LostEdge  BY <1>2, LostFirstEdgeKeeps
<1>3. QED  BY <1>1, <1>2 DEF FirstEdge, Falls

-----------------------------------------------------------------------------
(* A later edge: it finds the main loop in its round, or asleep. *)

LEMMA EdgeMeets ==
  ASSUME SleepInv, On, remote.wait = 0
  PROVE  /\ main \in Early \cup {"width", "asleep"} /\ ir.event = "NONE" /\ Gone = Interval
         /\ main = "asleep" => remote.step = 1 /\ raced
         /\ sleeping => main = "asleep"
<1>1. IntervalIs  BY SpanFacts DEF SleepInv
<1>2. late \in 0 .. 2 /\ main \in Positions  BY DEF SleepInv, LoopInv
<1>3. Gone = Interval  BY <1>1 DEF Gone, IntervalIs
<1>4. ir.event = "NONE"  BY <1>2 DEF SleepInv, MeetsInv
<1>5. main \notin Rest /\ main \notin Path \ {"asleep"}  BY <1>2 DEF SleepInv, MeetsInv
<1>6. main \in Early \cup {"width", "asleep"}
  BY <1>2, <1>5 DEF Positions, Rest, Path, Early
<1>7. main = "asleep" => remote.step = 1 /\ raced  BY DEF SleepInv, MeetsInv, Path
<1>8. sleeping => main = "asleep"  BY <1>6 DEF SleepInv, LoopInv, Early
<1>9. QED  BY <1>3, <1>4, <1>6, <1>7, <1>8

LEMMA EdgeIsServed == ASSUME SleepInv, Edge PROVE On /\ remote.wait = 0 /\ int0_isr
<1>1. On /\ remote.wait = 0 /\ Falls  BY DEF Edge, On
<1>2. main # "flag"  BY <1>1, EdgeMeets DEF Early
<1>3. QED  BY <1>1, <1>2 DEF Falls, LostEdge

\* The interval behind the lead, when the receiver did not sleep through the lead.
LEMMA LeadHeard ==
  ASSUME SleepInv, Edge, remote.step = 1
  PROVE  /\ ir' \in Receivers /\ ir'.bits = <<>> /\ ir'.event = "NONE"
         /\ ir'.state = "FALLING_REPEAT" /\ remote.kind = "frame" => main = "asleep"
         /\ remote.kind = "frame" /\ falling /\ main # "asleep" => ir'.state = "FALLING_BITS"
<1>1. On /\ remote.wait = 0 /\ int0_isr  BY EdgeIsServed
<1>2. /\ main \in Early \cup {"width", "asleep"} /\ ir.event = "NONE" /\ Gone = Interval
      /\ sleeping => main = "asleep"
  BY <1>1, EdgeMeets
<1>3. IntervalIs /\ LoopInv  BY SpanFacts DEF SleepInv
<1>4. ir \in Receivers /\ ir.state = "IDLE" /\ ir.bits = <<>>
  BY <1>1 DEF SleepInv, HearsInv, IrInv
<1>5. CASE sleeping \/ ~falling
  BY <1>2, <1>3, <1>1, <1>4, <1>5, EdgeMoves, ResetType DEF Fed
<1>6. CASE ~sleeping /\ falling
  <2>1. age \in Nat /\ ir' = FeedFalling(ir, age * Unit)
    BY <1>1, <1>3, <1>6, EdgeMoves DEF Fed, LoopInv
  <2>2. ir' = IF age \in 12 .. 14 THEN Decoder("FALLING_BITS", <<>>, ir.event, ir.frame)
              ELSE IF age \in 9 .. 11 THEN Decoder("FALLING_REPEAT", <<>>, ir.event, ir.frame)
              ELSE ir
    BY <1>4, <2>1, FeedLeadInterval, ReceiversDecode
  <2>3. ir' \in Receivers /\ ir'.bits = <<>> /\ ir'.event = "NONE"
    BY <1>2, <1>4, <2>2 DEF Receivers, Decoder
  <2>4. remote.kind = "frame" /\ main # "asleep" => age \in 12 .. 14
    <3> SUFFICES ASSUME remote.kind = "frame", main # "asleep" PROVE age \in 12 .. 14
      OBVIOUS
    <3>1. Interval = 12  BY <1>1, <1>3 DEF IntervalIs
    <3>2. age >= 12  BY <1>1, <1>2, <1>6, <3>1 DEF SleepInv, HearsInv
    <3>3. age <= 13
      <4>1. main \notin {"down", "asleep"} \/ main = "asleep"  BY <1>2 DEF Early
      <4>2. main # "asleep" => age <= Gone + 1  BY <1>1, <4>1 DEF SleepInv, AgeInv
      <4> QED BY <1>2, <3>1, <4>2
    <3>4. QED  BY <2>1, <3>2, <3>3
  <2>5. QED  BY <2>2, <2>3, <2>4 DEF Decoder
<1>7. QED  BY <1>5, <1>6

\* The interval behind a bit: a decoder that has heard all before it hears this one.
LEMMA BitHeard ==
  ASSUME SleepInv, Edge, remote.step >= 2
  PROVE  /\ ir' \in Receivers /\ Len(ir'.bits) < FrameBits
         /\ ir'.state \in {"IDLE", "FALLING_BITS"} /\ (ir'.state = "IDLE" => ir'.bits = <<>>)
         /\ ir'.state = "FALLING_BITS" =>
              /\ Len(ir'.bits) <= remote.step - 1
              /\ Len(ir'.bits) = remote.step - 1 =>
                   \A i \in 1 .. Len(ir'.bits) : ir'.bits[i] = remote.bits[i]
         /\ ir'.event # "NONE" => LastEdge /\ ir'.event = "FRAME" /\ ir'.frame = remote.bits
         /\ falling /\ ir.state = "FALLING_BITS" /\ Len(ir.bits) = remote.step - 2 =>
              IF LastEdge THEN ir'.event = "FRAME"
              ELSE ir'.state = "FALLING_BITS" /\ Len(ir'.bits) = remote.step - 1
<1>1. On /\ remote.wait = 0 /\ int0_isr  BY EdgeIsServed
<1>2. /\ main \in Early \cup {"width"} /\ ir.event = "NONE" /\ Gone = Interval /\ ~sleeping
  BY <1>1, EdgeMeets
<1>3. IntervalIs /\ LoopInv  BY SpanFacts DEF SleepInv
<1>4. /\ ir \in Receivers /\ ir \in Decoders /\ Len(ir.bits) \in Nat /\ Len(ir.bits) < FrameBits
      /\ ir.state \in {"IDLE", "FALLING_REPEAT", "FALLING_BITS"}
      /\ ir.state # "FALLING_BITS" => ir.bits = <<>>
  BY ReceiversDecode DEF SleepInv, IrInv, Receivers
<1>5. FrameBits \in Nat /\ FrameBits >= 4 /\ remote.step \in 2 .. FrameBits + 1
      /\ remote.bits \in Frames
  BY FrameBitsType DEF SleepInv, RemoteInv
<1>6. ir' = IF falling THEN FeedFalling(ir, age * Unit) ELSE ir
  BY <1>1, <1>2, <1>3, EdgeMoves DEF Fed
<1>7. CASE ~falling
  <2>1. ir.state # "FALLING_REPEAT"  BY <1>1, <1>7 DEF SleepInv, HearsInv
  <2>2. ir.state = "FALLING_BITS" => Len(ir.bits) <= remote.step - 2
    BY <1>1 DEF SleepInv, HearsInv
  <2>3. QED  BY <1>2, <1>4, <1>5, <1>6, <1>7, <2>1, <2>2
<1> DEFINE b == remote.bits[remote.step - 1]
<1>8. b \in {0, 1} /\ Interval = b + 1 /\ (LastEdge <=> remote.step = FrameBits + 1)
  BY <1>1, <1>3, <1>5 DEF IntervalIs
<1>9. falling => age = b + 1 /\ age \in Nat
  BY <1>1, <1>2, <1>8, <1>5 DEF SleepInv, HearsInv
<1>10. CASE falling /\ ir.state = "IDLE"
  <2>1. ir' = ir  BY <1>4, <1>6, <1>8, <1>9, <1>10, FeedLeadInterval
  <2>2. QED  BY <1>2, <1>4, <1>10, <2>1
<1>11. CASE falling /\ ir.state # "IDLE"
  <2>1. /\ Len(ir.bits) <= remote.step - 2
        /\ Len(ir.bits) = remote.step - 2 => Heard
    BY <1>1, <1>4, <1>5, <1>11 DEF SleepInv, HearsInv, Heard
  <2> DEFINE more == Append(ir.bits, b)
             pushed == Decoder("FALLING_BITS", more, ir.event, ir.frame)
  <2>2. more \in Seq({0, 1}) /\ Len(more) = Len(ir.bits) + 1
    BY <1>4, <1>8 DEF Receivers
  <2>3. Len(ir.bits) = remote.step - 2 => \A i \in 1 .. Len(more) : more[i] = remote.bits[i]
    <3> SUFFICES ASSUME Len(ir.bits) = remote.step - 2, NEW i \in 1 .. Len(more)
                 PROVE  more[i] = remote.bits[i]
      OBVIOUS
    <3>1. CASE i = Len(ir.bits) + 1
      BY <1>4, <1>5, <3>1 DEF Receivers
    <3>2. CASE i \in 1 .. Len(ir.bits)
      <4>1. more[i] = ir.bits[i]  BY <1>4, <3>2 DEF Receivers
      <4>2. QED  BY <2>1, <3>2, <4>1 DEF Heard
    <3>3. QED  BY <1>4, <2>2, <3>1, <3>2
  <2>4. ir' = IF Len(ir.bits) + 1 >= FrameBits THEN FinishFrame(pushed) ELSE pushed
    BY <1>4, <1>6, <1>8, <1>9, <1>11, FeedBitInterval
  <2>5. /\ pushed \in Receivers /\ pushed.bits = more /\ pushed.event = "NONE"
        /\ pushed.state = "FALLING_BITS" /\ pushed.frame = ir.frame
    BY <1>2, <1>4, <2>2 DEF Receivers, Decoder
  <2> HIDE DEF b, more, pushed
  <2>6. CASE Len(ir.bits) + 1 >= FrameBits
    <3>1. LastEdge /\ Len(ir.bits) = remote.step - 2 /\ Len(more) = FrameBits
      BY <1>4, <1>5, <1>8, <2>1, <2>2, <2>6
    <3>2. more = remote.bits
      <4>1. more \in [1 .. FrameBits -> {0, 1}]  BY <2>2, <3>1
      <4>2. \A i \in 1 .. FrameBits : more[i] = remote.bits[i]  BY <2>3, <3>1
      <4>3. QED  BY <1>5, <4>1, <4>2 DEF Frames
    <3>3. remote.kind = "frame" /\ Valid(remote.bits)
      BY <1>1, <1>3, <1>5 DEF SleepInv, RemoteInv, IntervalIs
    <3>4. FinishFrame(pushed) = Decoder("IDLE", <<>>, Noted(pushed, "FRAME"), more)
      BY <2>5, <3>2, <3>3, FinishFrameIs, ReceiversDecode
    <3>5. ir' = Decoder("IDLE", <<>>, "FRAME", remote.bits)
      BY <2>4, <2>5, <2>6, <3>2, <3>4 DEF Noted
    <3>6. ir' \in Receivers  BY <1>5, <3>5 DEF Receivers, Decoder
    <3>7. QED  BY <1>5, <3>1, <3>5, <3>6 DEF Decoder
  <2>7. CASE ~(Len(ir.bits) + 1 >= FrameBits)
    <3>1. ir' = pushed  BY <2>4, <2>7
    <3>2. Len(ir.bits) = remote.step - 2 => ~LastEdge
      BY <1>4, <1>5, <1>8, <2>7
    <3>3. /\ ir' \in Receivers /\ ir'.bits = more /\ ir'.state = "FALLING_BITS"
          /\ ir'.event = "NONE" /\ Len(ir'.bits) = Len(ir.bits) + 1
      BY <2>2, <2>5, <3>1
    <3>4. Len(ir'.bits) < FrameBits /\ Len(ir'.bits) <= remote.step - 1
      BY <1>4, <1>5, <2>1, <2>7, <3>3
    <3>5. Len(ir'.bits) = remote.step - 1 =>
            \A i \in 1 .. Len(ir'.bits) : ir'.bits[i] = remote.bits[i]
      BY <1>4, <1>5, <2>3, <3>3
    <3>6. Len(ir.bits) = remote.step - 2 => ~LastEdge /\ Len(ir'.bits) = remote.step - 1
      BY <1>4, <1>5, <3>2, <3>3
    <3>7. QED  BY ONLY <3>3, <3>4, <3>5, <3>6, Zenon
  <2>8. QED  BY <2>6, <2>7
<1>12. QED  BY <1>7, <1>10, <1>11

LEMMA EdgeMovesRemote ==
  ASSUME SleepInv, Edge
  PROVE  /\ RemoteInv' /\ remote'.bits = remote.bits
         /\ LastEdge => remote'.kind = "off" /\ remote'.wait = 0
         /\ ~LastEdge => /\ remote.kind = "frame" /\ remote'.kind = "frame"
                         /\ remote'.step = remote.step + 1
                         /\ remote'.wait \in Nat /\ remote'.wait >= 1 /\ Gone' = 0
<1>1. IntervalIs /\ RemoteInv  BY SpanFacts DEF SleepInv
<1>2. FrameBits \in Nat /\ FrameBits >= 4  BY FrameBitsType
<1>3. /\ On /\ remote.wait = 0 /\ remote.step \in 1 .. FrameBits + 1
      /\ remote.kind \in {"frame", "repeat"} /\ remote.bits \in Frames
  BY <1>1, <1>2 DEF Edge, On, RemoteInv
<1> DEFINE Remotes == [kind : {"off", "frame", "repeat"}, bits : Frames,
                       step : 0 .. FrameBits + 1, wait : Nat]
<1>r. remote \in Remotes  BY <1>1 DEF RemoteInv
<1>4. CASE LastEdge
  <2>1. remote' = [remote EXCEPT !.kind = "off", !.step = 0]  BY <1>4 DEF Edge
  <2>2. /\ remote'.kind = "off" /\ remote'.wait = 0 /\ remote'.bits = remote.bits
        /\ remote'.step = 0 /\ remote' \in Remotes
    <3>1. remote' = [kind |-> "off", bits |-> remote.bits, step |-> 0, wait |-> remote.wait]
      BY <1>r, <2>1
    <3>2. 0 \in 0 .. FrameBits + 1  BY <1>2
    <3>3. QED  BY ONLY <1>3, <3>1, <3>2
  <2>3. RemoteInv'  BY <2>2, SleepSizes DEF RemoteInv, On
  <2>4. QED  BY <1>4, <2>2, <2>3
<1>5. CASE ~LastEdge
  <2>1. remote.kind = "frame" /\ remote.step \in 1 .. FrameBits
        /\ remote.step + 1 \in 2 .. FrameBits + 1
    BY <1>1, <1>2, <1>3, <1>5 DEF IntervalIs
  <2> DEFINE next == Intervals(remote.kind, remote.bits)[remote.step + 1]
  <2>2. next = remote.bits[remote.step] + 1 /\ remote.bits[remote.step] \in {0, 1}
    <3>1. remote.bits[remote.step] \in {0, 1}  BY <1>3, <2>1 DEF Frames
    <3>2. next = remote.bits[remote.step + 1 - 1] + 1  BY <1>3, <2>1, IntervalsAre
    <3>3. remote.step + 1 - 1 = remote.step  BY <2>1, <1>2
    <3>4. QED  BY <3>1, <3>2, <3>3
  <2>3. next \in Nat /\ next >= 1  BY <2>2
  <2>4. remote' = [remote EXCEPT !.step = @ + 1, !.wait = next]  BY <1>5 DEF Edge
  <2> HIDE DEF next
  <2>5. /\ remote'.kind = "frame" /\ remote'.wait = next /\ remote'.bits = remote.bits
        /\ remote'.step = remote.step + 1 /\ remote' \in Remotes
    <3>1. remote' = [kind |-> "frame", bits |-> remote.bits, step |-> remote.step + 1,
                     wait |-> next]
      BY <1>r, <2>1, <2>4
    <3>2. remote.step + 1 \in 0 .. FrameBits + 1  BY <1>2, <2>1
    <3>3. QED  BY ONLY <1>3, <2>3, <3>1, <3>2
  <2>6. Interval' = next  BY <2>1, <2>5 DEF Interval, next
  <2>7. Gone' = 0  BY <2>3, <2>5, <2>6 DEF Gone
  <2>8. Valid(remote.bits)  BY <1>1, <2>1 DEF RemoteInv
  <2>9. RemoteInv'
    <3>1. remote'.step >= 1 /\ remote'.wait <= Interval'
      BY <2>1, <2>3, <2>5, <2>6
    <3>2. Valid(remote'.bits)  BY <2>5, <2>8
    <3>3. QED  BY <2>5, <3>1, <3>2 DEF RemoteInv, On
  <2>10. QED  BY <1>5, <2>1, <2>3, <2>5, <2>7, <2>9
<1>6. QED  BY <1>4, <1>5

\* The decoder behind an edge, whatever the edge was.
LEMMA EdgeHeard ==
  ASSUME SleepInv, Edge
  PROVE  /\ ir' \in Receivers /\ Len(ir'.bits) < FrameBits
         /\ ir'.state # "FALLING_BITS" => ir'.bits = <<>>
         /\ ir'.event # "NONE" =>
              remote.step >= 2 /\ LastEdge /\ ir'.event = "FRAME" /\ ir'.frame = remote.bits
         /\ ir'.state = "FALLING_REPEAT" =>
              remote.step = 1 /\ (remote.kind = "frame" => main = "asleep")
         /\ ir'.state = "FALLING_BITS" =>
              /\ Len(ir'.bits) <= remote.step - 1
              /\ Len(ir'.bits) = remote.step - 1 =>
                   \A i \in 1 .. Len(ir'.bits) : ir'.bits[i] = remote.bits[i]
         /\ remote.kind = "frame" /\ ~raced' =>
              IF LastEdge THEN ir'.event = "FRAME" /\ ir'.frame = remote.bits
              ELSE ir'.state = "FALLING_BITS" /\ Len(ir'.bits) = remote.step - 1
<1>1. /\ FrameBits \in Nat /\ FrameBits >= 4 /\ IntervalIs /\ RemoteInv /\ LoopInv
      /\ On /\ remote.wait = 0 /\ remote.step \in 1 .. FrameBits + 1
      /\ raced' = (raced \/ main \in Window)
  BY FrameBitsType, SpanFacts DEF SleepInv, Edge, On, RemoteInv
<1>2. remote.kind = "frame" /\ ~raced' =>
        /\ falling /\ main # "asleep"
        /\ remote.step >= 2 => ir.state = "FALLING_BITS" /\ Len(ir.bits) = remote.step - 2
  BY <1>1 DEF SleepInv, UndisturbedInv, Early
<1>3. CASE remote.step = 1
  <2>1. /\ ir' \in Receivers /\ ir'.bits = <<>> /\ ir'.event = "NONE"
        /\ ir'.state = "FALLING_REPEAT" /\ remote.kind = "frame" => main = "asleep"
        /\ remote.kind = "frame" /\ falling /\ main # "asleep" => ir'.state = "FALLING_BITS"
    BY <1>3, LeadHeard
  <2>2. remote.kind = "frame" => ~LastEdge  BY <1>1, <1>3 DEF IntervalIs
  <2>3. Len(ir'.bits) = 0  BY <2>1
  <2>4. QED  BY <1>1, <1>2, <1>3, <2>1, <2>2, <2>3
<1>4. CASE remote.step >= 2
  <2>1. /\ ir' \in Receivers /\ Len(ir'.bits) < FrameBits
        /\ ir'.state \in {"IDLE", "FALLING_BITS"} /\ (ir'.state = "IDLE" => ir'.bits = <<>>)
        /\ ir'.state = "FALLING_BITS" =>
             /\ Len(ir'.bits) <= remote.step - 1
             /\ Len(ir'.bits) = remote.step - 1 =>
                  \A i \in 1 .. Len(ir'.bits) : ir'.bits[i] = remote.bits[i]
        /\ ir'.event # "NONE" => LastEdge /\ ir'.event = "FRAME" /\ ir'.frame = remote.bits
        /\ falling /\ ir.state = "FALLING_BITS" /\ Len(ir.bits) = remote.step - 2 =>
             IF LastEdge THEN ir'.event = "FRAME"
             ELSE ir'.state = "FALLING_BITS" /\ Len(ir'.bits) = remote.step - 1
    BY <1>4, BitHeard
  <2>2. QED  BY <1>2, <1>4, <2>1
<1>5. QED  BY <1>1, <1>3, <1>4

LEMMA EdgeKeeps == ASSUME SleepInv, Edge PROVE SleepInv'
<1>1. /\ int0_isr /\ LoopInv /\ raced' = (raced \/ main \in Window) /\ raced' \in BOOLEAN
      /\ On /\ remote.wait = 0
  BY EdgeIsServed DEF Edge, SleepInv, On, LoopInv
<1>2. IntervalIs /\ RemoteInv /\ FrameBits \in Nat /\ FrameBits >= 4 /\ remote.step \in Nat
  BY SpanFacts, FrameBitsType DEF SleepInv, RemoteInv
<1>3. /\ main \in Early \cup {"width", "asleep"} /\ (main = "asleep" => raced)
      /\ main' = (IF main = "asleep" THEN "wake" ELSE main)
  BY <1>1, EdgeMeets, EdgeMoves
<1>4. PICK l \in Nat : late' = l  BY <1>1, EdgeMoves DEF LoopInv
<1>5. falling' /\ ~sleeping' /\ age' = 0 /\ chunks' = 0 /\ ahead' \in {0, 1}
  BY <1>1, EdgeMoves DEF LoopInv
<1>6. RemoteInv' /\ remote'.bits = remote.bits  BY EdgeMovesRemote
<1>7. LoopInv'  BY <1>1, EdgeKeepsLoop DEF SleepInv
<1>8. main' \in Early \cup {"width"} /\ (main' = "width" => raced')
  BY <1>1, <1>3 DEF Early, Window
<1>9. main' \notin Rest \cup Path \cup {"expire_repeat", "expire_bits", "renew", "count", "asleep"}
  BY <1>8 DEF Early, Rest, Path
<1>10. IrInv'  BY <1>9, EdgeHeard DEF IrInv, Path
<1>11. Gone' = 0 \/ ~On'  BY EdgeMovesRemote DEF On
<1>12. AgeInv'
  BY ONLY <1>4, <1>5, <1>11, SleepSizes DEF AgeInv
<1>13. CASE LastEdge
  <2>1. remote'.kind = "off" /\ remote'.wait = 0  BY <1>13, EdgeMovesRemote
  <2>2. ir'.state = "FALLING_REPEAT" => remote'.bits = Reset.frame
    <3>1. SUFFICES ASSUME ir'.state = "FALLING_REPEAT" PROVE remote.bits = Reset.frame
      BY <1>6
    <3>2. remote.step = 1  BY <3>1, EdgeHeard
    <3>3. remote.kind = "repeat"  BY <1>1, <1>2, <1>13, <3>2 DEF IntervalIs
    <3>4. QED  BY <1>2, <3>3 DEF RemoteInv
  <2>3. SilentInv'
    <3>1. remote'.wait = age' /\ age' < Gap /\ remote'.wait <= late'
      BY ONLY <1>4, <1>5, <2>1, SleepSizes
    <3>2. main' \notin {"forget", "renew", "count"} \cup Path
          /\ main' \notin {"unwake", "drain", "flag", "down", "asleep"} /\ main' # "expire_repeat"
          /\ main' \notin {"renew", "count"} \cup Path
      BY <1>8 DEF Early, Path
    <3>3. QED  BY ONLY <1>5, <2>2, <3>1, <3>2 DEF SilentInv
  <2>4. HearsInv' /\ MeetsInv' /\ UndisturbedInv'
    BY ONLY <2>1 DEF HearsInv, MeetsInv, UndisturbedInv, On
  <2>5. QED  BY <1>6, <1>7, <1>10, <1>12, <2>3, <2>4 DEF SleepInv
<1>14. CASE ~LastEdge
  <2>1. /\ remote.kind = "frame" /\ remote'.kind = "frame" /\ remote'.step = remote.step + 1
        /\ remote'.wait \in Nat /\ remote'.wait >= 1 /\ Gone' = 0
    BY <1>14, EdgeMovesRemote
  <2>2. remote'.step >= 2 /\ remote'.step - 2 = remote.step - 1
    BY <1>1, <1>2, <2>1 DEF RemoteInv
  <2>3. ir'.event = "NONE"  BY <1>14, EdgeHeard
  <2>4. ir'.state = "FALLING_REPEAT" => remote'.step = 2 /\ main' \in Early
    BY <1>3, <2>1, EdgeHeard DEF Early
  <2>5. ir'.state = "FALLING_BITS" =>
          Len(ir'.bits) <= remote'.step - 2 /\ (Len(ir'.bits) = remote'.step - 2 => Heard')
    BY <1>6, <2>2, EdgeHeard DEF Heard
  <2>6. HearsInv'
    <3>1. remote'.step # 1  BY <1>1, <1>2, <2>1 DEF RemoteInv
    <3>2. main' = "width" => main' \notin Early  BY DEF Early
    <3>3. QED  BY ONLY <1>5, <1>9, <2>1, <2>4, <2>5, <3>1, <3>2 DEF HearsInv
  <2>7. MeetsInv'
    BY ONLY <1>5, <1>9, <2>3 DEF MeetsInv
  <2>8. SilentInv'  BY ONLY <2>1 DEF SilentInv, On
  <2>9. UndisturbedInv'
    <3> SUFFICES ASSUME ~raced' PROVE UndisturbedInv'
      BY DEF UndisturbedInv
    <3>1. ir'.state = "FALLING_BITS" /\ Len(ir'.bits) = remote'.step - 2 /\ Heard'
      BY <1>14, <2>1, <2>2, <2>5, EdgeHeard
    <3>2. main' \in Early \cup {"width", "renew", "count"} /\ main' # "width"  BY <1>8
    <3>3. QED  BY ONLY <1>5, <1>9, <3>1, <3>2 DEF UndisturbedInv
  <2>10. QED  BY <1>6, <1>7, <1>10, <1>12, <2>6, <2>7, <2>8, <2>9 DEF SleepInv
<1>15. QED  BY <1>13, <1>14

-----------------------------------------------------------------------------
(* Together. *)

LEMMA SleepInitInv == SleepInit => SleepInv
<1> SUFFICES ASSUME SleepInit PROVE SleepInv
  OBVIOUS
<1> USE SleepSizes, ResetType DEF SleepInit, On
<1>1. FrameBits \in Nat /\ FrameBits >= 4 /\ Reset.frame \in Frames
  BY FrameBitsType DEF Receivers
<1>2. RemoteInv  BY <1>1 DEF RemoteInv
<1>3. LoopInv
  <2>1. /\ 0 \in 0 .. Wrap - 1 /\ 0 \in {0, 1} /\ 0 \in 0 .. Chunks /\ 0 < Chunks
        /\ 0 \in 0 .. 2 /\ 0 <= 1
    OBVIOUS
  <2>2. active \in BOOLEAN /\ active /\ ~sleeping /\ sleeping \in BOOLEAN
        /\ falling \in BOOLEAN /\ woke \in BOOLEAN /\ raced \in BOOLEAN
    OBVIOUS
  <2>3. age = 0 /\ ahead = 0 /\ chunks = 0 /\ main = "wake" /\ late = 0  OBVIOUS
  <2>4. main \in Positions /\ main \notin Timing  BY <2>3 DEF Positions, Timing
  <2>5. QED  BY ONLY <2>1, <2>2, <2>3, <2>4 DEF LoopInv
<1>4. IrInv  BY <1>1 DEF IrInv
<1>5. AgeInv  BY DEF AgeInv
<1>6. HearsInv /\ MeetsInv  BY DEF HearsInv, MeetsInv
<1>7. SilentInv  BY DEF SilentInv, Path
<1>8. UndisturbedInv  BY DEF UndisturbedInv
<1>9. QED  BY <1>2, <1>3, <1>4, <1>5, <1>6, <1>7, <1>8 DEF SleepInv

LEMMA MainKeeps == ASSUME SleepInv, Main PROVE SleepInv'
  BY MainKeepsRemote, MainKeepsLoop, MainKeepsIr, MainKeepsAge, MainKeepsHears, MainKeepsMeets,
     MainKeepsSilent, MainKeepsUndisturbed DEF SleepInv

LEMMA SleepStutters == ASSUME SleepInv, UNCHANGED sleepVars PROVE SleepInv'
<1>1. UNCHANGED <<ir, falling, age, active, chunks, sleeping, woke, main, ahead, late, remote, raced>>
  BY DEF sleepVars, flags, loop
<1> USE <1>1 DEF SleepInv
<1>2. Interval' = Interval /\ (On' <=> On) /\ (Heard' <=> Heard) /\ Gone' = Gone
  BY DEF Interval, On, Heard, Gone
<1> USE <1>2
<1>3. RemoteInv' /\ LoopInv'  BY DEF RemoteInv, LoopInv, On
<1>4. IrInv' /\ AgeInv'  BY DEF IrInv, AgeInv, On
<1>5. HearsInv'  BY DEF HearsInv, On
<1>6. MeetsInv' /\ SilentInv'  BY DEF MeetsInv, SilentInv, On
<1>7. UndisturbedInv'  BY DEF UndisturbedInv
<1>8. QED  BY <1>3, <1>4, <1>5, <1>6, <1>7

LEMMA SleepStep == SleepInv /\ [SleepNext]_sleepVars => SleepInv'
<1> SUFFICES ASSUME SleepInv, [SleepNext]_sleepVars PROVE SleepInv'
  OBVIOUS
<1>1. CASE \E bits \in Frames : FirstEdge("frame", bits)
  BY <1>1, FirstEdgeKeeps
<1>2. CASE FirstEdge("repeat", Reset.frame)
  <2>1. Reset.frame \in Frames  BY ResetType DEF Receivers
  <2>2. QED  BY <1>2, <2>1, FirstEdgeKeeps
<1>3. CASE Edge  BY <1>3, EdgeKeeps
<1>4. CASE Tick  BY <1>4, TickKeeps
<1>5. CASE Main  BY <1>5, MainKeeps
<1>6. CASE UNCHANGED sleepVars  BY <1>6, SleepStutters
<1>7. QED  BY <1>1, <1>2, <1>3, <1>4, <1>5, <1>6 DEF SleepNext

\* The receiver that sleeps keeps its types (examples/platformio/ir_nec_rx_int_sleep).
THEOREM SleepTypeCorrect == SleepSpec => []SleepTypeOK
<1>1. SleepInv => SleepTypeOK
  <2> SUFFICES ASSUME SleepInv PROVE SleepTypeOK
    OBVIOUS
  <2>1. ir \in [state : States, bits : Seq({0, 1}), event : IrEvents, frame : Frames]
    BY DEF SleepInv, IrInv, Receivers, States, IrEvents
  <2>2. ahead \in 0 .. Wrap - 1  BY SleepSizes DEF SleepInv, LoopInv
  <2>3. QED  BY <2>1, <2>2 DEF SleepTypeOK, SleepInv, IrInv, LoopInv, RemoteInv
<1>2. QED  BY <1>1, SleepInitInv, SleepStep, PTL DEF SleepSpec

WasSent ==
  ir.event = "NONE" /\ ir'.event # "NONE"
    => \/ ir'.event = "FRAME" /\ remote.kind = "frame" /\ LastEdge /\ ir'.frame = remote.bits
       \/ ir'.event = "REPEAT" /\ remote.kind = "off" /\ remote.bits = Reset.frame

IsReported == FrameEnds /\ ~raced' => ir'.event = "FRAME" /\ ir'.frame = remote.bits

LEMMA EdgeReports == ASSUME SleepInv, Edge PROVE WasSent /\ IsReported
<1>1. IntervalIs /\ On  BY SpanFacts DEF SleepInv, Edge, On
<1>2. remote.step >= 2 => remote.kind = "frame"  BY <1>1 DEF IntervalIs
<1>3. QED  BY <1>2, EdgeHeard DEF WasSent, IsReported, FrameEnds

LEMMA MainReports == ASSUME SleepInv, Main PROVE WasSent /\ IsReported
<1>1. remote' = remote  BY MainStaysBehind DEF SameRemote
<1>2. IsReported  BY <1>1 DEF IsReported, FrameEnds
<1>3. SUFFICES ASSUME ir.event = "NONE", ir'.event # "NONE" PROVE WasSent
  BY <1>2 DEF WasSent
<1>4. main = "expire_repeat"  BY <1>3, MainAndDecoder, ResetType
<1>5. ir \in Decoders  BY ReceiversDecode DEF SleepInv, IrInv
<1>6. ExpireRepeat
  BY <1>4 DEF Main, Go, PrintWake, handle_event, print_frame, ReadTimer, Compare, Finish,
              ExpireBits, Forget, Renew, Count, ResetDecoder, SetIdle, ClearEdges,
              MarkSleeping, ClearWoke, PinIsHigh, clear_flag, PowerDown
<1>7. ir'.event = "REPEAT"
  <2>1. ir' = Decoder("IDLE", ir.bits, Noted(ir, "REPEAT"), ir.frame)
    BY <1>5, <1>6, InState, SetEventIs DEF ExpireRepeat, Noted
  <2>2. QED  BY <1>3, <2>1 DEF Decoder, Noted
<1>8. remote.kind = "off"  BY <1>4 DEF SleepInv, MeetsInv, On
<1>9. remote.bits = Reset.frame  BY <1>4, <1>8 DEF SleepInv, SilentInv, On
<1>10. QED  BY <1>7, <1>8, <1>9 DEF WasSent

LEMMA SleepReports == SleepInv /\ [SleepNext]_sleepVars => [WasSent /\ IsReported]_sleepVars
<1> SUFFICES ASSUME SleepInv, SleepNext PROVE WasSent /\ IsReported
  OBVIOUS
<1>1. ASSUME NEW kind, NEW bits, FirstEdge(kind, bits) PROVE WasSent /\ IsReported
  BY <1>1, FirstEdgeHeard DEF FirstEdge, WasSent, IsReported, FrameEnds
<1>2. CASE Edge  BY <1>2, EdgeReports
<1>3. CASE Tick
  <2>1. ir' = ir /\ remote'.kind = remote.kind  BY <1>3, TickMoves
  <2>2. QED  BY <2>1 DEF WasSent, IsReported, FrameEnds
<1>4. CASE Main  BY <1>4, MainReports
<1>5. QED  BY <1>1, <1>2, <1>3, <1>4 DEF SleepNext

\* What the sleeping receiver reports has been sent, and a frame none of whose edges meets
\* the main loop in Window is reported with its bits, also when it ends the sleep: for
\* every length of a frame, every time limit and every speed of the main loop within a
\* unit of time (main.c:108-175).
THEOREM SleeperReportsWhatWasSent == SleepSpec => SleeperReports
<1>1. SleepInv /\ [SleepNext]_sleepVars =>
        [ir.event = "NONE" /\ ir'.event # "NONE"
           => \/ ir'.event = "FRAME" /\ remote.kind = "frame" /\ LastEdge /\ ir'.frame = remote.bits
              \/ ir'.event = "REPEAT" /\ remote.kind = "off" /\ remote.bits = Reset.frame]_sleepVars
  BY SleepReports DEF WasSent
<1>2. SleepInv /\ [SleepNext]_sleepVars =>
        [FrameEnds /\ ~raced' => ir'.event = "FRAME" /\ ir'.frame = remote.bits]_sleepVars
  BY SleepReports DEF IsReported
<1>3. QED
  BY <1>1, <1>2, SleepInitInv, SleepStep, PTL
  DEF SleepSpec, SleeperReports, OnlySentIsReported, UndisturbedIsReported
=============================================================================
