--------------------------- MODULE PeripheralProofs ---------------------------
(***************************************************************************)
(* What six parts of the HAL and the drivers promise, for every size:       *)
(* Rs485Uart, which holds the bus to the end of the last byte and whose      *)
(* receive buffer is a FIFO, Eeprom, which keeps what it is not asked to     *)
(* change, Pwm, whose channels share a counter, Lcd1602, which finds the     *)
(* border of the bytes again, Registers, which the peripherals share and in  *)
(* which each keeps its own bits, and TwoWire, where both ends of the wires  *)
(* agree on every bit.  The six share no state.                             *)
(***************************************************************************)
EXTENDS Rs485Uart, Eeprom, Pwm, Lcd1602, Registers, TwoWire, SequenceTheorems, WellFoundedInduction, TLAPS

\* The places of a write after it has masked the interrupt, those where it drives
\* the bus, and those where a byte may be on the line.
Writing == {"drive", "load", "poll", "delay", "release", "clear", "unmask"}
Driving == {"load", "poll", "delay", "release"}
Sending == {"load", "poll", "delay"}

\* No interrupt runs during a write, so none takes the flag the write polls.
Masked == pc \in Writing => ~enabled /\ isr = "out"

DrivesTheBus == dir = "TX" <=> pc \in Driving

LineFollowsWrite ==
  ~late =>
    /\ uart.line # "idle" => pc \in Sending
    /\ uart.line = "bits" => pc = "poll"
    /\ pc = "poll" => (uart.ti <=> uart.line # "bits")

WriteInv == TypeOK /\ Masked /\ DrivesTheBus /\ LineFollowsWrite

\* Bytes are left while some are to be sent.
LeftInv == TypeOK /\ (pc \in {"drive", "load", "poll"} => left # 0)

-----------------------------------------------------------------------------
\* An index stays inside the buffer (the mask of main.c:20 and 44).
LEMMA IndexInRange ==
  ASSUME NEW i \in 0 .. RingSize - 1
  PROVE  NextIndex(i) \in 0 .. RingSize - 1
  BY UartAssumption DEF NextIndex

\* What the interrupt makes of the buffer is a buffer.
LEMMA StoredType ==
  ASSUME TypeOK, NEW b \in Bytes
  PROVE  Stored(b) \in [buffer : [0 .. RingSize - 1 -> Bytes], head : 0 .. RingSize - 1,
                        tail : 0 .. RingSize - 1, overflow : BOOLEAN]
  <1>1. NextIndex(ring.head) \in 0 .. RingSize - 1  BY IndexInRange DEF TypeOK
  <1>2. QED  BY <1>1 DEF Stored, TypeOK

LEMMA LeftInit == Init => LeftInv
  <1>1. Init => late \in BOOLEAN  BY Zenon DEF Init
  <1>2. QED  BY <1>1, UartAssumption DEF Init, LeftInv, TypeOK, Places

LEMMA LeftStep == LeftInv /\ [Next]_vars => LeftInv'
  <1> SUFFICES ASSUME LeftInv, [Next]_vars PROVE LeftInv'
    OBVIOUS
  <1> USE DEF LeftInv, TypeOK, Places
  <1>1. ASSUME NEW b \in Bytes, Receive(b) PROVE LeftInv' BY <1>1 DEF Receive
  <1>2. CASE StopBitStarts  BY <1>2 DEF StopBitStarts
  <1>3. CASE StopBitEnds    BY <1>3 DEF StopBitEnds
  <1>4. CASE IsrEnter       BY <1>4 DEF IsrEnter
  <1>5. CASE IsrTake
    <2>1. uart.sbuf \in Bytes  OBVIOUS
    <2>2. Stored(uart.sbuf) \in
            [buffer : [0 .. RingSize - 1 -> Bytes], head : 0 .. RingSize - 1,
             tail : 0 .. RingSize - 1, overflow : BOOLEAN]
      BY <2>1, StoredType
    <2>3. QED  BY <1>5, <2>2 DEF IsrTake
  <1>6. CASE IsrClear       BY <1>6 DEF IsrClear
  <1>7. CASE Pop            BY <1>7 DEF Pop, At
  <1>8. CASE PopNothing     BY <1>8 DEF PopNothing, At
  <1>9. CASE Remove
    <2>1. NextIndex(ring.tail) \in 0 .. RingSize - 1  BY IndexInRange
    <2>2. QED  BY <1>9, <2>1 DEF Remove, At
  <1>10. ASSUME NEW len \in Lengths, Write(len) PROVE LeftInv'
    <2>1. len \in Nat /\ len # 0 /\ len <= len  BY UartAssumption
    <2>2. \E n \in Lengths \cup {0} : len <= n  BY <2>1
    <2>3. QED  BY <1>10, <2>1, <2>2 DEF Write, At
  <1>11. CASE Drive         BY <1>11 DEF Drive, At
  <1>12. CASE LoadByte      BY <1>12 DEF LoadByte, At
  <1>13. CASE ByteSent
    <2>1. pc = "poll" /\ left # 0 /\ left' = left - 1  BY <1>13 DEF ByteSent, At
    <2>2. PICK n \in Lengths \cup {0} : left <= n  OBVIOUS
    <2>3. left' \in Nat /\ left' <= n  BY <2>1, <2>2, UartAssumption
    <2>4. pc' = "load" => left' # 0  BY <1>13, <2>1 DEF ByteSent, At
    <2>5. QED  BY <1>13, <2>2, <2>3, <2>4 DEF ByteSent, At
  <1>14. CASE GiveUp        BY <1>14, UartAssumption DEF GiveUp, At
  <1>15. CASE Delay         BY <1>15 DEF Delay, At
  <1>16. CASE Release       BY <1>16 DEF Release, At
  <1>17. CASE ClearTxFlag   BY <1>17 DEF ClearTxFlag, At
  <1>18. CASE Unmask        BY <1>18 DEF Unmask, At
  <1>19. CASE TestOverflow  BY <1>19 DEF TestOverflow, At
  <1>20. CASE ClearOverflow BY <1>20 DEF ClearOverflow, At
  <1>21. CASE UNCHANGED vars  BY <1>21 DEF vars
  <1>22. QED
    BY <1>1, <1>2, <1>3, <1>4, <1>5, <1>6, <1>7, <1>8, <1>9, <1>10, <1>11, <1>12, <1>13,
       <1>14, <1>15, <1>16, <1>17, <1>18, <1>19, <1>20, <1>21
    DEF Next, Interrupt, Main

\* The type invariant of the node: the indices stay inside the buffer and the count
\* of bytes left to send does not run below zero.
THEOREM TypeCorrect == Spec => []TypeOK
  <1>1. LeftInv => TypeOK  BY DEF LeftInv
  <1>2. QED  BY <1>1, LeftInit, LeftStep, PTL DEF Spec

-----------------------------------------------------------------------------
LEMMA WriteInit == Init => WriteInv
  <1>1. Init => TypeOK  BY LeftInit DEF LeftInv
  <1>2. QED
    BY <1>1 DEF Init, WriteInv, Masked, DrivesTheBus, LineFollowsWrite, Writing, Driving, Sending

\* A step that gives up on a byte on the line sets late; any other keeps the line with
\* the write.
LEMMA WriteStep == WriteInv /\ TypeOK' /\ [Next]_vars => WriteInv'
  <1> SUFFICES ASSUME WriteInv, TypeOK', [Next]_vars PROVE WriteInv'
    OBVIOUS
  <1> USE DEF WriteInv, TypeOK, Masked, DrivesTheBus, LineFollowsWrite, Writing, Driving, Sending
  <1>1. ASSUME NEW b \in Bytes, Receive(b) PROVE WriteInv' BY <1>1 DEF Receive
  <1>2. CASE StopBitStarts  BY <1>2 DEF StopBitStarts
  <1>3. CASE StopBitEnds    BY <1>3 DEF StopBitEnds
  <1>4. CASE IsrEnter       BY <1>4 DEF IsrEnter
  <1>5. CASE IsrTake        BY <1>5 DEF IsrTake
  <1>6. CASE IsrClear       BY <1>6 DEF IsrClear
  <1>7. CASE Pop            BY <1>7 DEF Pop, At
  <1>8. CASE PopNothing     BY <1>8 DEF PopNothing, At
  <1>9. CASE Remove         BY <1>9 DEF Remove, At
  <1>10. ASSUME NEW len \in Lengths, Write(len) PROVE WriteInv'
    BY <1>10 DEF Write, At
  <1>11. CASE Drive         BY <1>11 DEF Drive, At
  <1>12. CASE LoadByte      BY <1>12 DEF LoadByte, At
  <1>13. CASE ByteSent      BY <1>13 DEF ByteSent, At
  <1>14. CASE GiveUp        BY <1>14 DEF GiveUp, At
  <1>15. CASE Delay         BY <1>15 DEF Delay, At
  <1>16. CASE Release       BY <1>16 DEF Release, At
  <1>17. CASE ClearTxFlag   BY <1>17 DEF ClearTxFlag, At
  <1>18. CASE Unmask        BY <1>18 DEF Unmask, At
  <1>19. CASE TestOverflow  BY <1>19 DEF TestOverflow, At
  <1>20. CASE ClearOverflow BY <1>20 DEF ClearOverflow, At
  <1>21. CASE UNCHANGED vars  BY <1>21 DEF vars
  <1>22. QED
    BY <1>1, <1>2, <1>3, <1>4, <1>5, <1>6, <1>7, <1>8, <1>9, <1>10, <1>11, <1>12, <1>13,
       <1>14, <1>15, <1>16, <1>17, <1>18, <1>19, <1>20, <1>21
    DEF Next, Interrupt, Main

LEMMA WriteInvariant == Spec => []WriteInv
  <1>1. WriteInv /\ TypeOK' /\ [Next]_vars => WriteInv'  BY WriteStep
  <1>2. QED  BY <1>1, WriteInit, TypeCorrect, PTL DEF Spec

\* The driver lets go of the bus only after the last stop bit, whatever interrupt and
\* UART do in between, unless a poll limit shorter than a byte has run out (drv_rs485_uart.c:62-76).
THEOREM BusHeld == Spec => []BusHeldToTheEnd
  <1>1. WriteInv => BusHeldToTheEnd
    BY DEF WriteInv, TypeOK, DrivesTheBus, LineFollowsWrite, BusHeldToTheEnd, Driving, Sending
  <1>2. QED  BY <1>1, WriteInvariant, PTL

\* As long as the poll limit covers a byte no write fails: the flag it polls is on its way
\* (drv_rs485_uart.c:57 against main.c:28).
THEOREM WritesSucceed == Spec => []WriteSucceeds
  <1>1. WriteInv => WriteSucceeds
    BY DEF WriteInv, TypeOK, LineFollowsWrite, WriteSucceeds
  <1>2. QED  BY <1>1, WriteInvariant, PTL

-----------------------------------------------------------------------------
(* The receive buffer is a bounded FIFO.  The indices are remainders; the     *)
(* proof takes each of them once and goes on without division.               *)

\* A remainder that has to be taken once at most.
LEMMA RemainderOnce ==
  ASSUME NEW n \in Nat \ {0}, NEW x \in 0 .. 2 * n - 1
  PROVE  x % n = IF x < n THEN x ELSE x - n
  <1>1. CASE x < n BY <1>1, SMTT(20)
  <1>2. CASE x >= n
    <2>1. PICK r \in 0 .. n - 1 : x = n + r
      <3>1. x - n \in 0 .. n - 1 /\ x = n + (x - n) BY <1>2
      <3>2. QED BY <3>1
    <2>2. (n + r) % n = r BY SMTT(20)
    <2>3. QED BY <1>2, <2>1, <2>2
  <1>3. QED BY <1>1, <1>2


Count == IF ring.tail <= ring.head THEN ring.head - ring.tail
         ELSE ring.head + RingSize - ring.tail

Slot(i) == IF ring.tail + i - 1 < RingSize THEN ring.tail + i - 1
           ELSE ring.tail + i - 1 - RingSize

Rem(x) == x % RingSize

LEMMA RingRemainder ==
  /\ RingSize \in Nat \ {0, 1}
  /\ \A x \in 0 .. 2 * RingSize - 1 : Rem(x) = IF x < RingSize THEN x ELSE x - RingSize
  <1>1. RingSize \in Nat \ {0, 1} BY UartAssumption
  <1>2. ASSUME NEW x \in 0 .. 2 * RingSize - 1
        PROVE  Rem(x) = IF x < RingSize THEN x ELSE x - RingSize
    BY <1>1, RemainderOnce DEF Rem
  <1>3. QED BY <1>1, <1>2

LEMMA RingIndices ==
  \A i \in 0 .. RingSize - 1 : NextIndex(i) = IF i = RingSize - 1 THEN 0 ELSE i + 1
  <1>1. ASSUME NEW i \in 0 .. RingSize - 1
        PROVE  Rem(i + 1) = IF i = RingSize - 1 THEN 0 ELSE i + 1
    <2>1. i + 1 \in 0 .. 2 * RingSize - 1 BY RingRemainder
    <2>2. QED BY <2>1, RingRemainder
  <1>2. \A i : NextIndex(i) = Rem(i + 1) BY Zenon DEF NextIndex, Rem
  <1>3. QED BY <1>1, <1>2, Zenon

RingShape ==
  /\ Count \in 0 .. RingSize - 1
  /\ Contents \in Seq(Bytes) /\ Len(Contents) = Count
  /\ \A i \in 1 .. Count : Contents[i] = ring.buffer[Slot(i)] /\ Slot(i) \in 0 .. RingSize - 1

LEMMA RingContents == TypeOK => RingShape
  <1> SUFFICES ASSUME TypeOK PROVE RingShape
    OBVIOUS
  <1> USE DEF RingShape
  <1>0. ring.head \in 0 .. RingSize - 1 /\ ring.tail \in 0 .. RingSize - 1
        /\ ring.buffer \in [0 .. RingSize - 1 -> Bytes]
    BY DEF TypeOK
  <1>1. RingSize \in Nat \ {0, 1} BY RingRemainder
  <1>2. Rem(ring.head + RingSize - ring.tail) = Count
    <2>1. ring.head + RingSize - ring.tail \in 0 .. 2 * RingSize - 1
      BY <1>0, <1>1
    <2>2. QED BY <1>0, <1>1, <2>1, RingRemainder DEF Count
  <1>3. Count \in 0 .. RingSize - 1 BY <1>0, <1>1 DEF Count
  <1>4. ASSUME NEW i \in 1 .. Count
        PROVE  Rem(ring.tail + i - 1) = Slot(i) /\ Slot(i) \in 0 .. RingSize - 1
    <2>1. ring.tail + i - 1 \in 0 .. 2 * RingSize - 1 BY <1>0, <1>1, <1>3
    <2>2. QED BY <1>0, <1>1, <1>3, <2>1, RingRemainder DEF Slot
  <1>5. Contents = [i \in 1 .. Count |-> ring.buffer[Slot(i)]]
    <2>1. Contents = [i \in 1 .. Rem(ring.head + RingSize - ring.tail) |->
                        ring.buffer[Rem(ring.tail + i - 1)]]
      BY Zenon DEF Contents, Rem
    <2>2. Contents = [i \in 1 .. Count |-> ring.buffer[Rem(ring.tail + i - 1)]]
      BY <1>2, <2>1
    <2>3. QED BY <1>4, <2>2
  <1>6. \A i \in 1 .. Count : ring.buffer[Slot(i)] \in Bytes BY <1>0, <1>4
  <1>7. Count \in Nat BY <1>1, <1>3
  <1>8. [i \in 1 .. Count |-> ring.buffer[Slot(i)]] \in Seq(Bytes)
        /\ Len([i \in 1 .. Count |-> ring.buffer[Slot(i)]]) = Count
    BY <1>6, <1>7
  <1>9. QED BY <1>3, <1>4, <1>5, <1>8

\* The byte the main loop has read is the oldest one until it has removed it.
RingInv == TypeOK /\ (pc = "remove" => ring.head # ring.tail /\ value = ring.buffer[ring.tail])

\* Two states of the buffer, without the remainders.
LEMMA RingFacts ==
  ASSUME TypeOK
  PROVE  /\ RingSize \in Nat \ {0, 1}
         /\ ring.head \in 0 .. RingSize - 1 /\ ring.tail \in 0 .. RingSize - 1
         /\ ring.buffer \in [0 .. RingSize - 1 -> Bytes]
         /\ NextIndex(ring.head) = (IF ring.head = RingSize - 1 THEN 0 ELSE ring.head + 1)
         /\ NextIndex(ring.tail) = (IF ring.tail = RingSize - 1 THEN 0 ELSE ring.tail + 1)
  BY RingRemainder, RingIndices DEF TypeOK

\* A byte that is stored comes last.
LEMMA RingStores ==
  ASSUME TypeOK, TypeOK', NEW b \in Bytes, NextIndex(ring.head) # ring.tail,
         ring' = [ring EXCEPT !.buffer[ring.head] = b, !.head = NextIndex(ring.head)]
  PROVE  Len(Contents) < RingSize - 1 /\ Contents' = Append(Contents, b)
  <1>1. /\ ring'.head = NextIndex(ring.head) /\ ring'.tail = ring.tail
        /\ ring'.buffer = [ring.buffer EXCEPT ![ring.head] = b]
    BY DEF TypeOK
  <1>2. Count' = Count + 1 /\ Count < RingSize - 1 BY <1>1, RingFacts DEF Count
  <1>3. /\ Contents \in Seq(Bytes) /\ Len(Contents) = Count /\ Count \in 0 .. RingSize - 1
        /\ \A i \in 1 .. Count : Contents[i] = ring.buffer[Slot(i)] /\ Slot(i) \in 0 .. RingSize - 1
    BY RingContents DEF RingShape
  <1>4. /\ Contents' \in Seq(Bytes) /\ Len(Contents') = Count'
        /\ \A i \in 1 .. Count' : Contents'[i] = ring'.buffer[Slot(i)']
    <2>1. RingShape' BY RingContents, PTL
    <2>2. QED BY <2>1 DEF RingShape
  <1>5. ASSUME NEW i \in 1 .. Count + 1 PROVE Contents'[i] = Append(Contents, b)[i]
    <2>1. Slot(i)' = Slot(i) BY <1>1 DEF Slot
    <2>2. Contents'[i] = ring'.buffer[Slot(i)] BY <1>2, <1>4, <2>1
    <2>3. CASE i = Count + 1
      <3>1. Slot(Count + 1) = ring.head
        <4>1. /\ RingSize \in Nat /\ ring.head \in 0 .. RingSize - 1
              /\ ring.tail \in 0 .. RingSize - 1
          BY RingFacts
        <4>2. QED BY <4>1 DEF Slot, Count
      <3>2. QED BY <1>1, <1>3, <2>2, <2>3, <3>1, RingFacts
    <2>4. CASE i \in 1 .. Count
      <3>1. Slot(i) # ring.head BY <1>2, <2>4, RingFacts DEF Slot, Count
      <3>2. QED BY <1>1, <1>3, <2>2, <2>4, <3>1, RingFacts
    <2>5. QED BY <1>3, <2>3, <2>4
  <1>6. Append(Contents, b) \in Seq(Bytes) /\ Len(Append(Contents, b)) = Count + 1
    BY <1>3, AppendProperties
  <1>7. Contents' = Append(Contents, b) BY <1>2, <1>4, <1>5, <1>6, SeqEqual
  <1>8. QED BY <1>2, <1>3, <1>7

\* What is removed is the first byte.
LEMMA RingRemoves ==
  ASSUME TypeOK, TypeOK', ring.head # ring.tail,
         ring' = [ring EXCEPT !.tail = NextIndex(@)]
  PROVE  Contents # <<>> /\ Contents' = Tail(Contents)
  <1>1. /\ ring'.head = ring.head /\ ring'.tail = NextIndex(ring.tail)
        /\ ring'.buffer = ring.buffer
    BY DEF TypeOK
  <1>2. Count' = Count - 1 /\ Count > 0
    <2>1. /\ RingSize \in Nat /\ ring.head \in 0 .. RingSize - 1
          /\ ring.tail \in 0 .. RingSize - 1
          /\ ring'.tail = IF ring.tail = RingSize - 1 THEN 0 ELSE ring.tail + 1
      BY <1>1, RingFacts
    <2>2. QED BY <1>1, <2>1 DEF Count
  <1>3. /\ Contents \in Seq(Bytes) /\ Len(Contents) = Count /\ Count \in 0 .. RingSize - 1
        /\ \A i \in 1 .. Count : Contents[i] = ring.buffer[Slot(i)]
    BY RingContents DEF RingShape
  <1>4. /\ Contents' \in Seq(Bytes) /\ Len(Contents') = Count'
        /\ \A i \in 1 .. Count' : Contents'[i] = ring'.buffer[Slot(i)']
    <2>1. RingShape' BY RingContents, PTL
    <2>2. QED BY <2>1 DEF RingShape
  <1>5. Contents # <<>> BY <1>2, <1>3, EmptySeq
  <1>6. /\ Tail(Contents) \in Seq(Bytes) /\ Len(Tail(Contents)) = Count - 1
        /\ \A i \in 1 .. Count - 1 : Tail(Contents)[i] = Contents[i + 1]
    BY <1>3, <1>5, HeadTailProperties
  <1>7. ASSUME NEW i \in 1 .. Count - 1 PROVE Contents'[i] = Tail(Contents)[i]
    <2>1. i + 1 \in 1 .. Count BY <1>3
    <2>2. Slot(i)' = Slot(i + 1)
      <3>1. /\ RingSize \in Nat /\ i \in Nat /\ i < RingSize /\ i > 0
            /\ ring.tail \in 0 .. RingSize - 1
            /\ ring'.tail = IF ring.tail = RingSize - 1 THEN 0 ELSE ring.tail + 1
        BY <1>1, <1>3, RingFacts
      <3>2. QED BY <3>1 DEF Slot
    <2>3. QED BY <1>1, <1>2, <1>3, <1>4, <1>6, <2>1, <2>2
  <1>8. Contents' = Tail(Contents) BY <1>2, <1>4, <1>6, <1>7, SeqEqual
  <1>9. QED BY <1>5, <1>8

\* The first byte is the one at the tail; the buffer is full when no next slot is free.
LEMMA RingEnds ==
  ASSUME TypeOK
  PROVE  /\ ring.head # ring.tail => Contents # <<>> /\ Head(Contents) = ring.buffer[ring.tail]
         /\ NextIndex(ring.head) = ring.tail => Len(Contents) = RingSize - 1
  <1>1. /\ Contents \in Seq(Bytes) /\ Len(Contents) = Count /\ Count \in 0 .. RingSize - 1
        /\ \A i \in 1 .. Count : Contents[i] = ring.buffer[Slot(i)]
    BY RingContents DEF RingShape
  <1>2. ASSUME ring.head # ring.tail
        PROVE  Contents # <<>> /\ Head(Contents) = ring.buffer[ring.tail]
    <2>1. 1 \in 1 .. Count /\ Slot(1) = ring.tail
      BY <1>1, <1>2, RingFacts DEF Count, Slot
    <2>2. Contents # <<>> BY <1>1, <2>1, EmptySeq
    <2>3. QED BY <1>1, <2>1, <2>2
  <1>3. NextIndex(ring.head) = ring.tail => Count = RingSize - 1
    BY RingFacts DEF Count
  <1>4. QED BY <1>1, <1>2, <1>3

LEMMA RingInvStep == RingInv /\ TypeOK' /\ [Next]_vars => RingInv'
  <1> SUFFICES ASSUME RingInv, TypeOK', [Next]_vars, pc' = "remove"
               PROVE  (ring.head # ring.tail /\ value = ring.buffer[ring.tail])'
    BY DEF RingInv
  <1>0. TypeOK /\ (pc = "remove" => ring.head # ring.tail /\ value = ring.buffer[ring.tail])
    BY DEF RingInv
  <1>1. CASE Pop BY <1>1 DEF Pop, At
  <1>2. CASE IsrTake
    <2>1. CASE ring' = ring BY <1>0, <1>2, <2>1 DEF IsrTake
    <2>2. CASE ring' = [ring EXCEPT !.overflow = TRUE]
      BY <1>0, <1>2, <2>2 DEF IsrTake, TypeOK
    <2>3. CASE /\ NextIndex(ring.head) # ring.tail
               /\ ring' = [ring EXCEPT !.buffer[ring.head] = uart.sbuf,
                                      !.head = NextIndex(ring.head)]
      <3>1. /\ ring'.head = NextIndex(ring.head) /\ ring'.tail = ring.tail
            /\ ring'.buffer = [ring.buffer EXCEPT ![ring.head] = uart.sbuf]
        BY <1>0, <2>3 DEF TypeOK
      <3>2. QED BY <1>0, <1>2, <2>3, <3>1, RingFacts DEF IsrTake
    <2>4. QED BY <1>2, <2>1, <2>2, <2>3 DEF IsrTake, Stored
  <1>3. QED
    BY <1>0, <1>1, <1>2
       DEF Next, Receive, StopBitStarts, StopBitEnds, Interrupt, IsrEnter, IsrClear, Main,
           PopNothing, Remove, Write, Drive, LoadByte, ByteSent, GiveUp, Delay, Release,
           ClearTxFlag, Unmask, TestOverflow, ClearOverflow, At, vars

LEMMA RingIsEmptyFirst == Init => Queue!Init /\ RingInv
  <1> SUFFICES ASSUME Init PROVE Queue!Init /\ RingInv
    OBVIOUS
  <1>1. TypeOK BY LeftInit DEF LeftInv
  <1>2. Count = 0 BY DEF Init, Count
  <1>3. Contents = <<>> BY <1>1, <1>2, RingContents, EmptySeq DEF RingShape
  <1>4. QED BY <1>1, <1>3, UartAssumption DEF Init, RingInv, Queue!Init

\* Each step of the node is a step of the queue, or none.
LEMMA RingStep == RingInv /\ TypeOK' /\ [Next]_vars => [Queue!Next]_Queue!queueVars
  <1> SUFFICES ASSUME RingInv, TypeOK', [Next]_vars
               PROVE  [Queue!Next]_Queue!queueVars
    OBVIOUS
  <1> USE DEF Queue!Next, Queue!queueVars
  <1>0. TypeOK /\ (pc = "remove" => ring.head # ring.tail /\ value = ring.buffer[ring.tail])
    BY DEF RingInv
  <1>1. CASE UNCHANGED <<ring, value>> BY <1>1 DEF Contents
  <1>2. CASE Pop
    <2>1. ring.head # ring.tail /\ value' = ring.buffer[ring.tail] /\ ring' = ring
      BY <1>2 DEF Pop
    <2>2. Contents' = Contents BY <2>1 DEF Contents
    <2>3. QED BY <1>0, <2>1, <2>2, RingEnds DEF Queue!Look
  <1>3. CASE Remove
    <2>1. ring.head # ring.tail /\ value = ring.buffer[ring.tail] /\ value' = value
          /\ ring' = [ring EXCEPT !.tail = NextIndex(@)]
      BY <1>0, <1>3 DEF Remove, At
    <2>2. ring'.overflow = ring.overflow BY <1>0, <2>1 DEF TypeOK
    <2>3. QED BY <1>0, <2>1, <2>2, RingRemoves, RingEnds DEF Queue!Remove
  <1>4. CASE IsrTake /\ ring' # ring
    <2>1. value' = value /\ ring' = Stored(uart.sbuf) /\ uart.sbuf \in Bytes
      BY <1>0, <1>4 DEF IsrTake, TypeOK
    <2>2. CASE NextIndex(ring.head) = ring.tail
      <3>1. ring' = [ring EXCEPT !.overflow = TRUE] BY <2>1, <2>2 DEF Stored
      <3>2. /\ ring'.overflow = TRUE /\ ring'.head = ring.head /\ ring'.tail = ring.tail
            /\ ring'.buffer = ring.buffer
        BY <1>0, <3>1 DEF TypeOK
      <3>3. Contents' = Contents BY <3>2 DEF Contents
      <3>4. QED BY <1>0, <2>1, <2>2, <3>2, <3>3, RingEnds DEF Queue!RefuseByte
    <2>3. CASE NextIndex(ring.head) # ring.tail
      <3>1. ring' = [ring EXCEPT !.buffer[ring.head] = uart.sbuf, !.head = NextIndex(ring.head)]
        BY <2>1, <2>3 DEF Stored
      <3>2. ring'.overflow = ring.overflow BY <1>0, <3>1 DEF TypeOK
      <3>3. QED BY <1>0, <2>1, <2>3, <3>1, <3>2, RingStores DEF Queue!Store
    <2>4. QED BY <2>2, <2>3
  <1>5. CASE ClearOverflow
    <2>1. ring' = [ring EXCEPT !.overflow = FALSE] /\ value' = value
      BY <1>5 DEF ClearOverflow
    <2>2. /\ ring'.overflow = FALSE /\ ring'.head = ring.head /\ ring'.tail = ring.tail
          /\ ring'.buffer = ring.buffer
      BY <1>0, <2>1 DEF TypeOK
    <2>3. Contents' = Contents BY <2>2 DEF Contents
    <2>4. QED BY <2>1, <2>2, <2>3 DEF Queue!ClearOverflow
  <1>6. QED
    BY <1>1, <1>2, <1>3, <1>4, <1>5
       DEF Next, Receive, StopBitStarts, StopBitEnds, Interrupt, IsrEnter, IsrTake, IsrClear,
           Main, PopNothing, Write, Drive, LoadByte, ByteSent, GiveUp, Delay, Release,
           ClearTxFlag, Unmask, TestOverflow, vars

\* The receive buffer between interrupt and main loop is a bounded FIFO, for every size:
\* the node implements ByteQueue (main.c:21-27 against main.c:40-44).
THEOREM BufferIsQueue == Spec => RingIsQueue
  <1>1. RingInv /\ TypeOK' /\ [Next]_vars => RingInv' /\ [Queue!Next]_Queue!queueVars
    BY RingInvStep, RingStep
  <1>2. QED
    BY <1>1, RingIsEmptyFirst, TypeCorrect, PTL DEF Spec, RingIsQueue, Queue!Spec

-----------------------------------------------------------------------------
(* The flash.  While a call is under way, what each byte holds follows from   *)
(* the call and how far it has come.                                        *)

Calls == [op : Ops \cup {"idle"}, addr : Addresses, data : Seq(Byte), left : Nat]
Flash == [0 .. Allocated - 1 -> Byte]

EepromTypes ==
  /\ cells \in Flash /\ before \in Flash
  /\ job \in Calls /\ asked \in Calls
  /\ status \in {"none", "OK", "ERROR"}

\* Bytes the call in progress has done.
Done == asked.left - job.left

\* What the call in progress has made of a byte.
Expected(a) ==
  CASE asked.op = "write" ->
         IF a \in asked.addr .. asked.addr + Done - 1 THEN Content(a) \cap before[a] ELSE before[a]
    [] asked.op = "save" /\ Done > 0 ->
         IF a \in FixedAddr .. FixedAddr + Done - 2 THEN Content(a)
         ELSE IF a \in Sector(FixedAddr) THEN Erased ELSE before[a]
    [] OTHER -> before[a]

\* What was asked for can be done.
CanBeDone(call) ==
  /\ call.op \in {"read", "write"} => call.addr + call.left <= Size
  /\ call.op = "write" => Len(call.data) = call.left
  /\ call.op = "erase" => call.left = 1
  /\ call.op = "save" => /\ call.addr = FixedAddr /\ call.left = FixedSize + 1
                         /\ Len(call.data) = FixedSize

UnderWay ==
  job # Idle =>
    /\ CanBeDone(asked) /\ status = "none"
    /\ job.op = asked.op /\ job.op \in Ops /\ job.data = asked.data
    /\ job.left \in 1 .. asked.left
    /\ job.addr = asked.addr + (IF asked.op = "save" /\ Done > 0 THEN Done - 1 ELSE Done)
    /\ \A a \in DOMAIN cells : cells[a] = Expected(a)
    /\ asked.op = "read" => buffer = [i \in 1 .. Done |-> cells[asked.addr + i - 1]]

EepromInv == EepromTypes /\ UnderWay /\ EepromKeeps

-----------------------------------------------------------------------------
(* Sectors. *)

\* The assumptions without the division, which the provers find hard to carry along.
LEMMA Sizes ==
  /\ Word \in Nat \ {0} /\ SectorSize \in Nat \ {0} /\ FixedSize \in Nat \ {0}
  /\ Size \in Nat /\ Allocated \in Nat /\ FixedAddr \in Nat /\ MaxWrite \in Nat
  /\ Size <= Word /\ Allocated <= Word
  /\ FixedSize <= SectorSize /\ FixedAddr + FixedSize <= Size
  BY EepromAssumption

LEMMA Division ==
  ASSUME NEW s \in Nat \ {0}, NEW a \in Nat
  PROVE  s * (a \div s) + (a % s) = a /\ a % s \in 0 .. s - 1 /\ a \div s \in Nat
<1>1. s * (a \div s) + (a % s) = a BY SMTT(20)
<1>2. a % s \in 0 .. s - 1 /\ a \div s \in Nat BY SMT
<1> QED BY <1>1, <1>2

LEMMA FactorIsLess ==
  ASSUME NEW s \in Nat \ {0}, NEW q \in Nat, NEW k \in Nat, s * q < s * k
  PROVE  q < k
<1> SUFFICES ASSUME q >= k PROVE FALSE
  OBVIOUS
<1>1. PICK d \in Nat : q = k + d
  <2>1. q - k \in Nat /\ q = k + (q - k) OBVIOUS
  <2> QED BY <2>1
<1>2. s * q = s * k + s * d /\ s * d \in Nat /\ s * k \in Nat BY <1>1, SMT
<1> QED BY <1>2

\* Bytes from the start of a sector, up to its size, are in it.
LEMMA StartsSector ==
  ASSUME NEW s \in Nat \ {0}, NEW first \in Nat, first % s = 0, NEW i \in 0 .. s - 1
  PROVE  (first + i) \div s = first \div s
  BY SMTT(20)

\* Whole sectors: an end that is a multiple of their size cuts none.
LEMMA SectorIsWhole ==
  ASSUME NEW s \in Nat \ {0}, NEW end \in Nat, end % s = 0,
         NEW a \in Nat, NEW b \in Nat, a \div s = b \div s, a < end
  PROVE  b < end
<1> DEFINE k == end \div s
           q == b \div s
<1>1. s * k = end /\ k \in Nat BY Division, SMT
<1>2. s * q + (a % s) = a /\ a % s \in Nat /\ q \in Nat
  <2>1. s * (a \div s) + (a % s) = a /\ a % s \in Nat /\ a \div s \in Nat
    BY Division
  <2> QED BY <2>1
<1>3. s * q + (b % s) = b /\ b % s \in 0 .. s - 1 BY Division
<1> HIDE DEF k, q
<1>4. s * q \in Nat /\ s * k \in Nat /\ s * q < s * k BY <1>1, <1>2, SMT
<1>5. q < k BY <1>1, <1>2, <1>4, FactorIsLess
<1>6. PICK d \in Nat : k = q + 1 + d
  <2>1. k - (q + 1) \in Nat /\ k = q + 1 + (k - (q + 1)) BY <1>1, <1>2, <1>5
  <2> QED BY <2>1
<1>7. s * k = s * q + s + s * d /\ s * d \in Nat BY <1>2, <1>6, SMT
<1> QED BY <1>1, <1>3, <1>4, <1>7

\* What erasing a byte's sector erases exists, and the fixed block is in one sector.
LEMMA Sectors ==
  /\ \A addr \in Addresses : addr < Allocated => Sector(addr) \subseteq 0 .. Allocated - 1
  /\ Block \subseteq Sector(FixedAddr) /\ FixedAddr \in Addresses
<1> USE EepromAssumption
<1>1. ASSUME NEW addr \in Addresses, addr < Allocated, NEW a \in Sector(addr)
      PROVE  a \in 0 .. Allocated - 1
  <2>1. a \in Nat /\ addr \in Nat /\ addr \div SectorSize = a \div SectorSize
    <3>1. a \in Addresses /\ addr \div SectorSize = a \div SectorSize
      BY <1>1, Zenon DEF Sector
    <3> QED BY <3>1 DEF Addresses
  <2> QED BY <1>1, <2>1, SectorIsWhole
<1>2. ASSUME NEW a \in Block PROVE a \in Sector(FixedAddr)
  <2>1. a - FixedAddr \in 0 .. SectorSize - 1 /\ a = FixedAddr + (a - FixedAddr) /\ a \in Addresses
    BY DEF Block, Addresses
  <2>2. (FixedAddr + (a - FixedAddr)) \div SectorSize = FixedAddr \div SectorSize
    BY <2>1, StartsSector
  <2> QED BY <2>1, <2>2, Zenon DEF Sector
<1>3. FixedAddr \in Addresses BY DEF Addresses
<1> QED BY <1>1, <1>2, <1>3

-----------------------------------------------------------------------------
(* Each step of the flash keeps the invariant. *)

LEMMA EepromInitInv == EepromInit => EepromInv
<1> SUFFICES ASSUME EepromInit PROVE EepromInv
  OBVIOUS
<1>1. Idle \in Calls
  <2>1. 0 \in Addresses /\ <<>> \in Seq(Byte) BY Sizes DEF Addresses
  <2> QED BY <2>1 DEF Idle, Calls
<1>2. EepromTypes BY <1>1 DEF EepromInit, EepromTypes, Flash, Byte, Erased
<1>3. UnderWay BY DEF EepromInit, UnderWay
<1>4. EepromKeeps
  BY DEF EepromInit, EepromKeeps, OthersAreKept, OkIsDone, NoMixture, Idle
<1> QED BY <1>2, <1>3, <1>4 DEF EepromInv

\* A call that is made finds the flash as it is, and has done nothing yet.
LEMMA CallKeeps ==
  ASSUME EepromInv, NEW call \in Calls, NEW allowed \in BOOLEAN, Call(call, allowed),
         call.op \in Ops,
         allowed /\ call.left # 0 => CanBeDone(call),
         call.op \in {"erase", "save"} => call.left > 0
  PROVE  EepromInv'
<1>1. /\ asked' = call /\ before' = cells /\ cells' = cells /\ buffer' = <<>>
      /\ job' = Idle \/ (job' = call /\ allowed /\ call.left # 0 /\ status' = "none")
      /\ job' = Idle =>
           status' = "ERROR" \/ (status' = "OK" /\ call.left = 0 /\ call.op \in {"read", "write"})
  <2>1. call # Idle /\ call.left \in Nat BY DEF Idle, Ops, Calls
  <2>2. CASE ~allowed BY <2>2, Zenon DEF Call
  <2>3. CASE allowed /\ call.left = 0 BY <2>1, <2>3 DEF Call, Ops
  <2>4. CASE allowed /\ call.left # 0 BY <2>1, <2>4 DEF Call
  <2> QED BY <2>2, <2>3, <2>4
<1>2. Idle \in Calls /\ call.left \in Nat
  <2>1. 0 \in Addresses /\ <<>> \in Seq(Byte) BY Sizes DEF Addresses
  <2> QED BY <2>1 DEF Idle, Calls
<1>3. EepromTypes' BY <1>1, <1>2 DEF EepromInv, EepromTypes
<1>4. UnderWay'
  <2> SUFFICES ASSUME job' # Idle PROVE UnderWay'
    BY DEF UnderWay
  <2>1. job' = call /\ allowed /\ call.left # 0 /\ status' = "none" BY <1>1
  <2>2. CanBeDone(asked)' BY <1>1, <2>1 DEF CanBeDone
  <2>3. Done' = 0 BY <1>1, <1>2, <2>1 DEF Done
  <2>4. \A a \in DOMAIN cells : cells[a] = Expected(a)'
    <3>1. asked'.addr \in Nat BY <1>1, Sizes DEF Calls, Addresses
    <3> QED BY <1>1, <2>3, <3>1 DEF Expected
  <2>5. buffer' = [i \in 1 .. Done' |-> cells[asked'.addr + i - 1]]
    BY <1>1, <2>3
  <2>6. asked'.addr \in Nat BY <1>1, Sizes DEF Calls, Addresses
  <2> QED BY <1>1, <1>2, <2>1, <2>2, <2>3, <2>4, <2>5, <2>6 DEF UnderWay
<1>5. EepromKeeps'
  <2>1. OthersAreKept' BY <1>1 DEF OthersAreKept
  <2>2. NoMixture' BY <1>1 DEF NoMixture
  <2>3. OkIsDone'
    <3> SUFFICES ASSUME status' = "OK" PROVE OkIsDone'
      BY DEF OkIsDone
    <3>1. call.left = 0 /\ call.op \in {"read", "write"} BY <1>1
    <3>2. CASE call.op = "read"
      <4>1. buffer' = [i \in 1 .. call.left |-> cells[call.addr + i - 1]]
        BY <1>1, <3>1
      <4> QED BY <1>1, <3>2, <4>1 DEF OkIsDone
    <3>3. CASE call.op = "write"
      <4>1. call.addr \in Nat BY Sizes DEF Calls, Addresses
      <4>2. Touched' = {} BY <1>1, <3>1, <3>3, <4>1, Sizes DEF Touched
      <4> QED BY <1>1, <3>3, <4>2 DEF OkIsDone
    <3> QED BY <3>1, <3>2, <3>3
  <2> QED BY <2>1, <2>2, <2>3 DEF EepromKeeps
<1> QED BY <1>3, <1>4, <1>5 DEF EepromInv

\* The byte a command works on, when it works on the flash.
LEMMA ByteOfStep ==
  ASSUME EepromInv, job # Idle, job.addr < Allocated
  PROVE  /\ job.addr \in 0 .. Allocated - 1
         /\ asked.addr \in Nat /\ asked.left \in Nat /\ job.left \in Nat /\ Done \in Nat
         /\ job.op \in Ops /\ job.op = asked.op /\ job.data = asked.data /\ status = "none"
         /\ job.left \in 1 .. asked.left /\ CanBeDone(asked)
         /\ NextCommand = IF asked.op = "save" THEN IF Done = 0 THEN "erase" ELSE "write"
                          ELSE asked.op
<1>1. /\ CanBeDone(asked) /\ status = "none" /\ job.op = asked.op /\ job.op \in Ops
      /\ job.data = asked.data /\ job.left \in 1 .. asked.left
  BY DEF EepromInv, UnderWay
<1>2. /\ asked.addr \in Nat /\ asked.left \in Nat /\ job.left \in Nat /\ job.addr \in Nat
      /\ asked.op \in Ops \cup {"idle"}
  BY Sizes DEF EepromInv, EepromTypes, Calls, Addresses
<1>3. Done \in Nat BY <1>1, <1>2 DEF Done
<1>4. job.addr \in 0 .. Allocated - 1 BY <1>2, Sizes
<1>5. NextCommand = IF asked.op = "save" THEN IF Done = 0 THEN "erase" ELSE "write" ELSE asked.op
  <2>1. CASE asked.op = "save"
    <3>1. asked.left = FixedSize + 1 /\ FixedSize \in Nat
      BY <1>1, <2>1, Sizes DEF CanBeDone
    <3> QED BY <1>1, <1>2, <2>1, <3>1 DEF NextCommand, Done
  <2>2. CASE asked.op # "save" BY <1>1, <2>2 DEF NextCommand
  <2> QED BY <2>1, <2>2
<1> QED BY <1>1, <1>2, <1>3, <1>4, <1>5

\* The flash as a command finds it and as it leaves it: Expected for one more byte.
ExpectedNext(a) ==
  CASE asked.op = "write" ->
         IF a \in asked.addr .. asked.addr + Done THEN Content(a) \cap before[a] ELSE before[a]
    [] asked.op = "erase" -> IF a \in Sector(asked.addr) THEN Erased ELSE before[a]
    [] asked.op = "save" ->
         IF a \in FixedAddr .. FixedAddr + Done - 1 THEN Content(a)
         ELSE IF a \in Sector(FixedAddr) THEN Erased ELSE before[a]
    [] OTHER -> before[a]

\* What the program hands over are bytes.
LEMMA ContentIsByte ==
  ASSUME EepromInv, job # Idle, job.addr < Allocated,
         NEW a \in Nat,
         \/ asked.op = "write" /\ a \in asked.addr .. asked.addr + asked.left - 1
         \/ asked.op = "save" /\ a \in Block
  PROVE  Content(a) \in Byte
<1>1. CanBeDone(asked) /\ asked.addr \in Nat /\ asked.left \in Nat /\ asked.data \in Seq(Byte)
  BY ByteOfStep DEF EepromInv, EepromTypes, Calls
<1>2. a - asked.addr + 1 \in 1 .. Len(asked.data)
  <2>1. CASE asked.op = "write" BY <1>1, <2>1 DEF CanBeDone
  <2>2. CASE asked.op = "save" BY <1>1, <2>2, Sizes DEF CanBeDone, Block
  <2> QED BY <2>1, <2>2
<1> QED BY <1>1, <1>2 DEF Content

LEMMA CommandMakesExpected ==
  ASSUME EepromInv, job # Idle, job.addr < Allocated
  PROVE  /\ Commanded(NextCommand) \in Flash
         /\ \A a \in 0 .. Allocated - 1 : Commanded(NextCommand)[a] = ExpectedNext(a)
<1> USE Sizes
<1>1. /\ job.addr \in 0 .. Allocated - 1
      /\ asked.addr \in Nat /\ asked.left \in Nat /\ job.left \in Nat /\ Done \in Nat
      /\ job.op \in Ops /\ job.op = asked.op /\ job.data = asked.data
      /\ job.left \in 1 .. asked.left /\ CanBeDone(asked)
      /\ NextCommand = IF asked.op = "save" THEN IF Done = 0 THEN "erase" ELSE "write"
                       ELSE asked.op
  BY ByteOfStep
<1>2. /\ job.addr = asked.addr + (IF asked.op = "save" /\ Done > 0 THEN Done - 1 ELSE Done)
      /\ \A a \in 0 .. Allocated - 1 : cells[a] = Expected(a)
      /\ cells \in Flash /\ before \in Flash
  BY DEF EepromInv, EepromTypes, UnderWay, Flash
<1>3. NextCommand = "write" => Value = Content(job.addr)
  <2> SUFFICES ASSUME NextCommand = "write" PROVE Value = Content(job.addr)
    BY <1>1
  <2>1. Len(asked.data) + 1 - job.left = job.addr - asked.addr + 1
    <3>1. CASE asked.op = "write" BY <1>1, <1>2, <3>1 DEF CanBeDone, Done
    <3>2. CASE asked.op = "save"
      <4>1. job.addr = asked.addr + Done - 1 BY <1>1, <1>2, <3>2
      <4>2. /\ Len(asked.data) = FixedSize /\ asked.left = FixedSize + 1
            /\ Done = asked.left - job.left
        BY <1>1, <3>2 DEF CanBeDone, Done
      <4> QED BY <1>1, <4>1, <4>2
    <3> QED BY <1>1, <3>1, <3>2
  <2> QED BY <1>1, <2>1 DEF Value, Content
<1>4. CASE asked.op = "read"
  BY <1>1, <1>2, <1>4 DEF Commanded, Expected, ExpectedNext
<1>5. CASE asked.op = "erase"
  <2>1. Commanded(NextCommand) =
          [a \in 0 .. Allocated - 1 |-> IF a \in Sector(asked.addr) THEN Erased ELSE cells[a]]
    <3>1. job.addr = asked.addr BY <1>1, <1>2, <1>5 DEF CanBeDone, Done
    <3> QED BY <1>1, <1>2, <1>5, <3>1 DEF Commanded, Flash
  <2>2. \A a \in 0 .. Allocated - 1 : cells[a] = before[a] /\ cells[a] \in Byte
    BY <1>2, <1>5 DEF Expected, Flash
  <2>3. Erased \in Byte BY DEF Erased, Byte
  <2> QED BY <1>1, <1>5, <2>1, <2>2, <2>3 DEF ExpectedNext, Flash
<1>6. CASE asked.op = "save" /\ Done = 0
  <2>1. job.addr = FixedAddr BY <1>1, <1>2, <1>6 DEF CanBeDone
  <2>2. Commanded(NextCommand) =
          [a \in 0 .. Allocated - 1 |-> IF a \in Sector(FixedAddr) THEN Erased ELSE cells[a]]
    BY <1>1, <1>2, <1>6, <2>1 DEF Commanded, Flash
  <2>3. \A a \in 0 .. Allocated - 1 : cells[a] = before[a] /\ cells[a] \in Byte
    BY <1>2, <1>6 DEF Expected, Flash
  <2>4. Erased \in Byte BY DEF Erased, Byte
  <2>5. FixedAddr .. FixedAddr + Done - 1 = {} BY <1>6
  <2> QED BY <1>1, <1>6, <2>2, <2>3, <2>4, <2>5 DEF ExpectedNext, Flash
<1>7. CASE asked.op = "save" /\ Done > 0
  <2>1. job.addr = FixedAddr + Done - 1 /\ NextCommand = "write" /\ job.addr \in Block
    BY <1>1, <1>2, <1>7 DEF CanBeDone, Done, Block
  <2>2. Commanded(NextCommand) = [cells EXCEPT ![job.addr] = @ \cap Content(job.addr)]
    BY <1>3, <2>1 DEF Commanded, Programmed
  <2>3. cells[job.addr] = Erased BY <1>1, <1>2, <1>7, <2>1, Sectors DEF Expected
  <2>4. Content(job.addr) \in Byte /\ Erased \cap Content(job.addr) = Content(job.addr)
    BY <1>1, <1>7, <2>1, ContentIsByte DEF Erased, Byte
  <2>5. Commanded(NextCommand) = [cells EXCEPT ![job.addr] = Content(job.addr)]
    BY <1>2, <2>2, <2>3, <2>4 DEF Flash
  <2>6. \A a \in 0 .. Allocated - 1 :
          cells[a] = IF a \in FixedAddr .. FixedAddr + Done - 2 THEN Content(a)
                     ELSE IF a \in Sector(FixedAddr) THEN Erased ELSE before[a]
    BY <1>2, <1>7 DEF Expected
  <2>7. Commanded(NextCommand) \in Flash BY <1>1, <1>2, <2>4, <2>5 DEF Flash
  <2>8. \A a \in 0 .. Allocated - 1 :
          Commanded(NextCommand)[a] = IF a = job.addr THEN Content(a) ELSE cells[a]
    BY <1>1, <1>2, <2>5 DEF Flash
  <2>9. \A a \in 0 .. Allocated - 1 :
          a \in FixedAddr .. FixedAddr + Done - 1
            <=> a = job.addr \/ a \in FixedAddr .. FixedAddr + Done - 2
    BY <1>1, <1>7, <2>1
  <2> QED BY <1>7, <2>6, <2>7, <2>8, <2>9 DEF ExpectedNext
<1>8. CASE asked.op = "write"
  <2>1. job.addr = asked.addr + Done /\ NextCommand = "write"
    BY <1>1, <1>2, <1>8
  <2>2. Commanded(NextCommand) = [cells EXCEPT ![job.addr] = @ \cap Content(job.addr)]
    BY <1>3, <2>1 DEF Commanded, Programmed
  <2>3. \A a \in 0 .. Allocated - 1 :
          cells[a] = IF a \in asked.addr .. asked.addr + Done - 1 THEN Content(a) \cap before[a]
                     ELSE before[a]
    BY <1>2, <1>8 DEF Expected
  <2>4. cells[job.addr] = before[job.addr]
    <3>1. job.addr \notin asked.addr .. asked.addr + Done - 1 BY <1>1, <2>1
    <3> QED BY <1>1, <2>3, <3>1
  <2>5. cells[job.addr] \cap Content(job.addr) \in Byte
    BY <1>1, <1>2 DEF Flash, Byte
  <2>6. Commanded(NextCommand) \in Flash BY <1>1, <1>2, <2>2, <2>5 DEF Flash
  <2>7. \A a \in 0 .. Allocated - 1 :
          Commanded(NextCommand)[a] =
            IF a = job.addr THEN Content(a) \cap before[a] ELSE cells[a]
    BY <1>1, <1>2, <2>2, <2>4 DEF Flash
  <2>8. \A a \in 0 .. Allocated - 1 :
          a \in asked.addr .. asked.addr + Done
            <=> a = job.addr \/ a \in asked.addr .. asked.addr + Done - 1
    BY <1>1, <2>1
  <2> QED BY <1>8, <2>3, <2>6, <2>7, <2>8 DEF ExpectedNext
<1> QED BY <1>1, <1>4, <1>5, <1>6, <1>7, <1>8 DEF Ops

\* With one more byte the rest of the flash is still as it was.
LEMMA NextKeepsOthers ==
  ASSUME EepromInv, job # Idle, job.addr < Allocated, NEW a \in 0 .. Allocated - 1,
         a \notin Touched
  PROVE  ExpectedNext(a) = before[a]
<1>1. /\ asked.addr \in Nat /\ asked.left \in Nat /\ job.left \in Nat /\ Done \in Nat
      /\ asked.op \in Ops /\ CanBeDone(asked) /\ Done = asked.left - job.left /\ job.left >= 1
  BY ByteOfStep DEF Done
<1>2. CASE asked.op = "read" BY <1>2 DEF ExpectedNext
<1>3. CASE asked.op = "erase" BY <1>3 DEF ExpectedNext, Touched
<1>4. CASE asked.op = "write"
  <2>1. a \notin asked.addr .. asked.addr + Done
    <3>1. asked.addr + asked.left <= Size /\ Touched = asked.addr .. asked.addr + asked.left - 1 \cap 0 .. Size - 1
      BY <1>1, <1>4 DEF Touched, CanBeDone
    <3> QED BY <1>1, <3>1, Sizes
  <2> QED BY <1>4, <2>1 DEF ExpectedNext
<1>5. CASE asked.op = "save"
  <2>1. a \notin Sector(FixedAddr) BY <1>1, <1>5 DEF Touched, CanBeDone
  <2>2. a \notin FixedAddr .. FixedAddr + Done - 1
    BY <1>1, <1>5, <2>1, Sectors, Sizes DEF CanBeDone, Block
  <2> QED BY <1>5, <2>1, <2>2 DEF ExpectedNext
<1> QED BY <1>1, <1>2, <1>3, <1>4, <1>5 DEF Ops

\* From the erase on, the block has the bits of the new content at least.
LEMMA BlockHoldsContent ==
  ASSUME EepromInv, job # Idle, job.addr < Allocated, asked.op = "save", NEW a \in Block
  PROVE  /\ a \in 0 .. Allocated - 1
         /\ Content(a) \subseteq ExpectedNext(a)
         /\ Done > 0 => Content(a) \subseteq Expected(a)
<1>1. /\ asked.addr \in Nat /\ Done \in Nat /\ CanBeDone(asked) /\ asked.addr = FixedAddr
      /\ job.left \in 1 .. FixedSize + 1 /\ Done = FixedSize + 1 - job.left
      /\ job.addr = FixedAddr + (IF Done > 0 THEN Done - 1 ELSE Done)
  BY ByteOfStep DEF Done, CanBeDone, EepromInv, UnderWay
<1>2. a \in Nat /\ a \in Sector(FixedAddr) BY Sectors, Sizes DEF Block
<1>3. FixedAddr < Allocated BY <1>1, Sizes
<1>4. a \in 0 .. Allocated - 1 BY <1>2, <1>3, Sectors
<1>5. Content(a) \subseteq Erased BY <1>2, ContentIsByte DEF Erased, Byte
<1>6. Content(a) \subseteq ExpectedNext(a) BY <1>2, <1>5 DEF ExpectedNext
<1>7. Done > 0 => Content(a) \subseteq Expected(a) BY <1>2, <1>5 DEF Expected
<1> QED BY <1>4, <1>6, <1>7

\* When the command was the last one, what was asked for is done.
LEMMA LastCommand ==
  ASSUME EepromInv, job # Idle, job.addr < Allocated, trigger, job.left = 1
  PROVE  EepromInv'
<1>1. /\ job.addr \in 0 .. Allocated - 1
      /\ asked.addr \in Nat /\ asked.left \in Nat /\ Done \in Nat
      /\ job.op \in Ops /\ job.op = asked.op /\ CanBeDone(asked)
      /\ Done = asked.left - 1
  BY ByteOfStep DEF Done
<1>2. /\ cells' = Commanded(NextCommand) /\ job' = Idle /\ status' = "OK"
      /\ before' = before /\ asked' = asked
      /\ buffer' = IF NextCommand = "read" THEN Append(buffer, cells[job.addr]) ELSE buffer
  BY DEF trigger
<1>3. /\ cells' \in Flash /\ \A a \in 0 .. Allocated - 1 : cells'[a] = ExpectedNext(a)
      /\ DOMAIN cells' = 0 .. Allocated - 1
  BY <1>2, CommandMakesExpected DEF Flash
<1>4. EepromTypes'
  <2>1. Idle \in Calls
    <3>1. 0 \in Addresses /\ <<>> \in Seq(Byte) BY Sizes DEF Addresses
    <3> QED BY <3>1 DEF Idle, Calls
  <2> QED BY <1>2, <1>3, <2>1 DEF EepromInv, EepromTypes
<1>5. UnderWay' BY <1>2 DEF UnderWay
<1>6. OthersAreKept' BY <1>2, <1>3, NextKeepsOthers DEF OthersAreKept, Touched
<1>7. OkIsDone'
  <2>1. CASE asked.op = "save"
    <3>1. Block = FixedAddr .. FixedAddr + Done - 1
      BY <1>1, <2>1 DEF Block, CanBeDone
    <3>2. Block \subseteq 0 .. Allocated - 1
      <4>1. job.addr = FixedAddr + Done - 1 \/ Done = 0
        BY <1>1, <2>1 DEF EepromInv, UnderWay, CanBeDone
      <4> QED BY <1>1, <3>1, <4>1, Sizes
    <3>3. \A a \in Block : cells'[a] = Content(a)
      BY <1>3, <2>1, <3>1, <3>2 DEF ExpectedNext
    <3> QED BY <1>2, <2>1, <3>3 DEF OkIsDone, Content
  <2>2. CASE asked.op = "write"
    <3>1. Touched = asked.addr .. asked.addr + Done
      <4>1. asked.addr + asked.left <= Size /\ asked.addr + asked.left - 1 = asked.addr + Done
        BY <1>1, <2>2 DEF CanBeDone
      <4>2. Touched = asked.addr .. asked.addr + asked.left - 1 \cap 0 .. Size - 1
        BY <2>2 DEF Touched
      <4>3. \A i \in asked.addr .. asked.addr + asked.left - 1 : i \in 0 .. Size - 1
        BY <1>1, <4>1, Sizes
      <4> QED BY <4>1, <4>2, <4>3
    <3>2. job.addr = asked.addr + Done BY <2>2 DEF EepromInv, UnderWay
    <3>3. \A a \in Touched : cells'[a] = Content(a) \cap before[a]
      BY <1>1, <1>3, <2>2, <3>1, <3>2, Sizes DEF ExpectedNext
    <3> QED BY <1>2, <2>2, <3>3 DEF OkIsDone, Content, Touched
  <2>3. CASE asked.op = "erase"
    <3>1. job.addr = asked.addr BY <1>1, <2>3 DEF EepromInv, UnderWay, CanBeDone
    <3>2. Touched \subseteq 0 .. Allocated - 1
      BY <2>3, <3>1, Sectors DEF Touched, EepromInv, EepromTypes, Calls
    <3>3. \A a \in Touched : cells'[a] = Erased
      BY <1>3, <2>3, <3>2 DEF ExpectedNext, Touched
    <3> QED BY <1>2, <2>3, <3>3 DEF OkIsDone, Touched
  <2>4. CASE asked.op = "read"
    <3>1. /\ buffer = [i \in 1 .. Done |-> cells[asked.addr + i - 1]]
          /\ job.addr = asked.addr + Done
      BY <1>1, <2>4 DEF EepromInv, UnderWay
    <3>2. cells' = cells BY <1>2, <2>4, ByteOfStep DEF Commanded
    <3>3. NextCommand = "read" BY <2>4, ByteOfStep
    <3>4. buffer' = [i \in 1 .. asked.left |-> cells[asked.addr + i - 1]]
      BY <1>1, <1>2, <3>1, <3>3
    <3> QED BY <1>2, <2>4, <3>2, <3>4 DEF OkIsDone
  <2> QED BY <1>1, <2>1, <2>2, <2>3, <2>4 DEF Ops
<1>8. NoMixture'
  <2> SUFFICES ASSUME asked.op = "save"
               PROVE  \A a \in Block : Content(a) \subseteq cells'[a]
    BY <1>2 DEF NoMixture, Content
  <2> QED BY <1>2, <1>7 DEF OkIsDone, Content
<1> QED BY <1>4, <1>5, <1>6, <1>7, <1>8 DEF EepromInv, EepromKeeps

\* Another command is needed: the flash is as expected, one byte further.
LEMMA OneMoreCommand ==
  ASSUME EepromInv, job # Idle, job.addr < Allocated, trigger, job.left # 1
  PROVE  EepromInv'
<1>1. /\ job.addr \in 0 .. Allocated - 1
      /\ asked.addr \in Nat /\ asked.left \in Nat /\ job.left \in Nat /\ Done \in Nat
      /\ job.op \in Ops /\ job.op = asked.op /\ job.data = asked.data /\ CanBeDone(asked)
      /\ job.left \in 1 .. asked.left /\ status = "none" /\ Done = asked.left - job.left
      /\ NextCommand = IF asked.op = "save" THEN IF Done = 0 THEN "erase" ELSE "write"
                       ELSE asked.op
  BY ByteOfStep DEF Done
<1>2. /\ cells' = Commanded(NextCommand) /\ job' = Advanced(NextCommand) /\ status' = status
      /\ before' = before /\ asked' = asked
      /\ buffer' = IF NextCommand = "read" THEN Append(buffer, cells[job.addr]) ELSE buffer
  BY DEF trigger
<1>3. /\ cells' \in Flash /\ \A a \in 0 .. Allocated - 1 : cells'[a] = ExpectedNext(a)
      /\ DOMAIN cells' = 0 .. Allocated - 1
  BY <1>2, CommandMakesExpected DEF Flash
<1>4. job.addr = asked.addr + (IF asked.op = "save" /\ Done > 0 THEN Done - 1 ELSE Done)
  BY DEF EepromInv, UnderWay
<1>5. asked.op # "erase" /\ (NextCommand # "erase" => job.addr + 1 < Size)
  <2>1. asked.op # "erase" BY <1>1 DEF CanBeDone
  <2>2. CASE asked.op = "save"
    <3>1. asked.addr = FixedAddr /\ asked.left = FixedSize + 1
      BY <1>1, <2>2 DEF CanBeDone
    <3> QED BY <1>1, <1>4, <2>2, <3>1, Sizes
  <2>3. CASE asked.op \in {"read", "write"}
    <3>1. asked.addr + asked.left <= Size BY <1>1, <2>3 DEF CanBeDone
    <3> QED BY <1>1, <1>4, <2>3, <3>1, Sizes
  <2> QED BY <1>1, <2>1, <2>2, <2>3 DEF Ops
<1>6. /\ job' \in Calls /\ job'.op = job.op /\ job'.data = job.data /\ job'.left = job.left - 1
      /\ job'.addr = IF NextCommand = "erase" THEN job.addr ELSE job.addr + 1
      /\ job' # Idle
  <2> DEFINE addr == IF NextCommand = "erase" THEN job.addr ELSE (job.addr + 1) % Word
  <2>1. addr = IF NextCommand = "erase" THEN job.addr ELSE job.addr + 1
    BY <1>1, <1>5, Sizes
  <2>2. addr \in Addresses BY <1>1, <1>5, <2>1, Sizes DEF Addresses
  <2>3. job' = [job EXCEPT !.left = job.left - 1, !.addr = addr]
    BY <1>2 DEF Advanced
  <2>4. job \in Calls /\ job.left - 1 \in Nat BY <1>1 DEF EepromInv, EepromTypes
  <2> HIDE DEF addr
  <2>5. /\ job' \in Calls /\ job'.op = job.op /\ job'.data = job.data
        /\ job'.left = job.left - 1 /\ job'.addr = addr
    BY <2>2, <2>3, <2>4 DEF Calls
  <2>6. job' # Idle BY <1>1, <2>5 DEF Idle, Ops
  <2> QED BY <2>1, <2>5, <2>6
<1>7. Done' = Done + 1 BY <1>1, <1>2, <1>6 DEF Done
<1>8. \A a \in 0 .. Allocated - 1 : ExpectedNext(a) = Expected(a)'
  <2> SUFFICES ASSUME NEW a \in 0 .. Allocated - 1 PROVE ExpectedNext(a) = Expected(a)'
    OBVIOUS
  <2>1. Content(a)' = Content(a) BY <1>2 DEF Content
  <2>2. CASE asked.op = "write"
    <3>1. asked'.addr + Done' - 1 = asked.addr + Done BY <1>1, <1>2, <1>7
    <3> QED BY <1>2, <2>1, <2>2, <3>1 DEF Expected, ExpectedNext
  <2>3. CASE asked.op = "save"
    <3>1. FixedAddr + Done' - 2 = FixedAddr + Done - 1 /\ Done' > 0
      BY <1>1, <1>7, Sizes
    <3> QED BY <1>2, <2>1, <2>3, <3>1 DEF Expected, ExpectedNext
  <2>4. CASE asked.op = "read" BY <1>2, <2>4 DEF Expected, ExpectedNext
  <2> QED BY <1>1, <1>5, <2>2, <2>3, <2>4 DEF Ops
<1>9. asked.op = "read" => buffer' = [i \in 1 .. Done' |-> cells'[asked'.addr + i - 1]]
  <2> SUFFICES ASSUME asked.op = "read"
               PROVE  buffer' = [i \in 1 .. Done' |-> cells'[asked'.addr + i - 1]]
    OBVIOUS
  <2>1. cells' = cells /\ buffer' = Append(buffer, cells[asked.addr + Done])
    BY <1>1, <1>2, <1>4 DEF Commanded
  <2>2. buffer = [i \in 1 .. Done |-> cells[asked.addr + i - 1]]
    BY <1>1 DEF EepromInv, UnderWay
  <2> QED BY <1>1, <1>2, <1>7, <2>1, <2>2
<1>10. EepromTypes' BY <1>2, <1>3, <1>6 DEF EepromInv, EepromTypes
<1>11. UnderWay'
  <2>1. job'.addr = asked'.addr + (IF asked'.op = "save" /\ Done' > 0 THEN Done' - 1 ELSE Done')
    <3>1. CASE asked.op = "save"
      <4>1. CASE Done = 0 BY <1>1, <1>2, <1>4, <1>6, <1>7, <3>1, <4>1
      <4>2. CASE Done > 0 BY <1>1, <1>2, <1>4, <1>6, <1>7, <3>1, <4>2
      <4> QED BY <1>1, <4>1, <4>2
    <3>2. CASE asked.op # "save"
      <4>1. NextCommand # "erase" BY <1>1, <1>5, <3>2
      <4> QED BY <1>1, <1>2, <1>4, <1>6, <1>7, <3>2, <4>1
    <3> QED BY <3>1, <3>2
  <2>2. /\ CanBeDone(asked)' /\ status' = "none" /\ job'.op = asked'.op /\ job'.op \in Ops
        /\ job'.data = asked'.data /\ job'.left \in 1 .. asked'.left
    BY <1>1, <1>2, <1>6 DEF CanBeDone
  <2>3. \A a \in DOMAIN cells' : cells'[a] = Expected(a)' BY <1>3, <1>8
  <2> QED BY <1>2, <1>9, <2>1, <2>2, <2>3 DEF UnderWay
<1>12. EepromKeeps'
  <2>1. OthersAreKept' BY <1>2, <1>3, NextKeepsOthers DEF OthersAreKept, Touched
  <2>2. NoMixture'
    <3>1. asked.op = "save" => \A a \in Block : Content(a) \subseteq cells'[a]
      BY <1>3, BlockHoldsContent
    <3> QED BY <1>2, <3>1 DEF NoMixture, Content
  <2>3. OkIsDone' BY <1>1, <1>2 DEF OkIsDone
  <2> QED BY <2>1, <2>2, <2>3 DEF EepromKeeps
<1> QED BY <1>10, <1>11, <1>12 DEF EepromInv

LEMMA FailureKeeps == ASSUME EepromInv, CommandFails PROVE EepromInv'
<1>1. Idle \in Calls
  <2>1. 0 \in Addresses /\ <<>> \in Seq(Byte) BY Sizes DEF Addresses
  <2> QED BY <2>1 DEF Idle, Calls
<1>2. /\ job' = Idle /\ status' = "ERROR" /\ cells' = cells /\ before' = before /\ asked' = asked
  BY DEF CommandFails
<1>3. EepromTypes' /\ UnderWay'
  BY <1>1, <1>2 DEF EepromInv, EepromTypes, UnderWay
<1>4. OthersAreKept' /\ NoMixture'
  BY <1>2 DEF EepromInv, EepromKeeps, OthersAreKept, NoMixture, Touched, Content
<1>5. OkIsDone' BY <1>2 DEF OkIsDone
<1> QED BY <1>3, <1>4, <1>5 DEF EepromInv, EepromKeeps

\* A cut leaves each byte between what it was and what the command would have made of it.
LEMMA CutKeeps == ASSUME EepromInv, PowerCut PROVE EepromInv'
<1>1. Idle \in Calls
  <2>1. 0 \in Addresses /\ <<>> \in Seq(Byte) BY Sizes DEF Addresses
  <2> QED BY <2>1 DEF Idle, Calls
<1>2. /\ job # Idle /\ job.addr < Allocated
      /\ job' = Idle /\ status' = "none" /\ before' = before /\ asked' = asked
      /\ cells' \in Flash
      /\ \A a \in DOMAIN cells' : cells'[a] \in Between(cells[a], Commanded(NextCommand)[a])
  BY DEF PowerCut, Flash
<1>3. /\ DOMAIN cells = 0 .. Allocated - 1 /\ DOMAIN cells' = 0 .. Allocated - 1
      /\ \A a \in 0 .. Allocated - 1 : cells'[a] \in Between(Expected(a), ExpectedNext(a))
  <2>1. DOMAIN cells = 0 .. Allocated - 1 /\ DOMAIN cells' = 0 .. Allocated - 1
    BY <1>2 DEF EepromInv, EepromTypes, Flash
  <2>2. \A a \in 0 .. Allocated - 1 : cells[a] = Expected(a)
    BY <1>2, <2>1 DEF EepromInv, UnderWay
  <2>3. \A a \in 0 .. Allocated - 1 : Commanded(NextCommand)[a] = ExpectedNext(a)
    BY <1>2, CommandMakesExpected
  <2> QED BY <1>2, <2>1, <2>2, <2>3
<1>4. EepromTypes' /\ UnderWay'
  BY <1>1, <1>2 DEF EepromInv, EepromTypes, UnderWay
<1>5. OthersAreKept'
  <2> SUFFICES ASSUME NEW a \in 0 .. Allocated - 1, a \notin Touched PROVE cells'[a] = before[a]
    BY <1>2, <1>3 DEF OthersAreKept, Touched
  <2>1. Expected(a) = before[a]
    BY <1>2, <1>3 DEF EepromInv, EepromKeeps, OthersAreKept, UnderWay
  <2>2. ExpectedNext(a) = before[a] BY <1>2, NextKeepsOthers
  <2> QED BY <1>3, <2>1, <2>2 DEF Between
<1>6. NoMixture'
  <2> SUFFICES ASSUME asked.op = "save"
               PROVE  \/ \A a \in Block : before[a] \subseteq cells'[a]
                      \/ \A a \in Block : Content(a) \subseteq cells'[a]
    BY <1>2 DEF NoMixture, Content
  <2>1. CASE Done > 0
    <3>1. ASSUME NEW a \in Block PROVE Content(a) \subseteq cells'[a]
      BY <1>2, <1>3, <2>1, BlockHoldsContent DEF Between
    <3> QED BY <3>1
  <2>2. CASE ~(Done > 0)
    <3>1. ASSUME NEW a \in Block PROVE before[a] \subseteq cells'[a]
      <4>1. a \in 0 .. Allocated - 1 /\ a \in Sector(FixedAddr)
        BY <1>2, BlockHoldsContent, Sectors
      <4>2. Expected(a) = before[a] BY <2>2 DEF Expected
      <4>3. ExpectedNext(a) = Erased
        <5>1. Done \in Nat /\ Done = 0 BY <1>2, <2>2, ByteOfStep
        <5>2. a \notin FixedAddr .. FixedAddr + Done - 1 BY <5>1, Sizes
        <5> QED BY <4>1, <5>2 DEF ExpectedNext
      <4>4. before[a] \subseteq Erased
        BY <4>1 DEF EepromInv, EepromTypes, Flash, Byte, Erased
      <4> QED BY <1>3, <4>1, <4>2, <4>3, <4>4 DEF Between
    <3> QED BY <3>1
  <2> QED BY <2>1, <2>2
<1>7. OkIsDone' BY <1>2 DEF OkIsDone
<1> QED BY <1>4, <1>5, <1>6, <1>7 DEF EepromInv, EepromKeeps

LEMMA EepromNextInv == EepromInv /\ [EepromNext]_eepromVars => EepromInv'
<1> SUFFICES ASSUME EepromInv, [EepromNext]_eepromVars PROVE EepromInv'
  OBVIOUS
<1> USE Sizes
<1>1. CASE UNCHANGED eepromVars
  BY <1>1 DEF eepromVars, EepromInv, EepromTypes, UnderWay, EepromKeeps, OthersAreKept, OkIsDone,
              NoMixture, Touched, Content, Expected, Done, CanBeDone
<1>2. ASSUME NEW addr \in Addresses, erase_sector(addr) PROVE EepromInv'
  <2> DEFINE call == Made("erase", addr, <<>>, 1)
             allowed == addr < Size /\ addr % SectorSize = 0
  <2>1. call \in Calls BY <1>2 DEF Made, Calls, Ops, Addresses, Datas
  <2>2. Call(call, allowed) /\ allowed \in BOOLEAN
    BY <1>2, Zenon DEF erase_sector
  <2>3. allowed /\ call.left # 0 => CanBeDone(call)
    BY <1>2, <2>1 DEF Made, CanBeDone, Addresses
  <2>4. call.op \in Ops /\ (call.op \in {"erase", "save"} => call.left > 0)
    BY <2>1 DEF Made, Ops
  <2> HIDE DEF call, allowed
  <2> QED BY <2>1, <2>2, <2>3, <2>4, CallKeeps
<1>3. ASSUME NEW addr \in Addresses, NEW len \in 0 .. Word - 1, read(addr, len) PROVE EepromInv'
  <2> DEFINE call == Made("read", addr, <<>>, len)
             allowed == range_ok(addr, len)
  <2>1. call \in Calls BY <1>3 DEF Made, Calls, Ops, Addresses, Datas
  <2>2. Call(call, allowed) /\ allowed \in BOOLEAN
    BY <1>3, Zenon DEF read, range_ok
  <2>3. allowed /\ call.left # 0 => CanBeDone(call)
    BY <1>3, <2>1 DEF Made, CanBeDone, Addresses, range_ok
  <2>4. call.op \in Ops /\ (call.op \in {"erase", "save"} => call.left > 0)
    BY <2>1 DEF Made, Ops
  <2> HIDE DEF call, allowed
  <2> QED BY <2>1, <2>2, <2>3, <2>4, CallKeeps
<1>4. ASSUME NEW addr \in Addresses, NEW len \in 0 .. MaxWrite, NEW data \in Datas(len),
             write(addr, data)
      PROVE  EepromInv'
  <2> DEFINE call == Made("write", addr, data, Len(data))
             allowed == range_ok(addr, Len(data))
  <2>1. call \in Calls /\ Len(data) \in Nat
    BY <1>4 DEF Made, Calls, Ops, Addresses, Datas
  <2>2. Call(call, allowed) /\ allowed \in BOOLEAN
    BY <1>4, Zenon DEF write, range_ok
  <2>3. allowed /\ call.left # 0 => CanBeDone(call)
    BY <1>4, <2>1 DEF Made, CanBeDone, Addresses, range_ok
  <2>4. call.op \in Ops /\ (call.op \in {"erase", "save"} => call.left > 0)
    BY <2>1 DEF Made, Ops
  <2> HIDE DEF call, allowed
  <2> QED BY <2>1, <2>2, <2>3, <2>4, CallKeeps
<1>5. CASE read_fixed
  <2>1. Made("read", FixedAddr, <<>>, FixedSize) \in Calls
    BY DEF Made, Calls, Ops, Addresses
  <2> QED BY <1>5, <2>1, CallKeeps DEF read_fixed, Made, CanBeDone, Ops
<1>6. ASSUME NEW data \in Datas(FixedSize), save_fixed(data) PROVE EepromInv'
  <2> DEFINE call == Made("save", FixedAddr, data, FixedSize + 1)
             allowed == TRUE
  <2>1. call \in Calls /\ Len(data) = FixedSize
    BY <1>6 DEF Made, Calls, Ops, Addresses, Datas
  <2>2. Call(call, allowed) /\ allowed \in BOOLEAN BY <1>6, Zenon DEF save_fixed
  <2>3. allowed /\ call.left # 0 => CanBeDone(call)
    BY <1>6, <2>1 DEF Made, CanBeDone, Addresses
  <2>4. call.op \in Ops /\ (call.op \in {"erase", "save"} => call.left > 0)
    BY <2>1 DEF Made, Ops
  <2> HIDE DEF call, allowed
  <2> QED BY <2>1, <2>2, <2>3, <2>4, CallKeeps
<1>7. CASE trigger BY <1>7, LastCommand, OneMoreCommand DEF trigger
<1> QED BY <1>1, <1>2, <1>3, <1>4, <1>5, <1>6, <1>7, FailureKeeps, CutKeeps DEF EepromNext

\* For every flash, block and call: what is not asked for is kept, OK means done, and a save
\* that is cut or fails mixes no two blocks (stc8h_eeprom.c:21-207).
THEOREM EepromKeepsItsBytes == EepromSpec => []EepromKeeps
<1>1. EepromInv => EepromKeeps BY DEF EepromInv
<1> QED BY <1>1, EepromInitInv, EepromNextInv, PTL DEF EepromSpec

\* The flash holds bytes and the call in progress works within the address space
\* (stc8h_eeprom.c:21-207).
THEOREM EepromTypeCorrect == EepromSpec => []EepromTypeOK
<1>1. EepromInv => EepromTypeOK
  BY DEF EepromInv, EepromTypes, Flash, Calls, EepromTypeOK
<1> QED BY <1>1, EepromInitInv, EepromNextInv, PTL DEF EepromSpec

-----------------------------------------------------------------------------
(* The PWM.  The counter takes what was written over at any time, so that     *)
(* the invariant has to speak of what was written as well as of what is      *)
(* active, and of ARPE, which is set with the outputs of a group and without *)
(* which a written period would be active at once.                          *)

\* What was written is what the program was told was accepted.
WrittenAsTold ==
  /\ preload.PSC = prescaler
  /\ "ARPE" \in ctl => preload.ARR = period
  /\ "MOE" \in ctl => "ARPE" \in ctl

PwmInv == PwmTypeOK /\ CounterServesOutputs /\ WrittenAsTold

USE DEF PwmTypeOK, Values

\* A group that has never been used: nothing runs.
LEMMA PwmInitInvariant == PwmInit => PwmInv
  BY DEF PwmInit, PwmInv, CounterServesOutputs, WrittenAsTold

-----------------------------------------------------------------------------
(* Each call, and the timer, keep the invariant. *)

LEMMA EndOfPeriodStep == PwmInv /\ EndOfPeriod => PwmInv'
  BY DEF PwmInv, CounterServesOutputs, WrittenAsTold, EndOfPeriod, Update

LEMMA PrescalerStep == ASSUME PwmInv, NEW wanted \in Prescalers, set_prescaler(wanted) PROVE PwmInv'
  BY DEF PwmInv, CounterServesOutputs, WrittenAsTold, set_prescaler, group_running, Update

LEMMA PeriodStep == ASSUME PwmInv, NEW wanted \in Periods, set_period(wanted) PROVE PwmInv'
  BY DEF PwmInv, CounterServesOutputs, WrittenAsTold, set_period, group_running, Update

\* A written duty leaves period and prescaler alone.
LEMMA DutyWritten ==
  ASSUME PwmTypeOK, NEW c \in Channels, NEW duty \in Duties \cup {0}, write_duty(c, duty)
  PROVE  /\ preload' \in Values
         /\ preload'.PSC = preload.PSC /\ preload'.ARR = preload.ARR
  BY DEF write_duty, AtMost

LEMMA InitChannelStep == ASSUME PwmInv, NEW c \in Channels, init_channel(c) PROVE PwmInv'
  <1>1. /\ preload' \in Values
        /\ preload'.PSC = preload.PSC /\ preload'.ARR = preload.ARR
    BY DutyWritten DEF PwmInv, init_channel
  <1>2. QED
    BY <1>1 DEF PwmInv, CounterServesOutputs, WrittenAsTold, init_channel, set_mode

LEMMA DutyStep ==
  ASSUME PwmInv, NEW c \in Channels, NEW duty \in Duties, set_duty(c, duty) PROVE PwmInv'
  <1>1. /\ preload' \in Values
        /\ preload'.PSC = preload.PSC /\ preload'.ARR = preload.ARR
    BY DutyWritten DEF PwmInv, set_duty
  <1>2. active' \in Values /\ active'.PSC = active.PSC
    BY <1>1 DEF PwmInv, set_duty, Written
  <1>3. "ARPE" \in ctl => active'.ARR = active.ARR
    BY <1>1 DEF PwmInv, set_duty, Written
  <1>4. QED
    BY <1>1, <1>2, <1>3 DEF PwmInv, CounterServesOutputs, WrittenAsTold, set_duty

LEMMA EnableStep == ASSUME PwmInv, NEW c \in Channels, enable(c) PROVE PwmInv'
  BY DEF PwmInv, CounterServesOutputs, WrittenAsTold, enable

LEMMA DisableStep == ASSUME PwmInv, NEW c \in Channels, disable(c) PROVE PwmInv'
  BY DEF PwmInv, CounterServesOutputs, WrittenAsTold, disable

LEMMA PwmStepInvariant == PwmInv /\ [PwmNext]_pwmVars => PwmInv'
  <1> SUFFICES ASSUME PwmInv, [PwmNext]_pwmVars PROVE PwmInv'
    OBVIOUS
  <1>1. CASE UNCHANGED pwmVars
    BY <1>1 DEF PwmInv, CounterServesOutputs, WrittenAsTold, pwmVars
  <1>2. CASE PwmNext
    BY <1>2, EndOfPeriodStep, PrescalerStep, PeriodStep, InitChannelStep, DutyStep,
       EnableStep, DisableStep DEF PwmNext
  <1>3. QED BY <1>1, <1>2

\* Type correctness, for every group.
THEOREM PwmTypeCorrect == PwmSpec => []PwmTypeOK
  BY PwmInitInvariant, PwmStepInvariant, PTL DEF PwmSpec, PwmInv

-----------------------------------------------------------------------------
(* The waves of the other channels. *)

\* What WaveIsKept says of one step and one channel.
Kept(c) ==
  /\ last' # c => Driven(c)'
  /\ Driven(c)' => /\ active'.ARR = active.ARR /\ active'.PSC = active.PSC
                   /\ last' # Timer => active'.CCR[c] = active.CCR[c]

\* No step disturbs a channel that puts out its wave.
LEMMA WaveStep ==
  ASSUME PwmInv, [PwmNext]_pwmVars, NEW c \in Channels, Driven(c) PROVE Kept(c)
  <1> USE DEF PwmInv, CounterServesOutputs, WrittenAsTold, Driven, Kept
  <1>1. CASE UNCHANGED pwmVars BY <1>1 DEF pwmVars
  <1>2. CASE EndOfPeriod BY <1>2 DEF EndOfPeriod, Update
  <1>3. ASSUME NEW wanted \in Prescalers, set_prescaler(wanted) PROVE Kept(c)
    BY <1>3 DEF set_prescaler, group_running
  <1>4. ASSUME NEW wanted \in Periods, set_period(wanted) PROVE Kept(c)
    BY <1>4 DEF set_period, group_running
  <1>5. ASSUME NEW d \in Channels, init_channel(d) PROVE Kept(c)
    BY <1>5 DEF init_channel, set_mode
  <1>6. ASSUME NEW d \in Channels, NEW duty \in Duties, set_duty(d, duty) PROVE Kept(c)
    BY <1>6 DEF set_duty, Written
  <1>7. ASSUME NEW d \in Channels, enable(d) PROVE Kept(c) BY <1>7 DEF enable
  <1>8. ASSUME NEW d \in Channels, disable(d) PROVE Kept(c) BY <1>8 DEF disable
  <1>9. QED BY <1>1, <1>2, <1>3, <1>4, <1>5, <1>6, <1>7, <1>8 DEF PwmNext

\* For every group of channels: what is done for one leaves the others their wave, and the
\* counter serves those who drive a pin (stc8h_pwm_set_period to stc8h_pwm_disable).
THEOREM CounterIsShared == PwmSpec => ChannelsShareTheCounter
  <1>1. PwmInv => CounterServesOutputs BY DEF PwmInv
  <1>2. PwmInv /\ [PwmNext]_pwmVars =>
          [\A c \in Channels : Driven(c) =>
             /\ last' # c => Driven(c)'
             /\ Driven(c)' => /\ active'.ARR = active.ARR /\ active'.PSC = active.PSC
                              /\ last' # Timer => active'.CCR[c] = active.CCR[c]]_pwmVars
    BY WaveStep DEF Kept
  <1>3. QED
    BY <1>1, <1>2, PwmInitInvariant, PwmStepInvariant, PTL
       DEF PwmSpec, ChannelsShareTheCounter, WaveIsKept

-----------------------------------------------------------------------------
(* The display: runs of writes, and where they lead. *)

\* Expander and display after one write.
Exec(s, w) ==
  IF w.do = "raw"
  THEN [lines |-> [nibble |-> w.nibble, rs |-> w.rs, en |-> w.en],
        lcd |-> IF s.lines.en = 1 /\ w.en = 0 THEN Latched(s.lcd, s.lines.nibble, s.lines.rs) ELSE s.lcd]
  ELSE [lines |-> s.lines, lcd |-> [s.lcd EXCEPT !.busy = IF w.time >= @ THEN 0 ELSE @]]

\* The writes p lead from s to z.
Runs(s, p, z) ==
  \E tr : tr[1] = s /\ tr[Len(p) + 1] = z /\ \A i \in 1 .. Len(p) : tr[i + 1] = Exec(tr[i], p[i])

\* Nothing written, nothing changed.
LEMMA RunsNone ==
  ASSUME NEW s, NEW z
  PROVE  Runs(s, <<>>, z) <=> z = s
<1>1. Len(<<>>) + 1 = 1 OBVIOUS
<1>2. ASSUME Runs(s, <<>>, z) PROVE z = s BY <1>1, <1>2 DEF Runs
<1>3. ASSUME z = s PROVE Runs(s, <<>>, z)
  <2> DEFINE tr == <<s>>
  <2>1. tr[1] = s OBVIOUS
  <2> HIDE DEF tr
  <2> QED BY <1>1, <1>3, <2>1 DEF Runs
<1> QED BY <1>2, <1>3

\* A single write does what it does.
LEMMA RunsOne ==
  ASSUME NEW s, NEW w
  PROVE  Runs(s, <<w>>, Exec(s, w))
<1> DEFINE z == Exec(s, w)
           tr == <<s, z>>
<1>1. tr[1] = s /\ tr[2] = z /\ Len(<<w>>) = 1 /\ <<w>>[1] = w OBVIOUS
<1> HIDE DEF tr
<1>2. tr[1 + 1] = z /\ tr[Len(<<w>>) + 1] = z /\ \A i \in 1 .. Len(<<w>>) : tr[i + 1] = Exec(tr[i], <<w>>[i])
  BY <1>1
<1> QED BY <1>1, <1>2 DEF Runs

\* Writes after writes.
LEMMA RunsJoin ==
  ASSUME NEW a \in Seq(Writes), NEW b \in Seq(Writes), NEW s, NEW m, NEW z, Runs(s, a, m), Runs(m, b, z)
  PROVE  Runs(s, a \o b, z)
<1>1. PICK t : t[1] = s /\ t[Len(a) + 1] = m /\ \A i \in 1 .. Len(a) : t[i + 1] = Exec(t[i], a[i])
  BY DEF Runs
<1>2. PICK u : u[1] = m /\ u[Len(b) + 1] = z /\ \A i \in 1 .. Len(b) : u[i + 1] = Exec(u[i], b[i])
  BY DEF Runs
<1>3. PICK k \in Nat, l \in Nat : k = Len(a) /\ l = Len(b) OBVIOUS
<1> DEFINE tr == [i \in 1 .. k + l + 1 |-> IF i <= k THEN t[i] ELSE u[i - k]]
<1>4. /\ Len(a \o b) = k + l
      /\ \A i \in 1 .. k + l : (a \o b)[i] = IF i <= k THEN a[i] ELSE b[i - k]
  BY <1>3, ConcatProperties
<1>5. tr[1] = s
  <2>1. CASE k = 0 BY <1>1, <1>2, <1>3, <2>1
  <2>2. CASE k # 0 BY <1>1, <1>3, <2>2
  <2> QED BY <2>1, <2>2
<1>6. tr[k + l + 1] = z
  <2>1. k + l + 1 \in 1 .. k + l + 1 /\ ~(k + l + 1 <= k) /\ (k + l + 1) - k = l + 1
    BY <1>3
  <2> QED BY <2>1, <1>2, <1>3
<1>7. ASSUME NEW i \in 1 .. k + l
      PROVE  tr[i + 1] = Exec(tr[i], (a \o b)[i])
  <2>1. CASE i < k
    <3>1. tr[i] = t[i] /\ tr[i + 1] = t[i + 1] /\ (a \o b)[i] = a[i] /\ i \in 1 .. k
      BY <1>4, <2>1
    <3> QED BY <3>1, <1>1, <1>3
  <2>2. CASE i = k
    <3>0. i + 1 \in 1 .. k + l + 1 /\ ~(i + 1 <= k) /\ (i + 1) - k = 1 /\ i \in 1 .. k + l + 1 /\ i <= k
      BY <2>2
    <3>1. tr[i] = t[i] /\ tr[i + 1] = u[1] /\ (a \o b)[i] = a[i] /\ i \in 1 .. k
      <4>1. (a \o b)[i] = a[i] /\ i \in 1 .. k
        <5> HIDE DEF tr
        <5>1. (a \o b)[i] = IF i <= k THEN a[i] ELSE b[i - k] BY <1>4
        <5>2. (a \o b)[i] = a[i] BY <3>0, <5>1
        <5>3. i \in 1 .. k BY <2>2
        <5> QED BY <5>2, <5>3
      <4>2. tr[i] = t[i] /\ tr[i + 1] = u[1] BY <3>0
      <4> QED BY <4>1, <4>2
    <3>2. u[1] = t[i + 1] BY <1>1, <1>2, <1>3, <2>2
    <3> QED BY <3>1, <3>2, <1>1, <1>3
  <2>3. CASE i > k
    <3>1. PICK j \in 1 .. l : j = i - k BY <2>3
    <3>0. /\ i + 1 \in 1 .. k + l + 1 /\ ~(i + 1 <= k) /\ (i + 1) - k = j + 1
          /\ i \in 1 .. k + l + 1 /\ ~(i <= k) /\ i - k = j
      BY <2>3, <3>1
    <3>2. tr[i] = u[j] /\ tr[i + 1] = u[j + 1] /\ (a \o b)[i] = b[j]
      BY <3>0, <1>4
    <3>3. u[j + 1] = Exec(u[j], b[j]) BY <1>2, <1>3
    <3> HIDE DEF tr
    <3> QED BY <3>2, <3>3
  <2> HIDE DEF tr
  <2>4. i < k \/ i = k \/ i > k OBVIOUS
  <2> QED BY <2>1, <2>2, <2>3, <2>4
<1> HIDE DEF tr
<1> QED BY <1>4, <1>5, <1>6, <1>7 DEF Runs

\* After the first write the others are left.
LEMMA RunsStep ==
  ASSUME NEW p \in Seq(Writes), p # <<>>, NEW s, NEW z, Runs(s, p, z)
  PROVE  Runs(Exec(s, Head(p)), Tail(p), z)
<1>1. PICK t : t[1] = s /\ t[Len(p) + 1] = z /\ \A i \in 1 .. Len(p) : t[i + 1] = Exec(t[i], p[i])
  BY DEF Runs
<1>2. PICK n \in Nat \ {0} : n = Len(p) BY EmptySeq
<1>3. /\ Len(Tail(p)) = n - 1 /\ Head(p) = p[1]
      /\ \A i \in 1 .. n - 1 : Tail(p)[i] = p[i + 1]
  BY <1>2, HeadTailProperties
<1> DEFINE tr == [i \in 1 .. n |-> t[i + 1]]
<1>4. tr[1] = Exec(s, Head(p)) /\ tr[(n - 1) + 1] = z
  <2>1. t[1 + 1] = Exec(t[1], p[1]) /\ 1 \in 1 .. n BY <1>1, <1>2
  <2>2. (n - 1) + 1 = n /\ n \in 1 .. n BY <1>2
  <2> QED BY <1>1, <1>2, <1>3, <2>1, <2>2
<1>5. \A i \in 1 .. n - 1 : tr[i + 1] = Exec(tr[i], Tail(p)[i])
  <2>1. ASSUME NEW i \in 1 .. n - 1
        PROVE  tr[i + 1] = Exec(tr[i], Tail(p)[i])
    <3>1. tr[i] = t[i + 1] /\ tr[i + 1] = t[(i + 1) + 1] /\ i + 1 \in 1 .. n
      OBVIOUS
    <3> QED BY <3>1, <1>1, <1>2, <1>3
  <2> QED BY <2>1
<1> HIDE DEF tr
<1> QED BY <1>3, <1>4, <1>5 DEF Runs

LineStates == [nibble : Nibbles, rs : {0, 1}, en : {0, 1}]
Panels == {d \in Displays : d.half # <<>> => d.four}
Panel(x, d) == [lines |-> x, lcd |-> d]

\* The writes p take the display from d to e, whatever is on the lines.
Leads(p, d, e) == \A x \in LineStates : \E y \in LineStates : Runs(Panel(x, d), p, Panel(y, e))

Calm(d, time) == [d EXCEPT !.busy = IF time >= @ THEN 0 ELSE @]
Pairs == Nibbles \X Nibbles

\* What leads from d to e, and then from e to f.
LEMMA LeadsJoin ==
  ASSUME NEW p \in Seq(Writes), NEW q \in Seq(Writes), NEW d, NEW e, NEW f, Leads(p, d, e), Leads(q, e, f)
  PROVE  Leads(p \o q, d, f)
<1>1. ASSUME NEW x \in LineStates PROVE \E y \in LineStates : Runs(Panel(x, d), p \o q, Panel(y, f))
  <2>1. PICK y \in LineStates : Runs(Panel(x, d), p, Panel(y, e)) BY DEF Leads
  <2>2. PICK z \in LineStates : Runs(Panel(y, e), q, Panel(z, f)) BY DEF Leads
  <2>3. Runs(Panel(x, d), p \o q, Panel(z, f)) BY <2>1, <2>2, RunsJoin
  <2> QED BY <2>3
<1> QED BY <1>1 DEF Leads

\* A delay of the driver.
LEMMA LeadsPause ==
  ASSUME NEW d \in Displays, NEW time \in {Short, Long}
  PROVE  Pause(time) \in Seq(Writes) /\ Leads(Pause(time), d, Calm(d, time))
<1> DEFINE w == [do |-> "delay", time |-> time]
<1>1. w \in Writes BY DEF Writes
<1>2. ASSUME NEW x \in LineStates PROVE \E y \in LineStates : Runs(Panel(x, d), <<w>>, Panel(y, Calm(d, time)))
  <2>1. Exec(Panel(x, d), w) = Panel(x, Calm(d, time)) BY DEF Exec, Panel, Calm
  <2>2. Runs(Panel(x, d), <<w>>, Exec(Panel(x, d), w)) BY RunsOne
  <2> QED BY <2>1, <2>2
<1> QED BY <1>1, <1>2 DEF Leads, Pause

\* A nibble goes in with the falling edge of EN (drv_lcd1602_pulse).
LEMMA LeadsNibble ==
  ASSUME NEW d \in Displays, NEW n \in Nibbles, NEW rs \in {0, 1}
  PROVE  write_nibble(n, rs) \in Seq(Writes) /\ Leads(write_nibble(n, rs), d, Calm(Latched(d, n, rs), Short))
<1> DEFINE w1 == [do |-> "raw", nibble |-> n, rs |-> rs, en |-> 1]
           w2 == [do |-> "raw", nibble |-> n, rs |-> rs, en |-> 0]
           w3 == [do |-> "delay", time |-> Short]
<1>1. w1 \in Writes /\ w2 \in Writes /\ w3 \in Writes BY DEF Writes
<1>2. n % 16 = n BY DEF Nibbles
<1>3. write_nibble(n, rs) = (<<w1>> \o <<w2>>) \o <<w3>>
  BY <1>2 DEF write_nibble, pulse, write_raw, Pause
<1>4. ASSUME NEW x \in LineStates
      PROVE  \E y \in LineStates : Runs(Panel(x, d), (<<w1>> \o <<w2>>) \o <<w3>>,
                                   Panel(y, Calm(Latched(d, n, rs), Short)))
  <2> DEFINE y1 == [nibble |-> n, rs |-> rs, en |-> 1]
             y2 == [nibble |-> n, rs |-> rs, en |-> 0]
  <2>1. Exec(Panel(x, d), w1) = Panel(y1, d) BY DEF Exec, Panel
  <2>2. Exec(Panel(y1, d), w2) = Panel(y2, Latched(d, n, rs)) BY DEF Exec, Panel
  <2>3. Exec(Panel(y2, Latched(d, n, rs)), w3) = Panel(y2, Calm(Latched(d, n, rs), Short))
    BY DEF Exec, Panel, Calm
  <2>4. y2 \in LineStates BY DEF LineStates
  <2> HIDE DEF y1, y2, w1, w2, w3
  <2>5. Runs(Panel(x, d), <<w1>>, Panel(y1, d)) BY <2>1, RunsOne
  <2>6. Runs(Panel(y1, d), <<w2>>, Panel(y2, Latched(d, n, rs)))
    BY <2>2, RunsOne
  <2>7. Runs(Panel(y2, Latched(d, n, rs)), <<w3>>, Panel(y2, Calm(Latched(d, n, rs), Short)))
    BY <2>3, RunsOne
  <2>8. <<w1>> \in Seq(Writes) /\ <<w2>> \in Seq(Writes) /\ <<w3>> \in Seq(Writes)
        /\ <<w1>> \o <<w2>> \in Seq(Writes)
    BY <1>1
  <2>9. Runs(Panel(x, d), <<w1>> \o <<w2>>, Panel(y2, Latched(d, n, rs)))
    BY <2>5, <2>6, <2>8, RunsJoin
  <2>10. Runs(Panel(x, d), (<<w1>> \o <<w2>>) \o <<w3>>, Panel(y2, Calm(Latched(d, n, rs), Short)))
    BY <2>7, <2>8, <2>9, RunsJoin
  <2> QED BY <2>4, <2>10
<1>5. (<<w1>> \o <<w2>>) \o <<w3>> \in Seq(Writes) BY <1>1
<1> HIDE DEF w1, w2, w3
<1> QED BY <1>3, <1>4, <1>5 DEF Leads

\* A byte from a display that waits for its first half.
Ready(d) == d \in Displays /\ d.four /\ d.half = <<>> /\ d.busy = 0

\* Two nibbles are a byte when no half is waiting (drv_lcd1602_write_byte).
LEMMA LeadsByte ==
  ASSUME NEW d, Ready(d), NEW b \in Pairs, NEW rs \in {0, 1}
  PROVE  write_byte(b, rs) \in Seq(Writes) /\ Leads(write_byte(b, rs), d, Calm(Taken(d, b, rs), Short))
<1>1. PICK h \in Nibbles, l \in Nibbles : b = <<h, l>> /\ b[1] = h /\ b[2] = l
  BY DEF Pairs
<1> DEFINE e == [d EXCEPT !.half = <<h>>]
<1>2. e \in Displays /\ e.busy = 0 /\ e.four /\ e.half = <<h>> /\ e.half # <<>> /\ e.half[1] = h
  BY DEF Ready, Displays
<1>3. Latched(d, h, rs) = e BY DEF Ready, Latched
<1>4. Calm(e, Short) = e BY <1>2 DEF Calm, Displays, Short
<1>5. [e EXCEPT !.half = <<>>] = d BY DEF Ready, Displays
<1>6. Latched(e, l, rs) = Taken([e EXCEPT !.half = <<>>], <<e.half[1], l>>, rs)
  BY <1>2 DEF Latched
<1> HIDE DEF e
<1>7. Latched(e, l, rs) = Taken(d, b, rs) BY <1>1, <1>2, <1>5, <1>6
<1>8. write_nibble(h, rs) \in Seq(Writes) /\ Leads(write_nibble(h, rs), d, e)
  BY <1>3, <1>4, LeadsNibble DEF Ready
<1>9. write_nibble(l, rs) \in Seq(Writes) /\ Leads(write_nibble(l, rs), e, Calm(Taken(d, b, rs), Short))
  BY <1>2, <1>7, LeadsNibble
<1>10. write_byte(b, rs) = write_nibble(h, rs) \o write_nibble(l, rs)
  BY <1>1 DEF write_byte
<1> QED BY <1>8, <1>9, <1>10, LeadsJoin

\* What a display is after a delay.
LEMMA CalmIs ==
  ASSUME NEW d \in Displays, NEW e \in Displays, NEW time \in {Short, Long}, d.four = e.four, d.half = e.half,
         d.memory = e.memory, d.cursor = e.cursor, d.on = e.on, e.busy = IF time >= d.busy THEN 0 ELSE d.busy
  PROVE  Calm(d, time) = e
BY DEF Displays, Calm, Short, Long

\* What the display makes of each kind of byte.
LEMMA TakenFour ==
  ASSUME NEW d, NEW b, b # <<0, 1>>, b # <<0, 2>>, b # <<0, 3>>, b[1] \in {2, 3}
  PROVE  Taken(d, b, 0) = [d EXCEPT !.four = b[1] = 2, !.busy = Short]
<1>1. /\ 0 # 1 /\ ~(0 = 0 /\ b = <<0, 1>>)
      /\ ~(0 = 0 /\ b \in {<<0, 2>>, <<0, 3>>})
      /\ ~(0 = 0 /\ b[1] = 0 /\ b[2] \in 8 .. 15)
  OBVIOUS
<1>2. ~(0 = 0 /\ b[1] >= 8) /\ (0 = 0 /\ b[1] \in {2, 3}) OBVIOUS
<1> QED
  BY <1>1, <1>2 DEF Taken

LEMMA TakenOn ==
  ASSUME NEW d, NEW b, b # <<0, 1>>, b # <<0, 2>>, b # <<0, 3>>, b[1] = 0, b[2] \in 8 .. 15
  PROVE  Taken(d, b, 0) = [d EXCEPT !.on = b[2] \in 12 .. 15, !.busy = Short]
<1>1. /\ 0 # 1 /\ ~(0 = 0 /\ b = <<0, 1>>)
      /\ ~(0 = 0 /\ b \in {<<0, 2>>, <<0, 3>>})
      /\ (0 = 0 /\ b[1] = 0 /\ b[2] \in 8 .. 15)
  OBVIOUS
<1>2. ~(0 = 0 /\ b[1] >= 8) /\ ~(0 = 0 /\ b[1] \in {2, 3}) OBVIOUS
<1> QED
  BY <1>1, <1>2 DEF Taken

LEMMA TakenPlace ==
  ASSUME NEW d, NEW b, b # <<0, 1>>, b # <<0, 2>>, b # <<0, 3>>, b[1] \in 8 .. 15
  PROVE  Taken(d, b, 0) = [d EXCEPT !.cursor = PlaceOf(b), !.busy = Short]
<1>1. /\ 0 # 1 /\ ~(0 = 0 /\ b = <<0, 1>>)
      /\ ~(0 = 0 /\ b \in {<<0, 2>>, <<0, 3>>})
      /\ ~(0 = 0 /\ b[1] = 0 /\ b[2] \in 8 .. 15)
  OBVIOUS
<1>2. (0 = 0 /\ b[1] >= 8) /\ ~(0 = 0 /\ b[1] \in {2, 3}) OBVIOUS
<1> QED
  BY <1>1, <1>2 DEF Taken

LEMMA TakenOther ==
  ASSUME NEW d, NEW b, b # <<0, 1>>, b # <<0, 2>>, b # <<0, 3>>, b[1] \in 0 .. 7, b[1] \notin {2, 3},
         ~(b[1] = 0 /\ b[2] \in 8 .. 15)
  PROVE  Taken(d, b, 0) = [d EXCEPT !.busy = Short]
<1>1. /\ 0 # 1 /\ ~(0 = 0 /\ b = <<0, 1>>)
      /\ ~(0 = 0 /\ b \in {<<0, 2>>, <<0, 3>>})
      /\ ~(0 = 0 /\ b[1] = 0 /\ b[2] \in 8 .. 15)
  OBVIOUS
<1>2. ~(0 = 0 /\ b[1] >= 8) /\ ~(0 = 0 /\ b[1] \in {2, 3}) OBVIOUS
<1> QED
  BY <1>1, <1>2 DEF Taken

LEMMA TakenClear ==
  ASSUME NEW d
  PROVE  Taken(d, <<0, 1>>, 0) = [d EXCEPT !.memory = Blank, !.cursor = Home, !.busy = Long]
<1> DEFINE b == <<0, 1>>
<1>0. b # <<0, 2>> /\ b # <<0, 3>> /\ b[1] = 0 /\ b[2] = 1 OBVIOUS
<1>1. /\ 0 # 1 /\ (0 = 0 /\ b = <<0, 1>>)
      /\ ~(0 = 0 /\ b \in {<<0, 2>>, <<0, 3>>})
      /\ ~(0 = 0 /\ b[1] = 0 /\ b[2] \in 8 .. 15)
  BY <1>0
<1>2. ~(0 = 0 /\ b[1] >= 8) /\ ~(0 = 0 /\ b[1] \in {2, 3}) BY <1>0
<1> HIDE DEF b
<1>3. Taken(d, b, 0) = [d EXCEPT !.memory = Blank, !.cursor = Home, !.busy = Long]
  BY <1>1, <1>2 DEF Taken
<1> QED BY <1>3 DEF b

LEMMA TakenHome ==
  ASSUME NEW d, NEW b \in {<<0, 2>>, <<0, 3>>}
  PROVE  Taken(d, b, 0) = [d EXCEPT !.cursor = Home, !.busy = Long]
<1>0. b # <<0, 1>> /\ b[1] = 0 /\ b[2] \in {2, 3} OBVIOUS
<1>1. /\ 0 # 1 /\ ~(0 = 0 /\ b = <<0, 1>>)
      /\ (0 = 0 /\ b \in {<<0, 2>>, <<0, 3>>})
      /\ ~(0 = 0 /\ b[1] = 0 /\ b[2] \in 8 .. 15)
  BY <1>0
<1>2. ~(0 = 0 /\ b[1] >= 8) /\ ~(0 = 0 /\ b[1] \in {2, 3}) BY <1>0
<1> QED BY <1>1, <1>2 DEF Taken

LEMMA TakenData ==
  ASSUME NEW d, NEW b
  PROVE  Taken(d, b, 1) = [d EXCEPT !.memory[d.cursor] = b, !.cursor = NextPlace(@), !.busy = Short]
BY DEF Taken

\* A command that the driver does not wait for.
LEMMA LeadsCommand ==
  ASSUME NEW d, Ready(d), NEW b \in Pairs, b # <<0, 1>>, b # <<0, 2>>
  PROVE  command(b) \in Seq(Writes) /\ Leads(command(b), d, Calm(Taken(d, b, 0), Short))
<1>1. write_byte(b, 0) \in Seq(Writes) /\ Leads(write_byte(b, 0), d, Calm(Taken(d, b, 0), Short))
  BY LeadsByte
<1>2. write_byte(b, 0) \o <<>> = write_byte(b, 0) BY <1>1, ConcatEmptySeq
<1>3. command(b) = write_byte(b, 0) \o <<>> BY DEF command
<1> QED BY <1>1, <1>2, <1>3

\* Ready again after a quick command.
LEMMA Quick ==
  ASSUME NEW d, Ready(d), NEW t, NEW e, t = [e EXCEPT !.busy = Short], Ready(e)
  PROVE  Calm(t, Short) = e
<1>1. t \in Displays /\ t.four = e.four /\ t.half = e.half /\ t.memory = e.memory /\ t.cursor = e.cursor
      /\ t.on = e.on /\ t.busy = Short
  BY DEF Ready, Displays, Short
<1>2. e \in Displays /\ e.busy = (IF Short >= t.busy THEN 0 ELSE t.busy) /\ Short \in {Short, Long}
  BY <1>1 DEF Ready, Short
<1> QED BY <1>1, <1>2, CalmIs

\* The commands of init that set a mode.
LEMMA ModesAreSet ==
  ASSUME NEW d, Ready(d)
  PROVE  /\ Calm(Taken(d, <<2, 8>>, 0), Short) = d
         /\ Calm(Taken(d, <<0, 6>>, 0), Short) = d
         /\ Calm(Taken(d, <<0, 8>>, 0), Short) = [d EXCEPT !.on = FALSE]
         /\ Calm(Taken(d, <<0, 12>>, 0), Short) = [d EXCEPT !.on = TRUE]
<1>1. Calm(Taken(d, <<2, 8>>, 0), Short) = d
  <2> DEFINE b == <<2, 8>>
  <2>1. b[1] = 2 /\ b # <<0, 1>> /\ b # <<0, 2>> /\ b # <<0, 3>> OBVIOUS
  <2> HIDE DEF b
  <2>2. Taken(d, b, 0) = [d EXCEPT !.four = b[1] = 2, !.busy = Short]
    BY <2>1, TakenFour
  <2>3. [d EXCEPT !.four = b[1] = 2, !.busy = Short] = [d EXCEPT !.busy = Short]
    BY <2>1 DEF Ready, Displays
  <2> QED BY <2>2, <2>3, Quick DEF b
<1>2. Calm(Taken(d, <<0, 6>>, 0), Short) = d
  <2> DEFINE b == <<0, 6>>
  <2>1. b[1] = 0 /\ b[2] = 6 /\ b # <<0, 1>> /\ b # <<0, 2>> /\ b # <<0, 3>>
    OBVIOUS
  <2> HIDE DEF b
  <2>2. Taken(d, b, 0) = [d EXCEPT !.busy = Short] BY <2>1, TakenOther
  <2> QED BY <2>2, Quick DEF b
<1>4. Calm(Taken(d, <<0, 8>>, 0), Short) = [d EXCEPT !.on = FALSE]
  <2> DEFINE b == <<0, 8>>
             e == [d EXCEPT !.on = FALSE]
  <2>1. b[1] = 0 /\ b[2] = 8 /\ b[2] \in 8 .. 15 /\ b # <<0, 1>> /\ b # <<0, 2>> /\ b # <<0, 3>>
    OBVIOUS
  <2> HIDE DEF b
  <2>2. Taken(d, b, 0) = [d EXCEPT !.on = b[2] \in 12 .. 15, !.busy = Short]
    BY <2>1, TakenOn
  <2>6. (b[2] \in 12 .. 15) = FALSE BY <2>1
  <2>3. [d EXCEPT !.on = b[2] \in 12 .. 15, !.busy = Short] = [e EXCEPT !.busy = Short]
    <3>1. [d EXCEPT !.on = b[2] \in 12 .. 15, !.busy = Short] = [d EXCEPT !.on = FALSE, !.busy = Short]
      BY <2>6, Zenon
    <3>2. [d EXCEPT !.on = FALSE, !.busy = Short] = [e EXCEPT !.busy = Short]
      OBVIOUS
    <3> QED BY <3>1, <3>2
  <2>4. Ready(e) BY DEF Ready, Displays
  <2> HIDE DEF e
  <2>5. Calm(Taken(d, b, 0), Short) = e BY <2>2, <2>3, <2>4, Quick
  <2> QED BY <2>5 DEF b, e
<1>5. Calm(Taken(d, <<0, 12>>, 0), Short) = [d EXCEPT !.on = TRUE]
  <2> DEFINE b == <<0, 12>>
             e == [d EXCEPT !.on = TRUE]
  <2>1. b[1] = 0 /\ b[2] = 12 /\ b[2] \in 8 .. 15 /\ b # <<0, 1>> /\ b # <<0, 2>> /\ b # <<0, 3>>
    OBVIOUS
  <2> HIDE DEF b
  <2>2. Taken(d, b, 0) = [d EXCEPT !.on = b[2] \in 12 .. 15, !.busy = Short]
    BY <2>1, TakenOn
  <2>6. (b[2] \in 12 .. 15) = TRUE BY <2>1
  <2>3. [d EXCEPT !.on = b[2] \in 12 .. 15, !.busy = Short] = [e EXCEPT !.busy = Short]
    <3>1. [d EXCEPT !.on = b[2] \in 12 .. 15, !.busy = Short] = [d EXCEPT !.on = TRUE, !.busy = Short]
      BY <2>6, Zenon
    <3>2. [d EXCEPT !.on = TRUE, !.busy = Short] = [e EXCEPT !.busy = Short]
      OBVIOUS
    <3> QED BY <3>1, <3>2
  <2>4. Ready(e) BY DEF Ready, Displays
  <2> HIDE DEF e
  <2>5. Calm(Taken(d, b, 0), Short) = e BY <2>2, <2>3, <2>4, Quick
  <2> QED BY <2>5 DEF b, e
<1> QED BY <1>1, <1>2, <1>4, <1>5

\* The cursor stays in the memory.
LEMMA PlacesHold ==
  /\ Home \in Positions /\ Blank \in [Positions -> Pairs]
  /\ \A p \in Positions : NextPlace(p) \in Positions
<1>1. Columns \in Nat /\ Columns >= 1 BY LcdAssumption
<1>2. Home \in Positions BY <1>1 DEF Home, Positions
<1>3. Blank \in [Positions -> Pairs] BY DEF Blank, Pairs, Nibbles
<1>4. ASSUME NEW r \in {0, 1}, NEW c \in 0 .. Columns - 1 PROVE NextPlace(<<r, c>>) \in Positions
  BY <1>1 DEF NextPlace, Positions
<1> QED BY <1>2, <1>3, <1>4 DEF Positions

\* A character goes to the cursor, which moves on.
LEMMA LeadsData ==
  ASSUME NEW d, Ready(d), NEW ch \in Pairs
  PROVE  LET e == [d EXCEPT !.memory[d.cursor] = ch, !.cursor = NextPlace(@)]
         IN  Ready(e) /\ e.on = d.on /\ putc(ch) \in Seq(Writes) /\ Leads(putc(ch), d, e)
<1> DEFINE e == [d EXCEPT !.memory[d.cursor] = ch, !.cursor = NextPlace(@)]
<1>1. NextPlace(d.cursor) \in Positions BY PlacesHold DEF Ready, Displays
<1>3. Ready(e) /\ e.on = d.on BY <1>1 DEF Ready, Displays, Pairs
<1>5. Taken(d, ch, 1) = [e EXCEPT !.busy = Short]
  BY TakenData DEF Ready, Displays
<1> HIDE DEF e
<1>2. Calm(Taken(d, ch, 1), Short) = e BY <1>3, <1>5, Quick
<1>4. write_byte(ch, 1) \in Seq(Writes) /\ Leads(write_byte(ch, 1), d, Calm(Taken(d, ch, 1), Short))
  BY LeadsByte
<1> QED BY <1>2, <1>3, <1>4 DEF putc, e

\* The clear command, with the 2 ms the driver waits for it.
LEMMA LeadsClear ==
  ASSUME NEW d, Ready(d)
  PROVE  LET e == [d EXCEPT !.memory = Blank, !.cursor = Home]
         IN  Ready(e) /\ e.on = d.on /\ lcd_clear \in Seq(Writes) /\ Leads(lcd_clear, d, e)
<1> DEFINE e == [d EXCEPT !.memory = Blank, !.cursor = Home]
           m == [d EXCEPT !.memory = Blank, !.cursor = Home, !.busy = Long]
           b == <<0, 1>>
<1>1. /\ Ready(e) /\ e.on = d.on /\ m \in Displays /\ m.four = e.four /\ m.half = e.half
      /\ m.memory = e.memory /\ m.cursor = e.cursor /\ m.on = e.on /\ m.busy = Long
  BY PlacesHold DEF Ready, Displays, Pairs, Long
<1>2. b \in Pairs BY DEF Pairs, Nibbles
<1>9. Taken(d, b, 0) = m BY TakenClear
<1> HIDE DEF e, m
<1>3. Calm(Taken(d, b, 0), Short) = m BY <1>1, <1>9, CalmIs DEF Short, Long
<1>4. Calm(m, Long) = e
  <2>1. e \in Displays /\ e.busy = (IF Long >= m.busy THEN 0 ELSE m.busy) /\ Long \in {Short, Long}
    BY <1>1 DEF Ready, Long
  <2> QED BY <1>1, <2>1, CalmIs
<1>5. write_byte(b, 0) \in Seq(Writes) /\ Leads(write_byte(b, 0), d, m)
  BY <1>2, <1>3, LeadsByte
<1>6. Pause(Long) \in Seq(Writes) /\ Leads(Pause(Long), m, e)
  BY <1>1, <1>4, LeadsPause
<1>7. lcd_clear = write_byte(b, 0) \o Pause(Long) BY DEF lcd_clear, command
<1>8. lcd_clear \in Seq(Writes) /\ Leads(lcd_clear, d, e)
  BY <1>5, <1>6, <1>7, LeadsJoin
<1> QED BY <1>1, <1>8 DEF e

\* Six bits of the address hold a column.
LEMMA Address ==
  ASSUME NEW r \in {0, 1}, NEW c \in 0 .. Columns - 1, NEW q \in 0 .. 3, NEW l \in Nibbles, c = 16 * q + l
  PROVE  /\ c \div 16 = q /\ c % 16 = l
         /\ <<8 + (IF r = 0 THEN 0 ELSE 4) + q, l>> \in Pairs
         /\ PlaceOf(<<8 + (IF r = 0 THEN 0 ELSE 4) + q, l>>) = <<r, c>>
<1>1. Columns \in Nat /\ c \in Nat /\ c < Columns /\ Columns <= 64
  BY LcdAssumption
<1>2. c \div 16 = q /\ c % 16 = l BY <1>1 DEF Nibbles
<1>3. c % Columns = c BY <1>1
<1> DEFINE h == 8 + (IF r = 0 THEN 0 ELSE 4) + q
<1>4. h \in Nibbles /\ h % 4 = q /\ (h \div 4) % 2 = r BY DEF Nibbles
<1> HIDE DEF h
<1>5. <<h, l>>[1] = h /\ <<h, l>>[2] = l /\ <<h, l>> \in Pairs BY <1>4 DEF Pairs
<1>6. PlaceOf(<<h, l>>) = <<r, c>> BY <1>3, <1>4, <1>5 DEF PlaceOf
<1> QED BY <1>2, <1>5, <1>6 DEF h

\* The cursor goes where it is sent (drv_lcd1602_set_cursor).
LEMMA LeadsCursor ==
  ASSUME NEW d, Ready(d), NEW p \in Positions
  PROVE  LET e == [d EXCEPT !.cursor = p]
         IN  /\ Ready(e) /\ e.on = d.on
             /\ set_cursor(p[1], p[2]) \in Seq(Writes) /\ Leads(set_cursor(p[1], p[2]), d, e)
<1> DEFINE e == [d EXCEPT !.cursor = p]
<1>1. PICK r \in {0, 1}, c \in 0 .. Columns - 1 : p = <<r, c>> /\ p[1] = r /\ p[2] = c
  BY DEF Positions
<1>2. PICK q \in 0 .. 3, l \in Nibbles : c = 16 * q + l
  <2>1. c \in Nat /\ c < 64 BY LcdAssumption
  <2>2. CASE c < 16
    <3>1. c = 16 * 0 + c /\ c \in 0 .. 15 BY <2>1, <2>2
    <3> QED BY <3>1 DEF Nibbles
  <2>3. CASE 16 <= c /\ c < 32
    <3>1. c = 16 * 1 + (c - 16) /\ c - 16 \in 0 .. 15 BY <2>1, <2>3
    <3> QED BY <3>1 DEF Nibbles
  <2>4. CASE 32 <= c /\ c < 48
    <3>1. c = 16 * 2 + (c - 32) /\ c - 32 \in 0 .. 15 BY <2>1, <2>4
    <3> QED BY <3>1 DEF Nibbles
  <2>5. CASE 48 <= c
    <3>1. c = 16 * 3 + (c - 48) /\ c - 48 \in 0 .. 15 BY <2>1, <2>5
    <3> QED BY <3>1 DEF Nibbles
  <2> QED BY <2>1, <2>2, <2>3, <2>4, <2>5
<1> DEFINE h == 8 + (IF r = 0 THEN 0 ELSE 4) + q
           b == <<h, l>>
<1>3. c \div 16 = q /\ c % 16 = l /\ b \in Pairs /\ PlaceOf(b) = p
  BY <1>1, <1>2, Address
<1>4. h \in Nat /\ h >= 8 OBVIOUS
<1>5. set_cursor(p[1], p[2]) = command(b) BY <1>1, <1>3 DEF set_cursor
<1> HIDE DEF h
<1>6. b[1] = h /\ b # <<0, 1>> /\ b # <<0, 2>> /\ b # <<0, 3>> BY <1>4
<1> HIDE DEF b
<1>7. Taken(d, b, 0) = [d EXCEPT !.cursor = PlaceOf(b), !.busy = Short]
  <2>1. b[1] \in 8 .. 15 BY <1>3, <1>4, <1>6 DEF Pairs, Nibbles
  <2> QED BY <2>1, <1>6, TakenPlace
<1>9. Ready(e) /\ e.on = d.on BY DEF Ready, Displays
<1>11. Taken(d, b, 0) = [e EXCEPT !.busy = Short] BY <1>3, <1>7
<1>8. Calm(Taken(d, b, 0), Short) = e BY <1>9, <1>11, Quick
<1>10. command(b) \in Seq(Writes) /\ Leads(command(b), d, e)
  BY <1>3, <1>6, <1>8, LeadsCommand
<1> QED BY <1>5, <1>9, <1>10

\* A byte leaves the display one, and the half that waits alone.
LEMMA TakenType ==
  ASSUME NEW d \in Displays, NEW b \in Pairs, NEW rs \in {0, 1}
  PROVE  Taken(d, b, rs) \in Displays /\ Taken(d, b, rs).half = d.half
<1>0. PICK h \in Nibbles, l \in Nibbles : b = <<h, l>> /\ b[1] = h /\ b[2] = l
  BY DEF Pairs
<1>1. CASE rs = 1
  <2>1. NextPlace(d.cursor) \in Positions BY PlacesHold DEF Displays
  <2>2. Taken(d, b, 1) = [d EXCEPT !.memory[d.cursor] = b, !.cursor = NextPlace(@), !.busy = Short]
    BY TakenData
  <2>3. [d EXCEPT !.memory[d.cursor] = b, !.cursor = NextPlace(@), !.busy = Short] \in Displays
    BY <2>1 DEF Displays, Short, Pairs
  <2> QED BY <1>1, <2>2, <2>3 DEF Displays
<1>2. CASE rs = 0
  <2>1. CASE b = <<0, 1>>
    <3>1. Taken(d, b, 0) = [d EXCEPT !.memory = Blank, !.cursor = Home, !.busy = Long]
      BY <2>1, TakenClear
    <3> QED BY <1>2, <3>1, PlacesHold DEF Displays, Long, Pairs
  <2>2. CASE b \in {<<0, 2>>, <<0, 3>>}
    <3>1. Taken(d, b, 0) = [d EXCEPT !.cursor = Home, !.busy = Long]
      BY <2>2, TakenHome
    <3> QED BY <1>2, <3>1, PlacesHold DEF Displays, Long
  <2> DEFINE slow == b = <<0, 1>> \/ b = <<0, 2>> \/ b = <<0, 3>>
  <2>3. CASE ~slow /\ h \in {2, 3}
    <3>1. Taken(d, b, 0) = [d EXCEPT !.four = b[1] = 2, !.busy = Short]
      BY <1>0, <2>3, TakenFour
    <3> QED BY <1>2, <3>1 DEF Displays, Short
  <2>4. CASE ~slow /\ h = 0 /\ l \in 8 .. 15
    <3>1. Taken(d, b, 0) = [d EXCEPT !.on = b[2] \in 12 .. 15, !.busy = Short]
      BY <1>0, <2>4, TakenOn
    <3>2. CASE b[2] \in 12 .. 15
      <4>1. (b[2] \in 12 .. 15) = TRUE BY <3>2
      <4>2. Taken(d, b, 0) = [d EXCEPT !.on = TRUE, !.busy = Short]
        BY <3>1, <4>1, Zenon
      <4> QED BY <1>2, <4>2 DEF Displays, Short
    <3>3. CASE b[2] \notin 12 .. 15
      <4>1. (b[2] \in 12 .. 15) = FALSE BY <3>3
      <4>2. Taken(d, b, 0) = [d EXCEPT !.on = FALSE, !.busy = Short]
        BY <3>1, <4>1, Zenon
      <4> QED BY <1>2, <4>2 DEF Displays, Short
    <3> QED BY <3>2, <3>3
  <2>5. CASE ~slow /\ h \in 8 .. 15
    <3>1. Taken(d, b, 0) = [d EXCEPT !.cursor = PlaceOf(b), !.busy = Short]
      BY <1>0, <2>5, TakenPlace
    <3>2. PlaceOf(b) \in Positions
      <4>1. Columns \in Nat /\ Columns >= 1 BY LcdAssumption
      <4>2. (h \div 4) % 2 \in {0, 1} /\ h % 4 \in Nat BY DEF Nibbles
      <4>3. 16 * (h % 4) + l \in Nat BY <4>2 DEF Nibbles
      <4> DEFINE c == 16 * (h % 4) + l
      <4> HIDE DEF c
      <4>4. c % Columns \in 0 .. Columns - 1 BY <4>1, <4>3 DEF c
      <4>5. PlaceOf(b) = <<(h \div 4) % 2, c % Columns>> BY <1>0 DEF PlaceOf, c
      <4> QED BY <4>2, <4>4, <4>5 DEF Positions
    <3> QED BY <1>2, <3>1, <3>2 DEF Displays, Short
  <2>6. CASE ~slow /\ h \in 0 .. 7 /\ h \notin {2, 3} /\ ~(h = 0 /\ l \in 8 .. 15)
    <3>1. Taken(d, b, 0) = [d EXCEPT !.busy = Short] BY <1>0, <2>6, TakenOther
    <3> QED BY <1>2, <3>1 DEF Displays, Short
  <2>7. h \in 0 .. 7 \/ h \in 8 .. 15 BY DEF Nibbles
  <2> QED BY <2>1, <2>2, <2>3, <2>4, <2>5, <2>6, <2>7
<1> QED BY <1>1, <1>2

\* A falling edge leaves a display that is one.
LEMMA LatchedType ==
  ASSUME NEW d \in Panels, NEW n \in Nibbles, NEW rs \in {0, 1}
  PROVE  Latched(d, n, rs) \in Panels
<1>0. /\ d \in Displays /\ d.half \in {<<>>} \cup {<<k>> : k \in Nibbles}
      /\ (d.half # <<>> => d.four) /\ d.four \in BOOLEAN
  BY DEF Panels, Displays
<1>1. CASE d.busy # 0 BY <1>1 DEF Latched
<1>2. CASE d.busy = 0 /\ ~d.four
  <2>1. Latched(d, n, rs) = Taken(d, <<n, 0>>, rs) BY <1>2 DEF Latched
  <2>2. <<n, 0>> \in Pairs BY DEF Pairs, Nibbles
  <2> QED BY <1>0, <1>2, <2>1, <2>2, TakenType DEF Panels
<1>3. CASE d.busy = 0 /\ d.four /\ d.half = <<>>
  <2>1. Latched(d, n, rs) = [d EXCEPT !.half = <<n>>] BY <1>3 DEF Latched
  <2> QED BY <1>0, <1>3, <2>1 DEF Panels, Displays
<1>4. CASE d.busy = 0 /\ d.four /\ d.half # <<>>
  <2>1. PICK k \in Nibbles : d.half = <<k>> /\ d.half[1] = k BY <1>0, <1>4
  <2>2. <<k, n>> \in Pairs BY DEF Pairs
  <2> DEFINE e == [d EXCEPT !.half = <<>>]
  <2>3. e \in Displays /\ e.half = <<>> BY <1>0 DEF Displays
  <2>4. Latched(d, n, rs) = Taken(e, <<k, n>>, rs) BY <1>4, <2>1 DEF Latched
  <2> HIDE DEF e
  <2> QED BY <2>2, <2>3, <2>4, TakenType DEF Panels
<1> QED BY <1>1, <1>2, <1>3, <1>4

\* A display after a delay.
Eased(d, time, c) ==
  c \in Panels /\ c.four = d.four /\ c.half = d.half /\ c.busy = (IF time >= d.busy THEN 0 ELSE d.busy)

\* A delay changes nothing but the busy flag.
LEMMA Eases ==
  ASSUME NEW d \in Panels, NEW time \in {Short, Long}
  PROVE  Eased(d, time, Calm(d, time))
BY DEF Eased, Calm, Panels, Displays, Short, Long

\* The displays on the way through init.
Rough(d) == d \in Panels /\ d.busy = 0 /\ d.half \in {<<>>, <<3>>}
Wide(d) == d \in Displays /\ d.busy = 0 /\ ~d.four /\ d.half = <<>>
Split(d) == d \in Displays /\ d.busy = 0 /\ d.four /\ d.half = <<3>>

\* After the first nibble of init no half waits, or one that is 3.
LEMMA FirstThree ==
  ASSUME NEW d \in Panels, d.busy = 0
  PROVE  Rough(Calm(Calm(Latched(d, 3, 0), Short), Long))
<1> DEFINE e == Latched(d, 3, 0)
<1>0. /\ d \in Displays /\ d.half \in {<<>>} \cup {<<k>> : k \in Nibbles}
      /\ (d.half # <<>> => d.four) /\ d.four \in BOOLEAN
  BY DEF Panels, Displays
<1>1. e \in Panels BY LatchedType DEF Nibbles
<1>2. e.half \in {<<>>, <<3>>}
  <2>2. CASE ~d.four
    <3>1. e = Taken(d, <<3, 0>>, 0) BY <2>2 DEF Latched
    <3>2. <<3, 0>> \in Pairs BY DEF Pairs, Nibbles
    <3> QED BY <1>0, <2>2, <3>1, <3>2, TakenType
  <2>3. CASE d.four /\ d.half = <<>>
    <3>1. e = [d EXCEPT !.half = <<3>>] BY <2>3 DEF Latched
    <3> QED BY <1>0, <3>1 DEF Displays
  <2>4. CASE d.four /\ d.half # <<>>
    <3>1. PICK k \in Nibbles : d.half = <<k>> /\ d.half[1] = k BY <1>0, <2>4
    <3>2. <<k, 3>> \in Pairs BY DEF Pairs, Nibbles
    <3> DEFINE f == [d EXCEPT !.half = <<>>]
    <3>3. f \in Displays /\ f.half = <<>> BY <1>0 DEF Displays
    <3>4. e = Taken(f, <<k, 3>>, 0) BY <2>4, <3>1 DEF Latched
    <3> HIDE DEF e, f
    <3> QED BY <3>2, <3>3, <3>4, TakenType
  <2> QED BY <1>0, <2>2, <2>3, <2>4
<1> DEFINE c == Calm(e, Short)
           g == Calm(c, Long)
<1>3. Eased(e, Short, c) BY <1>1, Eases
<1>4. Eased(c, Long, g) BY <1>3, Eases DEF Eased
<1>5. c.busy \in {0, Short, Long} BY <1>3 DEF Eased, Panels, Displays
<1> HIDE DEF e, c, g
<1>6. Rough(g) BY <1>2, <1>3, <1>4, <1>5 DEF Eased, Rough, Short, Long
<1> QED BY <1>6 DEF e, c, g

\* In eight bits a first half of 3 changes nothing.
LEMMA WideThree ==
  ASSUME NEW d, d \in Displays, d.half = <<>>, NEW b, b \in {<<3, 0>>, <<3, 3>>}, d.busy = 0
  PROVE  Wide(Calm(Taken(d, b, 0), Short))
<1>1. b[1] = 3 /\ b # <<0, 1>> /\ b # <<0, 2>> /\ b # <<0, 3>> OBVIOUS
<1>2. Taken(d, b, 0) = [d EXCEPT !.four = b[1] = 2, !.busy = Short]
  BY <1>1, TakenFour
<1>3. (b[1] = 2) = FALSE BY <1>1
<1>4. Taken(d, b, 0) = [d EXCEPT !.four = FALSE, !.busy = Short]
  BY <1>2, <1>3, Zenon
<1> DEFINE t == [d EXCEPT !.four = FALSE, !.busy = Short]
<1>5. t \in Panels /\ ~t.four /\ t.half = <<>> /\ t.busy = Short
  BY DEF Panels, Displays, Short
<1> HIDE DEF t
<1>6. Eased(t, Short, Calm(t, Short)) BY <1>5, Eases
<1>7. Wide(Calm(t, Short)) BY <1>5, <1>6 DEF Eased, Wide, Panels, Short
<1> QED BY <1>4, <1>7 DEF t

\* After the second the interface has eight bits, or the half 3 waits.
LEMMA SecondThree ==
  ASSUME NEW d, Rough(d)
  PROVE  LET e == Calm(Latched(d, 3, 0), Short) IN Wide(e) \/ Split(e)
<1> DEFINE e == Calm(Latched(d, 3, 0), Short)
<1>0. /\ d \in Displays /\ d.busy = 0 /\ d.four \in BOOLEAN
      /\ (d.half # <<>> => d.four) /\ d.half \in {<<>>, <<3>>}
  BY DEF Rough, Panels, Displays
<1>1. CASE ~d.four
  <2>1. Latched(d, 3, 0) = Taken(d, <<3, 0>>, 0) BY <1>0, <1>1 DEF Latched
  <2> QED BY <1>0, <1>1, <2>1, WideThree
<1>2. CASE d.four /\ d.half = <<>>
  <2> DEFINE f == [d EXCEPT !.half = <<3>>]
  <2>1. Latched(d, 3, 0) = f BY <1>0, <1>2 DEF Latched
  <2>2. f \in Panels /\ f.four /\ f.half = <<3>> /\ f.busy = 0
    BY <1>0, <1>2 DEF Panels, Displays, Nibbles
  <2> HIDE DEF f
  <2>3. Eased(f, Short, Calm(f, Short)) BY <2>2, Eases
  <2> QED BY <2>1, <2>2, <2>3 DEF Eased, Split, Panels, Short
<1>3. CASE d.four /\ d.half = <<3>>
  <2> DEFINE f == [d EXCEPT !.half = <<>>]
  <2>1. d.half # <<>> /\ d.half[1] = 3 BY <1>3
  <2>2. Latched(d, 3, 0) = Taken(f, <<3, 3>>, 0) BY <1>0, <1>3, <2>1 DEF Latched
  <2>3. f \in Displays /\ f.half = <<>> /\ f.busy = 0 BY <1>0, <1>3 DEF Displays
  <2> HIDE DEF f
  <2> QED BY <2>2, <2>3, WideThree
<1> QED BY <1>0, <1>1, <1>2, <1>3

\* After the third it has eight bits, whatever it was left in.
LEMMA ThirdThree ==
  ASSUME NEW d, Wide(d) \/ Split(d)
  PROVE  Wide(Calm(Latched(d, 3, 0), Short))
<1>1. CASE Wide(d)
  <2>1. Latched(d, 3, 0) = Taken(d, <<3, 0>>, 0) BY <1>1 DEF Wide, Latched
  <2> QED BY <1>1, <2>1, WideThree DEF Wide
<1>2. CASE Split(d)
  <2> DEFINE f == [d EXCEPT !.half = <<>>]
  <2>1. d.half # <<>> /\ d.half[1] = 3 BY <1>2 DEF Split
  <2>2. Latched(d, 3, 0) = Taken(f, <<3, 3>>, 0)
    BY <1>2, <2>1 DEF Latched, Split
  <2>3. f \in Displays /\ f.half = <<>> /\ f.busy = 0
    BY <1>2 DEF Displays, Split
  <2> HIDE DEF f
  <2> QED BY <2>2, <2>3, WideThree
<1> QED BY <1>1, <1>2

\* The nibble 2 makes it four, with no half waiting.
LEMMA ThenTwo ==
  ASSUME NEW d, Wide(d)
  PROVE  Ready(Calm(Latched(d, 2, 0), Short))
<1> DEFINE b == <<2, 0>>
<1>1. Latched(d, 2, 0) = Taken(d, b, 0) BY DEF Wide, Latched
<1>2. b[1] = 2 /\ b # <<0, 1>> /\ b # <<0, 2>> /\ b # <<0, 3>> OBVIOUS
<1> HIDE DEF b
<1>3. Taken(d, b, 0) = [d EXCEPT !.four = b[1] = 2, !.busy = Short]
  BY <1>2, TakenFour
<1>4. (b[1] = 2) = TRUE BY <1>2
<1>5. Taken(d, b, 0) = [d EXCEPT !.four = TRUE, !.busy = Short]
  BY <1>3, <1>4, Zenon
<1> DEFINE t == [d EXCEPT !.four = TRUE, !.busy = Short]
<1>6. t \in Panels /\ t.four /\ t.half = <<>> /\ t.busy = Short
  BY DEF Wide, Panels, Displays, Short
<1> HIDE DEF t
<1>7. Eased(t, Short, Calm(t, Short)) BY <1>6, Eases
<1>9. t.four = TRUE BY DEF t, Wide, Displays
<1>8. Ready(Calm(t, Short))
  <2> DEFINE c == Calm(t, Short)
  <2>1. c.four = TRUE /\ c.half = <<>> /\ c \in Panels
    BY <1>6, <1>7, <1>9 DEF Eased
  <2>2. c.busy = 0 BY <1>6, <1>7 DEF Eased, Short
  <2> HIDE DEF c
  <2> QED BY <2>1, <2>2 DEF Ready, Panels, c
<1> QED BY <1>1, <1>5, <1>8 DEF t

\* The display right after init.
Fresh(d) == Ready(d) /\ d.on = TRUE /\ d.memory = Blank /\ d.cursor = Home

\* Init gets every display there (drv_lcd1602_init).
LEMMA LeadsInit ==
  ASSUME NEW d \in Panels
  PROVE  lcd_init \in Seq(Writes) /\ \E e : Leads(lcd_init, d, e) /\ Fresh(e)
<1> DEFINE q1 == Pause(Long)
           q2 == q1 \o write_nibble(3, 0)
           q3 == q2 \o Pause(Long)
           q4 == q3 \o write_nibble(3, 0)
           q5 == q4 \o Pause(Short)
           q6 == q5 \o write_nibble(3, 0)
           q7 == q6 \o write_nibble(2, 0)
           q8 == q7 \o command(<<2, 8>>)
           q9 == q8 \o command(<<0, 8>>)
           q10 == q9 \o lcd_clear
           q11 == q10 \o command(<<0, 6>>)
           q12 == q11 \o command(<<0, 12>>)
<1> DEFINE e1 == Calm(d, Long)
           e2 == Calm(Latched(e1, 3, 0), Short)
           e3 == Calm(e2, Long)
           e4 == Calm(Latched(e3, 3, 0), Short)
           e5 == e4
           e6 == Calm(Latched(e4, 3, 0), Short)
           e7 == Calm(Latched(e6, 2, 0), Short)
           e8 == e7
           e9 == [e7 EXCEPT !.on = FALSE]
           e10 == [e9 EXCEPT !.memory = Blank, !.cursor = Home]
           e11 == e10
           e12 == [e10 EXCEPT !.on = TRUE]
<1>0. 2 \in Nibbles /\ 3 \in Nibbles /\ <<2, 8>> \in Pairs /\ <<0, 8>> \in Pairs /\ <<0, 6>> \in Pairs
      /\ <<0, 12>> \in Pairs /\ Short \in {Short, Long} /\ Long \in {Short, Long}
  BY DEF Nibbles, Pairs
<1>a. lcd_init = q12 BY DEF lcd_init, lcd_clear
<1> HIDE DEF q2, q3, q4, q5, q6, q7, q8, q9, q10, q11, q12
<1>1. e1 \in Panels /\ e1.busy = 0
  BY <1>0, Eases DEF Eased, Panels, Displays, Short, Long
<1>2. Rough(e3) BY <1>1, FirstThree
<1>3. e2 \in Panels
  <2>1. Latched(e1, 3, 0) \in Panels BY <1>0, <1>1, LatchedType
  <2>2. Eased(Latched(e1, 3, 0), Short, e2) BY <2>1, Eases
  <2> QED BY <2>2 DEF Eased
<1> HIDE DEF e1, e2, e3
<1>4. Wide(e4) \/ Split(e4) BY <1>2, SecondThree
<1> HIDE DEF e4
<1>5. Calm(e4, Short) = e5 /\ e4 \in Displays
  <2>1. e4 \in Displays /\ e4.busy = 0 /\ e4.busy = (IF Short >= e4.busy THEN 0 ELSE e4.busy)
    BY <1>4 DEF Wide, Split, Short
  <2> QED BY <1>0, <2>1, CalmIs
<1>6. Wide(e6) BY <1>4, ThirdThree
<1> HIDE DEF e6
<1>7. Ready(e7) BY <1>6, ThenTwo
<1> HIDE DEF e7
<1>8. Ready(e9) /\ e9 = [e7 EXCEPT !.on = FALSE] BY <1>7 DEF Ready, Displays
<1> HIDE DEF e9
<1>9. Ready(e10) /\ e10 = [e9 EXCEPT !.memory = Blank, !.cursor = Home]
  BY <1>8, LeadsClear
<1>10. e10.memory = Blank /\ e10.cursor = Home BY <1>8, <1>9 DEF Ready, Displays
<1> HIDE DEF e10
<1>11. Fresh(e12) /\ e12 = [e10 EXCEPT !.on = TRUE]
  BY <1>9, <1>10 DEF Ready, Displays, Fresh
<1> HIDE DEF e12
<1>p1. Pause(Long) \in Seq(Writes) /\ Leads(Pause(Long), d, e1)
  BY <1>0, LeadsPause DEF Panels, e1
<1>p2. write_nibble(3, 0) \in Seq(Writes) /\ Leads(write_nibble(3, 0), e1, e2)
  BY <1>0, <1>1, LeadsNibble DEF Panels, e2
<1>p3. Pause(Long) \in Seq(Writes) /\ Leads(Pause(Long), e2, e3)
  BY <1>0, <1>3, LeadsPause DEF Panels, e3
<1>p4. write_nibble(3, 0) \in Seq(Writes) /\ Leads(write_nibble(3, 0), e3, e4)
  BY <1>0, <1>2, LeadsNibble DEF Rough, Panels, e4
<1>p5. Pause(Short) \in Seq(Writes) /\ Leads(Pause(Short), e4, e5)
  BY <1>0, <1>5, LeadsPause
<1>p6. write_nibble(3, 0) \in Seq(Writes) /\ Leads(write_nibble(3, 0), e5, e6)
  BY <1>0, <1>5, LeadsNibble DEF e6
<1>p7. write_nibble(2, 0) \in Seq(Writes) /\ Leads(write_nibble(2, 0), e6, e7)
  BY <1>0, <1>6, LeadsNibble DEF Wide, e7
<1>p8. command(<<2, 8>>) \in Seq(Writes) /\ Leads(command(<<2, 8>>), e7, e8)
  <2> DEFINE b == <<2, 8>>
  <2>1. b \in Pairs /\ b # <<0, 1>> /\ b # <<0, 2>> BY <1>0
  <2>2. Calm(Taken(e7, b, 0), Short) = e8 BY <1>7, ModesAreSet
  <2> HIDE DEF b
  <2>3. command(b) \in Seq(Writes) /\ Leads(command(b), e7, Calm(Taken(e7, b, 0), Short))
    BY <1>7, <2>1, LeadsCommand
  <2> QED BY <2>2, <2>3 DEF b
<1>p9. command(<<0, 8>>) \in Seq(Writes) /\ Leads(command(<<0, 8>>), e8, e9)
  <2> DEFINE b == <<0, 8>>
  <2>1. b \in Pairs /\ b # <<0, 1>> /\ b # <<0, 2>> BY <1>0
  <2>2. Calm(Taken(e7, b, 0), Short) = e9 BY <1>7, <1>8, ModesAreSet
  <2> HIDE DEF b
  <2>3. command(b) \in Seq(Writes) /\ Leads(command(b), e7, Calm(Taken(e7, b, 0), Short))
    BY <1>7, <2>1, LeadsCommand
  <2> QED BY <2>2, <2>3 DEF b
<1>p10. lcd_clear \in Seq(Writes) /\ Leads(lcd_clear, e9, e10)
  BY <1>8, <1>9, LeadsClear
<1>p11. command(<<0, 6>>) \in Seq(Writes) /\ Leads(command(<<0, 6>>), e10, e11)
  <2> DEFINE b == <<0, 6>>
  <2>1. b \in Pairs /\ b # <<0, 1>> /\ b # <<0, 2>> BY <1>0
  <2>2. Calm(Taken(e10, b, 0), Short) = e11 BY <1>9, ModesAreSet
  <2> HIDE DEF b
  <2>3. command(b) \in Seq(Writes) /\ Leads(command(b), e10, Calm(Taken(e10, b, 0), Short))
    BY <1>9, <2>1, LeadsCommand
  <2> QED BY <2>2, <2>3 DEF b
<1>p12. command(<<0, 12>>) \in Seq(Writes) /\ Leads(command(<<0, 12>>), e11, e12)
  <2> DEFINE b == <<0, 12>>
  <2>1. b \in Pairs /\ b # <<0, 1>> /\ b # <<0, 2>> BY <1>0
  <2>2. Calm(Taken(e10, b, 0), Short) = e12 BY <1>9, <1>11, ModesAreSet
  <2> HIDE DEF b
  <2>3. command(b) \in Seq(Writes) /\ Leads(command(b), e10, Calm(Taken(e10, b, 0), Short))
    BY <1>9, <2>1, LeadsCommand
  <2> QED BY <2>2, <2>3 DEF b
<1>q1. q1 \in Seq(Writes) /\ Leads(q1, d, e1) BY <1>p1
<1> HIDE DEF q1, e5, e8, e11
<1>q2. q2 \in Seq(Writes) /\ Leads(q2, d, e2) BY <1>q1, <1>p2, LeadsJoin DEF q2
<1>q3. q3 \in Seq(Writes) /\ Leads(q3, d, e3) BY <1>q2, <1>p3, LeadsJoin DEF q3
<1>q4. q4 \in Seq(Writes) /\ Leads(q4, d, e4) BY <1>q3, <1>p4, LeadsJoin DEF q4
<1>q5. q5 \in Seq(Writes) /\ Leads(q5, d, e5) BY <1>q4, <1>p5, LeadsJoin DEF q5
<1>q6. q6 \in Seq(Writes) /\ Leads(q6, d, e6) BY <1>q5, <1>p6, LeadsJoin DEF q6
<1>q7. q7 \in Seq(Writes) /\ Leads(q7, d, e7) BY <1>q6, <1>p7, LeadsJoin DEF q7
<1>q8. q8 \in Seq(Writes) /\ Leads(q8, d, e8) BY <1>q7, <1>p8, LeadsJoin DEF q8
<1>q9. q9 \in Seq(Writes) /\ Leads(q9, d, e9) BY <1>q8, <1>p9, LeadsJoin DEF q9
<1>q10. q10 \in Seq(Writes) /\ Leads(q10, d, e10)
  BY <1>q9, <1>p10, LeadsJoin DEF q10
<1>q11. q11 \in Seq(Writes) /\ Leads(q11, d, e11)
  BY <1>q10, <1>p11, LeadsJoin DEF q11
<1>q12. q12 \in Seq(Writes) /\ Leads(q12, d, e12)
  BY <1>q11, <1>p12, LeadsJoin DEF q12
<1> QED BY <1>a, <1>11, <1>q12

\* The display shows what the program asked for.
Shown(d, w) == Ready(d) /\ d.on = TRUE /\ d.memory = w.memory /\ d.cursor = w.cursor

\* What the call in progress still has to write brings the display there.
LcdInv ==
  LcdTypeOK /\ (clean = TRUE => \E z : Runs(Panel(lines, lcd), writes, z) /\ Shown(z.lcd, want))

Wanted == [memory : [Positions -> Pairs], cursor : Positions]

\* The type invariant, by variable.
LEMMA LcdTyped ==
  LcdTypeOK <=> /\ lines \in LineStates /\ lcd \in Panels /\ writes \in Seq(Writes)
                /\ clean \in BOOLEAN /\ faults \in Nat
                /\ want \in Wanted
BY DEF LcdTypeOK, LineStates, Panels, Wanted, Pairs

\* What a cleared display shows.
LEMMA Cleared == [memory |-> Blank, cursor |-> Home] \in Wanted
BY PlacesHold DEF Wanted

\* What is wanted after a character.
LEMMA TypedWanted ==
  ASSUME NEW w \in Wanted, NEW ch \in Pairs
  PROVE  /\ Typed(w, ch) \in Wanted
         /\ Typed(w, ch).memory = [w.memory EXCEPT ![w.cursor] = ch]
         /\ Typed(w, ch).cursor = NextPlace(w.cursor)
<1>1. NextPlace(w.cursor) \in Positions BY PlacesHold DEF Wanted
<1> QED BY <1>1 DEF Wanted, Typed

\* The calls of the program, from a display that shows what was asked for.
LEMMA ClearShows ==
  ASSUME NEW d, NEW w \in Wanted, Shown(d, w)
  PROVE  /\ lcd_clear \in Seq(Writes)
         /\ \E e : Leads(lcd_clear, d, e) /\ Shown(e, [memory |-> Blank, cursor |-> Home])
<1>1. d \in Displays /\ Ready(d) /\ d.on = TRUE BY DEF Shown, Ready
<1> DEFINE e == [d EXCEPT !.memory = Blank, !.cursor = Home]
<1>2. Ready(e) /\ e.on = d.on /\ lcd_clear \in Seq(Writes) /\ Leads(lcd_clear, d, e)
  BY <1>1, LeadsClear
<1>3. e.memory = Blank /\ e.cursor = Home BY <1>1 DEF Displays
<1> HIDE DEF e
<1>4. Shown(e, [memory |-> Blank, cursor |-> Home])
  BY <1>1, <1>2, <1>3 DEF Shown
<1> QED BY <1>2, <1>4

LEMMA CursorShows ==
  ASSUME NEW d, NEW w \in Wanted, Shown(d, w), NEW p \in Positions
  PROVE  /\ set_cursor(p[1], p[2]) \in Seq(Writes)
         /\ \E e : Leads(set_cursor(p[1], p[2]), d, e) /\ Shown(e, [w EXCEPT !.cursor = p])
<1>1. d \in Displays /\ Ready(d) /\ d.on = TRUE /\ d.memory = w.memory
  BY DEF Shown, Ready
<1> DEFINE e == [d EXCEPT !.cursor = p]
           v == [w EXCEPT !.cursor = p]
<1>2. Ready(e) /\ e.on = d.on /\ set_cursor(p[1], p[2]) \in Seq(Writes) /\ Leads(set_cursor(p[1], p[2]), d, e)
  BY <1>1, LeadsCursor
<1>3. e.memory = d.memory /\ e.cursor = p /\ v.memory = w.memory /\ v.cursor = p
  BY <1>1 DEF Displays, Wanted
<1> HIDE DEF e, v
<1>4. Shown(e, v) BY <1>1, <1>2, <1>3 DEF Shown
<1> QED BY <1>2, <1>4 DEF v

LEMMA CharShows ==
  ASSUME NEW d, NEW w \in Wanted, Shown(d, w), NEW ch \in Pairs
  PROVE  putc(ch) \in Seq(Writes) /\ \E e : Leads(putc(ch), d, e) /\ Shown(e, Typed(w, ch))
<1>1. d \in Displays /\ Ready(d) /\ d.on = TRUE /\ d.memory = w.memory /\ d.cursor = w.cursor
  BY DEF Shown, Ready
<1> DEFINE e == [d EXCEPT !.memory[d.cursor] = ch, !.cursor = NextPlace(@)]
<1>2. Ready(e) /\ e.on = d.on /\ putc(ch) \in Seq(Writes) /\ Leads(putc(ch), d, e)
  BY <1>1, LeadsData
<1>3. e.memory = [d.memory EXCEPT ![d.cursor] = ch] /\ e.cursor = NextPlace(d.cursor)
  BY <1>1 DEF Displays
<1> HIDE DEF e
<1>4. Typed(w, ch).memory = [w.memory EXCEPT ![w.cursor] = ch] /\ Typed(w, ch).cursor = NextPlace(w.cursor)
  BY TypedWanted
<1>5. Shown(e, Typed(w, ch)) BY <1>1, <1>2, <1>3, <1>4 DEF Shown
<1> QED BY <1>2, <1>5

LEMMA StringShows ==
  ASSUME NEW d, NEW w \in Wanted, Shown(d, w), NEW a \in Pairs, NEW b \in Pairs
  PROVE  /\ write_string(a, b) \in Seq(Writes)
         /\ \E e : Leads(write_string(a, b), d, e) /\ Shown(e, Typed(Typed(w, a), b))
<1>1. Typed(w, a) \in Wanted BY TypedWanted
<1>2. putc(a) \in Seq(Writes) /\ \E e : Leads(putc(a), d, e) /\ Shown(e, Typed(w, a))
  BY CharShows
<1>3. PICK e : Leads(putc(a), d, e) /\ Shown(e, Typed(w, a)) BY <1>2
<1>4. putc(b) \in Seq(Writes) /\ \E f : Leads(putc(b), e, f) /\ Shown(f, Typed(Typed(w, a), b))
  BY <1>1, <1>3, CharShows
<1>5. PICK f : Leads(putc(b), e, f) /\ Shown(f, Typed(Typed(w, a), b)) BY <1>4
<1>6. Leads(putc(a) \o putc(b), d, f) BY <1>2, <1>3, <1>4, <1>5, LeadsJoin
<1>7. putc(a) \o putc(b) \in Seq(Writes) BY <1>2, <1>4
<1> QED BY <1>5, <1>6, <1>7 DEF write_string

\* A display shows nothing after init, as wanted.
LEMMA InitShows ==
  ASSUME NEW d \in Panels
  PROVE  /\ lcd_init \in Seq(Writes)
         /\ \E e : Leads(lcd_init, d, e) /\ Shown(e, [memory |-> Blank, cursor |-> Home])
<1>1. ASSUME NEW e, Fresh(e) PROVE Shown(e, [memory |-> Blank, cursor |-> Home])
  BY <1>1 DEF Fresh, Shown
<1> QED BY <1>1, LeadsInit

\* There are displays of every kind, so the calls are sequences of writes.
LEMMA SomeDisplay ==
  LET w == [memory |-> Blank, cursor |-> Home] IN w \in Wanted /\ \E d \in Panels : Shown(d, w)
<1> DEFINE w == [memory |-> Blank, cursor |-> Home]
           d == [four |-> TRUE, half |-> <<>>, memory |-> Blank, cursor |-> Home, on |-> TRUE, busy |-> 0]
<1>1. d \in Displays BY PlacesHold DEF Displays, Pairs
<1>2. d \in Panels /\ Shown(d, w) BY <1>1 DEF Panels, Shown, Ready
<1> QED BY <1>2, Cleared

\* What the functions of the driver put out.
LEMMA CallsAreWrites ==
  /\ lcd_init \in Seq(Writes) /\ lcd_clear \in Seq(Writes)
  /\ \A p \in Positions : set_cursor(p[1], p[2]) \in Seq(Writes)
  /\ \A ch \in Pairs : putc(ch) \in Seq(Writes)
  /\ \A a, b \in Pairs : write_string(a, b) \in Seq(Writes)
<1>1. PICK w \in Wanted, d \in Panels : Shown(d, w) BY SomeDisplay
<1>2. lcd_init \in Seq(Writes) BY InitShows
<1>3. lcd_clear \in Seq(Writes) BY <1>1, ClearShows
<1>4. ASSUME NEW p \in Positions PROVE set_cursor(p[1], p[2]) \in Seq(Writes)
  BY <1>1, CursorShows
<1>5. ASSUME NEW ch \in Pairs PROVE putc(ch) \in Seq(Writes) BY <1>1, CharShows
<1>6. ASSUME NEW a \in Pairs, NEW b \in Pairs PROVE write_string(a, b) \in Seq(Writes)
  BY <1>1, StringShows
<1> QED BY <1>2, <1>3, <1>4, <1>5, <1>6

\* Characters are pairs of nibbles.
LEMMA CharsArePairs == Chars \subseteq Pairs
BY LcdAssumption DEF Pairs

-----------------------------------------------------------------------------
(* The type invariant. *)

\* The type invariant holds at the start.
LEMMA LcdTypeInit == LcdInit => LcdTypeOK
<1> SUFFICES ASSUME LcdInit PROVE LcdTypeOK
  OBVIOUS
<1>1. lines \in LineStates BY DEF LcdInit, LineStates, Nibbles
<1>2. lcd \in Panels
  <2>1. \A n \in {0, 2, 3, 8} : n \in Nibbles BY DEF Nibbles
  <2>2. lcd.half \in {<<>>} \cup {<<n>> : n \in Nibbles} BY <2>1 DEF LcdInit
  <2>3. Blank \in [Positions -> Nibbles \X Nibbles] /\ Home \in Positions
    BY PlacesHold DEF Pairs
  <2>4. lcd \in Displays BY <2>2, <2>3 DEF LcdInit, Displays
  <2> QED BY <2>4 DEF LcdInit, Panels
<1>3. writes \in Seq(Writes) /\ want \in Wanted /\ clean \in BOOLEAN /\ faults \in Nat
  BY CallsAreWrites, Cleared DEF LcdInit
<1> QED BY <1>1, <1>2, <1>3, LcdTyped

\* The write that is due.
LEMMA DueIsWrite ==
  ASSUME writes \in Seq(Writes), writes # <<>>
  PROVE  Due \in Writes /\ Tail(writes) \in Seq(Writes)
BY HeadTailProperties DEF Due

\* Every step keeps the type invariant.
LEMMA LcdTypeStep == LcdTypeOK /\ [LcdNext]_lcdVars => LcdTypeOK'
<1> SUFFICES ASSUME LcdTypeOK, [LcdNext]_lcdVars PROVE LcdTypeOK'
  OBVIOUS
<1>0. /\ lines \in LineStates /\ lcd \in Panels /\ writes \in Seq(Writes) /\ clean \in BOOLEAN /\ faults \in Nat
      /\ want \in Wanted
  BY LcdTyped
<1>t. ASSUME lines' \in LineStates, lcd' \in Panels, writes' \in Seq(Writes), clean' \in BOOLEAN, faults' \in Nat,
             want' \in Wanted
      PROVE  LcdTypeOK'
  BY <1>t DEF LcdTypeOK, LineStates, Panels, Wanted, Pairs
<1>1. CASE Raw
  <2>1. writes # <<>> /\ Due.do = "raw" /\ writes' = Tail(writes)
    BY <1>1 DEF Raw, NextWrite
  <2>2. Due \in Writes /\ Tail(writes) \in Seq(Writes) BY <1>0, <2>1, DueIsWrite
  <2>3. lines' \in LineStates BY <1>1, <2>1, <2>2 DEF Raw, Writes, LineStates
  <2>4. Latched(lcd, lines.nibble, lines.rs) \in Panels
    BY <1>0, LatchedType DEF LineStates
  <2>5. lcd' \in Panels BY <1>0, <1>1, <2>4 DEF Raw
  <2> QED BY <1>0, <1>1, <1>t, <2>1, <2>2, <2>3, <2>5 DEF Raw
<1>2. CASE RawIsLost
  <2>1. writes # <<>> /\ writes' = Tail(writes) /\ faults' = faults + 1 /\ clean' = FALSE
        /\ lines' = lines /\ lcd' = lcd /\ want' = want
    BY <1>2 DEF RawIsLost, NextWrite
  <2>2. Tail(writes) \in Seq(Writes) BY <1>0, <2>1, DueIsWrite
  <2>3. faults' \in Nat BY <1>0, <2>1
  <2>4. clean' \in BOOLEAN BY <2>1, Zenon
  <2> QED BY <1>0, <1>t, <2>1, <2>2, <2>3, <2>4
<1>3. CASE Waits
  <2>1. /\ writes # <<>> /\ Due.do = "delay" /\ writes' = Tail(writes)
        /\ UNCHANGED <<lines, want, clean, faults>>
    BY <1>3 DEF Waits, NextWrite
  <2>2. Due \in Writes /\ Tail(writes) \in Seq(Writes) BY <1>0, <2>1, DueIsWrite
  <2>3. Due.time \in {Short, Long} BY <2>1, <2>2 DEF Writes
  <2>4. lcd' = Calm(lcd, Due.time) BY <1>3 DEF Waits, Calm
  <2>5. lcd' \in Panels BY <1>0, <2>3, <2>4, Eases DEF Eased
  <2> QED BY <1>0, <1>t, <2>1, <2>2, <2>5
<1>4. CASE LcdUse
  <2>0. ASSUME NEW steps \in Seq(Writes), NEW wanted \in Wanted, Asks(steps, wanted)
        PROVE  LcdTypeOK'
    BY <1>0, <1>t, <2>0 DEF Asks
  <2>1. CASE Asks(lcd_clear, [memory |-> Blank, cursor |-> Home])
    BY <2>0, <2>1, CallsAreWrites, Cleared
  <2>2. ASSUME NEW p \in Positions, Asks(set_cursor(p[1], p[2]), [want EXCEPT !.cursor = p])
        PROVE  LcdTypeOK'
    <3>1. [want EXCEPT !.cursor = p] \in Wanted BY <1>0 DEF Wanted
    <3> QED BY <2>0, <2>2, <3>1, CallsAreWrites
  <2>3. ASSUME NEW ch \in Chars, Asks(putc(ch), Typed(want, ch))
        PROVE  LcdTypeOK'
    BY <1>0, <2>0, <2>3, CallsAreWrites, CharsArePairs, TypedWanted
  <2>4. ASSUME NEW a \in Chars, NEW b \in Chars, Asks(write_string(a, b), Typed(Typed(want, a), b))
        PROVE  LcdTypeOK'
    <3>1. Typed(Typed(want, a), b) \in Wanted
      BY <1>0, CharsArePairs, TypedWanted
    <3> QED BY <2>0, <2>4, <3>1, CallsAreWrites, CharsArePairs
  <2> QED BY <1>4, <2>1, <2>2, <2>3, <2>4 DEF LcdUse
<1>5. CASE Starts /\ faults' \in Nat
  BY <1>0, <1>5, <1>t, CallsAreWrites, Cleared DEF Starts
<1>6. CASE LcdAgain BY <1>0, <1>5, <1>6 DEF LcdAgain
<1>7. CASE LcdReset BY <1>0, <1>5, <1>7 DEF LcdReset
<1>8. CASE UNCHANGED lcdVars BY <1>0, <1>8, <1>t DEF lcdVars
<1> QED BY <1>1, <1>2, <1>3, <1>4, <1>6, <1>7, <1>8 DEF LcdNext

\* For every size of the display and every set of characters: the driver writes nibbles and
\* delays, and the display stays in a state that it has (drv_lcd1602.c:68-163).
THEOREM LcdTypeCorrect == LcdSpec => []LcdTypeOK
BY LcdTypeInit, LcdTypeStep, PTL DEF LcdSpec

-----------------------------------------------------------------------------
(* What the display shows. *)

\* The call of init that the program starts with.
LEMMA LcdInvInit == LcdInit => LcdInv
<1> SUFFICES ASSUME LcdInit PROVE LcdInv
  OBVIOUS
<1>1. LcdTypeOK BY LcdTypeInit
<1>2. lines \in LineStates /\ lcd \in Panels BY <1>1, LcdTyped
<1>3. PICK e : Leads(lcd_init, lcd, e) /\ Shown(e, [memory |-> Blank, cursor |-> Home])
  BY <1>2, InitShows
<1>4. PICK y \in LineStates : Runs(Panel(lines, lcd), lcd_init, Panel(y, e))
  BY <1>2, <1>3 DEF Leads
<1>5. writes = lcd_init /\ want = [memory |-> Blank, cursor |-> Home] /\ Panel(y, e).lcd = e
  BY DEF LcdInit, Panel
<1> QED BY <1>1, <1>3, <1>4, <1>5 DEF LcdInv

\* A call from a display brings it where the program wants it.
LEMMA CallReaches ==
  ASSUME LcdTypeOK', UNCHANGED <<lines, lcd>>, lines \in LineStates,
         \E e : Leads(writes', lcd, e) /\ Shown(e, want')
  PROVE  LcdInv'
<1>1. PICK e : Leads(writes', lcd, e) /\ Shown(e, want') OBVIOUS
<1>2. PICK y \in LineStates : Runs(Panel(lines, lcd), writes', Panel(y, e))
  BY <1>1 DEF Leads
<1>3. Panel(y, e).lcd = e BY DEF Panel
<1>4. Runs(Panel(lines', lcd'), writes', Panel(y, e)) /\ Shown(Panel(y, e).lcd, want')
  BY <1>1, <1>2, <1>3
<1> QED BY <1>4 DEF LcdInv

\* Every step keeps what the writes lead to.
LEMMA LcdInvStep == LcdInv /\ [LcdNext]_lcdVars => LcdInv'
<1> SUFFICES ASSUME LcdInv, [LcdNext]_lcdVars PROVE LcdInv'
  OBVIOUS
<1>0. /\ lines \in LineStates /\ lcd \in Panels /\ writes \in Seq(Writes) /\ clean \in BOOLEAN /\ faults \in Nat
      /\ want \in Wanted
  BY LcdTyped DEF LcdInv
<1>t. LcdTypeOK' BY LcdTypeStep DEF LcdInv
<1>d. ASSUME clean' = FALSE PROVE LcdInv' BY <1>t, <1>d DEF LcdInv
<1>s. ASSUME clean = TRUE, writes # <<>>, writes' = Tail(writes), want' = want,
             Panel(lines', lcd') = Exec(Panel(lines, lcd), Due)
      PROVE  LcdInv'
  <2>1. PICK z : Runs(Panel(lines, lcd), writes, z) /\ Shown(z.lcd, want)
    BY <1>s DEF LcdInv
  <2>2. Runs(Exec(Panel(lines, lcd), Head(writes)), Tail(writes), z)
    BY <1>0, <1>s, <2>1, RunsStep
  <2>3. Runs(Panel(lines', lcd'), writes', z) /\ Shown(z.lcd, want')
    BY <1>s, <2>1, <2>2 DEF Due
  <2> QED BY <1>t, <2>3 DEF LcdInv
<1>1. CASE Raw
  <2>1. CASE clean = TRUE
    <3>1. writes # <<>> /\ Due.do = "raw" /\ writes' = Tail(writes) /\ want' = want
      BY <1>1 DEF Raw, NextWrite
    <3>2. Panel(lines', lcd') = Exec(Panel(lines, lcd), Due)
      BY <1>1, <3>1 DEF Raw, Panel, Exec
    <3> QED BY <1>s, <2>1, <3>1, <3>2
  <2>2. CASE clean = FALSE BY <1>1, <1>d, <2>2 DEF Raw
  <2> QED BY <1>0, <2>1, <2>2
<1>2. CASE RawIsLost BY <1>2, <1>d DEF RawIsLost
<1>3. CASE Waits
  <2>1. CASE clean = TRUE
    <3>1. writes # <<>> /\ Due.do = "delay" /\ writes' = Tail(writes) /\ want' = want
      BY <1>3 DEF Waits, NextWrite
    <3>2. Panel(lines', lcd') = Exec(Panel(lines, lcd), Due)
      BY <1>3, <3>1 DEF Waits, Panel, Exec
    <3> QED BY <1>s, <2>1, <3>1, <3>2
  <2>2. CASE clean = FALSE BY <1>3, <1>d, <2>2 DEF Waits
  <2> QED BY <1>0, <2>1, <2>2
<1>4. CASE LcdUse
  <2>d. CASE clean = FALSE BY <1>4, <1>d, <2>d DEF LcdUse, Asks
  <2>s. CASE clean = TRUE
    <3>1. writes = <<>> BY <1>4 DEF LcdUse, Asks
    <3>2. PICK z : Runs(Panel(lines, lcd), writes, z) /\ Shown(z.lcd, want)
      BY <2>s DEF LcdInv
    <3>3. z = Panel(lines, lcd) BY <3>1, <3>2, RunsNone
    <3>4. Shown(lcd, want) BY <3>2, <3>3 DEF Panel
    <3>5. ASSUME NEW steps, NEW wanted, Asks(steps, wanted), \E e : Leads(steps, lcd, e) /\ Shown(e, wanted)
          PROVE  LcdInv'
      <4>1. writes' = steps /\ want' = wanted /\ UNCHANGED <<lines, lcd>>
        BY <3>5 DEF Asks
      <4> QED BY <1>0, <1>t, <3>5, <4>1, CallReaches
    <3>6. CASE Asks(lcd_clear, [memory |-> Blank, cursor |-> Home])
      BY <1>0, <3>4, <3>5, <3>6, ClearShows
    <3>7. ASSUME NEW p \in Positions, Asks(set_cursor(p[1], p[2]), [want EXCEPT !.cursor = p])
          PROVE  LcdInv'
      BY <1>0, <3>4, <3>5, <3>7, CursorShows
    <3>8. ASSUME NEW ch \in Chars, Asks(putc(ch), Typed(want, ch))
          PROVE  LcdInv'
      BY <1>0, <3>4, <3>5, <3>8, CharShows, CharsArePairs
    <3>9. ASSUME NEW a \in Chars, NEW b \in Chars, Asks(write_string(a, b), Typed(Typed(want, a), b))
          PROVE  LcdInv'
      BY <1>0, <3>4, <3>5, <3>9, StringShows, CharsArePairs
    <3> QED BY <1>4, <3>6, <3>7, <3>8, <3>9 DEF LcdUse
  <2> QED BY <1>0, <2>d, <2>s
<1>5. CASE Starts
  <2>1. writes' = lcd_init /\ want' = [memory |-> Blank, cursor |-> Home] /\ UNCHANGED <<lines, lcd>>
    BY <1>5 DEF Starts
  <2>2. \E e : Leads(writes', lcd, e) /\ Shown(e, want')
    BY <1>0, <2>1, InitShows
  <2> QED BY <1>0, <1>t, <2>1, <2>2, CallReaches
<1>6. CASE LcdAgain BY <1>5, <1>6 DEF LcdAgain
<1>7. CASE LcdReset BY <1>5, <1>7 DEF LcdReset
<1>8. CASE UNCHANGED lcdVars BY <1>8, <1>t DEF lcdVars, LcdInv
<1> QED BY <1>1, <1>2, <1>3, <1>4, <1>6, <1>7, <1>8 DEF LcdNext

\* Between calls nothing is left to write.
LEMMA LcdInvShows == LcdInv => ShowsText
<1> SUFFICES ASSUME LcdInv, writes = <<>>, clean = TRUE PROVE Shown(lcd, want)
  BY LcdTyped DEF ShowsText, Shown, Ready, LcdInv
<1>1. PICK z : Runs(Panel(lines, lcd), writes, z) /\ Shown(z.lcd, want)
  BY DEF LcdInv
<1>2. z = Panel(lines, lcd) BY <1>1, RunsNone
<1> QED BY <1>1, <1>2 DEF Panel

\* For every size of the display, whatever it was left in, and however many resets: after the
\* calls since init it shows what they wrote, unless a write was lost since (drv_lcd1602.c:68-163).
THEOREM DisplayShowsText == LcdSpec => []ShowsText
<1>1. LcdInit => LcdInv BY LcdInvInit
<1>2. LcdInv /\ [LcdNext]_lcdVars => LcdInv' BY LcdInvStep
<1>3. LcdInv => ShowsText BY LcdInvShows
<1> QED BY <1>1, <1>2, <1>3, PTL DEF LcdSpec

-----------------------------------------------------------------------------
(* Registers: what a sequence of accesses leads to. *)

LEMMA SetInduction ==
  ASSUME NEW S, 0 \in S, \A n \in Nat : n \in S => n + 1 \in S
  PROVE  Nat \subseteq S
<1> DEFINE Less == {p \in Nat \X Nat : p[1] < p[2]}
           T == Nat \ S
<1> SUFFICES ASSUME T # {} PROVE FALSE
  OBVIOUS
<1>1. T \subseteq Nat OBVIOUS
<1>2. IsWellFoundedOn(Less, Nat) BY NatLessThanWellFounded DEF OpToRel
<1>3. PICK x \in T : \A y \in T : ~(<<y, x>> \in Less)
  <2> HIDE DEF T, Less
  <2> QED BY <1>1, <1>2, WFMin
<1>4. x # 0 /\ x \in Nat BY <1>3
<1>5. x - 1 \in Nat /\ x - 1 < x /\ (x - 1) + 1 = x BY <1>4
<1>6. x - 1 \in S BY <1>3, <1>4, <1>5
<1> QED BY <1>3, <1>5, <1>6

\* The registers on the way through a sequence of accesses.
Filed(f, r, p, n) == f = [i \in 0 .. n |-> IF i = 0 THEN r ELSE Access(f[i - 1], p[i])]

LEMMA FileExists ==
  ASSUME NEW r, NEW p, NEW n \in Nat
  PROVE  \E f : Filed(f, r, p, n)
<1> DEFINE S == {k \in Nat : \E f : Filed(f, r, p, k)}
<1>1. 0 \in S
  <2> DEFINE f == [i \in 0 .. 0 |-> r]
  <2>1. f = [i \in 0 .. 0 |-> IF i = 0 THEN r ELSE Access(f[i - 1], p[i])]
    OBVIOUS
  <2>2. Filed(f, r, p, 0) BY <2>1 DEF Filed
  <2> QED BY <2>2
<1>2. ASSUME NEW k \in Nat, k \in S PROVE k + 1 \in S
  <2>1. PICK f : Filed(f, r, p, k) BY <1>2
  <2> DEFINE g == [i \in 0 .. k + 1 |-> IF i <= k THEN f[i] ELSE Access(f[k], p[k + 1])]
             h == [i \in 0 .. k + 1 |-> IF i = 0 THEN r ELSE Access(g[i - 1], p[i])]
  <2>2. ASSUME NEW i \in 0 .. k + 1 PROVE g[i] = h[i]
    <3>1. CASE i = 0
      <4>1. g[0] = f[0] /\ h[0] = r OBVIOUS
      <4>2. f[0] = r BY <2>1 DEF Filed
      <4> QED BY <3>1, <4>1, <4>2
    <3>2. CASE i \in 1 .. k
      <4>1. i - 1 \in 0 .. k /\ i \in 0 .. k /\ i - 1 <= k /\ i <= k /\ i # 0 /\ i - 1 \in 0 .. k + 1
        BY <3>2
      <4>2. g[i] = f[i] /\ g[i - 1] = f[i - 1] /\ h[i] = Access(g[i - 1], p[i])
        BY <4>1
      <4>3. f[i] = Access(f[i - 1], p[i]) BY <2>1, <4>1 DEF Filed
      <4> HIDE DEF g, h
      <4> QED BY <4>2, <4>3
    <3>3. CASE i = k + 1
      <4>1. ~(k + 1 <= k) /\ (k + 1) - 1 = k /\ k \in 0 .. k + 1 /\ k <= k /\ k + 1 # 0 /\ k + 1 \in 0 .. k + 1
        OBVIOUS
      <4>2. g[k + 1] = Access(f[k], p[k + 1]) /\ g[k] = f[k] /\ h[k + 1] = Access(g[k], p[k + 1])
        BY <4>1
      <4> HIDE DEF g, h
      <4> QED BY <3>3, <4>2
    <3> HIDE DEF g, h
    <3>4. i = 0 \/ i \in 1 .. k \/ i = k + 1 OBVIOUS
    <3> QED BY <3>1, <3>2, <3>3, <3>4
  <2>3. g = h
    <3>1. DOMAIN g = 0 .. k + 1 /\ DOMAIN h = 0 .. k + 1 /\ g = [i \in 0 .. k + 1 |-> g[i]]
          /\ h = [i \in 0 .. k + 1 |-> h[i]]
      OBVIOUS
    <3> HIDE DEF g, h
    <3> QED BY <2>2, <3>1
  <2>4. Filed(g, r, p, k + 1) BY <2>3 DEF Filed
  <2> HIDE DEF g
  <2> QED BY <2>4
<1>3. Nat \subseteq S
  <2> HIDE DEF S
  <2> QED BY <1>1, <1>2, SetInduction
<1> QED BY <1>3

\* The accesses p lead from r to z.
Does(r, p, z) ==
  \E f : f[0] = r /\ f[Len(p)] = z /\ \A i \in 1 .. Len(p) : f[i] = Access(f[i - 1], p[i])

LEMMA AfterDoes ==
  ASSUME NEW T, NEW p \in Seq(T)
  PROVE  Does(regs, p, After(p))
<1> DEFINE F == CHOOSE f : f = [i \in 0 .. Len(p) |-> IF i = 0 THEN regs ELSE Access(f[i - 1], p[i])]
<1>0. \E f : Filed(f, regs, p, Len(p)) BY FileExists
<1>1. \E f : f = [i \in 0 .. Len(p) |-> IF i = 0 THEN regs ELSE Access(f[i - 1], p[i])]
  BY <1>0 DEF Filed
<1>2. F = [i \in 0 .. Len(p) |-> IF i = 0 THEN regs ELSE Access(F[i - 1], p[i])]
  BY <1>1
<1>3. After(p) = F[Len(p)] BY DEF After
<1>4. Len(p) \in Nat OBVIOUS
<1> HIDE DEF F
<1>5. F[0] = regs BY <1>2, <1>4
<1>6. ASSUME NEW i \in 1 .. Len(p) PROVE F[i] = Access(F[i - 1], p[i])
  <2>1. i \in 0 .. Len(p) /\ i # 0 BY <1>4
  <2> QED BY <1>2, <2>1
<1> QED BY <1>3, <1>5, <1>6 DEF Does

LEMMA DoesOne ==
  ASSUME NEW r, NEW z, NEW a, Does(r, <<a>>, z)
  PROVE  z = Access(r, a)
<1>1. PICK f : f[0] = r /\ f[Len(<<a>>)] = z /\ \A i \in 1 .. Len(<<a>>) : f[i] = Access(f[i - 1], <<a>>[i])
  BY DEF Does
<1>2. Len(<<a>>) = 1 /\ <<a>>[1] = a /\ 1 \in 1 .. 1 /\ 1 - 1 = 0 OBVIOUS
<1>3. f[1] = Access(f[1 - 1], <<a>>[1]) BY <1>1, <1>2
<1> QED BY <1>1, <1>2, <1>3

LEMMA DoesJoin ==
  ASSUME NEW T, NEW p \in Seq(T), NEW q \in Seq(T), NEW r, NEW z, Does(r, p \o q, z)
  PROVE  \E m : Does(r, p, m) /\ Does(m, q, z)
<1>1. PICK f : f[0] = r /\ f[Len(p \o q)] = z /\ \A i \in 1 .. Len(p \o q) : f[i] = Access(f[i - 1], (p \o q)[i])
  BY DEF Does
<1>2. PICK k \in Nat, l \in Nat : k = Len(p) /\ l = Len(q) OBVIOUS
<1>3. /\ Len(p \o q) = k + l
      /\ \A i \in 1 .. k + l : (p \o q)[i] = IF i <= k THEN p[i] ELSE q[i - k]
  BY <1>2, ConcatProperties
<1>4. Does(r, p, f[k])
  <2>1. ASSUME NEW i \in 1 .. k PROVE f[i] = Access(f[i - 1], p[i])
    <3>1. i \in 1 .. k + l /\ i <= k OBVIOUS
    <3> QED BY <1>1, <1>3, <3>1
  <2> QED BY <1>1, <1>2, <2>1 DEF Does
<1>5. Does(f[k], q, z)
  <2> DEFINE g == [i \in 0 .. l |-> f[k + i]]
  <2>1. g[0] = f[k] /\ g[l] = z
    <3>1. 0 \in 0 .. l /\ l \in 0 .. l /\ k + 0 = k OBVIOUS
    <3> QED BY <1>1, <1>3, <3>1
  <2>2. ASSUME NEW i \in 1 .. l PROVE g[i] = Access(g[i - 1], q[i])
    <3>1. k + i \in 1 .. k + l /\ ~(k + i <= k) /\ (k + i) - k = i /\ (k + i) - 1 = k + (i - 1)
          /\ i \in 0 .. l /\ i - 1 \in 0 .. l
      OBVIOUS
    <3>2. g[i] = f[k + i] /\ g[i - 1] = f[k + (i - 1)] /\ (p \o q)[k + i] = q[i]
      BY <1>3, <3>1
    <3>3. f[k + i] = Access(f[(k + i) - 1], (p \o q)[k + i]) BY <1>1, <1>3, <3>1
    <3> HIDE DEF g
    <3> QED BY <3>1, <3>2, <3>3
  <2> HIDE DEF g
  <2> QED BY <1>2, <2>1, <2>2 DEF Does
<1> QED BY <1>4, <1>5

-----------------------------------------------------------------------------
(* Who owns a bit of a register. *)

RegBits ==
  Everything \cup 0 .. 7
    \cup {"EAXFR", "TR0", "TR1", "ET0", "ET1", "ES", "ES2", "ES3", "INT0", "INT1", "INT2",
          "T0CLKO", "T1CLKO", "UART1", "UART2", "UART3", "SPI", "CLEAR"}
Files == [Names -> SUBSET RegBits]
Accesses == [at : Names, clear : SUBSET RegBits, put : SUBSET RegBits]

\* The peripheral whose init function writes the bit, the given bit itself, or nobody;
\* EAXFR and the latches of the interrupt pins are anybody's; that of an input is the
\* peripheral's and of whoever writes its port.
PinZone(n, b) ==
  IF <<n[2], b>> = line THEN "PIN"
  ELSE IF n[1] = "P" /\ <<n[2], b>> = <<3, 0>> THEN "RXD1"
  ELSE IF n[1] = "P" /\ <<n[2], b>> = <<1, 0>> THEN "RXD2"
  ELSE IF n[1] = "P" /\ <<n[2], b>> = <<0, 0>> THEN "RXD3"
  ELSE IF n[1] = "P" /\ <<n[2], b>> = <<1, 4>> THEN "MISO"
  ELSE IF n[1] = "P" /\ n[2] = 3 /\ b \in {2, 3, 6} THEN "any"
  ELSE IF n[2] = 1 /\ b \in 3 .. 5 THEN "SPI"
  ELSE IF b \in {0, 1} THEN IF n[2] = 0 THEN "UART3" ELSE IF n[2] = 1 THEN "UART2" ELSE "UART1"
  ELSE "none"
BitZone(b) ==
  IF b \in {"S1ST2", "T1_1T", "T1", "T1CLKO", "TR1", "UART1"} THEN "UART1"
  ELSE IF b \in {"T2R", "T2_CT", "T2X12", "UART2"} THEN "UART2"
  ELSE IF b = "UART3" THEN "UART3"
  ELSE IF b \in {"T0", "T0_1T", "T0CLKO"} THEN "TIMER0"
  ELSE IF b = "SPI" THEN "SPI"
  ELSE IF b = "TR0" THEN b
  ELSE IF b = "EAXFR" THEN "any"
  ELSE "none"
Zone(n, b) ==
  IF n[1] \in PortRegs THEN PinZone(n, b)
  ELSE IF n[1] = "SCON" THEN "UART1"
  ELSE IF n[1] = "S2CON" THEN "UART2"
  ELSE IF n[1] \in {"S3CON", "T4T3M"} THEN "UART3"
  ELSE IF n[1] = "SPCTL" THEN "SPI"
  ELSE IF n[1] \in {"ADCTIM", "ADC_CONTR"} THEN "ADC"
  ELSE IF n[1] = "PWMB" THEN "QEI"
  ELSE IF n[1] = "WDT_CONTR" THEN "WDT"
  ELSE IF n[1] = "AUXINTIF" THEN "INT2"
  ELSE IF n[1] = "TCON" /\ b \in {"INT0", "INT1"} THEN b
  ELSE IF n[1] = "IE" THEN
         IF b = "INT0" THEN "EX0" ELSE IF b = "INT1" THEN "EX1"
         ELSE IF b \in {"ES", "ET0", "ET1"} THEN b ELSE "none"
  ELSE IF n[1] = "IE2" THEN IF b \in {"ES2", "ES3"} THEN b ELSE "none"
  ELSE IF n[1] = "INTCLKO" /\ b = "INT2" THEN "EX2"
  ELSE BitZone(b)

\* Accesses within some zones, and what they leave as it was.
Within(Z) == {a \in Accesses : \A b \in a.clear \cup a.put : Zone(a.at, b) \in Z}
\* The peripherals with an input, and what a call within some zones leaves them: its latch,
\* unless the program drives a pin of its port.
Receivers == {"UART1", "UART2", "UART3", "SPI"}
LatchZone(p) == CASE p = "UART1" -> "RXD1" [] p = "UART2" -> "RXD2" [] p = "UART3" -> "RXD3" [] OTHER -> "MISO"
Spares(Z, u) ==
  \A p \in Receivers : p \in Z \/ LatchZone(p) \notin Z \/ ("PIN" \in u /\ line[1] = Wired[p][1])

Stays(r, z, Z) == \A n \in Names, b \in RegBits : Zone(n, b) \notin Z => (b \in z[n] <=> b \in r[n])

LEMMA AccessStays ==
  ASSUME NEW r \in Files, NEW Z, NEW a \in Within(Z)
  PROVE  Access(r, a) \in Files /\ Stays(r, Access(r, a), Z)
<1>1. a.at \in Names /\ a.clear \subseteq RegBits /\ a.put \subseteq RegBits
      /\ \A b \in a.clear \cup a.put : Zone(a.at, b) \in Z
  BY DEF Within, Accesses
<1> DEFINE z == [r EXCEPT ![a.at] = (@ \ a.clear) \cup a.put]
<1>2. z \in Files /\ z[a.at] = (r[a.at] \ a.clear) \cup a.put /\ \A n \in Names : n # a.at => z[n] = r[n]
  BY <1>1 DEF Files
<1>3. Access(r, a) = r \/ Access(r, a) = z BY DEF Access
<1> HIDE DEF z
<1>4. ASSUME NEW n \in Names, NEW b \in RegBits, Zone(n, b) \notin Z PROVE b \in z[n] <=> b \in r[n]
  BY <1>1, <1>2, <1>4
<1>5. Stays(r, z, Z) /\ Stays(r, r, Z) BY <1>4 DEF Stays
<1> QED BY <1>2, <1>3, <1>5

LEMMA DoesStays ==
  ASSUME NEW r \in Files, NEW Z, NEW p \in Seq(Within(Z)), NEW z, Does(r, p, z)
  PROVE  z \in Files /\ Stays(r, z, Z)
<1>1. PICK f : f[0] = r /\ f[Len(p)] = z /\ \A i \in 1 .. Len(p) : f[i] = Access(f[i - 1], p[i])
  BY DEF Does
<1>2. Len(p) \in Nat /\ \A i \in 1 .. Len(p) : p[i] \in Within(Z)
  BY ElementOfSeq
<1> DEFINE S == {n \in Nat : n <= Len(p) => f[n] \in Files /\ Stays(r, f[n], Z)}
<1>3. 0 \in S BY <1>1 DEF Stays
<1>4. ASSUME NEW n \in Nat, n \in S PROVE n + 1 \in S
  <2>1. CASE n + 1 <= Len(p)
    <3>1. n + 1 \in 1 .. Len(p) /\ (n + 1) - 1 = n /\ n <= Len(p) BY <1>2, <2>1
    <3>2. f[n + 1] = Access(f[n], p[n + 1]) /\ p[n + 1] \in Within(Z) /\ f[n] \in Files /\ Stays(r, f[n], Z)
      BY <1>1, <1>2, <1>4, <3>1
    <3>3. f[n + 1] \in Files /\ Stays(f[n], f[n + 1], Z) BY <3>2, AccessStays
    <3>4. Stays(r, f[n + 1], Z) BY <3>2, <3>3 DEF Stays
    <3> QED BY <3>3, <3>4
  <2>2. CASE ~(n + 1 <= Len(p)) BY <2>2
  <2> QED BY <2>1, <2>2
<1>5. Nat \subseteq S
  <2> HIDE DEF S
  <2> QED BY <1>3, <1>4, SetInduction
<1> QED BY <1>1, <1>2, <1>5

\* What one access to a register that takes it does.
Stepped(r, z, n, clear, put) == z[n] = (r[n] \ clear) \cup put /\ \A m \in Names : m # n => z[m] = r[m]

LEMMA DoesPort ==
  ASSUME NEW r \in Files, NEW z, NEW name, NEW port, <<name, port>> \in Names, NEW clear, NEW put,
         Does(r, Port(name, port, clear, put), z), name \in Extended => "EAXFR" \in r[<<"P_SW2", 0>>]
  PROVE  Stepped(r, z, <<name, port>>, clear, put)
<1> DEFINE a == [at |-> <<name, port>>, clear |-> clear, put |-> put]
<1>1. z = Access(r, a) BY DoesOne DEF Port
<1>2. a.at[1] = name OBVIOUS
<1>3. z = [r EXCEPT ![<<name, port>>] = (@ \ clear) \cup put]
  BY <1>1, <1>2 DEF Access
<1> QED BY <1>3 DEF Stepped, Files

-----------------------------------------------------------------------------
(* What each function does, and within which zones. *)

LEMMA NamesAre ==
  /\ <<"ADCTIM", 0>> \in Names
  /\ <<"ADC_CONTR", 0>> \in Names
  /\ <<"AUXINTIF", 0>> \in Names
  /\ <<"AUXR", 0>> \in Names
  /\ <<"IE", 0>> \in Names
  /\ <<"IE2", 0>> \in Names
  /\ <<"IE_P", 0>> \in Names
  /\ <<"IE_P", 1>> \in Names
  /\ <<"IE_P", 3>> \in Names
  /\ <<"INTCLKO", 0>> \in Names
  /\ <<"M0", 0>> \in Names
  /\ <<"M0", 1>> \in Names
  /\ <<"M0", 3>> \in Names
  /\ <<"M1", 0>> \in Names
  /\ <<"M1", 1>> \in Names
  /\ <<"M1", 3>> \in Names
  /\ <<"P", 0>> \in Names
  /\ <<"P", 1>> \in Names
  /\ <<"P", 3>> \in Names
  /\ <<"PU", 0>> \in Names
  /\ <<"PU", 1>> \in Names
  /\ <<"PU", 3>> \in Names
  /\ <<"PWMB", 0>> \in Names
  /\ <<"P_SW1", 0>> \in Names
  /\ <<"P_SW2", 0>> \in Names
  /\ <<"S2CON", 0>> \in Names
  /\ <<"S3CON", 0>> \in Names
  /\ <<"SCON", 0>> \in Names
  /\ <<"SPCTL", 0>> \in Names
  /\ <<"T4T3M", 0>> \in Names
  /\ <<"TCON", 0>> \in Names
  /\ <<"TMOD", 0>> \in Names
  /\ <<"WDT_CONTR", 0>> \in Names
BY DEF Names, SFRs, PortRegs

LEMMA PortWithin ==
  ASSUME NEW Z, NEW name, NEW port, <<name, port>> \in Names, NEW clear, NEW put,
         \A b \in clear \cup put : b \in RegBits /\ Zone(<<name, port>>, b) \in Z
  PROVE  Port(name, port, clear, put) \in Seq(Within(Z))
<1>1. [at |-> <<name, port>>, clear |-> clear, put |-> put] \in Within(Z)
  BY DEF Within, Accesses
<1> QED BY <1>1 DEF Port

\* Pins made quasi bidirectional.
Quasied(r, z, port, pins) ==
  /\ z[<<"M0", port>>] = r[<<"M0", port>>] \ pins /\ z[<<"M1", port>>] = r[<<"M1", port>>] \ pins
  /\ z[<<"P", port>>] = r[<<"P", port>>] \cup pins
  /\ \A n \in Names : n \notin {<<"M0", port>>, <<"M1", port>>, <<"P", port>>} => z[n] = r[n]

LEMMA QuasiWithin ==
  ASSUME NEW Z, NEW port \in {0, 1, 3}, "any" \in Z,
         (IF port = 0 THEN "UART3" ELSE IF port = 1 THEN "UART2" ELSE "UART1") \in Z,
         (IF port = 0 THEN "RXD3" ELSE IF port = 1 THEN "RXD2" ELSE "RXD1") \in Z,
         line \in Lines
  PROVE  configure_quasi(port, {0, 1}) \in Seq(Within(Z))
<1>1. \A b \in {0, 1}, name \in {"M0", "M1", "P"} : b \in RegBits /\ Zone(<<name, port>>, b) \in Z
  BY DEF RegBits, Zone, PinZone, PortRegs, Lines
<1>2. \A name \in {"M0", "M1", "P"} : <<name, port>> \in Names
  BY DEF Names, PortRegs
<1>3. Port("M0", port, {0, 1}, {}) \in Seq(Within(Z)) BY <1>1, <1>2, PortWithin
<1>4. Port("M1", port, {0, 1}, {}) \in Seq(Within(Z)) BY <1>1, <1>2, PortWithin
<1>5. Port("P", port, {}, {0, 1}) \in Seq(Within(Z)) BY <1>1, <1>2, PortWithin
<1> QED BY <1>3, <1>4, <1>5 DEF configure_quasi

LEMMA QuasiDoes ==
  ASSUME NEW r \in Files, NEW z, NEW port \in {0, 1, 3}, line \in Lines, Does(r, configure_quasi(port, {0, 1}), z)
  PROVE  Quasied(r, z, port, {0, 1})
<1> DEFINE Z == {"UART1", "UART2", "UART3", "RXD1", "RXD2", "RXD3", "any"}
           a == Port("M0", port, {0, 1}, {})
           b == Port("M1", port, {0, 1}, {})
           c == Port("P", port, {}, {0, 1})
<1>1. \A e \in {0, 1}, name \in {"M0", "M1", "P"} : e \in RegBits /\ Zone(<<name, port>>, e) \in Z
  BY DEF RegBits, Zone, PinZone, PortRegs, Lines
<1>2. \A name \in {"M0", "M1", "P"} : <<name, port>> \in Names
  BY DEF Names, PortRegs
<1>3. a \in Seq(Within(Z)) /\ b \in Seq(Within(Z)) /\ c \in Seq(Within(Z))
  <2>1. a \in Seq(Within(Z)) BY <1>1, <1>2, PortWithin
  <2>2. b \in Seq(Within(Z)) BY <1>1, <1>2, PortWithin
  <2>3. c \in Seq(Within(Z)) BY <1>1, <1>2, PortWithin
  <2> QED BY <2>1, <2>2, <2>3
<1>4. configure_quasi(port, {0, 1}) = (a \o b) \o c BY DEF configure_quasi
<1> HIDE DEF a, b, c
<1>5. a \o b \in Seq(Within(Z)) BY <1>3
<1>6. PICK m : Does(r, a \o b, m) /\ Does(m, c, z) BY <1>3, <1>4, <1>5, DoesJoin
<1>7. PICK l : Does(r, a, l) /\ Does(l, b, m) BY <1>3, <1>6, DoesJoin
<1>8. l \in Files /\ m \in Files BY <1>3, <1>6, <1>7, DoesStays
<1>9. Stepped(r, l, <<"M0", port>>, {0, 1}, {})
  BY <1>2, <1>7, DoesPort DEF a, Extended
<1>10. Stepped(l, m, <<"M1", port>>, {0, 1}, {})
  BY <1>2, <1>7, <1>8, DoesPort DEF b, Extended
<1>11. Stepped(m, z, <<"P", port>>, {}, {0, 1})
  BY <1>2, <1>6, <1>8, DoesPort DEF c, Extended
<1> QED BY <1>2, <1>9, <1>10, <1>11 DEF Stepped, Quasied

LEMMA Uart1InitDoes ==
  ASSUME regs \in Files, line \in Lines, NEW z, z = After(uart1_init)
  PROVE  /\ z \in Files /\ Stays(regs, z, {"UART1", "ET1", "any", "RXD1"})
         /\ {"MODE", "REN"} \subseteq z[<<"SCON", 0>>]
         /\ "TR1" \in z[<<"TCON", 0>>]
         /\ "T1_1T" \in z[<<"AUXR", 0>>] /\ "S1ST2" \notin z[<<"AUXR", 0>>]
         /\ "T1" \notin z[<<"TMOD", 0>>]
         /\ "UART1" \notin z[<<"P_SW1", 0>>]
         /\ 0 \notin z[<<"M0", 3>>] /\ 1 \notin z[<<"M0", 3>>]
         /\ 0 \notin z[<<"M1", 3>>] /\ 1 \notin z[<<"M1", 3>>]
         /\ {0, 1} \subseteq z[<<"P", 3>>]
         /\ "ET1" \notin z[<<"IE", 0>>]
<1> DEFINE Z == {"UART1", "ET1", "any", "RXD1"}
           a1 == Clear("TCON", {"TR1"})
           a2 == Assign("SCON", {"MODE", "REN"})
           a3 == Clear("AUXR", {"S1ST2"})
           a4 == Set("AUXR", {"T1_1T"})
           a5 == Clear("TMOD", {"T1"})
           a6 == Clear("IE", {"ET1"})
           a7 == Clear("INTCLKO", {"T1CLKO"})
           a8 == Clear("P_SW1", {"UART1"})
           a9 == configure_quasi(3, {0, 1})
           a10 == Set("TCON", {"TR1"})
           a11 == Clear("SCON", {"TI", "RI"})
           q1 == a1
           q2 == q1 \o a2
           q3 == q2 \o a3
           q4 == q3 \o a4
           q5 == q4 \o a5
           q6 == q5 \o a6
           q7 == q6 \o a7
           q8 == q7 \o a8
           q9 == q8 \o a9
           q10 == q9 \o a10
           q11 == q10 \o a11
<1>0. uart1_init = q11 BY DEF uart1_init
<1>1. a1 \in Seq(Within(Z)) /\ a2 \in Seq(Within(Z)) /\ a3 \in Seq(Within(Z)) /\ a4 \in Seq(Within(Z))
      /\ a5 \in Seq(Within(Z)) /\ a6 \in Seq(Within(Z)) /\ a7 \in Seq(Within(Z)) /\ a8 \in Seq(Within(Z))
      /\ a9 \in Seq(Within(Z)) /\ a10 \in Seq(Within(Z)) /\ a11 \in Seq(Within(Z))
  <2>1. a1 \in Seq(Within(Z))
    <3>1. \A b \in {"TR1"} \cup {} : b \in RegBits /\ Zone(<<"TCON", 0>>, b) \in Z
      BY DEF Zone, PortRegs, RegBits, Everything, BitZone
    <3> QED BY <3>1, PortWithin, NamesAre DEF Clear, Set, Assign, Merge, OpenXfr
  <2>2. a2 \in Seq(Within(Z))
    <3>1. \A b \in Everything \cup {"MODE", "REN"} : b \in RegBits /\ Zone(<<"SCON", 0>>, b) \in Z
      BY DEF Zone, PortRegs, RegBits, Everything, BitZone
    <3> QED BY <3>1, PortWithin, NamesAre DEF Clear, Set, Assign, Merge, OpenXfr
  <2>3. a3 \in Seq(Within(Z))
    <3>1. \A b \in {"S1ST2"} \cup {} : b \in RegBits /\ Zone(<<"AUXR", 0>>, b) \in Z
      BY DEF Zone, PortRegs, RegBits, Everything, BitZone
    <3> QED BY <3>1, PortWithin, NamesAre DEF Clear, Set, Assign, Merge, OpenXfr
  <2>4. a4 \in Seq(Within(Z))
    <3>1. \A b \in {} \cup {"T1_1T"} : b \in RegBits /\ Zone(<<"AUXR", 0>>, b) \in Z
      BY DEF Zone, PortRegs, RegBits, Everything, BitZone
    <3> QED BY <3>1, PortWithin, NamesAre DEF Clear, Set, Assign, Merge, OpenXfr
  <2>5. a5 \in Seq(Within(Z))
    <3>1. \A b \in {"T1"} \cup {} : b \in RegBits /\ Zone(<<"TMOD", 0>>, b) \in Z
      BY DEF Zone, PortRegs, RegBits, Everything, BitZone
    <3> QED BY <3>1, PortWithin, NamesAre DEF Clear, Set, Assign, Merge, OpenXfr
  <2>6. a6 \in Seq(Within(Z))
    <3>1. \A b \in {"ET1"} \cup {} : b \in RegBits /\ Zone(<<"IE", 0>>, b) \in Z
      BY DEF Zone, PortRegs, RegBits, Everything, BitZone
    <3> QED BY <3>1, PortWithin, NamesAre DEF Clear, Set, Assign, Merge, OpenXfr
  <2>7. a7 \in Seq(Within(Z))
    <3>1. \A b \in {"T1CLKO"} \cup {} : b \in RegBits /\ Zone(<<"INTCLKO", 0>>, b) \in Z
      BY DEF Zone, PortRegs, RegBits, Everything, BitZone
    <3> QED BY <3>1, PortWithin, NamesAre DEF Clear, Set, Assign, Merge, OpenXfr
  <2>8. a8 \in Seq(Within(Z))
    <3>1. \A b \in {"UART1"} \cup {} : b \in RegBits /\ Zone(<<"P_SW1", 0>>, b) \in Z
      BY DEF Zone, PortRegs, RegBits, Everything, BitZone
    <3> QED BY <3>1, PortWithin, NamesAre DEF Clear, Set, Assign, Merge, OpenXfr
  <2>9. a9 \in Seq(Within(Z)) BY QuasiWithin
  <2>10. a10 \in Seq(Within(Z))
    <3>1. \A b \in {} \cup {"TR1"} : b \in RegBits /\ Zone(<<"TCON", 0>>, b) \in Z
      BY DEF Zone, PortRegs, RegBits, Everything, BitZone
    <3> QED BY <3>1, PortWithin, NamesAre DEF Clear, Set, Assign, Merge, OpenXfr
  <2>11. a11 \in Seq(Within(Z))
    <3>1. \A b \in {"TI", "RI"} \cup {} : b \in RegBits /\ Zone(<<"SCON", 0>>, b) \in Z
      BY DEF Zone, PortRegs, RegBits, Everything, BitZone
    <3> QED BY <3>1, PortWithin, NamesAre DEF Clear, Set, Assign, Merge, OpenXfr
  <2> QED BY <2>1, <2>2, <2>3, <2>4, <2>5, <2>6, <2>7, <2>8, <2>9, <2>10, <2>11
<1> HIDE DEF a1, a2, a3, a4, a5, a6, a7, a8, a9, a10, a11
<1>2. q1 \in Seq(Within(Z)) /\ q2 \in Seq(Within(Z)) /\ q3 \in Seq(Within(Z)) /\ q4 \in Seq(Within(Z))
      /\ q5 \in Seq(Within(Z)) /\ q6 \in Seq(Within(Z)) /\ q7 \in Seq(Within(Z)) /\ q8 \in Seq(Within(Z))
      /\ q9 \in Seq(Within(Z)) /\ q10 \in Seq(Within(Z)) /\ q11 \in Seq(Within(Z))
  BY <1>1
<1> HIDE DEF q2, q3, q4, q5, q6, q7, q8, q9, q10, q11
<1>d. Does(regs, q11, z) BY <1>0, <1>2, AfterDoes
<1>3. z \in Files /\ Stays(regs, z, Z) BY <1>d, <1>2, DoesStays
<1>p11. PICK m10 : Does(regs, q10, m10) /\ Does(m10, a11, z)
  BY <1>d, <1>1, <1>2, DoesJoin DEF q11
<1>p10. PICK m9 : Does(regs, q9, m9) /\ Does(m9, a10, m10)
  BY <1>p11, <1>1, <1>2, DoesJoin DEF q10
<1>p9. PICK m8 : Does(regs, q8, m8) /\ Does(m8, a9, m9)
  BY <1>p10, <1>1, <1>2, DoesJoin DEF q9
<1>p8. PICK m7 : Does(regs, q7, m7) /\ Does(m7, a8, m8)
  BY <1>p9, <1>1, <1>2, DoesJoin DEF q8
<1>p7. PICK m6 : Does(regs, q6, m6) /\ Does(m6, a7, m7)
  BY <1>p8, <1>1, <1>2, DoesJoin DEF q7
<1>p6. PICK m5 : Does(regs, q5, m5) /\ Does(m5, a6, m6)
  BY <1>p7, <1>1, <1>2, DoesJoin DEF q6
<1>p5. PICK m4 : Does(regs, q4, m4) /\ Does(m4, a5, m5)
  BY <1>p6, <1>1, <1>2, DoesJoin DEF q5
<1>p4. PICK m3 : Does(regs, q3, m3) /\ Does(m3, a4, m4)
  BY <1>p5, <1>1, <1>2, DoesJoin DEF q4
<1>p3. PICK m2 : Does(regs, q2, m2) /\ Does(m2, a3, m3)
  BY <1>p4, <1>1, <1>2, DoesJoin DEF q3
<1>p2. PICK m1 : Does(regs, q1, m1) /\ Does(m1, a2, m2)
  BY <1>p3, <1>1, <1>2, DoesJoin DEF q2
<1>4. m1 \in Files /\ m2 \in Files /\ m3 \in Files /\ m4 \in Files /\ m5 \in Files /\ m6 \in Files
      /\ m7 \in Files /\ m8 \in Files /\ m9 \in Files /\ m10 \in Files /\ z \in Files
  BY <1>2, <1>3, <1>p11, <1>p10, <1>p9, <1>p8, <1>p7, <1>p6, <1>p5, <1>p4, <1>p3, <1>p2, DoesStays
<1>s1. Stepped(regs, m1, <<"TCON", 0>>, {"TR1"}, {})
  BY <1>p2, <1>4, NamesAre, DoesPort DEF a1, Clear, Set, Assign, Merge, OpenXfr, Extended
<1>s2. Stepped(m1, m2, <<"SCON", 0>>, Everything, {"MODE", "REN"})
  BY <1>p2, <1>4, NamesAre, DoesPort DEF a2, Clear, Set, Assign, Merge, OpenXfr, Extended
<1>s3. Stepped(m2, m3, <<"AUXR", 0>>, {"S1ST2"}, {})
  BY <1>p3, <1>4, NamesAre, DoesPort DEF a3, Clear, Set, Assign, Merge, OpenXfr, Extended
<1>s4. Stepped(m3, m4, <<"AUXR", 0>>, {}, {"T1_1T"})
  BY <1>p4, <1>4, NamesAre, DoesPort DEF a4, Clear, Set, Assign, Merge, OpenXfr, Extended
<1>s5. Stepped(m4, m5, <<"TMOD", 0>>, {"T1"}, {})
  BY <1>p5, <1>4, NamesAre, DoesPort DEF a5, Clear, Set, Assign, Merge, OpenXfr, Extended
<1>s6. Stepped(m5, m6, <<"IE", 0>>, {"ET1"}, {})
  BY <1>p6, <1>4, NamesAre, DoesPort DEF a6, Clear, Set, Assign, Merge, OpenXfr, Extended
<1>s7. Stepped(m6, m7, <<"INTCLKO", 0>>, {"T1CLKO"}, {})
  BY <1>p7, <1>4, NamesAre, DoesPort DEF a7, Clear, Set, Assign, Merge, OpenXfr, Extended
<1>s8. Stepped(m7, m8, <<"P_SW1", 0>>, {"UART1"}, {})
  BY <1>p8, <1>4, NamesAre, DoesPort DEF a8, Clear, Set, Assign, Merge, OpenXfr, Extended
<1>s9. Quasied(m8, m9, 3, {0, 1}) BY <1>p9, <1>4, QuasiDoes DEF a9
<1>s10. Stepped(m9, m10, <<"TCON", 0>>, {}, {"TR1"})
  BY <1>p10, <1>4, NamesAre, DoesPort DEF a10, Clear, Set, Assign, Merge, OpenXfr, Extended
<1>s11. Stepped(m10, z, <<"SCON", 0>>, {"TI", "RI"}, {})
  BY <1>p11, <1>4, NamesAre, DoesPort DEF a11, Clear, Set, Assign, Merge, OpenXfr, Extended
<1>r1. {"MODE", "REN"} \subseteq z[<<"SCON", 0>>]
  <2>1. m2[<<"SCON", 0>>] = (m1[<<"SCON", 0>>] \ Everything) \cup {"MODE", "REN"}
    BY <1>s2, NamesAre DEF Stepped, Quasied
  <2>2. m10[<<"SCON", 0>>] = m2[<<"SCON", 0>>]
    BY <1>s3, <1>s4, <1>s5, <1>s6, <1>s7, <1>s8, <1>s9, <1>s10, NamesAre DEF Stepped, Quasied
  <2>3. z[<<"SCON", 0>>] = (m10[<<"SCON", 0>>] \ {"TI", "RI"})
    BY <1>s11, NamesAre DEF Stepped, Quasied
  <2> QED BY <2>1, <2>2, <2>3
<1>r2. "TR1" \in z[<<"TCON", 0>>]
  <2>1. m1[<<"TCON", 0>>] = (regs[<<"TCON", 0>>] \ {"TR1"})
    BY <1>s1, NamesAre DEF Stepped, Quasied
  <2>2. m9[<<"TCON", 0>>] = m1[<<"TCON", 0>>]
    BY <1>s2, <1>s3, <1>s4, <1>s5, <1>s6, <1>s7, <1>s8, <1>s9, NamesAre DEF Stepped, Quasied
  <2>3. m10[<<"TCON", 0>>] = m9[<<"TCON", 0>>] \cup {"TR1"}
    BY <1>s10, NamesAre DEF Stepped, Quasied
  <2>4. z[<<"TCON", 0>>] = m10[<<"TCON", 0>>]
    BY <1>s11, NamesAre DEF Stepped, Quasied
  <2> QED BY <2>1, <2>2, <2>3, <2>4
<1>r3. "T1_1T" \in z[<<"AUXR", 0>>] /\ "S1ST2" \notin z[<<"AUXR", 0>>]
  <2>1. m3[<<"AUXR", 0>>] = (m2[<<"AUXR", 0>>] \ {"S1ST2"})
    BY <1>s3, NamesAre DEF Stepped, Quasied
  <2>2. m4[<<"AUXR", 0>>] = m3[<<"AUXR", 0>>] \cup {"T1_1T"}
    BY <1>s4, NamesAre DEF Stepped, Quasied
  <2>3. z[<<"AUXR", 0>>] = m4[<<"AUXR", 0>>]
    BY <1>s5, <1>s6, <1>s7, <1>s8, <1>s9, <1>s10, <1>s11, NamesAre DEF Stepped, Quasied
  <2> QED BY <2>1, <2>2, <2>3
<1>r4. "T1" \notin z[<<"TMOD", 0>>]
  <2>1. m5[<<"TMOD", 0>>] = (m4[<<"TMOD", 0>>] \ {"T1"})
    BY <1>s5, NamesAre DEF Stepped, Quasied
  <2>2. z[<<"TMOD", 0>>] = m5[<<"TMOD", 0>>]
    BY <1>s6, <1>s7, <1>s8, <1>s9, <1>s10, <1>s11, NamesAre DEF Stepped, Quasied
  <2> QED BY <2>1, <2>2
<1>r5. "UART1" \notin z[<<"P_SW1", 0>>]
  <2>1. m8[<<"P_SW1", 0>>] = (m7[<<"P_SW1", 0>>] \ {"UART1"})
    BY <1>s8, NamesAre DEF Stepped, Quasied
  <2>2. z[<<"P_SW1", 0>>] = m8[<<"P_SW1", 0>>]
    BY <1>s9, <1>s10, <1>s11, NamesAre DEF Stepped, Quasied
  <2> QED BY <2>1, <2>2
<1>r6. 0 \notin z[<<"M0", 3>>] /\ 1 \notin z[<<"M0", 3>>]
  <2>1. m9[<<"M0", 3>>] = m8[<<"M0", 3>>] \ {0, 1}
    BY <1>s9, NamesAre DEF Stepped, Quasied
  <2>2. z[<<"M0", 3>>] = m9[<<"M0", 3>>]
    BY <1>s10, <1>s11, NamesAre DEF Stepped, Quasied
  <2> QED BY <2>1, <2>2
<1>r7. 0 \notin z[<<"M1", 3>>] /\ 1 \notin z[<<"M1", 3>>]
  <2>1. m9[<<"M1", 3>>] = m8[<<"M1", 3>>] \ {0, 1}
    BY <1>s9, NamesAre DEF Stepped, Quasied
  <2>2. z[<<"M1", 3>>] = m9[<<"M1", 3>>]
    BY <1>s10, <1>s11, NamesAre DEF Stepped, Quasied
  <2> QED BY <2>1, <2>2
<1>r8. {0, 1} \subseteq z[<<"P", 3>>]
  <2>1. m9[<<"P", 3>>] = m8[<<"P", 3>>] \cup {0, 1}
    BY <1>s9, NamesAre DEF Stepped, Quasied
  <2>2. z[<<"P", 3>>] = m9[<<"P", 3>>]
    BY <1>s10, <1>s11, NamesAre DEF Stepped, Quasied
  <2> QED BY <2>1, <2>2
<1>r9. "ET1" \notin z[<<"IE", 0>>]
  <2>1. m6[<<"IE", 0>>] = (m5[<<"IE", 0>>] \ {"ET1"})
    BY <1>s6, NamesAre DEF Stepped, Quasied
  <2>2. z[<<"IE", 0>>] = m6[<<"IE", 0>>]
    BY <1>s7, <1>s8, <1>s9, <1>s10, <1>s11, NamesAre DEF Stepped, Quasied
  <2> QED BY <2>1, <2>2
<1> QED BY <1>3, <1>r1, <1>r2, <1>r3, <1>r4, <1>r5, <1>r6, <1>r7, <1>r8, <1>r9

LEMMA Uart2InitDoes ==
  ASSUME regs \in Files, line \in Lines, NEW z, z = After(uart2_init)
  PROVE  /\ z \in Files /\ Stays(regs, z, {"UART2", "any", "RXD2"})
         /\ "REN" \in z[<<"S2CON", 0>>]
         /\ {"T2R", "T2X12"} \subseteq z[<<"AUXR", 0>>] /\ "T2_CT" \notin z[<<"AUXR", 0>>]
         /\ "UART2" \notin z[<<"P_SW2", 0>>]
         /\ 0 \notin z[<<"M0", 1>>] /\ 1 \notin z[<<"M0", 1>>]
         /\ 0 \notin z[<<"M1", 1>>] /\ 1 \notin z[<<"M1", 1>>]
         /\ {0, 1} \subseteq z[<<"P", 1>>]
<1> DEFINE Z == {"UART2", "any", "RXD2"}
           a1 == Clear("P_SW2", {"UART2"})
           a2 == configure_quasi(1, {0, 1})
           a3 == Assign("S2CON", {"REN"})
           a4 == Clear("AUXR", {"T2R", "T2_CT", "T2X12"})
           a5 == Merge("AUXR", {"T2_CT"}, {"T2X12", "T2R"})
           a6 == Clear("S2CON", {"TI", "RI"})
           q1 == a1
           q2 == q1 \o a2
           q3 == q2 \o a3
           q4 == q3 \o a4
           q5 == q4 \o a5
           q6 == q5 \o a6
<1>0. uart2_init = q6 BY DEF uart2_init
<1>1. a1 \in Seq(Within(Z)) /\ a2 \in Seq(Within(Z)) /\ a3 \in Seq(Within(Z)) /\ a4 \in Seq(Within(Z))
      /\ a5 \in Seq(Within(Z)) /\ a6 \in Seq(Within(Z))
  <2>1. a1 \in Seq(Within(Z))
    <3>1. \A b \in {"UART2"} \cup {} : b \in RegBits /\ Zone(<<"P_SW2", 0>>, b) \in Z
      BY DEF Zone, PortRegs, RegBits, Everything, BitZone
    <3> QED BY <3>1, PortWithin, NamesAre DEF Clear, Set, Assign, Merge, OpenXfr
  <2>2. a2 \in Seq(Within(Z)) BY QuasiWithin
  <2>3. a3 \in Seq(Within(Z))
    <3>1. \A b \in Everything \cup {"REN"} : b \in RegBits /\ Zone(<<"S2CON", 0>>, b) \in Z
      BY DEF Zone, PortRegs, RegBits, Everything, BitZone
    <3> QED BY <3>1, PortWithin, NamesAre DEF Clear, Set, Assign, Merge, OpenXfr
  <2>4. a4 \in Seq(Within(Z))
    <3>1. \A b \in {"T2R", "T2_CT", "T2X12"} \cup {} : b \in RegBits /\ Zone(<<"AUXR", 0>>, b) \in Z
      BY DEF Zone, PortRegs, RegBits, Everything, BitZone
    <3> QED BY <3>1, PortWithin, NamesAre DEF Clear, Set, Assign, Merge, OpenXfr
  <2>5. a5 \in Seq(Within(Z))
    <3>1. \A b \in {"T2_CT"} \cup {"T2X12", "T2R"} : b \in RegBits /\ Zone(<<"AUXR", 0>>, b) \in Z
      BY DEF Zone, PortRegs, RegBits, Everything, BitZone
    <3> QED BY <3>1, PortWithin, NamesAre DEF Clear, Set, Assign, Merge, OpenXfr
  <2>6. a6 \in Seq(Within(Z))
    <3>1. \A b \in {"TI", "RI"} \cup {} : b \in RegBits /\ Zone(<<"S2CON", 0>>, b) \in Z
      BY DEF Zone, PortRegs, RegBits, Everything, BitZone
    <3> QED BY <3>1, PortWithin, NamesAre DEF Clear, Set, Assign, Merge, OpenXfr
  <2> QED BY <2>1, <2>2, <2>3, <2>4, <2>5, <2>6
<1> HIDE DEF a1, a2, a3, a4, a5, a6
<1>2. q1 \in Seq(Within(Z)) /\ q2 \in Seq(Within(Z)) /\ q3 \in Seq(Within(Z)) /\ q4 \in Seq(Within(Z))
      /\ q5 \in Seq(Within(Z)) /\ q6 \in Seq(Within(Z))
  BY <1>1
<1> HIDE DEF q2, q3, q4, q5, q6
<1>d. Does(regs, q6, z) BY <1>0, <1>2, AfterDoes
<1>3. z \in Files /\ Stays(regs, z, Z) BY <1>d, <1>2, DoesStays
<1>p6. PICK m5 : Does(regs, q5, m5) /\ Does(m5, a6, z)
  BY <1>d, <1>1, <1>2, DoesJoin DEF q6
<1>p5. PICK m4 : Does(regs, q4, m4) /\ Does(m4, a5, m5)
  BY <1>p6, <1>1, <1>2, DoesJoin DEF q5
<1>p4. PICK m3 : Does(regs, q3, m3) /\ Does(m3, a4, m4)
  BY <1>p5, <1>1, <1>2, DoesJoin DEF q4
<1>p3. PICK m2 : Does(regs, q2, m2) /\ Does(m2, a3, m3)
  BY <1>p4, <1>1, <1>2, DoesJoin DEF q3
<1>p2. PICK m1 : Does(regs, q1, m1) /\ Does(m1, a2, m2)
  BY <1>p3, <1>1, <1>2, DoesJoin DEF q2
<1>4. m1 \in Files /\ m2 \in Files /\ m3 \in Files /\ m4 \in Files /\ m5 \in Files /\ z \in Files
  BY <1>2, <1>3, <1>p6, <1>p5, <1>p4, <1>p3, <1>p2, DoesStays
<1>s1. Stepped(regs, m1, <<"P_SW2", 0>>, {"UART2"}, {})
  BY <1>p2, <1>4, NamesAre, DoesPort DEF a1, Clear, Set, Assign, Merge, OpenXfr, Extended
<1>s2. Quasied(m1, m2, 1, {0, 1}) BY <1>p2, <1>4, QuasiDoes DEF a2
<1>s3. Stepped(m2, m3, <<"S2CON", 0>>, Everything, {"REN"})
  BY <1>p3, <1>4, NamesAre, DoesPort DEF a3, Clear, Set, Assign, Merge, OpenXfr, Extended
<1>s4. Stepped(m3, m4, <<"AUXR", 0>>, {"T2R", "T2_CT", "T2X12"}, {})
  BY <1>p4, <1>4, NamesAre, DoesPort DEF a4, Clear, Set, Assign, Merge, OpenXfr, Extended
<1>s5. Stepped(m4, m5, <<"AUXR", 0>>, {"T2_CT"}, {"T2X12", "T2R"})
  BY <1>p5, <1>4, NamesAre, DoesPort DEF a5, Clear, Set, Assign, Merge, OpenXfr, Extended
<1>s6. Stepped(m5, z, <<"S2CON", 0>>, {"TI", "RI"}, {})
  BY <1>p6, <1>4, NamesAre, DoesPort DEF a6, Clear, Set, Assign, Merge, OpenXfr, Extended
<1>r1. "REN" \in z[<<"S2CON", 0>>]
  <2>1. m3[<<"S2CON", 0>>] = (m2[<<"S2CON", 0>>] \ Everything) \cup {"REN"}
    BY <1>s3, NamesAre DEF Stepped, Quasied
  <2>2. m5[<<"S2CON", 0>>] = m3[<<"S2CON", 0>>]
    BY <1>s4, <1>s5, NamesAre DEF Stepped, Quasied
  <2>3. z[<<"S2CON", 0>>] = (m5[<<"S2CON", 0>>] \ {"TI", "RI"})
    BY <1>s6, NamesAre DEF Stepped, Quasied
  <2> QED BY <2>1, <2>2, <2>3
<1>r2. {"T2R", "T2X12"} \subseteq z[<<"AUXR", 0>>] /\ "T2_CT" \notin z[<<"AUXR", 0>>]
  <2>1. m4[<<"AUXR", 0>>] = (m3[<<"AUXR", 0>>] \ {"T2R", "T2_CT", "T2X12"})
    BY <1>s4, NamesAre DEF Stepped, Quasied
  <2>2. m5[<<"AUXR", 0>>] = (m4[<<"AUXR", 0>>] \ {"T2_CT"}) \cup {"T2X12", "T2R"}
    BY <1>s5, NamesAre DEF Stepped, Quasied
  <2>3. z[<<"AUXR", 0>>] = m5[<<"AUXR", 0>>]
    BY <1>s6, NamesAre DEF Stepped, Quasied
  <2> QED BY <2>1, <2>2, <2>3
<1>r3. "UART2" \notin z[<<"P_SW2", 0>>]
  <2>1. m1[<<"P_SW2", 0>>] = (regs[<<"P_SW2", 0>>] \ {"UART2"})
    BY <1>s1, NamesAre DEF Stepped, Quasied
  <2>2. z[<<"P_SW2", 0>>] = m1[<<"P_SW2", 0>>]
    BY <1>s2, <1>s3, <1>s4, <1>s5, <1>s6, NamesAre DEF Stepped, Quasied
  <2> QED BY <2>1, <2>2
<1>r4. 0 \notin z[<<"M0", 1>>] /\ 1 \notin z[<<"M0", 1>>]
  <2>1. m2[<<"M0", 1>>] = m1[<<"M0", 1>>] \ {0, 1}
    BY <1>s2, NamesAre DEF Stepped, Quasied
  <2>2. z[<<"M0", 1>>] = m2[<<"M0", 1>>]
    BY <1>s3, <1>s4, <1>s5, <1>s6, NamesAre DEF Stepped, Quasied
  <2> QED BY <2>1, <2>2
<1>r5. 0 \notin z[<<"M1", 1>>] /\ 1 \notin z[<<"M1", 1>>]
  <2>1. m2[<<"M1", 1>>] = m1[<<"M1", 1>>] \ {0, 1}
    BY <1>s2, NamesAre DEF Stepped, Quasied
  <2>2. z[<<"M1", 1>>] = m2[<<"M1", 1>>]
    BY <1>s3, <1>s4, <1>s5, <1>s6, NamesAre DEF Stepped, Quasied
  <2> QED BY <2>1, <2>2
<1>r6. {0, 1} \subseteq z[<<"P", 1>>]
  <2>1. m2[<<"P", 1>>] = m1[<<"P", 1>>] \cup {0, 1}
    BY <1>s2, NamesAre DEF Stepped, Quasied
  <2>2. z[<<"P", 1>>] = m2[<<"P", 1>>]
    BY <1>s3, <1>s4, <1>s5, <1>s6, NamesAre DEF Stepped, Quasied
  <2> QED BY <2>1, <2>2
<1> QED BY <1>3, <1>r1, <1>r2, <1>r3, <1>r4, <1>r5, <1>r6

LEMMA Uart3InitDoes ==
  ASSUME regs \in Files, line \in Lines, NEW z, z = After(uart3_init)
  PROVE  /\ z \in Files /\ Stays(regs, z, {"UART3", "any", "RXD3"})
         /\ {"ST3", "REN"} \subseteq z[<<"S3CON", 0>>]
         /\ {"T3R", "T3X12"} \subseteq z[<<"T4T3M", 0>>]
         /\ "UART3" \notin z[<<"P_SW2", 0>>]
         /\ 0 \notin z[<<"M0", 0>>] /\ 1 \notin z[<<"M0", 0>>]
         /\ 0 \notin z[<<"M1", 0>>] /\ 1 \notin z[<<"M1", 0>>]
         /\ {0, 1} \subseteq z[<<"P", 0>>]
<1> DEFINE Z == {"UART3", "any", "RXD3"}
           a1 == Clear("P_SW2", {"UART3"})
           a2 == configure_quasi(0, {0, 1})
           a3 == Assign("S3CON", {"ST3", "REN"})
           a4 == Clear("T4T3M", {"T3R", "T3_CT", "T3X12", "T3CLKO"})
           a5 == Set("T4T3M", {"T3X12", "T3R"})
           a6 == Clear("S3CON", {"TI", "RI"})
           q1 == a1
           q2 == q1 \o a2
           q3 == q2 \o a3
           q4 == q3 \o a4
           q5 == q4 \o a5
           q6 == q5 \o a6
<1>0. uart3_init = q6 BY DEF uart3_init
<1>1. a1 \in Seq(Within(Z)) /\ a2 \in Seq(Within(Z)) /\ a3 \in Seq(Within(Z)) /\ a4 \in Seq(Within(Z))
      /\ a5 \in Seq(Within(Z)) /\ a6 \in Seq(Within(Z))
  <2>1. a1 \in Seq(Within(Z))
    <3>1. \A b \in {"UART3"} \cup {} : b \in RegBits /\ Zone(<<"P_SW2", 0>>, b) \in Z
      BY DEF Zone, PortRegs, RegBits, Everything, BitZone
    <3> QED BY <3>1, PortWithin, NamesAre DEF Clear, Set, Assign, Merge, OpenXfr
  <2>2. a2 \in Seq(Within(Z)) BY QuasiWithin
  <2>3. a3 \in Seq(Within(Z))
    <3>1. \A b \in Everything \cup {"ST3", "REN"} : b \in RegBits /\ Zone(<<"S3CON", 0>>, b) \in Z
      BY DEF Zone, PortRegs, RegBits, Everything, BitZone
    <3> QED BY <3>1, PortWithin, NamesAre DEF Clear, Set, Assign, Merge, OpenXfr
  <2>4. a4 \in Seq(Within(Z))
    <3>1. \A b \in {"T3R", "T3_CT", "T3X12", "T3CLKO"} \cup {} : b \in RegBits /\ Zone(<<"T4T3M", 0>>, b) \in Z
      BY DEF Zone, PortRegs, RegBits, Everything, BitZone
    <3> QED BY <3>1, PortWithin, NamesAre DEF Clear, Set, Assign, Merge, OpenXfr
  <2>5. a5 \in Seq(Within(Z))
    <3>1. \A b \in {} \cup {"T3X12", "T3R"} : b \in RegBits /\ Zone(<<"T4T3M", 0>>, b) \in Z
      BY DEF Zone, PortRegs, RegBits, Everything, BitZone
    <3> QED BY <3>1, PortWithin, NamesAre DEF Clear, Set, Assign, Merge, OpenXfr
  <2>6. a6 \in Seq(Within(Z))
    <3>1. \A b \in {"TI", "RI"} \cup {} : b \in RegBits /\ Zone(<<"S3CON", 0>>, b) \in Z
      BY DEF Zone, PortRegs, RegBits, Everything, BitZone
    <3> QED BY <3>1, PortWithin, NamesAre DEF Clear, Set, Assign, Merge, OpenXfr
  <2> QED BY <2>1, <2>2, <2>3, <2>4, <2>5, <2>6
<1> HIDE DEF a1, a2, a3, a4, a5, a6
<1>2. q1 \in Seq(Within(Z)) /\ q2 \in Seq(Within(Z)) /\ q3 \in Seq(Within(Z)) /\ q4 \in Seq(Within(Z))
      /\ q5 \in Seq(Within(Z)) /\ q6 \in Seq(Within(Z))
  BY <1>1
<1> HIDE DEF q2, q3, q4, q5, q6
<1>d. Does(regs, q6, z) BY <1>0, <1>2, AfterDoes
<1>3. z \in Files /\ Stays(regs, z, Z) BY <1>d, <1>2, DoesStays
<1>p6. PICK m5 : Does(regs, q5, m5) /\ Does(m5, a6, z)
  BY <1>d, <1>1, <1>2, DoesJoin DEF q6
<1>p5. PICK m4 : Does(regs, q4, m4) /\ Does(m4, a5, m5)
  BY <1>p6, <1>1, <1>2, DoesJoin DEF q5
<1>p4. PICK m3 : Does(regs, q3, m3) /\ Does(m3, a4, m4)
  BY <1>p5, <1>1, <1>2, DoesJoin DEF q4
<1>p3. PICK m2 : Does(regs, q2, m2) /\ Does(m2, a3, m3)
  BY <1>p4, <1>1, <1>2, DoesJoin DEF q3
<1>p2. PICK m1 : Does(regs, q1, m1) /\ Does(m1, a2, m2)
  BY <1>p3, <1>1, <1>2, DoesJoin DEF q2
<1>4. m1 \in Files /\ m2 \in Files /\ m3 \in Files /\ m4 \in Files /\ m5 \in Files /\ z \in Files
  BY <1>2, <1>3, <1>p6, <1>p5, <1>p4, <1>p3, <1>p2, DoesStays
<1>s1. Stepped(regs, m1, <<"P_SW2", 0>>, {"UART3"}, {})
  BY <1>p2, <1>4, NamesAre, DoesPort DEF a1, Clear, Set, Assign, Merge, OpenXfr, Extended
<1>s2. Quasied(m1, m2, 0, {0, 1}) BY <1>p2, <1>4, QuasiDoes DEF a2
<1>s3. Stepped(m2, m3, <<"S3CON", 0>>, Everything, {"ST3", "REN"})
  BY <1>p3, <1>4, NamesAre, DoesPort DEF a3, Clear, Set, Assign, Merge, OpenXfr, Extended
<1>s4. Stepped(m3, m4, <<"T4T3M", 0>>, {"T3R", "T3_CT", "T3X12", "T3CLKO"}, {})
  BY <1>p4, <1>4, NamesAre, DoesPort DEF a4, Clear, Set, Assign, Merge, OpenXfr, Extended
<1>s5. Stepped(m4, m5, <<"T4T3M", 0>>, {}, {"T3X12", "T3R"})
  BY <1>p5, <1>4, NamesAre, DoesPort DEF a5, Clear, Set, Assign, Merge, OpenXfr, Extended
<1>s6. Stepped(m5, z, <<"S3CON", 0>>, {"TI", "RI"}, {})
  BY <1>p6, <1>4, NamesAre, DoesPort DEF a6, Clear, Set, Assign, Merge, OpenXfr, Extended
<1>r1. {"ST3", "REN"} \subseteq z[<<"S3CON", 0>>]
  <2>1. m3[<<"S3CON", 0>>] = (m2[<<"S3CON", 0>>] \ Everything) \cup {"ST3", "REN"}
    BY <1>s3, NamesAre DEF Stepped, Quasied
  <2>2. m5[<<"S3CON", 0>>] = m3[<<"S3CON", 0>>]
    BY <1>s4, <1>s5, NamesAre DEF Stepped, Quasied
  <2>3. z[<<"S3CON", 0>>] = (m5[<<"S3CON", 0>>] \ {"TI", "RI"})
    BY <1>s6, NamesAre DEF Stepped, Quasied
  <2> QED BY <2>1, <2>2, <2>3
<1>r2. {"T3R", "T3X12"} \subseteq z[<<"T4T3M", 0>>]
  <2>1. m4[<<"T4T3M", 0>>] = (m3[<<"T4T3M", 0>>] \ {"T3R", "T3_CT", "T3X12", "T3CLKO"})
    BY <1>s4, NamesAre DEF Stepped, Quasied
  <2>2. m5[<<"T4T3M", 0>>] = m4[<<"T4T3M", 0>>] \cup {"T3X12", "T3R"}
    BY <1>s5, NamesAre DEF Stepped, Quasied
  <2>3. z[<<"T4T3M", 0>>] = m5[<<"T4T3M", 0>>]
    BY <1>s6, NamesAre DEF Stepped, Quasied
  <2> QED BY <2>1, <2>2, <2>3
<1>r3. "UART3" \notin z[<<"P_SW2", 0>>]
  <2>1. m1[<<"P_SW2", 0>>] = (regs[<<"P_SW2", 0>>] \ {"UART3"})
    BY <1>s1, NamesAre DEF Stepped, Quasied
  <2>2. z[<<"P_SW2", 0>>] = m1[<<"P_SW2", 0>>]
    BY <1>s2, <1>s3, <1>s4, <1>s5, <1>s6, NamesAre DEF Stepped, Quasied
  <2> QED BY <2>1, <2>2
<1>r4. 0 \notin z[<<"M0", 0>>] /\ 1 \notin z[<<"M0", 0>>]
  <2>1. m2[<<"M0", 0>>] = m1[<<"M0", 0>>] \ {0, 1}
    BY <1>s2, NamesAre DEF Stepped, Quasied
  <2>2. z[<<"M0", 0>>] = m2[<<"M0", 0>>]
    BY <1>s3, <1>s4, <1>s5, <1>s6, NamesAre DEF Stepped, Quasied
  <2> QED BY <2>1, <2>2
<1>r5. 0 \notin z[<<"M1", 0>>] /\ 1 \notin z[<<"M1", 0>>]
  <2>1. m2[<<"M1", 0>>] = m1[<<"M1", 0>>] \ {0, 1}
    BY <1>s2, NamesAre DEF Stepped, Quasied
  <2>2. z[<<"M1", 0>>] = m2[<<"M1", 0>>]
    BY <1>s3, <1>s4, <1>s5, <1>s6, NamesAre DEF Stepped, Quasied
  <2> QED BY <2>1, <2>2
<1>r6. {0, 1} \subseteq z[<<"P", 0>>]
  <2>1. m2[<<"P", 0>>] = m1[<<"P", 0>>] \cup {0, 1}
    BY <1>s2, NamesAre DEF Stepped, Quasied
  <2>2. z[<<"P", 0>>] = m2[<<"P", 0>>]
    BY <1>s3, <1>s4, <1>s5, <1>s6, NamesAre DEF Stepped, Quasied
  <2> QED BY <2>1, <2>2
<1> QED BY <1>3, <1>r1, <1>r2, <1>r3, <1>r4, <1>r5, <1>r6

LEMMA Init1msDoes ==
  ASSUME regs \in Files, line \in Lines, NEW z, z = After(init_1ms)
  PROVE  /\ z \in Files /\ Stays(regs, z, {"TIMER0", "ET0", "TR0"})
         /\ "T0" \notin z[<<"TMOD", 0>>]
         /\ "T0_1T" \notin z[<<"AUXR", 0>>]
         /\ "TR0" \notin z[<<"TCON", 0>>]
         /\ "ET0" \notin z[<<"IE", 0>>]
<1> DEFINE Z == {"TIMER0", "ET0", "TR0"}
           a1 == Clear("TCON", {"TR0"})
           a2 == Clear("IE", {"ET0"})
           a3 == Clear("TMOD", {"T0"})
           a4 == Clear("AUXR", {"T0_1T"})
           a5 == Clear("INTCLKO", {"T0CLKO"})
           q1 == a1
           q2 == q1 \o a2
           q3 == q2 \o a3
           q4 == q3 \o a4
           q5 == q4 \o a5
<1>0. init_1ms = q5 BY DEF init_1ms, timer0_stopped
<1>1. a1 \in Seq(Within(Z)) /\ a2 \in Seq(Within(Z)) /\ a3 \in Seq(Within(Z)) /\ a4 \in Seq(Within(Z))
      /\ a5 \in Seq(Within(Z))
  <2>1. a1 \in Seq(Within(Z))
    <3>1. \A b \in {"TR0"} \cup {} : b \in RegBits /\ Zone(<<"TCON", 0>>, b) \in Z
      BY DEF Zone, PortRegs, RegBits, Everything, BitZone
    <3> QED BY <3>1, PortWithin, NamesAre DEF Clear, Set, Assign, Merge, OpenXfr
  <2>2. a2 \in Seq(Within(Z))
    <3>1. \A b \in {"ET0"} \cup {} : b \in RegBits /\ Zone(<<"IE", 0>>, b) \in Z
      BY DEF Zone, PortRegs, RegBits, Everything, BitZone
    <3> QED BY <3>1, PortWithin, NamesAre DEF Clear, Set, Assign, Merge, OpenXfr
  <2>3. a3 \in Seq(Within(Z))
    <3>1. \A b \in {"T0"} \cup {} : b \in RegBits /\ Zone(<<"TMOD", 0>>, b) \in Z
      BY DEF Zone, PortRegs, RegBits, Everything, BitZone
    <3> QED BY <3>1, PortWithin, NamesAre DEF Clear, Set, Assign, Merge, OpenXfr
  <2>4. a4 \in Seq(Within(Z))
    <3>1. \A b \in {"T0_1T"} \cup {} : b \in RegBits /\ Zone(<<"AUXR", 0>>, b) \in Z
      BY DEF Zone, PortRegs, RegBits, Everything, BitZone
    <3> QED BY <3>1, PortWithin, NamesAre DEF Clear, Set, Assign, Merge, OpenXfr
  <2>5. a5 \in Seq(Within(Z))
    <3>1. \A b \in {"T0CLKO"} \cup {} : b \in RegBits /\ Zone(<<"INTCLKO", 0>>, b) \in Z
      BY DEF Zone, PortRegs, RegBits, Everything, BitZone
    <3> QED BY <3>1, PortWithin, NamesAre DEF Clear, Set, Assign, Merge, OpenXfr
  <2> QED BY <2>1, <2>2, <2>3, <2>4, <2>5
<1> HIDE DEF a1, a2, a3, a4, a5
<1>2. q1 \in Seq(Within(Z)) /\ q2 \in Seq(Within(Z)) /\ q3 \in Seq(Within(Z)) /\ q4 \in Seq(Within(Z))
      /\ q5 \in Seq(Within(Z))
  BY <1>1
<1> HIDE DEF q2, q3, q4, q5
<1>d. Does(regs, q5, z) BY <1>0, <1>2, AfterDoes
<1>3. z \in Files /\ Stays(regs, z, Z) BY <1>d, <1>2, DoesStays
<1>p5. PICK m4 : Does(regs, q4, m4) /\ Does(m4, a5, z)
  BY <1>d, <1>1, <1>2, DoesJoin DEF q5
<1>p4. PICK m3 : Does(regs, q3, m3) /\ Does(m3, a4, m4)
  BY <1>p5, <1>1, <1>2, DoesJoin DEF q4
<1>p3. PICK m2 : Does(regs, q2, m2) /\ Does(m2, a3, m3)
  BY <1>p4, <1>1, <1>2, DoesJoin DEF q3
<1>p2. PICK m1 : Does(regs, q1, m1) /\ Does(m1, a2, m2)
  BY <1>p3, <1>1, <1>2, DoesJoin DEF q2
<1>4. m1 \in Files /\ m2 \in Files /\ m3 \in Files /\ m4 \in Files /\ z \in Files
  BY <1>2, <1>3, <1>p5, <1>p4, <1>p3, <1>p2, DoesStays
<1>s1. Stepped(regs, m1, <<"TCON", 0>>, {"TR0"}, {})
  BY <1>p2, <1>4, NamesAre, DoesPort DEF a1, Clear, Set, Assign, Merge, OpenXfr, Extended
<1>s2. Stepped(m1, m2, <<"IE", 0>>, {"ET0"}, {})
  BY <1>p2, <1>4, NamesAre, DoesPort DEF a2, Clear, Set, Assign, Merge, OpenXfr, Extended
<1>s3. Stepped(m2, m3, <<"TMOD", 0>>, {"T0"}, {})
  BY <1>p3, <1>4, NamesAre, DoesPort DEF a3, Clear, Set, Assign, Merge, OpenXfr, Extended
<1>s4. Stepped(m3, m4, <<"AUXR", 0>>, {"T0_1T"}, {})
  BY <1>p4, <1>4, NamesAre, DoesPort DEF a4, Clear, Set, Assign, Merge, OpenXfr, Extended
<1>s5. Stepped(m4, z, <<"INTCLKO", 0>>, {"T0CLKO"}, {})
  BY <1>p5, <1>4, NamesAre, DoesPort DEF a5, Clear, Set, Assign, Merge, OpenXfr, Extended
<1>r1. "T0" \notin z[<<"TMOD", 0>>]
  <2>1. m3[<<"TMOD", 0>>] = (m2[<<"TMOD", 0>>] \ {"T0"})
    BY <1>s3, NamesAre DEF Stepped, Quasied
  <2>2. z[<<"TMOD", 0>>] = m3[<<"TMOD", 0>>]
    BY <1>s4, <1>s5, NamesAre DEF Stepped, Quasied
  <2> QED BY <2>1, <2>2
<1>r2. "T0_1T" \notin z[<<"AUXR", 0>>]
  <2>1. m4[<<"AUXR", 0>>] = (m3[<<"AUXR", 0>>] \ {"T0_1T"})
    BY <1>s4, NamesAre DEF Stepped, Quasied
  <2>2. z[<<"AUXR", 0>>] = m4[<<"AUXR", 0>>]
    BY <1>s5, NamesAre DEF Stepped, Quasied
  <2> QED BY <2>1, <2>2
<1>r3. "TR0" \notin z[<<"TCON", 0>>]
  <2>1. m1[<<"TCON", 0>>] = (regs[<<"TCON", 0>>] \ {"TR0"})
    BY <1>s1, NamesAre DEF Stepped, Quasied
  <2>2. z[<<"TCON", 0>>] = m1[<<"TCON", 0>>]
    BY <1>s2, <1>s3, <1>s4, <1>s5, NamesAre DEF Stepped, Quasied
  <2> QED BY <2>1, <2>2
<1>r4. "ET0" \notin z[<<"IE", 0>>]
  <2>1. m2[<<"IE", 0>>] = (m1[<<"IE", 0>>] \ {"ET0"})
    BY <1>s2, NamesAre DEF Stepped, Quasied
  <2>2. z[<<"IE", 0>>] = m2[<<"IE", 0>>]
    BY <1>s3, <1>s4, <1>s5, NamesAre DEF Stepped, Quasied
  <2> QED BY <2>1, <2>2
<1> QED BY <1>3, <1>r1, <1>r2, <1>r3, <1>r4

LEMMA InitFreeRun12tDoes ==
  ASSUME regs \in Files, line \in Lines, NEW z, z = After(init_free_run_12t)
  PROVE  /\ z \in Files /\ Stays(regs, z, {"TIMER0", "ET0", "TR0"})
         /\ "T0" \in z[<<"TMOD", 0>>]
         /\ "T0_1T" \notin z[<<"AUXR", 0>>]
         /\ "TR0" \notin z[<<"TCON", 0>>]
         /\ "ET0" \notin z[<<"IE", 0>>]
<1> DEFINE Z == {"TIMER0", "ET0", "TR0"}
           a1 == Clear("TCON", {"TR0"})
           a2 == Clear("IE", {"ET0"})
           a3 == Merge("TMOD", {"T0"}, {"T0"})
           a4 == Clear("AUXR", {"T0_1T"})
           a5 == Clear("INTCLKO", {"T0CLKO"})
           q1 == a1
           q2 == q1 \o a2
           q3 == q2 \o a3
           q4 == q3 \o a4
           q5 == q4 \o a5
<1>0. init_free_run_12t = q5 BY DEF init_free_run_12t, timer0_stopped
<1>1. a1 \in Seq(Within(Z)) /\ a2 \in Seq(Within(Z)) /\ a3 \in Seq(Within(Z)) /\ a4 \in Seq(Within(Z))
      /\ a5 \in Seq(Within(Z))
  <2>1. a1 \in Seq(Within(Z))
    <3>1. \A b \in {"TR0"} \cup {} : b \in RegBits /\ Zone(<<"TCON", 0>>, b) \in Z
      BY DEF Zone, PortRegs, RegBits, Everything, BitZone
    <3> QED BY <3>1, PortWithin, NamesAre DEF Clear, Set, Assign, Merge, OpenXfr
  <2>2. a2 \in Seq(Within(Z))
    <3>1. \A b \in {"ET0"} \cup {} : b \in RegBits /\ Zone(<<"IE", 0>>, b) \in Z
      BY DEF Zone, PortRegs, RegBits, Everything, BitZone
    <3> QED BY <3>1, PortWithin, NamesAre DEF Clear, Set, Assign, Merge, OpenXfr
  <2>3. a3 \in Seq(Within(Z))
    <3>1. \A b \in {"T0"} \cup {"T0"} : b \in RegBits /\ Zone(<<"TMOD", 0>>, b) \in Z
      BY DEF Zone, PortRegs, RegBits, Everything, BitZone
    <3> QED BY <3>1, PortWithin, NamesAre DEF Clear, Set, Assign, Merge, OpenXfr
  <2>4. a4 \in Seq(Within(Z))
    <3>1. \A b \in {"T0_1T"} \cup {} : b \in RegBits /\ Zone(<<"AUXR", 0>>, b) \in Z
      BY DEF Zone, PortRegs, RegBits, Everything, BitZone
    <3> QED BY <3>1, PortWithin, NamesAre DEF Clear, Set, Assign, Merge, OpenXfr
  <2>5. a5 \in Seq(Within(Z))
    <3>1. \A b \in {"T0CLKO"} \cup {} : b \in RegBits /\ Zone(<<"INTCLKO", 0>>, b) \in Z
      BY DEF Zone, PortRegs, RegBits, Everything, BitZone
    <3> QED BY <3>1, PortWithin, NamesAre DEF Clear, Set, Assign, Merge, OpenXfr
  <2> QED BY <2>1, <2>2, <2>3, <2>4, <2>5
<1> HIDE DEF a1, a2, a3, a4, a5
<1>2. q1 \in Seq(Within(Z)) /\ q2 \in Seq(Within(Z)) /\ q3 \in Seq(Within(Z)) /\ q4 \in Seq(Within(Z))
      /\ q5 \in Seq(Within(Z))
  BY <1>1
<1> HIDE DEF q2, q3, q4, q5
<1>d. Does(regs, q5, z) BY <1>0, <1>2, AfterDoes
<1>3. z \in Files /\ Stays(regs, z, Z) BY <1>d, <1>2, DoesStays
<1>p5. PICK m4 : Does(regs, q4, m4) /\ Does(m4, a5, z)
  BY <1>d, <1>1, <1>2, DoesJoin DEF q5
<1>p4. PICK m3 : Does(regs, q3, m3) /\ Does(m3, a4, m4)
  BY <1>p5, <1>1, <1>2, DoesJoin DEF q4
<1>p3. PICK m2 : Does(regs, q2, m2) /\ Does(m2, a3, m3)
  BY <1>p4, <1>1, <1>2, DoesJoin DEF q3
<1>p2. PICK m1 : Does(regs, q1, m1) /\ Does(m1, a2, m2)
  BY <1>p3, <1>1, <1>2, DoesJoin DEF q2
<1>4. m1 \in Files /\ m2 \in Files /\ m3 \in Files /\ m4 \in Files /\ z \in Files
  BY <1>2, <1>3, <1>p5, <1>p4, <1>p3, <1>p2, DoesStays
<1>s1. Stepped(regs, m1, <<"TCON", 0>>, {"TR0"}, {})
  BY <1>p2, <1>4, NamesAre, DoesPort DEF a1, Clear, Set, Assign, Merge, OpenXfr, Extended
<1>s2. Stepped(m1, m2, <<"IE", 0>>, {"ET0"}, {})
  BY <1>p2, <1>4, NamesAre, DoesPort DEF a2, Clear, Set, Assign, Merge, OpenXfr, Extended
<1>s3. Stepped(m2, m3, <<"TMOD", 0>>, {"T0"}, {"T0"})
  BY <1>p3, <1>4, NamesAre, DoesPort DEF a3, Clear, Set, Assign, Merge, OpenXfr, Extended
<1>s4. Stepped(m3, m4, <<"AUXR", 0>>, {"T0_1T"}, {})
  BY <1>p4, <1>4, NamesAre, DoesPort DEF a4, Clear, Set, Assign, Merge, OpenXfr, Extended
<1>s5. Stepped(m4, z, <<"INTCLKO", 0>>, {"T0CLKO"}, {})
  BY <1>p5, <1>4, NamesAre, DoesPort DEF a5, Clear, Set, Assign, Merge, OpenXfr, Extended
<1>r1. "T0" \in z[<<"TMOD", 0>>]
  <2>1. m3[<<"TMOD", 0>>] = (m2[<<"TMOD", 0>>] \ {"T0"}) \cup {"T0"}
    BY <1>s3, NamesAre DEF Stepped, Quasied
  <2>2. z[<<"TMOD", 0>>] = m3[<<"TMOD", 0>>]
    BY <1>s4, <1>s5, NamesAre DEF Stepped, Quasied
  <2> QED BY <2>1, <2>2
<1>r2. "T0_1T" \notin z[<<"AUXR", 0>>]
  <2>1. m4[<<"AUXR", 0>>] = (m3[<<"AUXR", 0>>] \ {"T0_1T"})
    BY <1>s4, NamesAre DEF Stepped, Quasied
  <2>2. z[<<"AUXR", 0>>] = m4[<<"AUXR", 0>>]
    BY <1>s5, NamesAre DEF Stepped, Quasied
  <2> QED BY <2>1, <2>2
<1>r3. "TR0" \notin z[<<"TCON", 0>>]
  <2>1. m1[<<"TCON", 0>>] = (regs[<<"TCON", 0>>] \ {"TR0"})
    BY <1>s1, NamesAre DEF Stepped, Quasied
  <2>2. z[<<"TCON", 0>>] = m1[<<"TCON", 0>>]
    BY <1>s2, <1>s3, <1>s4, <1>s5, NamesAre DEF Stepped, Quasied
  <2> QED BY <2>1, <2>2
<1>r4. "ET0" \notin z[<<"IE", 0>>]
  <2>1. m2[<<"IE", 0>>] = (m1[<<"IE", 0>>] \ {"ET0"})
    BY <1>s2, NamesAre DEF Stepped, Quasied
  <2>2. z[<<"IE", 0>>] = m2[<<"IE", 0>>]
    BY <1>s3, <1>s4, <1>s5, NamesAre DEF Stepped, Quasied
  <2> QED BY <2>1, <2>2
<1> QED BY <1>3, <1>r1, <1>r2, <1>r3, <1>r4

LEMMA DelayTimer01tInitDoes ==
  ASSUME regs \in Files, line \in Lines, NEW z, z = After(delay_timer0_1t_init)
  PROVE  /\ z \in Files /\ Stays(regs, z, {"TIMER0", "ET0", "TR0"})
         /\ "T0" \in z[<<"TMOD", 0>>]
         /\ "T0_1T" \in z[<<"AUXR", 0>>]
         /\ "TR0" \notin z[<<"TCON", 0>>]
         /\ "ET0" \notin z[<<"IE", 0>>]
<1> DEFINE Z == {"TIMER0", "ET0", "TR0"}
           a1 == Clear("TCON", {"TR0"})
           a2 == Clear("IE", {"ET0"})
           a3 == Merge("TMOD", {"T0"}, {"T0"})
           a4 == Set("AUXR", {"T0_1T"})
           a5 == Clear("INTCLKO", {"T0CLKO"})
           q1 == a1
           q2 == q1 \o a2
           q3 == q2 \o a3
           q4 == q3 \o a4
           q5 == q4 \o a5
<1>0. delay_timer0_1t_init = q5 BY DEF delay_timer0_1t_init, timer0_stopped
<1>1. a1 \in Seq(Within(Z)) /\ a2 \in Seq(Within(Z)) /\ a3 \in Seq(Within(Z)) /\ a4 \in Seq(Within(Z))
      /\ a5 \in Seq(Within(Z))
  <2>1. a1 \in Seq(Within(Z))
    <3>1. \A b \in {"TR0"} \cup {} : b \in RegBits /\ Zone(<<"TCON", 0>>, b) \in Z
      BY DEF Zone, PortRegs, RegBits, Everything, BitZone
    <3> QED BY <3>1, PortWithin, NamesAre DEF Clear, Set, Assign, Merge, OpenXfr
  <2>2. a2 \in Seq(Within(Z))
    <3>1. \A b \in {"ET0"} \cup {} : b \in RegBits /\ Zone(<<"IE", 0>>, b) \in Z
      BY DEF Zone, PortRegs, RegBits, Everything, BitZone
    <3> QED BY <3>1, PortWithin, NamesAre DEF Clear, Set, Assign, Merge, OpenXfr
  <2>3. a3 \in Seq(Within(Z))
    <3>1. \A b \in {"T0"} \cup {"T0"} : b \in RegBits /\ Zone(<<"TMOD", 0>>, b) \in Z
      BY DEF Zone, PortRegs, RegBits, Everything, BitZone
    <3> QED BY <3>1, PortWithin, NamesAre DEF Clear, Set, Assign, Merge, OpenXfr
  <2>4. a4 \in Seq(Within(Z))
    <3>1. \A b \in {} \cup {"T0_1T"} : b \in RegBits /\ Zone(<<"AUXR", 0>>, b) \in Z
      BY DEF Zone, PortRegs, RegBits, Everything, BitZone
    <3> QED BY <3>1, PortWithin, NamesAre DEF Clear, Set, Assign, Merge, OpenXfr
  <2>5. a5 \in Seq(Within(Z))
    <3>1. \A b \in {"T0CLKO"} \cup {} : b \in RegBits /\ Zone(<<"INTCLKO", 0>>, b) \in Z
      BY DEF Zone, PortRegs, RegBits, Everything, BitZone
    <3> QED BY <3>1, PortWithin, NamesAre DEF Clear, Set, Assign, Merge, OpenXfr
  <2> QED BY <2>1, <2>2, <2>3, <2>4, <2>5
<1> HIDE DEF a1, a2, a3, a4, a5
<1>2. q1 \in Seq(Within(Z)) /\ q2 \in Seq(Within(Z)) /\ q3 \in Seq(Within(Z)) /\ q4 \in Seq(Within(Z))
      /\ q5 \in Seq(Within(Z))
  BY <1>1
<1> HIDE DEF q2, q3, q4, q5
<1>d. Does(regs, q5, z) BY <1>0, <1>2, AfterDoes
<1>3. z \in Files /\ Stays(regs, z, Z) BY <1>d, <1>2, DoesStays
<1>p5. PICK m4 : Does(regs, q4, m4) /\ Does(m4, a5, z)
  BY <1>d, <1>1, <1>2, DoesJoin DEF q5
<1>p4. PICK m3 : Does(regs, q3, m3) /\ Does(m3, a4, m4)
  BY <1>p5, <1>1, <1>2, DoesJoin DEF q4
<1>p3. PICK m2 : Does(regs, q2, m2) /\ Does(m2, a3, m3)
  BY <1>p4, <1>1, <1>2, DoesJoin DEF q3
<1>p2. PICK m1 : Does(regs, q1, m1) /\ Does(m1, a2, m2)
  BY <1>p3, <1>1, <1>2, DoesJoin DEF q2
<1>4. m1 \in Files /\ m2 \in Files /\ m3 \in Files /\ m4 \in Files /\ z \in Files
  BY <1>2, <1>3, <1>p5, <1>p4, <1>p3, <1>p2, DoesStays
<1>s1. Stepped(regs, m1, <<"TCON", 0>>, {"TR0"}, {})
  BY <1>p2, <1>4, NamesAre, DoesPort DEF a1, Clear, Set, Assign, Merge, OpenXfr, Extended
<1>s2. Stepped(m1, m2, <<"IE", 0>>, {"ET0"}, {})
  BY <1>p2, <1>4, NamesAre, DoesPort DEF a2, Clear, Set, Assign, Merge, OpenXfr, Extended
<1>s3. Stepped(m2, m3, <<"TMOD", 0>>, {"T0"}, {"T0"})
  BY <1>p3, <1>4, NamesAre, DoesPort DEF a3, Clear, Set, Assign, Merge, OpenXfr, Extended
<1>s4. Stepped(m3, m4, <<"AUXR", 0>>, {}, {"T0_1T"})
  BY <1>p4, <1>4, NamesAre, DoesPort DEF a4, Clear, Set, Assign, Merge, OpenXfr, Extended
<1>s5. Stepped(m4, z, <<"INTCLKO", 0>>, {"T0CLKO"}, {})
  BY <1>p5, <1>4, NamesAre, DoesPort DEF a5, Clear, Set, Assign, Merge, OpenXfr, Extended
<1>r1. "T0" \in z[<<"TMOD", 0>>]
  <2>1. m3[<<"TMOD", 0>>] = (m2[<<"TMOD", 0>>] \ {"T0"}) \cup {"T0"}
    BY <1>s3, NamesAre DEF Stepped, Quasied
  <2>2. z[<<"TMOD", 0>>] = m3[<<"TMOD", 0>>]
    BY <1>s4, <1>s5, NamesAre DEF Stepped, Quasied
  <2> QED BY <2>1, <2>2
<1>r2. "T0_1T" \in z[<<"AUXR", 0>>]
  <2>1. m4[<<"AUXR", 0>>] = m3[<<"AUXR", 0>>] \cup {"T0_1T"}
    BY <1>s4, NamesAre DEF Stepped, Quasied
  <2>2. z[<<"AUXR", 0>>] = m4[<<"AUXR", 0>>]
    BY <1>s5, NamesAre DEF Stepped, Quasied
  <2> QED BY <2>1, <2>2
<1>r3. "TR0" \notin z[<<"TCON", 0>>]
  <2>1. m1[<<"TCON", 0>>] = (regs[<<"TCON", 0>>] \ {"TR0"})
    BY <1>s1, NamesAre DEF Stepped, Quasied
  <2>2. z[<<"TCON", 0>>] = m1[<<"TCON", 0>>]
    BY <1>s2, <1>s3, <1>s4, <1>s5, NamesAre DEF Stepped, Quasied
  <2> QED BY <2>1, <2>2
<1>r4. "ET0" \notin z[<<"IE", 0>>]
  <2>1. m2[<<"IE", 0>>] = (m1[<<"IE", 0>>] \ {"ET0"})
    BY <1>s2, NamesAre DEF Stepped, Quasied
  <2>2. z[<<"IE", 0>>] = m2[<<"IE", 0>>]
    BY <1>s3, <1>s4, <1>s5, NamesAre DEF Stepped, Quasied
  <2> QED BY <2>1, <2>2
<1> QED BY <1>3, <1>r1, <1>r2, <1>r3, <1>r4

LEMMA SpiInitDoes ==
  ASSUME regs \in Files, line \in Lines, NEW z, z = After(spi_init)
  PROVE  /\ z \in Files /\ Stays(regs, z, {"SPI", "any", "MISO"})
         /\ "ON" \in z[<<"SPCTL", 0>>]
         /\ "SPI" \notin z[<<"P_SW1", 0>>]
         /\ 3 .. 5 \cap z[<<"M0", 1>>] = {}
         /\ 3 .. 5 \cap z[<<"M1", 1>>] = {}
         /\ 4 \in z[<<"P", 1>>] /\ 4 \in z[<<"IE_P", 1>>]
<1> DEFINE Z == {"SPI", "any", "MISO"}
           a1 == Clear("P_SW1", {"SPI"})
           a2 == Port("M0", 1, 3 .. 5, {})
           a3 == Port("M1", 1, 3 .. 5, {})
           a4 == Port("P", 1, {}, {4})
           a5 == OpenXfr
           a6 == Port("IE_P", 1, {}, {4})
           a7 == Assign("SPCTL", {"ON"})
           q1 == a1
           q2 == q1 \o a2
           q3 == q2 \o a3
           q4 == q3 \o a4
           q5 == q4 \o a5
           q6 == q5 \o a6
           q7 == q6 \o a7
<1>0. spi_init = q7 BY DEF spi_init
<1>1. a1 \in Seq(Within(Z)) /\ a2 \in Seq(Within(Z)) /\ a3 \in Seq(Within(Z)) /\ a4 \in Seq(Within(Z))
      /\ a5 \in Seq(Within(Z)) /\ a6 \in Seq(Within(Z)) /\ a7 \in Seq(Within(Z))
  <2>1. a1 \in Seq(Within(Z))
    <3>1. \A b \in {"SPI"} \cup {} : b \in RegBits /\ Zone(<<"P_SW1", 0>>, b) \in Z
      BY DEF Zone, PortRegs, RegBits, Everything, BitZone
    <3> QED BY <3>1, PortWithin, NamesAre DEF Clear, Set, Assign, Merge, OpenXfr
  <2>2. a2 \in Seq(Within(Z))
    <3>1. \A b \in 3 .. 5 \cup {} : b \in RegBits /\ Zone(<<"M0", 1>>, b) \in Z
      BY DEF Zone, PortRegs, RegBits, Everything, PinZone, Lines
    <3> QED BY <3>1, PortWithin, NamesAre DEF Clear, Set, Assign, Merge, OpenXfr
  <2>3. a3 \in Seq(Within(Z))
    <3>1. \A b \in 3 .. 5 \cup {} : b \in RegBits /\ Zone(<<"M1", 1>>, b) \in Z
      BY DEF Zone, PortRegs, RegBits, Everything, PinZone, Lines
    <3> QED BY <3>1, PortWithin, NamesAre DEF Clear, Set, Assign, Merge, OpenXfr
  <2>4. a4 \in Seq(Within(Z))
    <3>1. \A b \in {} \cup {4} : b \in RegBits /\ Zone(<<"P", 1>>, b) \in Z
      BY DEF Zone, PortRegs, RegBits, Everything, PinZone, Lines
    <3> QED BY <3>1, PortWithin, NamesAre DEF Clear, Set, Assign, Merge, OpenXfr
  <2>5. a5 \in Seq(Within(Z))
    <3>1. \A b \in {} \cup {"EAXFR"} : b \in RegBits /\ Zone(<<"P_SW2", 0>>, b) \in Z
      BY DEF Zone, PortRegs, RegBits, Everything, BitZone
    <3> QED BY <3>1, PortWithin, NamesAre DEF Clear, Set, Assign, Merge, OpenXfr
  <2>6. a6 \in Seq(Within(Z))
    <3>1. \A b \in {} \cup {4} : b \in RegBits /\ Zone(<<"IE_P", 1>>, b) \in Z
      BY DEF Zone, PortRegs, RegBits, Everything, PinZone, Lines
    <3> QED BY <3>1, PortWithin, NamesAre DEF Clear, Set, Assign, Merge, OpenXfr
  <2>7. a7 \in Seq(Within(Z))
    <3>1. \A b \in Everything \cup {"ON"} : b \in RegBits /\ Zone(<<"SPCTL", 0>>, b) \in Z
      BY DEF Zone, PortRegs, RegBits, Everything, BitZone
    <3> QED BY <3>1, PortWithin, NamesAre DEF Clear, Set, Assign, Merge, OpenXfr
  <2> QED BY <2>1, <2>2, <2>3, <2>4, <2>5, <2>6, <2>7
<1> HIDE DEF a1, a2, a3, a4, a5, a6, a7
<1>2. q1 \in Seq(Within(Z)) /\ q2 \in Seq(Within(Z)) /\ q3 \in Seq(Within(Z)) /\ q4 \in Seq(Within(Z))
      /\ q5 \in Seq(Within(Z)) /\ q6 \in Seq(Within(Z)) /\ q7 \in Seq(Within(Z))
  BY <1>1
<1> HIDE DEF q2, q3, q4, q5, q6, q7
<1>d. Does(regs, q7, z) BY <1>0, <1>2, AfterDoes
<1>3. z \in Files /\ Stays(regs, z, Z) BY <1>d, <1>2, DoesStays
<1>p7. PICK m6 : Does(regs, q6, m6) /\ Does(m6, a7, z)
  BY <1>d, <1>1, <1>2, DoesJoin DEF q7
<1>p6. PICK m5 : Does(regs, q5, m5) /\ Does(m5, a6, m6)
  BY <1>p7, <1>1, <1>2, DoesJoin DEF q6
<1>p5. PICK m4 : Does(regs, q4, m4) /\ Does(m4, a5, m5)
  BY <1>p6, <1>1, <1>2, DoesJoin DEF q5
<1>p4. PICK m3 : Does(regs, q3, m3) /\ Does(m3, a4, m4)
  BY <1>p5, <1>1, <1>2, DoesJoin DEF q4
<1>p3. PICK m2 : Does(regs, q2, m2) /\ Does(m2, a3, m3)
  BY <1>p4, <1>1, <1>2, DoesJoin DEF q3
<1>p2. PICK m1 : Does(regs, q1, m1) /\ Does(m1, a2, m2)
  BY <1>p3, <1>1, <1>2, DoesJoin DEF q2
<1>4. m1 \in Files /\ m2 \in Files /\ m3 \in Files /\ m4 \in Files /\ m5 \in Files /\ m6 \in Files /\ z \in Files
  BY <1>2, <1>3, <1>p7, <1>p6, <1>p5, <1>p4, <1>p3, <1>p2, DoesStays
<1>s1. Stepped(regs, m1, <<"P_SW1", 0>>, {"SPI"}, {})
  BY <1>p2, <1>4, NamesAre, DoesPort DEF a1, Clear, Set, Assign, Merge, OpenXfr, Extended
<1>s2. Stepped(m1, m2, <<"M0", 1>>, 3 .. 5, {})
  BY <1>p2, <1>4, NamesAre, DoesPort DEF a2, Clear, Set, Assign, Merge, OpenXfr, Extended
<1>s3. Stepped(m2, m3, <<"M1", 1>>, 3 .. 5, {})
  BY <1>p3, <1>4, NamesAre, DoesPort DEF a3, Clear, Set, Assign, Merge, OpenXfr, Extended
<1>s4. Stepped(m3, m4, <<"P", 1>>, {}, {4})
  BY <1>p4, <1>4, NamesAre, DoesPort DEF a4, Clear, Set, Assign, Merge, OpenXfr, Extended
<1>s5. Stepped(m4, m5, <<"P_SW2", 0>>, {}, {"EAXFR"})
  BY <1>p5, <1>4, NamesAre, DoesPort DEF a5, Clear, Set, Assign, Merge, OpenXfr, Extended
<1>s6. Stepped(m5, m6, <<"IE_P", 1>>, {}, {4})
  <2>1. "EAXFR" \in m5[<<"P_SW2", 0>>] BY <1>s5 DEF Stepped
  <2> QED BY <1>p6, <1>4, <2>1, NamesAre, DoesPort DEF a6, Clear, Set, Assign, Merge, OpenXfr
<1>s7. Stepped(m6, z, <<"SPCTL", 0>>, Everything, {"ON"})
  BY <1>p7, <1>4, NamesAre, DoesPort DEF a7, Clear, Set, Assign, Merge, OpenXfr, Extended
<1>r1. "ON" \in z[<<"SPCTL", 0>>]
  <2>1. z[<<"SPCTL", 0>>] = (m6[<<"SPCTL", 0>>] \ Everything) \cup {"ON"}
    BY <1>s7, NamesAre DEF Stepped, Quasied
  <2> QED BY <2>1
<1>r2. "SPI" \notin z[<<"P_SW1", 0>>]
  <2>1. m1[<<"P_SW1", 0>>] = (regs[<<"P_SW1", 0>>] \ {"SPI"})
    BY <1>s1, NamesAre DEF Stepped, Quasied
  <2>2. z[<<"P_SW1", 0>>] = m1[<<"P_SW1", 0>>]
    BY <1>s2, <1>s3, <1>s4, <1>s5, <1>s6, <1>s7, NamesAre DEF Stepped, Quasied
  <2> QED BY <2>1, <2>2
<1>r3. 3 .. 5 \cap z[<<"M0", 1>>] = {}
  <2>1. m2[<<"M0", 1>>] = (m1[<<"M0", 1>>] \ 3 .. 5)
    BY <1>s2, NamesAre DEF Stepped, Quasied
  <2>2. z[<<"M0", 1>>] = m2[<<"M0", 1>>]
    BY <1>s3, <1>s4, <1>s5, <1>s6, <1>s7, NamesAre DEF Stepped, Quasied
  <2> QED BY <2>1, <2>2
<1>r4. 3 .. 5 \cap z[<<"M1", 1>>] = {}
  <2>1. m3[<<"M1", 1>>] = (m2[<<"M1", 1>>] \ 3 .. 5)
    BY <1>s3, NamesAre DEF Stepped, Quasied
  <2>2. z[<<"M1", 1>>] = m3[<<"M1", 1>>]
    BY <1>s4, <1>s5, <1>s6, <1>s7, NamesAre DEF Stepped, Quasied
  <2> QED BY <2>1, <2>2
<1>r5. 4 \in z[<<"IE_P", 1>>]
  <2>1. m6[<<"IE_P", 1>>] = m5[<<"IE_P", 1>>] \cup {4}
    BY <1>s6, NamesAre DEF Stepped, Quasied
  <2>2. z[<<"IE_P", 1>>] = m6[<<"IE_P", 1>>]
    BY <1>s7, NamesAre DEF Stepped, Quasied
  <2> QED BY <2>1, <2>2
<1>r6. 4 \in z[<<"P", 1>>]
  <2>1. m4[<<"P", 1>>] = m3[<<"P", 1>>] \cup {4}
    BY <1>s4, NamesAre DEF Stepped, Quasied
  <2>2. z[<<"P", 1>>] = m4[<<"P", 1>>]
    BY <1>s5, <1>s6, <1>s7, NamesAre DEF Stepped, Quasied
  <2> QED BY <2>1, <2>2
<1> QED BY <1>3, <1>r1, <1>r2, <1>r3, <1>r4, <1>r5, <1>r6

LEMMA AdcInitDoes ==
  ASSUME regs \in Files, line \in Lines, NEW z, z = After(adc_init)
  PROVE  /\ z \in Files /\ Stays(regs, z, {"ADC", "any"})
         /\ "SLOW" \in z[<<"ADCTIM", 0>>]
         /\ "ON" \in z[<<"ADC_CONTR", 0>>]
<1> DEFINE Z == {"ADC", "any"}
           a1 == OpenXfr
           a2 == Assign("ADCTIM", {"SLOW"})
           a3 == Clear("P_SW2", {"EAXFR"})
           a4 == Assign("ADC_CONTR", {"ON"})
           q1 == a1
           q2 == q1 \o a2
           q3 == q2 \o a3
           q4 == q3 \o a4
<1>0. adc_init = q4 BY DEF adc_init
<1>1. a1 \in Seq(Within(Z)) /\ a2 \in Seq(Within(Z)) /\ a3 \in Seq(Within(Z)) /\ a4 \in Seq(Within(Z))
  <2>1. a1 \in Seq(Within(Z))
    <3>1. \A b \in {} \cup {"EAXFR"} : b \in RegBits /\ Zone(<<"P_SW2", 0>>, b) \in Z
      BY DEF Zone, PortRegs, RegBits, Everything, BitZone
    <3> QED BY <3>1, PortWithin, NamesAre DEF Clear, Set, Assign, Merge, OpenXfr
  <2>2. a2 \in Seq(Within(Z))
    <3>1. \A b \in Everything \cup {"SLOW"} : b \in RegBits /\ Zone(<<"ADCTIM", 0>>, b) \in Z
      BY DEF Zone, PortRegs, RegBits, Everything, BitZone
    <3> QED BY <3>1, PortWithin, NamesAre DEF Clear, Set, Assign, Merge, OpenXfr
  <2>3. a3 \in Seq(Within(Z))
    <3>1. \A b \in {"EAXFR"} \cup {} : b \in RegBits /\ Zone(<<"P_SW2", 0>>, b) \in Z
      BY DEF Zone, PortRegs, RegBits, Everything, BitZone
    <3> QED BY <3>1, PortWithin, NamesAre DEF Clear, Set, Assign, Merge, OpenXfr
  <2>4. a4 \in Seq(Within(Z))
    <3>1. \A b \in Everything \cup {"ON"} : b \in RegBits /\ Zone(<<"ADC_CONTR", 0>>, b) \in Z
      BY DEF Zone, PortRegs, RegBits, Everything, BitZone
    <3> QED BY <3>1, PortWithin, NamesAre DEF Clear, Set, Assign, Merge, OpenXfr
  <2> QED BY <2>1, <2>2, <2>3, <2>4
<1> HIDE DEF a1, a2, a3, a4
<1>2. q1 \in Seq(Within(Z)) /\ q2 \in Seq(Within(Z)) /\ q3 \in Seq(Within(Z)) /\ q4 \in Seq(Within(Z))
  BY <1>1
<1> HIDE DEF q2, q3, q4
<1>d. Does(regs, q4, z) BY <1>0, <1>2, AfterDoes
<1>3. z \in Files /\ Stays(regs, z, Z) BY <1>d, <1>2, DoesStays
<1>p4. PICK m3 : Does(regs, q3, m3) /\ Does(m3, a4, z)
  BY <1>d, <1>1, <1>2, DoesJoin DEF q4
<1>p3. PICK m2 : Does(regs, q2, m2) /\ Does(m2, a3, m3)
  BY <1>p4, <1>1, <1>2, DoesJoin DEF q3
<1>p2. PICK m1 : Does(regs, q1, m1) /\ Does(m1, a2, m2)
  BY <1>p3, <1>1, <1>2, DoesJoin DEF q2
<1>4. m1 \in Files /\ m2 \in Files /\ m3 \in Files /\ z \in Files
  BY <1>2, <1>3, <1>p4, <1>p3, <1>p2, DoesStays
<1>s1. Stepped(regs, m1, <<"P_SW2", 0>>, {}, {"EAXFR"})
  BY <1>p2, <1>4, NamesAre, DoesPort DEF a1, Clear, Set, Assign, Merge, OpenXfr, Extended
<1>s2. Stepped(m1, m2, <<"ADCTIM", 0>>, Everything, {"SLOW"})
  <2>1. "EAXFR" \in m1[<<"P_SW2", 0>>] BY <1>s1 DEF Stepped
  <2> QED BY <1>p2, <1>4, <2>1, NamesAre, DoesPort DEF a2, Clear, Set, Assign, Merge, OpenXfr
<1>s3. Stepped(m2, m3, <<"P_SW2", 0>>, {"EAXFR"}, {})
  BY <1>p3, <1>4, NamesAre, DoesPort DEF a3, Clear, Set, Assign, Merge, OpenXfr, Extended
<1>s4. Stepped(m3, z, <<"ADC_CONTR", 0>>, Everything, {"ON"})
  BY <1>p4, <1>4, NamesAre, DoesPort DEF a4, Clear, Set, Assign, Merge, OpenXfr, Extended
<1>r1. "SLOW" \in z[<<"ADCTIM", 0>>]
  <2>1. m2[<<"ADCTIM", 0>>] = (m1[<<"ADCTIM", 0>>] \ Everything) \cup {"SLOW"}
    BY <1>s2, NamesAre DEF Stepped, Quasied
  <2>2. z[<<"ADCTIM", 0>>] = m2[<<"ADCTIM", 0>>]
    BY <1>s3, <1>s4, NamesAre DEF Stepped, Quasied
  <2> QED BY <2>1, <2>2
<1>r2. "ON" \in z[<<"ADC_CONTR", 0>>]
  <2>1. z[<<"ADC_CONTR", 0>>] = (m3[<<"ADC_CONTR", 0>>] \ Everything) \cup {"ON"}
    BY <1>s4, NamesAre DEF Stepped, Quasied
  <2> QED BY <2>1
<1> QED BY <1>3, <1>r1, <1>r2

LEMMA QeiInitDoes ==
  ASSUME regs \in Files, line \in Lines, NEW z, z = After(qei_init)
  PROVE  /\ z \in Files /\ Stays(regs, z, {"QEI", "any"})
         /\ {"MODE", "INPUTS", "CEN"} \subseteq z[<<"PWMB", 0>>]
<1> DEFINE Z == {"QEI", "any"}
           a1 == OpenXfr
           a2 == Assign("PWMB", {"MODE", "INPUTS", "CEN"})
           q1 == a1
           q2 == q1 \o a2
<1>0. qei_init = q2 BY DEF qei_init
<1>1. a1 \in Seq(Within(Z)) /\ a2 \in Seq(Within(Z))
  <2>1. a1 \in Seq(Within(Z))
    <3>1. \A b \in {} \cup {"EAXFR"} : b \in RegBits /\ Zone(<<"P_SW2", 0>>, b) \in Z
      BY DEF Zone, PortRegs, RegBits, Everything, BitZone
    <3> QED BY <3>1, PortWithin, NamesAre DEF Clear, Set, Assign, Merge, OpenXfr
  <2>2. a2 \in Seq(Within(Z))
    <3>1. \A b \in Everything \cup {"MODE", "INPUTS", "CEN"} : b \in RegBits /\ Zone(<<"PWMB", 0>>, b) \in Z
      BY DEF Zone, PortRegs, RegBits, Everything, BitZone
    <3> QED BY <3>1, PortWithin, NamesAre DEF Clear, Set, Assign, Merge, OpenXfr
  <2> QED BY <2>1, <2>2
<1> HIDE DEF a1, a2
<1>2. q1 \in Seq(Within(Z)) /\ q2 \in Seq(Within(Z)) BY <1>1
<1> HIDE DEF q2
<1>d. Does(regs, q2, z) BY <1>0, <1>2, AfterDoes
<1>3. z \in Files /\ Stays(regs, z, Z) BY <1>d, <1>2, DoesStays
<1>p2. PICK m1 : Does(regs, q1, m1) /\ Does(m1, a2, z)
  BY <1>d, <1>1, <1>2, DoesJoin DEF q2
<1>4. m1 \in Files /\ z \in Files BY <1>2, <1>3, <1>p2, DoesStays
<1>s1. Stepped(regs, m1, <<"P_SW2", 0>>, {}, {"EAXFR"})
  BY <1>p2, <1>4, NamesAre, DoesPort DEF a1, Clear, Set, Assign, Merge, OpenXfr, Extended
<1>s2. Stepped(m1, z, <<"PWMB", 0>>, Everything, {"MODE", "INPUTS", "CEN"})
  <2>1. "EAXFR" \in m1[<<"P_SW2", 0>>] BY <1>s1 DEF Stepped
  <2> QED BY <1>p2, <1>4, <2>1, NamesAre, DoesPort DEF a2, Clear, Set, Assign, Merge, OpenXfr
<1>r1. {"MODE", "INPUTS", "CEN"} \subseteq z[<<"PWMB", 0>>]
  <2>1. z[<<"PWMB", 0>>] = (m1[<<"PWMB", 0>>] \ Everything) \cup {"MODE", "INPUTS", "CEN"}
    BY <1>s2, NamesAre DEF Stepped, Quasied
  <2> QED BY <2>1
<1> QED BY <1>3, <1>r1

LEMMA QeiStopDoes ==
  ASSUME regs \in Files, line \in Lines, NEW z, z = After(qei_stop)
  PROVE  /\ z \in Files /\ Stays(regs, z, {"QEI", "any"})
<1> DEFINE Z == {"QEI", "any"}
           a1 == OpenXfr
           a2 == Clear("PWMB", {"CEN", "MODE", "INPUTS"})
           q1 == a1
           q2 == q1 \o a2
<1>0. qei_stop = q2 BY DEF qei_stop
<1>1. a1 \in Seq(Within(Z)) /\ a2 \in Seq(Within(Z))
  <2>1. a1 \in Seq(Within(Z))
    <3>1. \A b \in {} \cup {"EAXFR"} : b \in RegBits /\ Zone(<<"P_SW2", 0>>, b) \in Z
      BY DEF Zone, PortRegs, RegBits, Everything, BitZone
    <3> QED BY <3>1, PortWithin, NamesAre DEF Clear, Set, Assign, Merge, OpenXfr
  <2>2. a2 \in Seq(Within(Z))
    <3>1. \A b \in {"CEN", "MODE", "INPUTS"} \cup {} : b \in RegBits /\ Zone(<<"PWMB", 0>>, b) \in Z
      BY DEF Zone, PortRegs, RegBits, Everything, BitZone
    <3> QED BY <3>1, PortWithin, NamesAre DEF Clear, Set, Assign, Merge, OpenXfr
  <2> QED BY <2>1, <2>2
<1> HIDE DEF a1, a2
<1>2. q1 \in Seq(Within(Z)) /\ q2 \in Seq(Within(Z)) BY <1>1
<1> HIDE DEF q2
<1>d. Does(regs, q2, z) BY <1>0, <1>2, AfterDoes
<1>3. z \in Files /\ Stays(regs, z, Z) BY <1>d, <1>2, DoesStays
<1> QED BY <1>3

LEMMA WdtEnableDoes ==
  ASSUME regs \in Files, line \in Lines, NEW z, z = After(wdt_enable)
  PROVE  /\ z \in Files /\ Stays(regs, z, {"WDT"})
         /\ "ON" \in z[<<"WDT_CONTR", 0>>]
<1> DEFINE Z == {"WDT"}
           a1 == Assign("WDT_CONTR", {"ON"})
           q1 == a1
<1>0. wdt_enable = q1 BY DEF wdt_enable
<1>1. a1 \in Seq(Within(Z))
  <2>1. a1 \in Seq(Within(Z))
    <3>1. \A b \in Everything \cup {"ON"} : b \in RegBits /\ Zone(<<"WDT_CONTR", 0>>, b) \in Z
      BY DEF Zone, PortRegs, RegBits, Everything, BitZone
    <3> QED BY <3>1, PortWithin, NamesAre DEF Clear, Set, Assign, Merge, OpenXfr
  <2> QED BY <2>1
<1> HIDE DEF a1
<1>2. q1 \in Seq(Within(Z)) BY <1>1
<1>d. Does(regs, q1, z) BY <1>0, <1>2, AfterDoes
<1>3. z \in Files /\ Stays(regs, z, Z) BY <1>d, <1>2, DoesStays
<1>4. z \in Files BY <1>2, <1>d, DoesStays
<1>s1. Stepped(regs, z, <<"WDT_CONTR", 0>>, Everything, {"ON"})
  BY <1>d, <1>4, NamesAre, DoesPort DEF a1, Clear, Set, Assign, Merge, OpenXfr, Extended
<1>r1. "ON" \in z[<<"WDT_CONTR", 0>>]
  <2>1. z[<<"WDT_CONTR", 0>>] = (regs[<<"WDT_CONTR", 0>>] \ Everything) \cup {"ON"}
    BY <1>s1, NamesAre DEF Stepped, Quasied
  <2> QED BY <2>1
<1> QED BY <1>3, <1>r1

LEMMA Exti0Does ==
  ASSUME regs \in Files, line \in Lines, NEW z, z = After(exti_configure("INT0", TRUE))
  PROVE  /\ z \in Files /\ Stays(regs, z, {"INT0", "EX0"})
         /\ "INT0" \in z[<<"TCON", 0>>]
         /\ "INT0" \notin z[<<"IE", 0>>]
<1> DEFINE Z == {"INT0", "EX0"}
           a1 == Clear("IE", {"INT0"})
           a2 == Merge("TCON", {"INT0"}, {"INT0"})
           q1 == a1
           q2 == q1 \o a2
<1>0. exti_configure("INT0", TRUE) = q2 BY DEF exti_configure, LineOff
<1>1. a1 \in Seq(Within(Z)) /\ a2 \in Seq(Within(Z))
  <2>1. a1 \in Seq(Within(Z))
    <3>1. \A b \in {"INT0"} \cup {} : b \in RegBits /\ Zone(<<"IE", 0>>, b) \in Z
      BY DEF Zone, PortRegs, RegBits, Everything, BitZone
    <3> QED BY <3>1, PortWithin, NamesAre DEF Clear, Set, Assign, Merge, OpenXfr
  <2>2. a2 \in Seq(Within(Z))
    <3>1. \A b \in {"INT0"} \cup {"INT0"} : b \in RegBits /\ Zone(<<"TCON", 0>>, b) \in Z
      BY DEF Zone, PortRegs, RegBits, Everything, BitZone
    <3> QED BY <3>1, PortWithin, NamesAre DEF Clear, Set, Assign, Merge, OpenXfr
  <2> QED BY <2>1, <2>2
<1> HIDE DEF a1, a2
<1>2. q1 \in Seq(Within(Z)) /\ q2 \in Seq(Within(Z)) BY <1>1
<1> HIDE DEF q2
<1>d. Does(regs, q2, z) BY <1>0, <1>2, AfterDoes
<1>3. z \in Files /\ Stays(regs, z, Z) BY <1>d, <1>2, DoesStays
<1>p2. PICK m1 : Does(regs, q1, m1) /\ Does(m1, a2, z)
  BY <1>d, <1>1, <1>2, DoesJoin DEF q2
<1>4. m1 \in Files /\ z \in Files BY <1>2, <1>3, <1>p2, DoesStays
<1>s1. Stepped(regs, m1, <<"IE", 0>>, {"INT0"}, {})
  BY <1>p2, <1>4, NamesAre, DoesPort DEF a1, Clear, Set, Assign, Merge, OpenXfr, Extended
<1>s2. Stepped(m1, z, <<"TCON", 0>>, {"INT0"}, {"INT0"})
  BY <1>p2, <1>4, NamesAre, DoesPort DEF a2, Clear, Set, Assign, Merge, OpenXfr, Extended
<1>r1. "INT0" \in z[<<"TCON", 0>>]
  <2>1. z[<<"TCON", 0>>] = (m1[<<"TCON", 0>>] \ {"INT0"}) \cup {"INT0"}
    BY <1>s2, NamesAre DEF Stepped, Quasied
  <2> QED BY <2>1
<1>r2. "INT0" \notin z[<<"IE", 0>>]
  <2>1. m1[<<"IE", 0>>] = (regs[<<"IE", 0>>] \ {"INT0"})
    BY <1>s1, NamesAre DEF Stepped, Quasied
  <2>2. z[<<"IE", 0>>] = m1[<<"IE", 0>>] BY <1>s2, NamesAre DEF Stepped, Quasied
  <2> QED BY <2>1, <2>2
<1> QED BY <1>3, <1>r1, <1>r2

LEMMA Exti1Does ==
  ASSUME regs \in Files, line \in Lines, NEW z, z = After(exti_configure("INT1", FALSE))
  PROVE  /\ z \in Files /\ Stays(regs, z, {"INT1", "EX1"})
         /\ "INT1" \notin z[<<"TCON", 0>>]
         /\ "INT1" \notin z[<<"IE", 0>>]
<1> DEFINE Z == {"INT1", "EX1"}
           a1 == Clear("IE", {"INT1"})
           a2 == Merge("TCON", {"INT1"}, {})
           q1 == a1
           q2 == q1 \o a2
<1>0. exti_configure("INT1", FALSE) = q2 BY DEF exti_configure, LineOff
<1>1. a1 \in Seq(Within(Z)) /\ a2 \in Seq(Within(Z))
  <2>1. a1 \in Seq(Within(Z))
    <3>1. \A b \in {"INT1"} \cup {} : b \in RegBits /\ Zone(<<"IE", 0>>, b) \in Z
      BY DEF Zone, PortRegs, RegBits, Everything, BitZone
    <3> QED BY <3>1, PortWithin, NamesAre DEF Clear, Set, Assign, Merge, OpenXfr
  <2>2. a2 \in Seq(Within(Z))
    <3>1. \A b \in {"INT1"} \cup {} : b \in RegBits /\ Zone(<<"TCON", 0>>, b) \in Z
      BY DEF Zone, PortRegs, RegBits, Everything, BitZone
    <3> QED BY <3>1, PortWithin, NamesAre DEF Clear, Set, Assign, Merge, OpenXfr
  <2> QED BY <2>1, <2>2
<1> HIDE DEF a1, a2
<1>2. q1 \in Seq(Within(Z)) /\ q2 \in Seq(Within(Z)) BY <1>1
<1> HIDE DEF q2
<1>d. Does(regs, q2, z) BY <1>0, <1>2, AfterDoes
<1>3. z \in Files /\ Stays(regs, z, Z) BY <1>d, <1>2, DoesStays
<1>p2. PICK m1 : Does(regs, q1, m1) /\ Does(m1, a2, z)
  BY <1>d, <1>1, <1>2, DoesJoin DEF q2
<1>4. m1 \in Files /\ z \in Files BY <1>2, <1>3, <1>p2, DoesStays
<1>s1. Stepped(regs, m1, <<"IE", 0>>, {"INT1"}, {})
  BY <1>p2, <1>4, NamesAre, DoesPort DEF a1, Clear, Set, Assign, Merge, OpenXfr, Extended
<1>s2. Stepped(m1, z, <<"TCON", 0>>, {"INT1"}, {})
  BY <1>p2, <1>4, NamesAre, DoesPort DEF a2, Clear, Set, Assign, Merge, OpenXfr, Extended
<1>r1. "INT1" \notin z[<<"TCON", 0>>]
  <2>1. z[<<"TCON", 0>>] = (m1[<<"TCON", 0>>] \ {"INT1"})
    BY <1>s2, NamesAre DEF Stepped, Quasied
  <2> QED BY <2>1
<1>r2. "INT1" \notin z[<<"IE", 0>>]
  <2>1. m1[<<"IE", 0>>] = (regs[<<"IE", 0>>] \ {"INT1"})
    BY <1>s1, NamesAre DEF Stepped, Quasied
  <2>2. z[<<"IE", 0>>] = m1[<<"IE", 0>>] BY <1>s2, NamesAre DEF Stepped, Quasied
  <2> QED BY <2>1, <2>2
<1> QED BY <1>3, <1>r1, <1>r2

LEMMA Exti2Does ==
  ASSUME regs \in Files, line \in Lines, NEW z, z = After(exti_configure("INT2", TRUE))
  PROVE  /\ z \in Files /\ Stays(regs, z, {"INT2", "EX2"})
         /\ "INT2" \notin z[<<"INTCLKO", 0>>]
<1> DEFINE Z == {"INT2", "EX2"}
           a1 == Clear("INTCLKO", {"INT2"})
           a2 == Clear("AUXINTIF", {"INT2"})
           q1 == a1
           q2 == q1 \o a2
<1>0. exti_configure("INT2", TRUE) = q2 BY DEF exti_configure, LineOff
<1>1. a1 \in Seq(Within(Z)) /\ a2 \in Seq(Within(Z))
  <2>1. a1 \in Seq(Within(Z))
    <3>1. \A b \in {"INT2"} \cup {} : b \in RegBits /\ Zone(<<"INTCLKO", 0>>, b) \in Z
      BY DEF Zone, PortRegs, RegBits, Everything, BitZone
    <3> QED BY <3>1, PortWithin, NamesAre DEF Clear, Set, Assign, Merge, OpenXfr
  <2>2. a2 \in Seq(Within(Z))
    <3>1. \A b \in {"INT2"} \cup {} : b \in RegBits /\ Zone(<<"AUXINTIF", 0>>, b) \in Z
      BY DEF Zone, PortRegs, RegBits, Everything, BitZone
    <3> QED BY <3>1, PortWithin, NamesAre DEF Clear, Set, Assign, Merge, OpenXfr
  <2> QED BY <2>1, <2>2
<1> HIDE DEF a1, a2
<1>2. q1 \in Seq(Within(Z)) /\ q2 \in Seq(Within(Z)) BY <1>1
<1> HIDE DEF q2
<1>d. Does(regs, q2, z) BY <1>0, <1>2, AfterDoes
<1>3. z \in Files /\ Stays(regs, z, Z) BY <1>d, <1>2, DoesStays
<1>p2. PICK m1 : Does(regs, q1, m1) /\ Does(m1, a2, z)
  BY <1>d, <1>1, <1>2, DoesJoin DEF q2
<1>4. m1 \in Files /\ z \in Files BY <1>2, <1>3, <1>p2, DoesStays
<1>s1. Stepped(regs, m1, <<"INTCLKO", 0>>, {"INT2"}, {})
  BY <1>p2, <1>4, NamesAre, DoesPort DEF a1, Clear, Set, Assign, Merge, OpenXfr, Extended
<1>s2. Stepped(m1, z, <<"AUXINTIF", 0>>, {"INT2"}, {})
  BY <1>p2, <1>4, NamesAre, DoesPort DEF a2, Clear, Set, Assign, Merge, OpenXfr, Extended
<1>r1. "INT2" \notin z[<<"INTCLKO", 0>>]
  <2>1. m1[<<"INTCLKO", 0>>] = (regs[<<"INTCLKO", 0>>] \ {"INT2"})
    BY <1>s1, NamesAre DEF Stepped, Quasied
  <2>2. z[<<"INTCLKO", 0>>] = m1[<<"INTCLKO", 0>>]
    BY <1>s2, NamesAre DEF Stepped, Quasied
  <2> QED BY <2>1, <2>2
<1> QED BY <1>3, <1>r1

-----------------------------------------------------------------------------
(* The invariant: each peripheral that is set up works, and what is on is what was
   asked for. *)

\* The given bits, and the zone of each.
AllEnables == {"ES", "ES2", "ES3", "ET0", "INT0", "INT1", "INT2", "TR0"}
Enabler(b) == CASE b = "INT0" -> "EX0" [] b = "INT1" -> "EX1" [] b = "INT2" -> "EX2" [] OTHER -> b
EnableBits == regs[<<"IE", 0>>] \subseteq {"ES", "ET0", "INT0", "INT1"} /\ regs[<<"IE2", 0>>] \subseteq {"ES2", "ES3"}

Pins == [mode : Modes, level : BOOLEAN, pull : BOOLEAN, input : BOOLEAN]
RegistersTypes ==
  /\ used \subseteq Peripherals /\ role \in {"1ms", "free", "delay"} /\ line \in Lines
  /\ regs \in Files /\ up \subseteq Peripherals /\ on \subseteq AllEnables /\ pin \in Pins
RegistersInv ==
  /\ RegistersTypes /\ EnableBits
  /\ role = "delay" => "TR0" \notin on
  /\ line[1] = 0 => pin.pull = FALSE /\ pin.input = TRUE
  /\ Enables = on
  /\ \A p \in up \cup {"PIN"} : Works(p)

LEMMA BitStays ==
  ASSUME NEW r, NEW z, NEW Z, Stays(r, z, Z), NEW n \in Names, NEW b \in RegBits, Zone(n, b) \notin Z
  PROVE  b \in z[n] <=> b \in r[n]
BY DEF Stays

LEMMA EnablesHave ==
  ASSUME EnableBits
  PROVE  /\ Enables \subseteq AllEnables
         /\ "ES" \in Enables <=> "ES" \in regs[<<"IE", 0>>]
         /\ "ET0" \in Enables <=> "ET0" \in regs[<<"IE", 0>>]
         /\ "INT0" \in Enables <=> "INT0" \in regs[<<"IE", 0>>]
         /\ "INT1" \in Enables <=> "INT1" \in regs[<<"IE", 0>>]
         /\ "ES2" \in Enables <=> "ES2" \in regs[<<"IE2", 0>>]
         /\ "ES3" \in Enables <=> "ES3" \in regs[<<"IE2", 0>>]
         /\ "TR0" \in Enables <=> "TR0" \in regs[<<"TCON", 0>>]
         /\ "INT2" \in Enables <=> "INT2" \in regs[<<"INTCLKO", 0>>]
BY DEF EnableBits, Enables, AllEnables

LEMMA EnablesHaveNext ==
  ASSUME EnableBits'
  PROVE  /\ Enables' \subseteq AllEnables
         /\ "ES" \in Enables' <=> "ES" \in regs'[<<"IE", 0>>]
         /\ "ET0" \in Enables' <=> "ET0" \in regs'[<<"IE", 0>>]
         /\ "INT0" \in Enables' <=> "INT0" \in regs'[<<"IE", 0>>]
         /\ "INT1" \in Enables' <=> "INT1" \in regs'[<<"IE", 0>>]
         /\ "ES2" \in Enables' <=> "ES2" \in regs'[<<"IE2", 0>>]
         /\ "ES3" \in Enables' <=> "ES3" \in regs'[<<"IE2", 0>>]
         /\ "TR0" \in Enables' <=> "TR0" \in regs'[<<"TCON", 0>>]
         /\ "INT2" \in Enables' <=> "INT2" \in regs'[<<"INTCLKO", 0>>]
BY DEF EnableBits, Enables, AllEnables

\* Where the given bits are.
LEMMA EnableZones ==
  /\ Zone(<<"IE", 0>>, "ES") = "ES" /\ Zone(<<"IE", 0>>, "ET0") = "ET0"
  /\ Zone(<<"IE", 0>>, "INT0") = "EX0" /\ Zone(<<"IE", 0>>, "INT1") = "EX1"
  /\ Zone(<<"IE2", 0>>, "ES2") = "ES2" /\ Zone(<<"IE2", 0>>, "ES3") = "ES3"
  /\ Zone(<<"TCON", 0>>, "TR0") = "TR0" /\ Zone(<<"INTCLKO", 0>>, "INT2") = "EX2"
BY DEF Zone, BitZone, PortRegs

\* A function that touches no given bit but those of off, and those only to clear them.
LEMMA EnablesStay ==
  ASSUME regs \in Files, regs' \in Files, EnableBits, NEW Z, Stays(regs, regs', Z), NEW off,
         off \subseteq AllEnables, \A b \in AllEnables \ off : Enabler(b) \notin Z,
         "ET1" \notin Z \/ "ET1" \notin regs'[<<"IE", 0>>],
         "none" \notin Z
  PROVE  EnableBits' /\ (off \cap Enables' = {} => Enables' = Enables \ off)
<1>1. EnableBits'
  <2>1. <<"IE", 0>> \in Names /\ <<"IE2", 0>> \in Names /\ regs'[<<"IE", 0>>] \subseteq RegBits
        /\ regs'[<<"IE2", 0>>] \subseteq RegBits
    BY NamesAre DEF Files
  <2>2. ASSUME NEW b \in RegBits \ {"ES", "ET0", "INT0", "INT1"} PROVE b \notin regs'[<<"IE", 0>>]
    <3>1. b \notin regs[<<"IE", 0>>] BY DEF EnableBits
    <3>2. Zone(<<"IE", 0>>, b) \in {"ET1", "none"} /\ (Zone(<<"IE", 0>>, b) = "ET1" => b = "ET1")
      BY DEF Zone, PortRegs
    <3>3. CASE Zone(<<"IE", 0>>, b) \in Z BY <3>2, <3>3
    <3>4. CASE Zone(<<"IE", 0>>, b) \notin Z BY <3>1, <3>4, <2>1, BitStays
    <3> QED BY <3>3, <3>4
  <2>3. ASSUME NEW b \in RegBits \ {"ES2", "ES3"} PROVE b \notin regs'[<<"IE2", 0>>]
    <3>1. b \notin regs[<<"IE2", 0>>] BY DEF EnableBits
    <3>2. Zone(<<"IE2", 0>>, b) = "none" BY DEF Zone, PortRegs
    <3> QED BY <3>1, <3>2, <2>1, BitStays
  <2>4. regs'[<<"IE", 0>>] \subseteq {"ES", "ET0", "INT0", "INT1"} BY <2>1, <2>2
  <2>5. regs'[<<"IE2", 0>>] \subseteq {"ES2", "ES3"} BY <2>1, <2>3
  <2> QED BY <2>4, <2>5 DEF EnableBits
<1>2. ASSUME off \cap Enables' = {} PROVE Enables' = Enables \ off
  <2>1. AllEnables \subseteq RegBits BY DEF AllEnables, RegBits
  <2>2. ASSUME NEW b \in AllEnables \ off PROVE b \in Enables' <=> b \in Enables
    <3>1. Enabler(b) \notin Z /\ b \in RegBits BY <2>1
    <3>2. CASE b \in {"ES", "ET0", "INT0", "INT1"}
      <4>1. Zone(<<"IE", 0>>, b) = Enabler(b) BY <3>2, EnableZones DEF Enabler
      <4>2. b \in regs'[<<"IE", 0>>] <=> b \in regs[<<"IE", 0>>]
        BY <3>1, <4>1, NamesAre, BitStays
      <4> QED BY <1>1, <3>2, <4>2, EnablesHave, EnablesHaveNext
    <3>3. CASE b \in {"ES2", "ES3"}
      <4>1. Zone(<<"IE2", 0>>, b) = Enabler(b) BY <3>3, EnableZones DEF Enabler
      <4>2. b \in regs'[<<"IE2", 0>>] <=> b \in regs[<<"IE2", 0>>]
        BY <3>1, <4>1, NamesAre, BitStays
      <4> QED BY <1>1, <3>3, <4>2, EnablesHave, EnablesHaveNext
    <3>4. CASE b = "TR0"
      <4>1. Zone(<<"TCON", 0>>, b) = Enabler(b) BY <3>4, EnableZones DEF Enabler
      <4>2. b \in regs'[<<"TCON", 0>>] <=> b \in regs[<<"TCON", 0>>]
        BY <3>1, <4>1, NamesAre, BitStays
      <4> QED BY <1>1, <3>4, <4>2, EnablesHave, EnablesHaveNext
    <3>5. CASE b = "INT2"
      <4>1. Zone(<<"INTCLKO", 0>>, b) = Enabler(b)
        BY <3>5, EnableZones DEF Enabler
      <4>2. b \in regs'[<<"INTCLKO", 0>>] <=> b \in regs[<<"INTCLKO", 0>>]
        BY <3>1, <4>1, NamesAre, BitStays
      <4> QED BY <1>1, <3>5, <4>2, EnablesHave, EnablesHaveNext
    <3> QED BY <3>2, <3>3, <3>4, <3>5 DEF AllEnables
  <2> QED BY <1>1, <1>2, <2>2, EnablesHave, EnablesHaveNext
<1> QED BY <1>1, <1>2

-----------------------------------------------------------------------------
(* What a peripheral needs lies in its own zone. *)

LEMMA LatchZones ==
  ASSUME line \in Lines, NEW p \in Receivers
  PROVE  /\ Zone(<<"P", Wired[p][1]>>, Wired[p][2]) = LatchZone(p)
         /\ Wired[p][2] \in RegBits /\ <<"P", Wired[p][1]>> \in Names
<1>1. Wired[p] = CASE p = "UART1" -> <<3, 0>> [] p = "UART2" -> <<1, 0>> [] p = "UART3" -> <<0, 0>> [] OTHER -> <<1, 4>>
  BY DEF Wired, Receivers
<1>2. \A k \in 0 .. 7 : k \in RegBits BY DEF RegBits
<1>3. CASE p = "UART1"
  <2>1. Wired[p][1] = 3 /\ Wired[p][2] = 0 BY <1>1, <1>3
  <2> QED BY <1>2, <1>3, <2>1, NamesAre DEF LatchZone, Zone, PortRegs, PinZone, Lines
<1>4. CASE p = "UART2"
  <2>1. Wired[p][1] = 1 /\ Wired[p][2] = 0 BY <1>1, <1>4
  <2> QED BY <1>2, <1>4, <2>1, NamesAre DEF LatchZone, Zone, PortRegs, PinZone, Lines
<1>5. CASE p = "UART3"
  <2>1. Wired[p][1] = 0 /\ Wired[p][2] = 0 BY <1>1, <1>5
  <2> QED BY <1>2, <1>5, <2>1, NamesAre DEF LatchZone, Zone, PortRegs, PinZone, Lines
<1>6. CASE p = "SPI"
  <2>1. Wired[p][1] = 1 /\ Wired[p][2] = 4 BY <1>1, <1>6
  <2> QED BY <1>2, <1>6, <2>1, NamesAre DEF LatchZone, Zone, PortRegs, PinZone, Lines
<1> QED BY <1>3, <1>4, <1>5, <1>6 DEF Receivers

LEMMA ReleasedStays ==
  ASSUME line \in Lines, line' = line, NEW Z, Stays(regs, regs', Z), NEW p \in Receivers, p \notin Z,
         Released(p), "PIN" \in up => "PIN" \in up', Spares(Z, up')
  PROVE  Released(p)'
<1>1. CASE LatchZone(p) \notin Z
  <2>1. Zone(<<"P", Wired[p][1]>>, Wired[p][2]) = LatchZone(p) /\ Wired[p][2] \in RegBits
        /\ <<"P", Wired[p][1]>> \in Names
    BY LatchZones
  <2>2. Wired[p][2] \in regs'[<<"P", Wired[p][1]>>] <=> Wired[p][2] \in regs[<<"P", Wired[p][1]>>]
    BY <1>1, <2>1, BitStays
  <2> QED BY <2>2 DEF Released
<1>2. CASE "PIN" \in up' /\ line[1] = Wired[p][1] BY <1>2 DEF Released
<1> QED BY <1>1, <1>2 DEF Spares

LEMMA Uart1Keeps ==
  ASSUME line \in Lines, NEW Z, Stays(regs, regs', Z), "UART1" \notin Z, Works("UART1"), role' = role,
         line' = line, "PIN" \in up => "PIN" \in up', Spares(Z, up')
  PROVE  Works("UART1")'
<1>1. "MODE" \in regs'[<<"SCON", 0>>] <=> "MODE" \in regs[<<"SCON", 0>>]
  <2>1. Zone(<<"SCON", 0>>, "MODE") = "UART1" /\ "MODE" \in RegBits
    BY DEF Zone, PortRegs, BitZone, RegBits, Everything
  <2> QED BY <2>1, NamesAre, BitStays
<1>2. "REN" \in regs'[<<"SCON", 0>>] <=> "REN" \in regs[<<"SCON", 0>>]
  <2>1. Zone(<<"SCON", 0>>, "REN") = "UART1" /\ "REN" \in RegBits
    BY DEF Zone, PortRegs, BitZone, RegBits, Everything
  <2> QED BY <2>1, NamesAre, BitStays
<1>3. "TR1" \in regs'[<<"TCON", 0>>] <=> "TR1" \in regs[<<"TCON", 0>>]
  <2>1. Zone(<<"TCON", 0>>, "TR1") = "UART1" /\ "TR1" \in RegBits
    BY DEF Zone, PortRegs, BitZone, RegBits, Everything
  <2> QED BY <2>1, NamesAre, BitStays
<1>4. "T1_1T" \in regs'[<<"AUXR", 0>>] <=> "T1_1T" \in regs[<<"AUXR", 0>>]
  <2>1. Zone(<<"AUXR", 0>>, "T1_1T") = "UART1" /\ "T1_1T" \in RegBits
    BY DEF Zone, PortRegs, BitZone, RegBits, Everything
  <2> QED BY <2>1, NamesAre, BitStays
<1>5. "S1ST2" \in regs'[<<"AUXR", 0>>] <=> "S1ST2" \in regs[<<"AUXR", 0>>]
  <2>1. Zone(<<"AUXR", 0>>, "S1ST2") = "UART1" /\ "S1ST2" \in RegBits
    BY DEF Zone, PortRegs, BitZone, RegBits, Everything
  <2> QED BY <2>1, NamesAre, BitStays
<1>6. "T1" \in regs'[<<"TMOD", 0>>] <=> "T1" \in regs[<<"TMOD", 0>>]
  <2>1. Zone(<<"TMOD", 0>>, "T1") = "UART1" /\ "T1" \in RegBits
    BY DEF Zone, PortRegs, BitZone, RegBits, Everything
  <2> QED BY <2>1, NamesAre, BitStays
<1>7. "UART1" \in regs'[<<"P_SW1", 0>>] <=> "UART1" \in regs[<<"P_SW1", 0>>]
  <2>1. Zone(<<"P_SW1", 0>>, "UART1") = "UART1" /\ "UART1" \in RegBits
    BY DEF Zone, PortRegs, BitZone, RegBits, Everything
  <2> QED BY <2>1, NamesAre, BitStays
<1>8. 0 \in regs'[<<"M0", 3>>] <=> 0 \in regs[<<"M0", 3>>]
  <2>1. Zone(<<"M0", 3>>, 0) = "UART1" /\ 0 \in RegBits
    BY DEF Zone, PortRegs, PinZone, Lines, RegBits
  <2> QED BY <2>1, NamesAre, BitStays
<1>9. 1 \in regs'[<<"M0", 3>>] <=> 1 \in regs[<<"M0", 3>>]
  <2>1. Zone(<<"M0", 3>>, 1) = "UART1" /\ 1 \in RegBits
    BY DEF Zone, PortRegs, PinZone, Lines, RegBits
  <2> QED BY <2>1, NamesAre, BitStays
<1>10. 0 \in regs'[<<"M1", 3>>] <=> 0 \in regs[<<"M1", 3>>]
  <2>1. Zone(<<"M1", 3>>, 0) = "UART1" /\ 0 \in RegBits
    BY DEF Zone, PortRegs, PinZone, Lines, RegBits
  <2> QED BY <2>1, NamesAre, BitStays
<1>11. 1 \in regs'[<<"M1", 3>>] <=> 1 \in regs[<<"M1", 3>>]
  <2>1. Zone(<<"M1", 3>>, 1) = "UART1" /\ 1 \in RegBits
    BY DEF Zone, PortRegs, PinZone, Lines, RegBits
  <2> QED BY <2>1, NamesAre, BitStays
<1>12. 1 \in regs'[<<"P", 3>>] <=> 1 \in regs[<<"P", 3>>]
  <2>1. Zone(<<"P", 3>>, 1) = "UART1" /\ 1 \in RegBits
    BY DEF Zone, PortRegs, PinZone, Lines, RegBits
  <2> QED BY <2>1, NamesAre, BitStays
<1>13. Released("UART1")'
  <2>1. Released("UART1") BY DEF Works
  <2> QED BY <2>1, ReleasedStays DEF Receivers
<1> QED BY <1>1, <1>2, <1>3, <1>4, <1>5, <1>6, <1>7, <1>8, <1>9, <1>10, <1>11, <1>12, <1>13 DEF Works, Has, Lacks, Quasi

LEMMA Uart2Keeps ==
  ASSUME line \in Lines, NEW Z, Stays(regs, regs', Z), "UART2" \notin Z, Works("UART2"), role' = role,
         line' = line, "PIN" \in up => "PIN" \in up', Spares(Z, up')
  PROVE  Works("UART2")'
<1>1. "REN" \in regs'[<<"S2CON", 0>>] <=> "REN" \in regs[<<"S2CON", 0>>]
  <2>1. Zone(<<"S2CON", 0>>, "REN") = "UART2" /\ "REN" \in RegBits
    BY DEF Zone, PortRegs, BitZone, RegBits, Everything
  <2> QED BY <2>1, NamesAre, BitStays
<1>2. "T2R" \in regs'[<<"AUXR", 0>>] <=> "T2R" \in regs[<<"AUXR", 0>>]
  <2>1. Zone(<<"AUXR", 0>>, "T2R") = "UART2" /\ "T2R" \in RegBits
    BY DEF Zone, PortRegs, BitZone, RegBits, Everything
  <2> QED BY <2>1, NamesAre, BitStays
<1>3. "T2X12" \in regs'[<<"AUXR", 0>>] <=> "T2X12" \in regs[<<"AUXR", 0>>]
  <2>1. Zone(<<"AUXR", 0>>, "T2X12") = "UART2" /\ "T2X12" \in RegBits
    BY DEF Zone, PortRegs, BitZone, RegBits, Everything
  <2> QED BY <2>1, NamesAre, BitStays
<1>4. "T2_CT" \in regs'[<<"AUXR", 0>>] <=> "T2_CT" \in regs[<<"AUXR", 0>>]
  <2>1. Zone(<<"AUXR", 0>>, "T2_CT") = "UART2" /\ "T2_CT" \in RegBits
    BY DEF Zone, PortRegs, BitZone, RegBits, Everything
  <2> QED BY <2>1, NamesAre, BitStays
<1>5. "UART2" \in regs'[<<"P_SW2", 0>>] <=> "UART2" \in regs[<<"P_SW2", 0>>]
  <2>1. Zone(<<"P_SW2", 0>>, "UART2") = "UART2" /\ "UART2" \in RegBits
    BY DEF Zone, PortRegs, BitZone, RegBits, Everything
  <2> QED BY <2>1, NamesAre, BitStays
<1>6. 0 \in regs'[<<"M0", 1>>] <=> 0 \in regs[<<"M0", 1>>]
  <2>1. Zone(<<"M0", 1>>, 0) = "UART2" /\ 0 \in RegBits
    BY DEF Zone, PortRegs, PinZone, Lines, RegBits
  <2> QED BY <2>1, NamesAre, BitStays
<1>7. 1 \in regs'[<<"M0", 1>>] <=> 1 \in regs[<<"M0", 1>>]
  <2>1. Zone(<<"M0", 1>>, 1) = "UART2" /\ 1 \in RegBits
    BY DEF Zone, PortRegs, PinZone, Lines, RegBits
  <2> QED BY <2>1, NamesAre, BitStays
<1>8. 0 \in regs'[<<"M1", 1>>] <=> 0 \in regs[<<"M1", 1>>]
  <2>1. Zone(<<"M1", 1>>, 0) = "UART2" /\ 0 \in RegBits
    BY DEF Zone, PortRegs, PinZone, Lines, RegBits
  <2> QED BY <2>1, NamesAre, BitStays
<1>9. 1 \in regs'[<<"M1", 1>>] <=> 1 \in regs[<<"M1", 1>>]
  <2>1. Zone(<<"M1", 1>>, 1) = "UART2" /\ 1 \in RegBits
    BY DEF Zone, PortRegs, PinZone, Lines, RegBits
  <2> QED BY <2>1, NamesAre, BitStays
<1>10. 1 \in regs'[<<"P", 1>>] <=> 1 \in regs[<<"P", 1>>]
  <2>1. Zone(<<"P", 1>>, 1) = "UART2" /\ 1 \in RegBits
    BY DEF Zone, PortRegs, PinZone, Lines, RegBits
  <2> QED BY <2>1, NamesAre, BitStays
<1>11. Released("UART2")'
  <2>1. Released("UART2") BY DEF Works
  <2> QED BY <2>1, ReleasedStays DEF Receivers
<1> QED BY <1>1, <1>2, <1>3, <1>4, <1>5, <1>6, <1>7, <1>8, <1>9, <1>10, <1>11 DEF Works, Has, Lacks, Quasi

LEMMA Uart3Keeps ==
  ASSUME line \in Lines, NEW Z, Stays(regs, regs', Z), "UART3" \notin Z, Works("UART3"), role' = role,
         line' = line, "PIN" \in up => "PIN" \in up', Spares(Z, up')
  PROVE  Works("UART3")'
<1>1. "ST3" \in regs'[<<"S3CON", 0>>] <=> "ST3" \in regs[<<"S3CON", 0>>]
  <2>1. Zone(<<"S3CON", 0>>, "ST3") = "UART3" /\ "ST3" \in RegBits
    BY DEF Zone, PortRegs, BitZone, RegBits, Everything
  <2> QED BY <2>1, NamesAre, BitStays
<1>2. "REN" \in regs'[<<"S3CON", 0>>] <=> "REN" \in regs[<<"S3CON", 0>>]
  <2>1. Zone(<<"S3CON", 0>>, "REN") = "UART3" /\ "REN" \in RegBits
    BY DEF Zone, PortRegs, BitZone, RegBits, Everything
  <2> QED BY <2>1, NamesAre, BitStays
<1>3. "T3R" \in regs'[<<"T4T3M", 0>>] <=> "T3R" \in regs[<<"T4T3M", 0>>]
  <2>1. Zone(<<"T4T3M", 0>>, "T3R") = "UART3" /\ "T3R" \in RegBits
    BY DEF Zone, PortRegs, BitZone, RegBits, Everything
  <2> QED BY <2>1, NamesAre, BitStays
<1>4. "T3X12" \in regs'[<<"T4T3M", 0>>] <=> "T3X12" \in regs[<<"T4T3M", 0>>]
  <2>1. Zone(<<"T4T3M", 0>>, "T3X12") = "UART3" /\ "T3X12" \in RegBits
    BY DEF Zone, PortRegs, BitZone, RegBits, Everything
  <2> QED BY <2>1, NamesAre, BitStays
<1>5. "UART3" \in regs'[<<"P_SW2", 0>>] <=> "UART3" \in regs[<<"P_SW2", 0>>]
  <2>1. Zone(<<"P_SW2", 0>>, "UART3") = "UART3" /\ "UART3" \in RegBits
    BY DEF Zone, PortRegs, BitZone, RegBits, Everything
  <2> QED BY <2>1, NamesAre, BitStays
<1>6. 0 \in regs'[<<"M0", 0>>] <=> 0 \in regs[<<"M0", 0>>]
  <2>1. Zone(<<"M0", 0>>, 0) = "UART3" /\ 0 \in RegBits
    BY DEF Zone, PortRegs, PinZone, Lines, RegBits
  <2> QED BY <2>1, NamesAre, BitStays
<1>7. 1 \in regs'[<<"M0", 0>>] <=> 1 \in regs[<<"M0", 0>>]
  <2>1. Zone(<<"M0", 0>>, 1) = "UART3" /\ 1 \in RegBits
    BY DEF Zone, PortRegs, PinZone, Lines, RegBits
  <2> QED BY <2>1, NamesAre, BitStays
<1>8. 0 \in regs'[<<"M1", 0>>] <=> 0 \in regs[<<"M1", 0>>]
  <2>1. Zone(<<"M1", 0>>, 0) = "UART3" /\ 0 \in RegBits
    BY DEF Zone, PortRegs, PinZone, Lines, RegBits
  <2> QED BY <2>1, NamesAre, BitStays
<1>9. 1 \in regs'[<<"M1", 0>>] <=> 1 \in regs[<<"M1", 0>>]
  <2>1. Zone(<<"M1", 0>>, 1) = "UART3" /\ 1 \in RegBits
    BY DEF Zone, PortRegs, PinZone, Lines, RegBits
  <2> QED BY <2>1, NamesAre, BitStays
<1>10. 1 \in regs'[<<"P", 0>>] <=> 1 \in regs[<<"P", 0>>]
  <2>1. Zone(<<"P", 0>>, 1) = "UART3" /\ 1 \in RegBits
    BY DEF Zone, PortRegs, PinZone, Lines, RegBits
  <2> QED BY <2>1, NamesAre, BitStays
<1>11. Released("UART3")'
  <2>1. Released("UART3") BY DEF Works
  <2> QED BY <2>1, ReleasedStays DEF Receivers
<1> QED BY <1>1, <1>2, <1>3, <1>4, <1>5, <1>6, <1>7, <1>8, <1>9, <1>10, <1>11 DEF Works, Has, Lacks, Quasi

LEMMA Timer0Keeps ==
  ASSUME line \in Lines, NEW Z, Stays(regs, regs', Z), "TIMER0" \notin Z, Works("TIMER0"), role' = role
  PROVE  Works("TIMER0")'
<1>1. "T0" \in regs'[<<"TMOD", 0>>] <=> "T0" \in regs[<<"TMOD", 0>>]
  <2>1. Zone(<<"TMOD", 0>>, "T0") = "TIMER0" /\ "T0" \in RegBits
    BY DEF Zone, PortRegs, BitZone, RegBits, Everything
  <2> QED BY <2>1, NamesAre, BitStays
<1>2. "T0_1T" \in regs'[<<"AUXR", 0>>] <=> "T0_1T" \in regs[<<"AUXR", 0>>]
  <2>1. Zone(<<"AUXR", 0>>, "T0_1T") = "TIMER0" /\ "T0_1T" \in RegBits
    BY DEF Zone, PortRegs, BitZone, RegBits, Everything
  <2> QED BY <2>1, NamesAre, BitStays
<1> QED BY <1>1, <1>2 DEF Works, Has, Lacks, Quasi

LEMMA SpiKeeps ==
  ASSUME line \in Lines, NEW Z, Stays(regs, regs', Z), "SPI" \notin Z, Works("SPI"), role' = role,
         line' = line, "PIN" \in up => "PIN" \in up', Spares(Z, up')
  PROVE  Works("SPI")'
<1>1. "ON" \in regs'[<<"SPCTL", 0>>] <=> "ON" \in regs[<<"SPCTL", 0>>]
  <2>1. Zone(<<"SPCTL", 0>>, "ON") = "SPI" /\ "ON" \in RegBits
    BY DEF Zone, PortRegs, BitZone, RegBits, Everything
  <2> QED BY <2>1, NamesAre, BitStays
<1>2. "SPI" \in regs'[<<"P_SW1", 0>>] <=> "SPI" \in regs[<<"P_SW1", 0>>]
  <2>1. Zone(<<"P_SW1", 0>>, "SPI") = "SPI" /\ "SPI" \in RegBits
    BY DEF Zone, PortRegs, BitZone, RegBits, Everything
  <2> QED BY <2>1, NamesAre, BitStays
<1>3. 3 \in regs'[<<"M0", 1>>] <=> 3 \in regs[<<"M0", 1>>]
  <2>1. Zone(<<"M0", 1>>, 3) = "SPI" /\ 3 \in RegBits
    BY DEF Zone, PortRegs, PinZone, Lines, RegBits
  <2> QED BY <2>1, NamesAre, BitStays
<1>4. 4 \in regs'[<<"M0", 1>>] <=> 4 \in regs[<<"M0", 1>>]
  <2>1. Zone(<<"M0", 1>>, 4) = "SPI" /\ 4 \in RegBits
    BY DEF Zone, PortRegs, PinZone, Lines, RegBits
  <2> QED BY <2>1, NamesAre, BitStays
<1>5. 5 \in regs'[<<"M0", 1>>] <=> 5 \in regs[<<"M0", 1>>]
  <2>1. Zone(<<"M0", 1>>, 5) = "SPI" /\ 5 \in RegBits
    BY DEF Zone, PortRegs, PinZone, Lines, RegBits
  <2> QED BY <2>1, NamesAre, BitStays
<1>6. 3 \in regs'[<<"M1", 1>>] <=> 3 \in regs[<<"M1", 1>>]
  <2>1. Zone(<<"M1", 1>>, 3) = "SPI" /\ 3 \in RegBits
    BY DEF Zone, PortRegs, PinZone, Lines, RegBits
  <2> QED BY <2>1, NamesAre, BitStays
<1>7. 4 \in regs'[<<"M1", 1>>] <=> 4 \in regs[<<"M1", 1>>]
  <2>1. Zone(<<"M1", 1>>, 4) = "SPI" /\ 4 \in RegBits
    BY DEF Zone, PortRegs, PinZone, Lines, RegBits
  <2> QED BY <2>1, NamesAre, BitStays
<1>8. 5 \in regs'[<<"M1", 1>>] <=> 5 \in regs[<<"M1", 1>>]
  <2>1. Zone(<<"M1", 1>>, 5) = "SPI" /\ 5 \in RegBits
    BY DEF Zone, PortRegs, PinZone, Lines, RegBits
  <2> QED BY <2>1, NamesAre, BitStays
<1>9. 4 \in regs'[<<"IE_P", 1>>] <=> 4 \in regs[<<"IE_P", 1>>]
  <2>1. Zone(<<"IE_P", 1>>, 4) = "SPI" /\ 4 \in RegBits
    BY DEF Zone, PortRegs, PinZone, Lines, RegBits
  <2> QED BY <2>1, NamesAre, BitStays
<1>10. Released("SPI")'
  <2>1. Released("SPI") BY DEF Works
  <2> QED BY <2>1, ReleasedStays DEF Receivers
<1> QED BY <1>1, <1>2, <1>3, <1>4, <1>5, <1>6, <1>7, <1>8, <1>9, <1>10 DEF Works, Has, Lacks, Quasi

LEMMA AdcKeeps ==
  ASSUME line \in Lines, NEW Z, Stays(regs, regs', Z), "ADC" \notin Z, Works("ADC"), role' = role
  PROVE  Works("ADC")'
<1>1. "SLOW" \in regs'[<<"ADCTIM", 0>>] <=> "SLOW" \in regs[<<"ADCTIM", 0>>]
  <2>1. Zone(<<"ADCTIM", 0>>, "SLOW") = "ADC" /\ "SLOW" \in RegBits
    BY DEF Zone, PortRegs, BitZone, RegBits, Everything
  <2> QED BY <2>1, NamesAre, BitStays
<1>2. "ON" \in regs'[<<"ADC_CONTR", 0>>] <=> "ON" \in regs[<<"ADC_CONTR", 0>>]
  <2>1. Zone(<<"ADC_CONTR", 0>>, "ON") = "ADC" /\ "ON" \in RegBits
    BY DEF Zone, PortRegs, BitZone, RegBits, Everything
  <2> QED BY <2>1, NamesAre, BitStays
<1> QED BY <1>1, <1>2 DEF Works, Has, Lacks, Quasi

LEMMA Int0Keeps ==
  ASSUME line \in Lines, NEW Z, Stays(regs, regs', Z), "INT0" \notin Z, Works("INT0"), role' = role
  PROVE  Works("INT0")'
<1>1. "INT0" \in regs'[<<"TCON", 0>>] <=> "INT0" \in regs[<<"TCON", 0>>]
  <2>1. Zone(<<"TCON", 0>>, "INT0") = "INT0" /\ "INT0" \in RegBits
    BY DEF Zone, PortRegs, BitZone, RegBits, Everything
  <2> QED BY <2>1, NamesAre, BitStays
<1> QED BY <1>1 DEF Works, Has, Lacks, Quasi

LEMMA Int1Keeps ==
  ASSUME line \in Lines, NEW Z, Stays(regs, regs', Z), "INT1" \notin Z, Works("INT1"), role' = role
  PROVE  Works("INT1")'
<1>1. "INT1" \in regs'[<<"TCON", 0>>] <=> "INT1" \in regs[<<"TCON", 0>>]
  <2>1. Zone(<<"TCON", 0>>, "INT1") = "INT1" /\ "INT1" \in RegBits
    BY DEF Zone, PortRegs, BitZone, RegBits, Everything
  <2> QED BY <2>1, NamesAre, BitStays
<1> QED BY <1>1 DEF Works, Has, Lacks, Quasi

LEMMA QeiKeeps ==
  ASSUME line \in Lines, NEW Z, Stays(regs, regs', Z), "QEI" \notin Z, Works("QEI"), role' = role
  PROVE  Works("QEI")'
<1>1. "MODE" \in regs'[<<"PWMB", 0>>] <=> "MODE" \in regs[<<"PWMB", 0>>]
  <2>1. Zone(<<"PWMB", 0>>, "MODE") = "QEI" /\ "MODE" \in RegBits
    BY DEF Zone, PortRegs, BitZone, RegBits, Everything
  <2> QED BY <2>1, NamesAre, BitStays
<1>2. "INPUTS" \in regs'[<<"PWMB", 0>>] <=> "INPUTS" \in regs[<<"PWMB", 0>>]
  <2>1. Zone(<<"PWMB", 0>>, "INPUTS") = "QEI" /\ "INPUTS" \in RegBits
    BY DEF Zone, PortRegs, BitZone, RegBits, Everything
  <2> QED BY <2>1, NamesAre, BitStays
<1>3. "CEN" \in regs'[<<"PWMB", 0>>] <=> "CEN" \in regs[<<"PWMB", 0>>]
  <2>1. Zone(<<"PWMB", 0>>, "CEN") = "QEI" /\ "CEN" \in RegBits
    BY DEF Zone, PortRegs, BitZone, RegBits, Everything
  <2> QED BY <2>1, NamesAre, BitStays
<1> QED BY <1>1, <1>2, <1>3 DEF Works, Has, Lacks, Quasi

LEMMA WdtKeeps ==
  ASSUME line \in Lines, NEW Z, Stays(regs, regs', Z), "WDT" \notin Z, Works("WDT"), role' = role
  PROVE  Works("WDT")'
<1>1. "ON" \in regs'[<<"WDT_CONTR", 0>>] <=> "ON" \in regs[<<"WDT_CONTR", 0>>]
  <2>1. Zone(<<"WDT_CONTR", 0>>, "ON") = "WDT" /\ "ON" \in RegBits
    BY DEF Zone, PortRegs, BitZone, RegBits, Everything
  <2> QED BY <2>1, NamesAre, BitStays
<1> QED BY <1>1 DEF Works, Has, Lacks, Quasi

LEMMA PinKeeps ==
  ASSUME line \in Lines, NEW Z, Stays(regs, regs', Z), "PIN" \notin Z, Works("PIN"), pin' = pin, line' = line
  PROVE  Works("PIN")'
<1>1. \A name \in PortRegs : <<name, line[1]>> \in Names /\ line[2] \in RegBits
        /\ Zone(<<name, line[1]>>, line[2]) = "PIN"
  <2>1. line[1] \in {0, 1, 3} /\ line[2] \in RegBits /\ line = <<line[1], line[2]>>
    BY DEF Lines, RegBits
  <2> QED BY <2>1 DEF Names, PortRegs, Zone, PinZone
<1>2. \A name \in PortRegs : line[2] \in regs'[<<name, line[1]>>] <=> line[2] \in regs[<<name, line[1]>>]
  BY <1>1, BitStays
<1>3. /\ line[2] \in regs'[<<"P", line[1]>>] <=> line[2] \in regs[<<"P", line[1]>>]
      /\ line[2] \in regs'[<<"M0", line[1]>>] <=> line[2] \in regs[<<"M0", line[1]>>]
      /\ line[2] \in regs'[<<"M1", line[1]>>] <=> line[2] \in regs[<<"M1", line[1]>>]
      /\ line[2] \in regs'[<<"PU", line[1]>>] <=> line[2] \in regs[<<"PU", line[1]>>]
      /\ line[2] \in regs'[<<"IE_P", line[1]>>] <=> line[2] \in regs[<<"IE_P", line[1]>>]
  BY <1>2 DEF PortRegs
<1> QED BY <1>3 DEF Works

\* What a call leaves alone of the peripherals that are not its own.
LEMMA OthersKeep ==
  ASSUME line \in Lines, line' = line, role' = role, NEW Z, Stays(regs, regs', Z),
         NEW p \in Peripherals, p \notin Z, Works(p), p = "PIN" => pin' = pin,
         "PIN" \in up => "PIN" \in up', Spares(Z, up')
  PROVE  Works(p)'
<1>1. p = "INT2" => Works("INT2")' BY DEF Works
<1>2. CASE p = "UART1" BY <1>2, Uart1Keeps
<1>3. CASE p = "UART2" BY <1>3, Uart2Keeps
<1>4. CASE p = "UART3" BY <1>4, Uart3Keeps
<1>5. CASE p = "TIMER0" BY <1>5, Timer0Keeps
<1>6. CASE p = "SPI" BY <1>6, SpiKeeps
<1>7. CASE p = "ADC" BY <1>7, AdcKeeps
<1>8. CASE p = "INT0" BY <1>8, Int0Keeps
<1>9. CASE p = "INT1" BY <1>9, Int1Keeps
<1>10. CASE p = "QEI" BY <1>10, QeiKeeps
<1>11. CASE p = "WDT" BY <1>11, WdtKeeps
<1>12. CASE p = "PIN" BY <1>12, PinKeeps
<1> QED BY <1>1, <1>2, <1>3, <1>4, <1>5, <1>6, <1>7, <1>8, <1>9, <1>10, <1>11, <1>12 DEF Peripherals

\* A function that sets p up, or switches it, within zones of its own.
LEMMA OwnCallKeeps ==
  ASSUME RegistersInv, UNCHANGED <<used, role, line, pin>>, regs' \in Files, NEW Z, Stays(regs, regs', Z),
         NEW p \in Peripherals \ {"PIN"}, Z \cap Peripherals \subseteq {p}, Spares(Z, {}),
         up' \subseteq up \cup {p}, "PIN" \in up => "PIN" \in up', p \in up' => Works(p)'
  PROVE  \A q \in up' \cup {"PIN"} : Works(q)'
<1> SUFFICES ASSUME NEW q \in up' \cup {"PIN"} PROVE Works(q)'
  OBVIOUS
<1>1. CASE q = p BY <1>1
<1>2. CASE q # p
  <2>1. q \in Peripherals /\ q \in up \cup {"PIN"} /\ q \notin Z
    BY <1>2 DEF RegistersInv, RegistersTypes, Peripherals
  <2>2. Works(q) /\ line \in Lines /\ line' = line /\ role' = role /\ pin' = pin
    BY <2>1 DEF RegistersInv, RegistersTypes
  <2>3. Spares(Z, up') BY DEF Spares
  <2> QED BY <2>1, <2>2, <2>3, OthersKeep
<1> QED BY <1>1, <1>2

LEMMA SetUpKeeps ==
  ASSUME RegistersInv, NEW p \in Peripherals \ {"PIN"}, UNCHANGED <<used, role, line, pin>>, regs' \in Files,
         NEW Z, Stays(regs, regs', Z), Z \cap Peripherals \subseteq {p}, Spares(Z, {}), "none" \notin Z,
         NEW off, off \subseteq AllEnables, \A b \in AllEnables \ off : Enabler(b) \notin Z, off \cap Enables' = {},
         "ET1" \notin Z \/ "ET1" \notin regs'[<<"IE", 0>>],
         up' = up \cup {p}, on' = on \ off, Works(p)'
  PROVE  RegistersInv'
<1>1. EnableBits' /\ Enables' = Enables \ off
  BY EnablesStay DEF RegistersInv, RegistersTypes
<1>2. \A q \in up' \cup {"PIN"} : Works(q)' BY OwnCallKeeps
<1>3. RegistersTypes' BY DEF RegistersInv, RegistersTypes
<1>4. (role = "delay" => "TR0" \notin on)' /\ (line[1] = 0 => pin.pull = FALSE /\ pin.input = TRUE)'
      /\ (Enables = on)'
  BY <1>1 DEF RegistersInv
<1> QED BY <1>1, <1>2, <1>3, <1>4 DEF RegistersInv

-----------------------------------------------------------------------------
(* Setting up. *)

LEMMA Uart1InitKeeps ==
  ASSUME RegistersInv, SetUp("UART1")
  PROVE  RegistersInv'
<1> DEFINE Z == {"UART1", "ET1", "any", "RXD1"}
           off == {}
<1>1. InitOf("UART1") = uart1_init BY DEF InitOf
<1>2. regs' = After(uart1_init) /\ up' = up \cup {"UART1"} /\ on' = on \ SwitchedOff("UART1")
      /\ UNCHANGED <<used, role, line, pin>>
  BY <1>1 DEF SetUp, fixed
<1>3. regs \in Files /\ line \in Lines /\ on \subseteq AllEnables /\ EnableBits
  BY DEF RegistersInv, RegistersTypes
<1>4. PICK z : z = After(uart1_init) OBVIOUS
<1>5. regs' = z BY <1>2, <1>4
<1>6. /\ regs' \in Files /\ Stays(regs, regs', Z)
      /\ {"MODE", "REN"} \subseteq regs'[<<"SCON", 0>>]
      /\ "TR1" \in regs'[<<"TCON", 0>>]
      /\ "T1_1T" \in regs'[<<"AUXR", 0>>] /\ "S1ST2" \notin regs'[<<"AUXR", 0>>]
      /\ "T1" \notin regs'[<<"TMOD", 0>>]
      /\ "UART1" \notin regs'[<<"P_SW1", 0>>]
      /\ 0 \notin regs'[<<"M0", 3>>] /\ 1 \notin regs'[<<"M0", 3>>]
      /\ 0 \notin regs'[<<"M1", 3>>] /\ 1 \notin regs'[<<"M1", 3>>]
      /\ {0, 1} \subseteq regs'[<<"P", 3>>]
      /\ "ET1" \notin regs'[<<"IE", 0>>]
  BY <1>3, <1>4, <1>5, Uart1InitDoes
<1>7. Works("UART1")'
  BY <1>2, <1>6 DEF Works, Has, Lacks, Quasi, Released, Wired
<1>8. Z \cap Peripherals \subseteq {"UART1"} /\ "none" \notin Z /\ off \subseteq AllEnables
      /\ (\A b \in AllEnables \ off : Enabler(b) \notin Z) /\ Spares(Z, {})
  BY DEF Peripherals, AllEnables, Enabler, Spares, LatchZone, Receivers
<1>9. off \cap Enables' = {} /\ ("ET1" \notin Z \/ "ET1" \notin regs'[<<"IE", 0>>])
  <2>1. "ET1" \notin Z \/ "ET1" \notin regs'[<<"IE", 0>>] BY <1>6
  <2>2. EnableBits' BY <1>3, <1>6, <1>8, <2>1, EnablesStay
  <2> QED BY <1>6, <2>1, <2>2, EnablesHaveNext
<1>10. on' = on \ off BY <1>2, <1>3 DEF SwitchedOff, AllEnables
<1>11. "UART1" \in Peripherals \ {"PIN"} BY DEF Peripherals
<1> HIDE DEF Z, off
<1> QED BY <1>2, <1>6, <1>7, <1>8, <1>9, <1>10, <1>11, SetUpKeeps

LEMMA Uart2InitKeeps ==
  ASSUME RegistersInv, SetUp("UART2")
  PROVE  RegistersInv'
<1> DEFINE Z == {"UART2", "any", "RXD2"}
           off == {}
<1>1. InitOf("UART2") = uart2_init BY DEF InitOf
<1>2. regs' = After(uart2_init) /\ up' = up \cup {"UART2"} /\ on' = on \ SwitchedOff("UART2")
      /\ UNCHANGED <<used, role, line, pin>>
  BY <1>1 DEF SetUp, fixed
<1>3. regs \in Files /\ line \in Lines /\ on \subseteq AllEnables /\ EnableBits
  BY DEF RegistersInv, RegistersTypes
<1>4. PICK z : z = After(uart2_init) OBVIOUS
<1>5. regs' = z BY <1>2, <1>4
<1>6. /\ regs' \in Files /\ Stays(regs, regs', Z)
      /\ "REN" \in regs'[<<"S2CON", 0>>]
      /\ {"T2R", "T2X12"} \subseteq regs'[<<"AUXR", 0>>] /\ "T2_CT" \notin regs'[<<"AUXR", 0>>]
      /\ "UART2" \notin regs'[<<"P_SW2", 0>>]
      /\ 0 \notin regs'[<<"M0", 1>>] /\ 1 \notin regs'[<<"M0", 1>>]
      /\ 0 \notin regs'[<<"M1", 1>>] /\ 1 \notin regs'[<<"M1", 1>>]
      /\ {0, 1} \subseteq regs'[<<"P", 1>>]
  BY <1>3, <1>4, <1>5, Uart2InitDoes
<1>7. Works("UART2")'
  BY <1>2, <1>6 DEF Works, Has, Lacks, Quasi, Released, Wired
<1>8. Z \cap Peripherals \subseteq {"UART2"} /\ "none" \notin Z /\ off \subseteq AllEnables
      /\ (\A b \in AllEnables \ off : Enabler(b) \notin Z) /\ Spares(Z, {})
  BY DEF Peripherals, AllEnables, Enabler, Spares, LatchZone, Receivers
<1>9. off \cap Enables' = {} /\ ("ET1" \notin Z \/ "ET1" \notin regs'[<<"IE", 0>>])
  <2>1. "ET1" \notin Z \/ "ET1" \notin regs'[<<"IE", 0>>] BY <1>6
  <2>2. EnableBits' BY <1>3, <1>6, <1>8, <2>1, EnablesStay
  <2> QED BY <1>6, <2>1, <2>2, EnablesHaveNext
<1>10. on' = on \ off BY <1>2, <1>3 DEF SwitchedOff, AllEnables
<1>11. "UART2" \in Peripherals \ {"PIN"} BY DEF Peripherals
<1> HIDE DEF Z, off
<1> QED BY <1>2, <1>6, <1>7, <1>8, <1>9, <1>10, <1>11, SetUpKeeps

LEMMA Uart3InitKeeps ==
  ASSUME RegistersInv, SetUp("UART3")
  PROVE  RegistersInv'
<1> DEFINE Z == {"UART3", "any", "RXD3"}
           off == {}
<1>1. InitOf("UART3") = uart3_init BY DEF InitOf
<1>2. regs' = After(uart3_init) /\ up' = up \cup {"UART3"} /\ on' = on \ SwitchedOff("UART3")
      /\ UNCHANGED <<used, role, line, pin>>
  BY <1>1 DEF SetUp, fixed
<1>3. regs \in Files /\ line \in Lines /\ on \subseteq AllEnables /\ EnableBits
  BY DEF RegistersInv, RegistersTypes
<1>4. PICK z : z = After(uart3_init) OBVIOUS
<1>5. regs' = z BY <1>2, <1>4
<1>6. /\ regs' \in Files /\ Stays(regs, regs', Z)
      /\ {"ST3", "REN"} \subseteq regs'[<<"S3CON", 0>>]
      /\ {"T3R", "T3X12"} \subseteq regs'[<<"T4T3M", 0>>]
      /\ "UART3" \notin regs'[<<"P_SW2", 0>>]
      /\ 0 \notin regs'[<<"M0", 0>>] /\ 1 \notin regs'[<<"M0", 0>>]
      /\ 0 \notin regs'[<<"M1", 0>>] /\ 1 \notin regs'[<<"M1", 0>>]
      /\ {0, 1} \subseteq regs'[<<"P", 0>>]
  BY <1>3, <1>4, <1>5, Uart3InitDoes
<1>7. Works("UART3")'
  BY <1>2, <1>6 DEF Works, Has, Lacks, Quasi, Released, Wired
<1>8. Z \cap Peripherals \subseteq {"UART3"} /\ "none" \notin Z /\ off \subseteq AllEnables
      /\ (\A b \in AllEnables \ off : Enabler(b) \notin Z) /\ Spares(Z, {})
  BY DEF Peripherals, AllEnables, Enabler, Spares, LatchZone, Receivers
<1>9. off \cap Enables' = {} /\ ("ET1" \notin Z \/ "ET1" \notin regs'[<<"IE", 0>>])
  <2>1. "ET1" \notin Z \/ "ET1" \notin regs'[<<"IE", 0>>] BY <1>6
  <2>2. EnableBits' BY <1>3, <1>6, <1>8, <2>1, EnablesStay
  <2> QED BY <1>6, <2>1, <2>2, EnablesHaveNext
<1>10. on' = on \ off BY <1>2, <1>3 DEF SwitchedOff, AllEnables
<1>11. "UART3" \in Peripherals \ {"PIN"} BY DEF Peripherals
<1> HIDE DEF Z, off
<1> QED BY <1>2, <1>6, <1>7, <1>8, <1>9, <1>10, <1>11, SetUpKeeps

LEMMA Init1msKeeps ==
  ASSUME RegistersInv, SetUp("TIMER0"), role = "1ms"
  PROVE  RegistersInv'
<1> DEFINE Z == {"TIMER0", "ET0", "TR0"}
           off == {"TR0", "ET0"}
<1>1. InitOf("TIMER0") = init_1ms BY DEF InitOf
<1>2. regs' = After(init_1ms) /\ up' = up \cup {"TIMER0"} /\ on' = on \ SwitchedOff("TIMER0")
      /\ UNCHANGED <<used, role, line, pin>>
  BY <1>1 DEF SetUp, fixed
<1>3. regs \in Files /\ line \in Lines /\ on \subseteq AllEnables /\ EnableBits
  BY DEF RegistersInv, RegistersTypes
<1>4. PICK z : z = After(init_1ms) OBVIOUS
<1>5. regs' = z BY <1>2, <1>4
<1>6. /\ regs' \in Files /\ Stays(regs, regs', Z)
      /\ "T0" \notin regs'[<<"TMOD", 0>>]
      /\ "T0_1T" \notin regs'[<<"AUXR", 0>>]
      /\ "TR0" \notin regs'[<<"TCON", 0>>]
      /\ "ET0" \notin regs'[<<"IE", 0>>]
  BY <1>3, <1>4, <1>5, Init1msDoes
<1>7. Works("TIMER0")' BY <1>2, <1>6 DEF Works, Has, Lacks, Quasi
<1>8. Z \cap Peripherals \subseteq {"TIMER0"} /\ "none" \notin Z /\ off \subseteq AllEnables
      /\ (\A b \in AllEnables \ off : Enabler(b) \notin Z) /\ Spares(Z, {})
  BY DEF Peripherals, AllEnables, Enabler, Spares, LatchZone, Receivers
<1>9. off \cap Enables' = {} /\ ("ET1" \notin Z \/ "ET1" \notin regs'[<<"IE", 0>>])
  <2>1. "ET1" \notin Z \/ "ET1" \notin regs'[<<"IE", 0>>] BY <1>6
  <2>2. EnableBits' BY <1>3, <1>6, <1>8, <2>1, EnablesStay
  <2> QED BY <1>6, <2>1, <2>2, EnablesHaveNext
<1>10. on' = on \ off BY <1>2, <1>3 DEF SwitchedOff, AllEnables
<1>11. "TIMER0" \in Peripherals \ {"PIN"} BY DEF Peripherals
<1> HIDE DEF Z, off
<1> QED BY <1>2, <1>6, <1>7, <1>8, <1>9, <1>10, <1>11, SetUpKeeps

LEMMA InitFreeRun12tKeeps ==
  ASSUME RegistersInv, SetUp("TIMER0"), role = "free"
  PROVE  RegistersInv'
<1> DEFINE Z == {"TIMER0", "ET0", "TR0"}
           off == {"TR0", "ET0"}
<1>1. InitOf("TIMER0") = init_free_run_12t BY DEF InitOf
<1>2. regs' = After(init_free_run_12t) /\ up' = up \cup {"TIMER0"} /\ on' = on \ SwitchedOff("TIMER0")
      /\ UNCHANGED <<used, role, line, pin>>
  BY <1>1 DEF SetUp, fixed
<1>3. regs \in Files /\ line \in Lines /\ on \subseteq AllEnables /\ EnableBits
  BY DEF RegistersInv, RegistersTypes
<1>4. PICK z : z = After(init_free_run_12t) OBVIOUS
<1>5. regs' = z BY <1>2, <1>4
<1>6. /\ regs' \in Files /\ Stays(regs, regs', Z)
      /\ "T0" \in regs'[<<"TMOD", 0>>]
      /\ "T0_1T" \notin regs'[<<"AUXR", 0>>]
      /\ "TR0" \notin regs'[<<"TCON", 0>>]
      /\ "ET0" \notin regs'[<<"IE", 0>>]
  BY <1>3, <1>4, <1>5, InitFreeRun12tDoes
<1>7. Works("TIMER0")' BY <1>2, <1>6 DEF Works, Has, Lacks, Quasi
<1>8. Z \cap Peripherals \subseteq {"TIMER0"} /\ "none" \notin Z /\ off \subseteq AllEnables
      /\ (\A b \in AllEnables \ off : Enabler(b) \notin Z) /\ Spares(Z, {})
  BY DEF Peripherals, AllEnables, Enabler, Spares, LatchZone, Receivers
<1>9. off \cap Enables' = {} /\ ("ET1" \notin Z \/ "ET1" \notin regs'[<<"IE", 0>>])
  <2>1. "ET1" \notin Z \/ "ET1" \notin regs'[<<"IE", 0>>] BY <1>6
  <2>2. EnableBits' BY <1>3, <1>6, <1>8, <2>1, EnablesStay
  <2> QED BY <1>6, <2>1, <2>2, EnablesHaveNext
<1>10. on' = on \ off BY <1>2, <1>3 DEF SwitchedOff, AllEnables
<1>11. "TIMER0" \in Peripherals \ {"PIN"} BY DEF Peripherals
<1> HIDE DEF Z, off
<1> QED BY <1>2, <1>6, <1>7, <1>8, <1>9, <1>10, <1>11, SetUpKeeps

LEMMA DelayTimer01tInitKeeps ==
  ASSUME RegistersInv, SetUp("TIMER0"), role = "delay"
  PROVE  RegistersInv'
<1> DEFINE Z == {"TIMER0", "ET0", "TR0"}
           off == {"TR0", "ET0"}
<1>1. InitOf("TIMER0") = delay_timer0_1t_init BY DEF InitOf
<1>2. regs' = After(delay_timer0_1t_init) /\ up' = up \cup {"TIMER0"} /\ on' = on \ SwitchedOff("TIMER0")
      /\ UNCHANGED <<used, role, line, pin>>
  BY <1>1 DEF SetUp, fixed
<1>3. regs \in Files /\ line \in Lines /\ on \subseteq AllEnables /\ EnableBits
  BY DEF RegistersInv, RegistersTypes
<1>4. PICK z : z = After(delay_timer0_1t_init) OBVIOUS
<1>5. regs' = z BY <1>2, <1>4
<1>6. /\ regs' \in Files /\ Stays(regs, regs', Z)
      /\ "T0" \in regs'[<<"TMOD", 0>>]
      /\ "T0_1T" \in regs'[<<"AUXR", 0>>]
      /\ "TR0" \notin regs'[<<"TCON", 0>>]
      /\ "ET0" \notin regs'[<<"IE", 0>>]
  BY <1>3, <1>4, <1>5, DelayTimer01tInitDoes
<1>7. Works("TIMER0")' BY <1>2, <1>6 DEF Works, Has, Lacks, Quasi
<1>8. Z \cap Peripherals \subseteq {"TIMER0"} /\ "none" \notin Z /\ off \subseteq AllEnables
      /\ (\A b \in AllEnables \ off : Enabler(b) \notin Z) /\ Spares(Z, {})
  BY DEF Peripherals, AllEnables, Enabler, Spares, LatchZone, Receivers
<1>9. off \cap Enables' = {} /\ ("ET1" \notin Z \/ "ET1" \notin regs'[<<"IE", 0>>])
  <2>1. "ET1" \notin Z \/ "ET1" \notin regs'[<<"IE", 0>>] BY <1>6
  <2>2. EnableBits' BY <1>3, <1>6, <1>8, <2>1, EnablesStay
  <2> QED BY <1>6, <2>1, <2>2, EnablesHaveNext
<1>10. on' = on \ off BY <1>2, <1>3 DEF SwitchedOff, AllEnables
<1>11. "TIMER0" \in Peripherals \ {"PIN"} BY DEF Peripherals
<1> HIDE DEF Z, off
<1> QED BY <1>2, <1>6, <1>7, <1>8, <1>9, <1>10, <1>11, SetUpKeeps

LEMMA SpiInitKeeps ==
  ASSUME RegistersInv, SetUp("SPI")
  PROVE  RegistersInv'
<1> DEFINE Z == {"SPI", "any", "MISO"}
           off == {}
<1>1. InitOf("SPI") = spi_init BY DEF InitOf
<1>2. regs' = After(spi_init) /\ up' = up \cup {"SPI"} /\ on' = on \ SwitchedOff("SPI")
      /\ UNCHANGED <<used, role, line, pin>>
  BY <1>1 DEF SetUp, fixed
<1>3. regs \in Files /\ line \in Lines /\ on \subseteq AllEnables /\ EnableBits
  BY DEF RegistersInv, RegistersTypes
<1>4. PICK z : z = After(spi_init) OBVIOUS
<1>5. regs' = z BY <1>2, <1>4
<1>6. /\ regs' \in Files /\ Stays(regs, regs', Z)
      /\ "ON" \in regs'[<<"SPCTL", 0>>]
      /\ "SPI" \notin regs'[<<"P_SW1", 0>>]
      /\ 3 .. 5 \cap regs'[<<"M0", 1>>] = {}
      /\ 3 .. 5 \cap regs'[<<"M1", 1>>] = {}
      /\ 4 \in regs'[<<"P", 1>>] /\ 4 \in regs'[<<"IE_P", 1>>]
  BY <1>3, <1>4, <1>5, SpiInitDoes
<1>7. Works("SPI")' BY <1>2, <1>6 DEF Works, Has, Lacks, Quasi, Released, Wired
<1>8. Z \cap Peripherals \subseteq {"SPI"} /\ "none" \notin Z /\ off \subseteq AllEnables
      /\ (\A b \in AllEnables \ off : Enabler(b) \notin Z) /\ Spares(Z, {})
  BY DEF Peripherals, AllEnables, Enabler, Spares, LatchZone, Receivers
<1>9. off \cap Enables' = {} /\ ("ET1" \notin Z \/ "ET1" \notin regs'[<<"IE", 0>>])
  <2>1. "ET1" \notin Z \/ "ET1" \notin regs'[<<"IE", 0>>] BY <1>6
  <2>2. EnableBits' BY <1>3, <1>6, <1>8, <2>1, EnablesStay
  <2> QED BY <1>6, <2>1, <2>2, EnablesHaveNext
<1>10. on' = on \ off BY <1>2, <1>3 DEF SwitchedOff, AllEnables
<1>11. "SPI" \in Peripherals \ {"PIN"} BY DEF Peripherals
<1> HIDE DEF Z, off
<1> QED BY <1>2, <1>6, <1>7, <1>8, <1>9, <1>10, <1>11, SetUpKeeps

LEMMA AdcInitKeeps ==
  ASSUME RegistersInv, SetUp("ADC")
  PROVE  RegistersInv'
<1> DEFINE Z == {"ADC", "any"}
           off == {}
<1>1. InitOf("ADC") = adc_init BY DEF InitOf
<1>2. regs' = After(adc_init) /\ up' = up \cup {"ADC"} /\ on' = on \ SwitchedOff("ADC")
      /\ UNCHANGED <<used, role, line, pin>>
  BY <1>1 DEF SetUp, fixed
<1>3. regs \in Files /\ line \in Lines /\ on \subseteq AllEnables /\ EnableBits
  BY DEF RegistersInv, RegistersTypes
<1>4. PICK z : z = After(adc_init) OBVIOUS
<1>5. regs' = z BY <1>2, <1>4
<1>6. /\ regs' \in Files /\ Stays(regs, regs', Z)
      /\ "SLOW" \in regs'[<<"ADCTIM", 0>>]
      /\ "ON" \in regs'[<<"ADC_CONTR", 0>>]
  BY <1>3, <1>4, <1>5, AdcInitDoes
<1>7. Works("ADC")' BY <1>2, <1>6 DEF Works, Has, Lacks, Quasi
<1>8. Z \cap Peripherals \subseteq {"ADC"} /\ "none" \notin Z /\ off \subseteq AllEnables
      /\ (\A b \in AllEnables \ off : Enabler(b) \notin Z) /\ Spares(Z, {})
  BY DEF Peripherals, AllEnables, Enabler, Spares, LatchZone, Receivers
<1>9. off \cap Enables' = {} /\ ("ET1" \notin Z \/ "ET1" \notin regs'[<<"IE", 0>>])
  <2>1. "ET1" \notin Z \/ "ET1" \notin regs'[<<"IE", 0>>] BY <1>6
  <2>2. EnableBits' BY <1>3, <1>6, <1>8, <2>1, EnablesStay
  <2> QED BY <1>6, <2>1, <2>2, EnablesHaveNext
<1>10. on' = on \ off BY <1>2, <1>3 DEF SwitchedOff, AllEnables
<1>11. "ADC" \in Peripherals \ {"PIN"} BY DEF Peripherals
<1> HIDE DEF Z, off
<1> QED BY <1>2, <1>6, <1>7, <1>8, <1>9, <1>10, <1>11, SetUpKeeps

LEMMA QeiInitKeeps ==
  ASSUME RegistersInv, SetUp("QEI")
  PROVE  RegistersInv'
<1> DEFINE Z == {"QEI", "any"}
           off == {}
<1>1. InitOf("QEI") = qei_init BY DEF InitOf
<1>2. regs' = After(qei_init) /\ up' = up \cup {"QEI"} /\ on' = on \ SwitchedOff("QEI")
      /\ UNCHANGED <<used, role, line, pin>>
  BY <1>1 DEF SetUp, fixed
<1>3. regs \in Files /\ line \in Lines /\ on \subseteq AllEnables /\ EnableBits
  BY DEF RegistersInv, RegistersTypes
<1>4. PICK z : z = After(qei_init) OBVIOUS
<1>5. regs' = z BY <1>2, <1>4
<1>6. /\ regs' \in Files /\ Stays(regs, regs', Z)
      /\ {"MODE", "INPUTS", "CEN"} \subseteq regs'[<<"PWMB", 0>>]
  BY <1>3, <1>4, <1>5, QeiInitDoes
<1>7. Works("QEI")' BY <1>2, <1>6 DEF Works, Has, Lacks, Quasi
<1>8. Z \cap Peripherals \subseteq {"QEI"} /\ "none" \notin Z /\ off \subseteq AllEnables
      /\ (\A b \in AllEnables \ off : Enabler(b) \notin Z) /\ Spares(Z, {})
  BY DEF Peripherals, AllEnables, Enabler, Spares, LatchZone, Receivers
<1>9. off \cap Enables' = {} /\ ("ET1" \notin Z \/ "ET1" \notin regs'[<<"IE", 0>>])
  <2>1. "ET1" \notin Z \/ "ET1" \notin regs'[<<"IE", 0>>] BY <1>6
  <2>2. EnableBits' BY <1>3, <1>6, <1>8, <2>1, EnablesStay
  <2> QED BY <1>6, <2>1, <2>2, EnablesHaveNext
<1>10. on' = on \ off BY <1>2, <1>3 DEF SwitchedOff, AllEnables
<1>11. "QEI" \in Peripherals \ {"PIN"} BY DEF Peripherals
<1> HIDE DEF Z, off
<1> QED BY <1>2, <1>6, <1>7, <1>8, <1>9, <1>10, <1>11, SetUpKeeps

LEMMA WdtEnableKeeps ==
  ASSUME RegistersInv, SetUp("WDT")
  PROVE  RegistersInv'
<1> DEFINE Z == {"WDT"}
           off == {}
<1>1. InitOf("WDT") = wdt_enable BY DEF InitOf
<1>2. regs' = After(wdt_enable) /\ up' = up \cup {"WDT"} /\ on' = on \ SwitchedOff("WDT")
      /\ UNCHANGED <<used, role, line, pin>>
  BY <1>1 DEF SetUp, fixed
<1>3. regs \in Files /\ line \in Lines /\ on \subseteq AllEnables /\ EnableBits
  BY DEF RegistersInv, RegistersTypes
<1>4. PICK z : z = After(wdt_enable) OBVIOUS
<1>5. regs' = z BY <1>2, <1>4
<1>6. /\ regs' \in Files /\ Stays(regs, regs', Z)
      /\ "ON" \in regs'[<<"WDT_CONTR", 0>>]
  BY <1>3, <1>4, <1>5, WdtEnableDoes
<1>7. Works("WDT")' BY <1>2, <1>6 DEF Works, Has, Lacks, Quasi
<1>8. Z \cap Peripherals \subseteq {"WDT"} /\ "none" \notin Z /\ off \subseteq AllEnables
      /\ (\A b \in AllEnables \ off : Enabler(b) \notin Z) /\ Spares(Z, {})
  BY DEF Peripherals, AllEnables, Enabler, Spares, LatchZone, Receivers
<1>9. off \cap Enables' = {} /\ ("ET1" \notin Z \/ "ET1" \notin regs'[<<"IE", 0>>])
  <2>1. "ET1" \notin Z \/ "ET1" \notin regs'[<<"IE", 0>>] BY <1>6
  <2>2. EnableBits' BY <1>3, <1>6, <1>8, <2>1, EnablesStay
  <2> QED BY <1>6, <2>1, <2>2, EnablesHaveNext
<1>10. on' = on \ off BY <1>2, <1>3 DEF SwitchedOff, AllEnables
<1>11. "WDT" \in Peripherals \ {"PIN"} BY DEF Peripherals
<1> HIDE DEF Z, off
<1> QED BY <1>2, <1>6, <1>7, <1>8, <1>9, <1>10, <1>11, SetUpKeeps

LEMMA Exti0Keeps ==
  ASSUME RegistersInv, SetUp("INT0")
  PROVE  RegistersInv'
<1> DEFINE Z == {"INT0", "EX0"}
           off == {"INT0"}
<1>1. InitOf("INT0") = exti_configure("INT0", TRUE) BY DEF InitOf
<1>2. regs' = After(exti_configure("INT0", TRUE)) /\ up' = up \cup {"INT0"} /\ on' = on \ SwitchedOff("INT0")
      /\ UNCHANGED <<used, role, line, pin>>
  BY <1>1 DEF SetUp, fixed
<1>3. regs \in Files /\ line \in Lines /\ on \subseteq AllEnables /\ EnableBits
  BY DEF RegistersInv, RegistersTypes
<1>4. PICK z : z = After(exti_configure("INT0", TRUE)) OBVIOUS
<1>5. regs' = z BY <1>2, <1>4
<1>6. /\ regs' \in Files /\ Stays(regs, regs', Z)
      /\ "INT0" \in regs'[<<"TCON", 0>>]
      /\ "INT0" \notin regs'[<<"IE", 0>>]
  BY <1>3, <1>4, <1>5, Exti0Does
<1>7. Works("INT0")' BY <1>2, <1>6 DEF Works, Has, Lacks, Quasi
<1>8. Z \cap Peripherals \subseteq {"INT0"} /\ "none" \notin Z /\ off \subseteq AllEnables
      /\ (\A b \in AllEnables \ off : Enabler(b) \notin Z) /\ Spares(Z, {})
  BY DEF Peripherals, AllEnables, Enabler, Spares, LatchZone, Receivers
<1>9. off \cap Enables' = {} /\ ("ET1" \notin Z \/ "ET1" \notin regs'[<<"IE", 0>>])
  <2>1. "ET1" \notin Z \/ "ET1" \notin regs'[<<"IE", 0>>] BY <1>6
  <2>2. EnableBits' BY <1>3, <1>6, <1>8, <2>1, EnablesStay
  <2> QED BY <1>6, <2>1, <2>2, EnablesHaveNext
<1>10. on' = on \ off BY <1>2, <1>3 DEF SwitchedOff, AllEnables
<1>11. "INT0" \in Peripherals \ {"PIN"} BY DEF Peripherals
<1> HIDE DEF Z, off
<1> QED BY <1>2, <1>6, <1>7, <1>8, <1>9, <1>10, <1>11, SetUpKeeps

LEMMA Exti1Keeps ==
  ASSUME RegistersInv, SetUp("INT1")
  PROVE  RegistersInv'
<1> DEFINE Z == {"INT1", "EX1"}
           off == {"INT1"}
<1>1. InitOf("INT1") = exti_configure("INT1", FALSE) BY DEF InitOf
<1>2. regs' = After(exti_configure("INT1", FALSE)) /\ up' = up \cup {"INT1"} /\ on' = on \ SwitchedOff("INT1")
      /\ UNCHANGED <<used, role, line, pin>>
  BY <1>1 DEF SetUp, fixed
<1>3. regs \in Files /\ line \in Lines /\ on \subseteq AllEnables /\ EnableBits
  BY DEF RegistersInv, RegistersTypes
<1>4. PICK z : z = After(exti_configure("INT1", FALSE)) OBVIOUS
<1>5. regs' = z BY <1>2, <1>4
<1>6. /\ regs' \in Files /\ Stays(regs, regs', Z)
      /\ "INT1" \notin regs'[<<"TCON", 0>>]
      /\ "INT1" \notin regs'[<<"IE", 0>>]
  BY <1>3, <1>4, <1>5, Exti1Does
<1>7. Works("INT1")' BY <1>2, <1>6 DEF Works, Has, Lacks, Quasi
<1>8. Z \cap Peripherals \subseteq {"INT1"} /\ "none" \notin Z /\ off \subseteq AllEnables
      /\ (\A b \in AllEnables \ off : Enabler(b) \notin Z) /\ Spares(Z, {})
  BY DEF Peripherals, AllEnables, Enabler, Spares, LatchZone, Receivers
<1>9. off \cap Enables' = {} /\ ("ET1" \notin Z \/ "ET1" \notin regs'[<<"IE", 0>>])
  <2>1. "ET1" \notin Z \/ "ET1" \notin regs'[<<"IE", 0>>] BY <1>6
  <2>2. EnableBits' BY <1>3, <1>6, <1>8, <2>1, EnablesStay
  <2> QED BY <1>6, <2>1, <2>2, EnablesHaveNext
<1>10. on' = on \ off BY <1>2, <1>3 DEF SwitchedOff, AllEnables
<1>11. "INT1" \in Peripherals \ {"PIN"} BY DEF Peripherals
<1> HIDE DEF Z, off
<1> QED BY <1>2, <1>6, <1>7, <1>8, <1>9, <1>10, <1>11, SetUpKeeps

LEMMA Exti2Keeps ==
  ASSUME RegistersInv, SetUp("INT2")
  PROVE  RegistersInv'
<1> DEFINE Z == {"INT2", "EX2"}
           off == {"INT2"}
<1>1. InitOf("INT2") = exti_configure("INT2", TRUE) BY DEF InitOf
<1>2. regs' = After(exti_configure("INT2", TRUE)) /\ up' = up \cup {"INT2"} /\ on' = on \ SwitchedOff("INT2")
      /\ UNCHANGED <<used, role, line, pin>>
  BY <1>1 DEF SetUp, fixed
<1>3. regs \in Files /\ line \in Lines /\ on \subseteq AllEnables /\ EnableBits
  BY DEF RegistersInv, RegistersTypes
<1>4. PICK z : z = After(exti_configure("INT2", TRUE)) OBVIOUS
<1>5. regs' = z BY <1>2, <1>4
<1>6. /\ regs' \in Files /\ Stays(regs, regs', Z)
      /\ "INT2" \notin regs'[<<"INTCLKO", 0>>]
  BY <1>3, <1>4, <1>5, Exti2Does
<1>7. Works("INT2")' BY <1>2, <1>6 DEF Works, Has, Lacks, Quasi
<1>8. Z \cap Peripherals \subseteq {"INT2"} /\ "none" \notin Z /\ off \subseteq AllEnables
      /\ (\A b \in AllEnables \ off : Enabler(b) \notin Z) /\ Spares(Z, {})
  BY DEF Peripherals, AllEnables, Enabler, Spares, LatchZone, Receivers
<1>9. off \cap Enables' = {} /\ ("ET1" \notin Z \/ "ET1" \notin regs'[<<"IE", 0>>])
  <2>1. "ET1" \notin Z \/ "ET1" \notin regs'[<<"IE", 0>>] BY <1>6
  <2>2. EnableBits' BY <1>3, <1>6, <1>8, <2>1, EnablesStay
  <2> QED BY <1>6, <2>1, <2>2, EnablesHaveNext
<1>10. on' = on \ off BY <1>2, <1>3 DEF SwitchedOff, AllEnables
<1>11. "INT2" \in Peripherals \ {"PIN"} BY DEF Peripherals
<1> HIDE DEF Z, off
<1> QED BY <1>2, <1>6, <1>7, <1>8, <1>9, <1>10, <1>11, SetUpKeeps

-----------------------------------------------------------------------------
(* Switching. *)

\* The last access of a function.
LEMMA LastAccess ==
  ASSUME NEW r \in Files, NEW Z, NEW p \in Seq(Within(Z)), NEW name, NEW port, <<name, port>> \in Names,
         NEW clear, NEW put, \A b \in clear \cup put : b \in RegBits /\ Zone(<<name, port>>, b) \in Z,
         NEW z, Does(r, p \o Port(name, port, clear, put), z)
  PROVE  /\ p \o Port(name, port, clear, put) \in Seq(Within(Z)) /\ z \in Files /\ Stays(r, z, Z)
         /\ \E m \in Files : /\ Does(r, p, m)
                             /\ (name \in Extended => "EAXFR" \in m[<<"P_SW2", 0>>])
                                  => Stepped(m, z, <<name, port>>, clear, put)
<1> DEFINE a == Port(name, port, clear, put)
<1>1. a \in Seq(Within(Z)) BY PortWithin
<1>2. p \o a \in Seq(Within(Z))
  <2> HIDE DEF a
  <2> QED BY <1>1
<1>3. z \in Files /\ Stays(r, z, Z)
  <2> HIDE DEF a
  <2>1. Does(r, p \o a, z) BY DEF a
  <2> QED BY <1>2, <2>1, DoesStays
<1>4. PICK m : Does(r, p, m) /\ Does(m, a, z)
  <2> HIDE DEF a
  <2>1. Does(r, p \o a, z) BY DEF a
  <2> QED BY <1>1, <2>1, DoesJoin
<1>5. m \in Files BY <1>4, DoesStays
<1>6. (name \in Extended => "EAXFR" \in m[<<"P_SW2", 0>>]) => Stepped(m, z, <<name, port>>, clear, put)
  BY <1>4, <1>5, DoesPort
<1> QED BY <1>2, <1>3, <1>4, <1>5, <1>6

\* A function of one access.
LEMMA OneAccess ==
  ASSUME regs \in Files, NEW Z, NEW name, NEW port, <<name, port>> \in Names, NEW clear, NEW put,
         \A b \in clear \cup put : b \in RegBits /\ Zone(<<name, port>>, b) \in Z, name \notin Extended,
         NEW z, z = After(Port(name, port, clear, put))
  PROVE  z \in Files /\ Stays(regs, z, Z) /\ Stepped(regs, z, <<name, port>>, clear, put)
<1> DEFINE a == Port(name, port, clear, put)
<1>1. a \in Seq(Within(Z)) BY PortWithin
<1>2. Does(regs, a, z)
  <2> HIDE DEF a
  <2>1. z = After(a) BY DEF a
  <2> QED BY <1>1, <2>1, AfterDoes
<1>3. z \in Files /\ Stays(regs, z, Z)
  <2> HIDE DEF a
  <2> QED BY <1>1, <1>2, DoesStays
<1>4. Stepped(regs, z, <<name, port>>, clear, put) BY <1>2, DoesPort
<1> QED BY <1>3, <1>4

\* A function of two accesses.
LEMMA TwoAccesses ==
  ASSUME regs \in Files, NEW Z, NEW name, NEW port, <<name, port>> \in Names, NEW clear, NEW put,
         \A b \in clear \cup put : b \in RegBits /\ Zone(<<name, port>>, b) \in Z, name \notin Extended,
         NEW name2, NEW port2, <<name2, port2>> \in Names, NEW clear2, NEW put2,
         \A b \in clear2 \cup put2 : b \in RegBits /\ Zone(<<name2, port2>>, b) \in Z,
         NEW z, z = After(Port(name, port, clear, put) \o Port(name2, port2, clear2, put2))
  PROVE  /\ z \in Files /\ Stays(regs, z, Z)
         /\ \E m \in Files : /\ Stepped(regs, m, <<name, port>>, clear, put)
                             /\ (name2 \in Extended => "EAXFR" \in m[<<"P_SW2", 0>>])
                                  => Stepped(m, z, <<name2, port2>>, clear2, put2)
<1> DEFINE a == Port(name, port, clear, put)
           b == Port(name2, port2, clear2, put2)
<1>1. a \in Seq(Within(Z)) /\ b \in Seq(Within(Z))
  <2>1. a \in Seq(Within(Z)) BY PortWithin
  <2>2. b \in Seq(Within(Z)) BY PortWithin
  <2> QED BY <2>1, <2>2
<1>2. Does(regs, a \o b, z)
  <2> HIDE DEF a, b
  <2>1. z = After(a \o b) BY DEF a, b
  <2>2. a \o b \in Seq(Within(Z)) BY <1>1
  <2> QED BY <2>1, <2>2, AfterDoes
<1>3. /\ z \in Files /\ Stays(regs, z, Z)
      /\ \E m \in Files : /\ Does(regs, a, m)
                          /\ (name2 \in Extended => "EAXFR" \in m[<<"P_SW2", 0>>])
                               => Stepped(m, z, <<name2, port2>>, clear2, put2)
  <2> HIDE DEF a
  <2>1. Does(regs, a \o Port(name2, port2, clear2, put2), z) BY <1>2 DEF b
  <2> QED BY <1>1, <2>1, LastAccess
<1>4. PICK m \in Files : /\ Does(regs, a, m)
                         /\ (name2 \in Extended => "EAXFR" \in m[<<"P_SW2", 0>>])
                              => Stepped(m, z, <<name2, port2>>, clear2, put2)
  BY <1>3
<1>5. Stepped(regs, m, <<name, port>>, clear, put) BY <1>4, DoesPort
<1> QED BY <1>3, <1>4, <1>5

LEMMA SwitchKeeps ==
  ASSUME RegistersInv, UNCHANGED <<used, role, line, up, pin>>, regs' \in Files, NEW Z, Stays(regs, regs', Z),
         Z \cap Peripherals = {}, Spares(Z, {})
  PROVE  \A q \in up' \cup {"PIN"} : Works(q)'
<1> SUFFICES ASSUME NEW q \in up' \cup {"PIN"} PROVE Works(q)'
  OBVIOUS
<1>1. q \in Peripherals /\ q \in up \cup {"PIN"} /\ q \notin Z
  BY DEF RegistersInv, RegistersTypes, Peripherals
<1>2. Works(q) /\ line \in Lines /\ line' = line /\ role' = role /\ pin' = pin
  BY <1>1 DEF RegistersInv, RegistersTypes
<1>3. Spares(Z, up') BY DEF Spares
<1> QED BY <1>1, <1>2, <1>3, OthersKeep

\* Where an given bit is.
EnableAt(name, b) == <<name, b>> \in {<<"IE", "ES">>, <<"IE", "ET0">>, <<"IE", "INT0">>, <<"IE", "INT1">>,
                                <<"IE2", "ES2">>, <<"IE2", "ES3">>, <<"TCON", "TR0">>, <<"INTCLKO", "INT2">>}

LEMMA AtZone ==
  ASSUME NEW name, NEW b, EnableAt(name, b)
  PROVE  /\ <<name, 0>> \in Names /\ name \notin Extended /\ b \in RegBits /\ b \in AllEnables
         /\ Zone(<<name, 0>>, b) \notin Peripherals /\ Zone(<<name, 0>>, b) = Enabler(b)
<1>1. name \in {"IE", "IE2", "TCON", "INTCLKO"} /\ b \in AllEnables
  BY DEF EnableAt, AllEnables
<1>2. Zone(<<name, 0>>, b) = Enabler(b) BY EnableZones DEF EnableAt, Enabler
<1>3. Enabler(b) \notin Peripherals /\ b \in RegBits
  BY <1>1 DEF Enabler, AllEnables, Peripherals, RegBits
<1> QED BY <1>1, <1>2, <1>3, NamesAre DEF Extended

LEMMA AtNoLatch ==
  ASSUME NEW name, NEW b, EnableAt(name, b), NEW p \in Receivers
  PROVE  LatchZone(p) # Zone(<<name, 0>>, b)
<1>1. b \in AllEnables /\ Zone(<<name, 0>>, b) = Enabler(b)
  BY EnableZones DEF EnableAt, Enabler, AllEnables
<1>2. LatchZone(p) \in {"RXD1", "RXD2", "RXD3", "MISO"} BY DEF LatchZone
<1> QED BY <1>1, <1>2 DEF Enabler, AllEnables

LEMMA EnableOne ==
  ASSUME EnableBits, NEW name, NEW b, EnableAt(name, b), NEW clear, NEW put,
         (clear = {} /\ put = {b}) \/ (clear = {b} /\ put = {}), Stepped(regs, regs', <<name, 0>>, clear, put)
  PROVE  EnableBits' /\ Enables' = (Enables \ clear) \cup put
<1>1. CASE name = "IE"
  <2>1. b \in {"ES", "ET0", "INT0", "INT1"} BY <1>1 DEF EnableAt
  <2>2. regs'[<<"IE", 0>>] = (regs[<<"IE", 0>>] \ clear) \cup put
    BY <1>1 DEF Stepped
  <2>3. regs'[<<"IE2", 0>>] = regs[<<"IE2", 0>>] /\ regs'[<<"TCON", 0>>] = regs[<<"TCON", 0>>]
        /\ regs'[<<"INTCLKO", 0>>] = regs[<<"INTCLKO", 0>>]
    BY <1>1, NamesAre DEF Stepped
  <2> QED BY <2>1, <2>2, <2>3 DEF EnableBits, Enables
<1>2. CASE name = "IE2"
  <2>1. b \in {"ES2", "ES3"} BY <1>2 DEF EnableAt
  <2>2. regs'[<<"IE2", 0>>] = (regs[<<"IE2", 0>>] \ clear) \cup put
    BY <1>2 DEF Stepped
  <2>3. regs'[<<"IE", 0>>] = regs[<<"IE", 0>>] /\ regs'[<<"TCON", 0>>] = regs[<<"TCON", 0>>]
        /\ regs'[<<"INTCLKO", 0>>] = regs[<<"INTCLKO", 0>>]
    BY <1>2, NamesAre DEF Stepped
  <2> QED BY <2>1, <2>2, <2>3 DEF EnableBits, Enables
<1>3. CASE name = "TCON"
  <2>1. b = "TR0" BY <1>3 DEF EnableAt
  <2>2. regs'[<<"TCON", 0>>] = (regs[<<"TCON", 0>>] \ clear) \cup put
    BY <1>3 DEF Stepped
  <2>3. regs'[<<"IE", 0>>] = regs[<<"IE", 0>>] /\ regs'[<<"IE2", 0>>] = regs[<<"IE2", 0>>]
        /\ regs'[<<"INTCLKO", 0>>] = regs[<<"INTCLKO", 0>>]
    BY <1>3, NamesAre DEF Stepped
  <2> QED BY <2>1, <2>2, <2>3 DEF EnableBits, Enables
<1>4. CASE name = "INTCLKO"
  <2>1. b = "INT2" BY <1>4 DEF EnableAt
  <2>2. regs'[<<"INTCLKO", 0>>] = (regs[<<"INTCLKO", 0>>] \ clear) \cup put
    BY <1>4 DEF Stepped
  <2>3. regs'[<<"IE", 0>>] = regs[<<"IE", 0>>] /\ regs'[<<"IE2", 0>>] = regs[<<"IE2", 0>>]
        /\ regs'[<<"TCON", 0>>] = regs[<<"TCON", 0>>]
    BY <1>4, NamesAre DEF Stepped
  <2> QED BY <2>1, <2>2, <2>3 DEF EnableBits, Enables
<1> QED BY <1>1, <1>2, <1>3, <1>4 DEF EnableAt

\* One given bit is set or cleared.
LEMMA EnableKeeps ==
  ASSUME RegistersInv, NEW name, NEW b, EnableAt(name, b), NEW clear, NEW put,
         \/ clear = {} /\ put = {b} /\ on' = on \cup {b} /\ (b = "TR0" => role # "delay")
         \/ clear = {b} /\ put = {} /\ on' = on \ {b},
         regs' = After(Merge(name, clear, put)), UNCHANGED <<used, role, line, up, pin>>
  PROVE  RegistersInv'
<1> DEFINE Z == {Zone(<<name, 0>>, b)}
<1>0. clear \cup put = {b} /\ on' = (on \ clear) \cup put /\ ("TR0" \in put => role # "delay")
  OBVIOUS
<1>1. <<name, 0>> \in Names /\ name \notin Extended /\ b \in RegBits /\ b \in AllEnables
      /\ Z \cap Peripherals = {}
  BY AtZone
<1>2. \A c \in clear \cup put : c \in RegBits /\ Zone(<<name, 0>>, c) \in Z
  BY <1>0, <1>1
<1>3. PICK z : z = After(Port(name, 0, clear, put)) OBVIOUS
<1>4. regs' = z BY <1>3 DEF Merge
<1>5. z \in Files /\ Stays(regs, z, Z) /\ Stepped(regs, z, <<name, 0>>, clear, put)
  <2>1. regs \in Files BY DEF RegistersInv, RegistersTypes
  <2> HIDE DEF Z
  <2> QED BY <1>1, <1>2, <1>3, <2>1, OneAccess
<1>6. regs' \in Files /\ Stays(regs, regs', Z) /\ Stepped(regs, regs', <<name, 0>>, clear, put)
  BY <1>4, <1>5
<1>7. \A q \in up' \cup {"PIN"} : Works(q)'
  <2>1. Spares(Z, {}) BY AtZone, AtNoLatch DEF Spares
  <2> QED BY <1>1, <1>6, <2>1, SwitchKeeps
<1>8. EnableBits' /\ Enables' = (Enables \ clear) \cup put
  <2>1. EnableBits BY DEF RegistersInv
  <2>2. (clear = {} /\ put = {b}) \/ (clear = {b} /\ put = {}) OBVIOUS
  <2>3. Stepped(regs, regs', <<name, 0>>, clear, put) BY <1>6
  <2> QED BY <2>1, <2>2, <2>3, EnableOne
<1>9. RegistersTypes' BY <1>0, <1>1, <1>6 DEF RegistersInv, RegistersTypes
<1>10. (role = "delay" => "TR0" \notin on)' /\ (line[1] = 0 => pin.pull = FALSE /\ pin.input = TRUE)'
       /\ (Enables = on)'
  BY <1>0, <1>8 DEF RegistersInv
<1> QED BY <1>7, <1>8, <1>9, <1>10 DEF RegistersInv

LEMMA InterruptsAre ==
  ASSUME NEW p \in DOMAIN InterruptOf
  PROVE  \E b : InterruptOf[p] = {b} /\ EnableAt(EnableIn(p), b) /\ b # "TR0"
<1> DEFINE I == InterruptOf
<1>1. p \in {"UART1", "UART2", "UART3", "TIMER0", "INT0", "INT1", "INT2"}
  BY DEF InterruptOf
<1>2. /\ InterruptOf["UART1"] = {"ES"} /\ InterruptOf["UART2"] = {"ES2"} /\ InterruptOf["UART3"] = {"ES3"}
      /\ InterruptOf["TIMER0"] = {"ET0"} /\ InterruptOf["INT0"] = {"INT0"} /\ InterruptOf["INT1"] = {"INT1"}
      /\ InterruptOf["INT2"] = {"INT2"}
  BY DEF InterruptOf
<1>3. /\ EnableIn("UART1") = "IE" /\ EnableIn("UART2") = "IE2" /\ EnableIn("UART3") = "IE2"
      /\ EnableIn("TIMER0") = "IE" /\ EnableIn("INT0") = "IE" /\ EnableIn("INT1") = "IE"
         /\ EnableIn("INT2") = "INTCLKO"
  BY DEF EnableIn
<1> QED BY <1>1, <1>2, <1>3 DEF EnableAt

LEMMA InterruptKeeps ==
  ASSUME RegistersInv, NEW p \in Peripherals, interrupt_enable(p) \/ interrupt_disable(p)
  PROVE  RegistersInv'
<1>1. PICK b : InterruptOf[p] = {b} /\ EnableAt(EnableIn(p), b) /\ b # "TR0"
  BY InterruptsAre DEF interrupt_enable, interrupt_disable
<1>2. CASE interrupt_enable(p)
  <2>1. regs' = After(Merge(EnableIn(p), {}, {b})) /\ on' = on \cup {b} /\ UNCHANGED <<used, role, line, up, pin>>
    BY <1>1, <1>2 DEF interrupt_enable, Set, fixed
  <2> QED BY <1>1, <2>1, EnableKeeps
<1>3. CASE interrupt_disable(p)
  <2>1. regs' = After(Merge(EnableIn(p), {b}, {})) /\ on' = on \ {b} /\ UNCHANGED <<used, role, line, up, pin>>
    BY <1>1, <1>3 DEF interrupt_disable, Clear, fixed
  <2> QED BY <1>1, <2>1, EnableKeeps
<1> QED BY <1>2, <1>3

LEMMA TimerKeeps ==
  ASSUME RegistersInv, timer_start \/ timer_stop
  PROVE  RegistersInv'
<1>1. EnableAt("TCON", "TR0") BY DEF EnableAt
<1>2. CASE timer_start
  <2>1. regs' = After(Merge("TCON", {}, {"TR0"})) /\ on' = on \cup {"TR0"}
        /\ UNCHANGED <<used, role, line, up, pin>> /\ role # "delay"
    BY <1>2 DEF timer_start, Set, fixed
  <2> QED BY <1>1, <2>1, EnableKeeps
<1>3. CASE timer_stop
  <2>1. regs' = After(Merge("TCON", {"TR0"}, {})) /\ on' = on \ {"TR0"} /\ UNCHANGED <<used, role, line, up, pin>>
    BY <1>3 DEF timer_stop, Clear, fixed
  <2> QED BY <1>1, <2>1, EnableKeeps
<1> QED BY <1>2, <1>3

\* Calls that leave the given bits and what is asked for as they are.
LEMMA QuietKeeps ==
  ASSUME RegistersInv, UNCHANGED <<used, role, line, up, on, pin>>, regs' \in Files, NEW Z, Stays(regs, regs', Z),
         Z \cap Peripherals = {}, Spares(Z, {}), EnableBits', Enables' = Enables
  PROVE  RegistersInv'
<1>1. \A q \in up' \cup {"PIN"} : Works(q)' BY SwitchKeeps
<1>2. RegistersTypes' BY DEF RegistersInv, RegistersTypes
<1> QED BY <1>1, <1>2 DEF RegistersInv

LEMMA WaitKeeps ==
  ASSUME RegistersInv, delay_timer0_1t_wait
  PROVE  RegistersInv'
<1> DEFINE Z == {"TR0"}
           a == Clear("TCON", {"TR0"})
           b == Set("TCON", {"TR0"})
           n == <<"TCON", 0>>
<1>1. regs' = After((a \o b) \o Clear("TCON", {"TR0"})) /\ UNCHANGED <<used, role, line, up, on, pin>>
      /\ role = "delay"
  BY DEF delay_timer0_1t_wait, fixed
<1>2. regs \in Files /\ EnableBits /\ n \in Names /\ "TCON" \notin Extended
      /\ \A c \in {"TR0"} \cup {} : c \in RegBits /\ Zone(n, c) \in Z
  BY NamesAre, EnableZones DEF RegistersInv, RegistersTypes, Extended, RegBits
<1>3. a \in Seq(Within(Z)) /\ b \in Seq(Within(Z))
  <2>1. a \in Seq(Within(Z)) BY <1>2, PortWithin DEF Clear, Merge
  <2>2. b \in Seq(Within(Z)) BY <1>2, PortWithin DEF Set, Merge
  <2> QED BY <2>1, <2>2
<1>4. (a \o b) \o Clear("TCON", {"TR0"}) \in Seq(Within(Z)) /\ a \o b \in Seq(Within(Z))
  <2> HIDE DEF b
  <2> QED BY <1>3
<1>5. PICK z : z = After((a \o b) \o Clear("TCON", {"TR0"})) OBVIOUS
<1>6. regs' = z BY <1>1, <1>5
<1>7. Does(regs, (a \o b) \o Port("TCON", 0, {"TR0"}, {}), z)
  <2>1. Does(regs, (a \o b) \o Clear("TCON", {"TR0"}), z)
    <3> HIDE DEF a, b
    <3> QED BY <1>4, <1>5, AfterDoes
  <2> QED BY <2>1 DEF Clear, Merge
<1> HIDE DEF a, b
<1>8. z \in Files /\ Stays(regs, z, Z) /\ \E m \in Files : Does(regs, a \o b, m) /\ Stepped(m, z, n, {"TR0"}, {})
  BY <1>2, <1>4, <1>7, LastAccess
<1>9. PICK m \in Files : Does(regs, a \o b, m) /\ Stepped(m, z, n, {"TR0"}, {})
  BY <1>8
<1>10. regs' \in Files /\ Stays(regs, regs', Z) /\ "TR0" \notin regs'[n]
  BY <1>6, <1>8, <1>9 DEF Stepped
<1>11. EnableBits' /\ ({"TR0"} \cap Enables' = {} => Enables' = Enables \ {"TR0"})
  <2>1. {"TR0"} \subseteq AllEnables /\ (\A c \in AllEnables \ {"TR0"} : Enabler(c) \notin Z)
        /\ "ET1" \notin Z /\ "none" \notin Z
    BY DEF AllEnables, Enabler
  <2> HIDE DEF Z
  <2> QED BY <1>2, <1>10, <2>1, EnablesStay
<1>12. Enables' = Enables
  <2>1. "TR0" \notin Enables' BY <1>10, <1>11, EnablesHaveNext
  <2>2. "TR0" \notin Enables BY <1>1 DEF RegistersInv
  <2> QED BY <1>11, <2>1, <2>2
<1>13. Z \cap Peripherals = {} /\ Spares(Z, {})
  BY DEF Peripherals, Spares, LatchZone
<1> QED BY <1>1, <1>10, <1>11, <1>12, <1>13, QuietKeeps

LEMMA ResetKeeps ==
  ASSUME RegistersInv, timer0_reset
  PROVE  RegistersInv'
<1> DEFINE Z == {"TR0"}
           n == <<"TCON", 0>>
           put == regs[n] \cap {"TR0"}
<1>1. regs' = After(Port("TCON", 0, {"TR0"}, {}) \o Port("TCON", 0, {}, put))
      /\ UNCHANGED <<used, role, line, up, on, pin>>
  BY DEF timer0_reset, fixed, Clear, Set, Merge
<1>2. regs \in Files /\ EnableBits /\ n \in Names /\ "TCON" \notin Extended
      /\ (\A c \in {"TR0"} \cup {} : c \in RegBits /\ Zone(n, c) \in Z)
      /\ (\A c \in {} \cup put : c \in RegBits /\ Zone(n, c) \in Z)
  BY NamesAre, EnableZones DEF RegistersInv, RegistersTypes, Extended, RegBits
<1>3. PICK z : z = After(Port("TCON", 0, {"TR0"}, {}) \o Port("TCON", 0, {}, put))
  OBVIOUS
<1>4. regs' = z BY <1>1, <1>3
<1>5. /\ z \in Files /\ Stays(regs, z, Z)
      /\ \E m \in Files : Stepped(regs, m, n, {"TR0"}, {}) /\ Stepped(m, z, n, {}, put)
  <2> HIDE DEF put, Z
  <2> QED BY <1>2, <1>3, TwoAccesses
<1>6. PICK m \in Files : Stepped(regs, m, n, {"TR0"}, {}) /\ Stepped(m, z, n, {}, put)
  BY <1>5
<1>7. z[n] = regs[n] /\ \A k \in Names : k # n => z[k] = regs[k]
  BY <1>6 DEF Stepped
<1>8. regs' = regs BY <1>2, <1>4, <1>5, <1>7 DEF Files
<1>9. Stays(regs, regs', {}) /\ regs' \in Files BY <1>2, <1>8 DEF Stays
<1>10. EnableBits' /\ Enables' = Enables BY <1>2, <1>8 DEF EnableBits, Enables
<1>11. {} \cap Peripherals = {} /\ Spares({}, {}) BY DEF Spares
<1> QED BY <1>1, <1>9, <1>10, <1>11, QuietKeeps

LEMMA FeedKeeps ==
  ASSUME RegistersInv, wdt_feed
  PROVE  RegistersInv'
<1> DEFINE n == <<"WDT_CONTR", 0>>
<1>1. regs' = After(Port("WDT_CONTR", 0, {}, {"CLEAR"})) /\ UNCHANGED <<used, role, line, up, on, pin>>
      /\ "WDT" \in up
  BY DEF wdt_feed, Set, Merge, fixed
<1>2. regs \in Files /\ EnableBits /\ n \in Names /\ "WDT_CONTR" \notin Extended
      /\ (\A c \in {} \cup {"CLEAR"} : c \in RegBits /\ Zone(n, c) \in {"WDT"})
  BY NamesAre DEF RegistersInv, RegistersTypes, Extended, RegBits, Zone, PortRegs
<1>3. PICK z : z = After(Port("WDT_CONTR", 0, {}, {"CLEAR"})) OBVIOUS
<1>4. regs' = z BY <1>1, <1>3
<1>5. z \in Files /\ Stays(regs, z, {"WDT"}) /\ Stepped(regs, z, n, {}, {"CLEAR"})
  BY <1>2, <1>3, OneAccess
<1>6. regs' \in Files /\ Stays(regs, regs', {"WDT"}) /\ Stepped(regs, regs', n, {}, {"CLEAR"})
  BY <1>4, <1>5
<1>7. Works("WDT")'
  <2>1. Works("WDT") BY <1>1 DEF RegistersInv
  <2>2. "ON" \in regs[n] BY <2>1 DEF Works, Has
  <2>3. "ON" \in regs'[n] BY <1>6, <2>2 DEF Stepped
  <2> QED BY <2>3 DEF Works, Has
<1>8. EnableBits' /\ Enables' = Enables
  <2>1. regs'[<<"IE", 0>>] = regs[<<"IE", 0>>] /\ regs'[<<"IE2", 0>>] = regs[<<"IE2", 0>>]
        /\ regs'[<<"TCON", 0>>] = regs[<<"TCON", 0>>] /\ regs'[<<"INTCLKO", 0>>] = regs[<<"INTCLKO", 0>>]
    BY <1>6, NamesAre DEF Stepped
  <2> QED BY <1>2, <2>1 DEF EnableBits, Enables
<1>9. {"WDT"} \cap Peripherals \subseteq {"WDT"} /\ "WDT" \in Peripherals \ {"PIN"} /\ Spares({"WDT"}, {})
  BY DEF Peripherals, Spares, LatchZone, Receivers
<1>10. \A q \in up' \cup {"PIN"} : Works(q)'
  BY <1>1, <1>6, <1>7, <1>9, OwnCallKeeps
<1>11. RegistersTypes' BY <1>1, <1>6 DEF RegistersInv, RegistersTypes
<1> QED BY <1>1, <1>8, <1>10, <1>11 DEF RegistersInv

LEMMA QeiStopKeeps ==
  ASSUME RegistersInv, QeiStop
  PROVE  RegistersInv'
<1> DEFINE Z == {"QEI", "any"}
<1>1. regs' = After(qei_stop) /\ up' = up \ {"QEI"} /\ UNCHANGED <<used, role, line, on, pin>>
  BY DEF QeiStop, fixed
<1>2. regs \in Files /\ line \in Lines /\ EnableBits
  BY DEF RegistersInv, RegistersTypes
<1>3. PICK z : z = After(qei_stop) OBVIOUS
<1>4. regs' \in Files /\ Stays(regs, regs', Z) BY <1>1, <1>2, <1>3, QeiStopDoes
<1>5. EnableBits' /\ ({} \cap Enables' = {} => Enables' = Enables \ {})
  <2>1. {} \subseteq AllEnables /\ (\A c \in AllEnables \ {} : Enabler(c) \notin Z) /\ "ET1" \notin Z
        /\ "none" \notin Z
    BY DEF AllEnables, Enabler
  <2> HIDE DEF Z
  <2> QED BY <1>2, <1>4, <2>1, EnablesStay
<1>6. Z \cap Peripherals \subseteq {"QEI"} /\ "QEI" \in Peripherals \ {"PIN"} /\ Spares(Z, {})
      /\ ("PIN" \in up => "PIN" \in up')
  BY <1>1 DEF Peripherals, Spares, LatchZone, Receivers
<1>7. \A q \in up' \cup {"PIN"} : Works(q)' BY <1>1, <1>4, <1>6, OwnCallKeeps
<1>8. RegistersTypes' BY <1>1, <1>4 DEF RegistersInv, RegistersTypes
<1> QED BY <1>1, <1>5, <1>7, <1>8 DEF RegistersInv

-----------------------------------------------------------------------------
(* The program's own pin. *)

\* The zones of a call for the program's pin: its own, and the inputs of its port.
OwnZones ==
  {"PIN", "any"} \cup (IF line[1] = 0 THEN {"RXD3"} ELSE IF line[1] = 1 THEN {"RXD2", "MISO"} ELSE {"RXD1"})

LEMMA OwnWider ==
  ASSUME NEW r, NEW z, Stays(r, z, {"PIN", "any"})
  PROVE  Stays(r, z, OwnZones)
BY DEF Stays, OwnZones

LEMMA PinCallKeeps ==
  ASSUME RegistersInv, UNCHANGED <<used, role, line, on>>, up' = up \cup {"PIN"}, pin' \in Pins, regs' \in Files,
         Stays(regs, regs', OwnZones), Works("PIN")', line[1] = 0 => pin'.pull = FALSE /\ pin'.input = TRUE
  PROVE  RegistersInv'
<1> DEFINE Z == OwnZones
<1>1. regs \in Files /\ line \in Lines /\ EnableBits
  BY DEF RegistersInv, RegistersTypes
<1>2. EnableBits' /\ ({} \cap Enables' = {} => Enables' = Enables \ {})
  <2>1. {} \subseteq AllEnables /\ (\A c \in AllEnables \ {} : Enabler(c) \notin Z) /\ "ET1" \notin Z
        /\ "none" \notin Z
    BY DEF AllEnables, Enabler, OwnZones
  <2>2. Stays(regs, regs', Z) OBVIOUS
  <2> HIDE DEF Z
  <2> QED BY <1>1, <2>1, <2>2, EnablesStay
<1>3. ASSUME NEW q \in up' \cup {"PIN"} PROVE Works(q)'
  <2>1. CASE q = "PIN" BY <2>1
  <2>2. CASE q # "PIN"
    <3>1. q \in Peripherals /\ q \in up /\ q \notin Z /\ Works(q)
      BY <2>2 DEF RegistersInv, RegistersTypes, Peripherals, OwnZones
    <3>2. /\ line' = line /\ role' = role /\ Stays(regs, regs', Z)
          /\ "PIN" \in up' /\ Spares(Z, up')
      BY <1>1 DEF Spares, Receivers, LatchZone, OwnZones, Wired, Lines
    <3> HIDE DEF Z
    <3> QED BY <1>1, <2>2, <3>1, <3>2, OthersKeep
  <2> QED BY <2>1, <2>2
<1>4. RegistersTypes' BY DEF RegistersInv, RegistersTypes, Peripherals
<1> QED BY <1>2, <1>3, <1>4 DEF RegistersInv

\* The registers of the program's pin.
LEMMA OwnPin ==
  ASSUME line \in Lines
  PROVE  /\ line[1] \in {0, 1, 3} /\ line[2] = 2 /\ 2 \in RegBits
         /\ \A name \in PortRegs : <<name, line[1]>> \in Names /\ Zone(<<name, line[1]>>, 2) = "PIN"
<1>1. line[1] \in {0, 1, 3} /\ line[2] = 2 /\ 2 \in RegBits /\ line = <<line[1], 2>>
  BY DEF Lines, RegBits
<1> QED BY <1>1 DEF Names, PortRegs, Zone, PinZone

\* Only the latch of the port is written: its own bit, and those of input pins.
LEMMA LatchStays ==
  ASSUME regs \in Files, line \in Lines, NEW latch \in SUBSET RegBits,
         regs' = [regs EXCEPT ![<<"P", line[1]>>] = latch],
         \A b \in RegBits \ (Inputs(line[1]) \cup {line[2]}) : b \in latch <=> b \in regs[<<"P", line[1]>>]
  PROVE  /\ regs' \in Files /\ Stays(regs, regs', OwnZones) /\ regs'[<<"P", line[1]>>] = latch
         /\ \A n \in Names : n # <<"P", line[1]>> => regs'[n] = regs[n]
<1>1. <<"P", line[1]>> \in Names BY OwnPin DEF PortRegs
<1>2. regs' \in Files /\ regs'[<<"P", line[1]>>] = latch
      /\ \A n \in Names : n # <<"P", line[1]>> => regs'[n] = regs[n]
  BY <1>1 DEF Files
<1>3. ASSUME NEW b \in Inputs(line[1]) \cup {line[2]} PROVE Zone(<<"P", line[1]>>, b) \in OwnZones
  <2>1. \/ <<line[1], b>> = line
        \/ <<line[1], b>> \in {<<3, 0>>, <<1, 0>>, <<0, 0>>, <<1, 4>>, <<3, 2>>, <<3, 3>>, <<3, 6>>}
    BY <1>3 DEF Inputs, Wired, Lines
  <2> QED BY <2>1, OwnPin DEF Zone, PinZone, PortRegs, OwnZones
<1>4. ASSUME NEW n \in Names, NEW b \in RegBits, Zone(n, b) \notin OwnZones
      PROVE b \in regs'[n] <=> b \in regs[n]
  <2>1. CASE n = <<"P", line[1]>>
    <3>1. b \notin Inputs(line[1]) \cup {line[2]} BY <1>3, <1>4, <2>1
    <3> QED BY <1>2, <2>1, <3>1
  <2>2. CASE n # <<"P", line[1]>> BY <1>2, <2>2
  <2> QED BY <2>1, <2>2
<1> QED BY <1>2, <1>4 DEF Stays

LEMMA PinWorks ==
  ASSUME line \in Lines
  PROVE  Works("PIN") <=>
           /\ line[2] \in regs[<<"P", line[1]>>] <=> pin.level
           /\ line[2] \in regs[<<"M0", line[1]>>] <=> pin.mode \in {"PUSH_PULL", "OPEN_DRAIN"}
           /\ line[2] \in regs[<<"M1", line[1]>>] <=> pin.mode \in {"INPUT_ONLY", "OPEN_DRAIN"}
           /\ line[2] \in regs[<<"PU", line[1]>>] <=> pin.pull
           /\ line[2] \in regs[<<"IE_P", line[1]>>] <=> pin.input
BY DEF Works

LEMMA PinWorksNext ==
  ASSUME /\ line'[2] \in regs'[<<"P", line'[1]>>] <=> pin'.level
         /\ line'[2] \in regs'[<<"M0", line'[1]>>] <=> pin'.mode \in {"PUSH_PULL", "OPEN_DRAIN"}
         /\ line'[2] \in regs'[<<"M1", line'[1]>>] <=> pin'.mode \in {"INPUT_ONLY", "OPEN_DRAIN"}
         /\ line'[2] \in regs'[<<"PU", line'[1]>>] <=> pin'.pull
         /\ line'[2] \in regs'[<<"IE_P", line'[1]>>] <=> pin'.input
  PROVE  Works("PIN")'
BY DEF Works

\* gpio_write and gpio_toggle.
LEMMA LatchKeeps ==
  ASSUME RegistersInv, NEW level \in BOOLEAN, PinCall([pin EXCEPT !.level = level]),
         NEW low \in SUBSET Inputs(line[1]), NEW high \in SUBSET Inputs(line[1]),
         regs' = [regs EXCEPT ![<<"P", line[1]>>] =
                    IF level THEN ((regs[<<"P", line[1]>>] \ low) \cup high) \cup {line[2]}
                    ELSE ((regs[<<"P", line[1]>>] \ low) \cup high) \ {line[2]}]
  PROVE  RegistersInv'
<1> DEFINE latch == IF level THEN ((regs[<<"P", line[1]>>] \ low) \cup high) \cup {line[2]}
                    ELSE ((regs[<<"P", line[1]>>] \ low) \cup high) \ {line[2]}
<1>1. regs \in Files /\ line \in Lines /\ pin \in Pins /\ Works("PIN")
  BY DEF RegistersInv, RegistersTypes
<1>2. pin' = [pin EXCEPT !.level = level] /\ up' = up \cup {"PIN"} /\ UNCHANGED <<used, role, line, on>>
  BY DEF PinCall, fixed
<1>3. /\ line[1] \in {0, 1, 3} /\ line[2] = 2 /\ 2 \in RegBits
      /\ \A name \in PortRegs : <<name, line[1]>> \in Names
  BY <1>1, OwnPin
<1>4. latch \in SUBSET RegBits
  <2>1. regs[<<"P", line[1]>>] \subseteq RegBits
    BY <1>1, <1>3 DEF Files, PortRegs
  <2>2. Inputs(line[1]) \subseteq RegBits BY DEF Inputs, RegBits
  <2> QED BY <1>3, <2>1, <2>2
<1>5. \A b \in RegBits \ (Inputs(line[1]) \cup {line[2]}) : b \in latch <=> b \in regs[<<"P", line[1]>>]
  OBVIOUS
<1>6. regs' = [regs EXCEPT ![<<"P", line[1]>>] = latch] OBVIOUS
<1>7. /\ regs' \in Files /\ Stays(regs, regs', OwnZones) /\ regs'[<<"P", line[1]>>] = latch
      /\ \A n \in Names : n # <<"P", line[1]>> => regs'[n] = regs[n]
  <2> HIDE DEF latch
  <2> QED BY <1>1, <1>4, <1>5, <1>6, LatchStays
<1>8. line[2] \in latch <=> level OBVIOUS
<1> HIDE DEF latch
<1>9. pin' \in Pins /\ pin'.level = level /\ pin'.mode = pin.mode /\ pin'.pull = pin.pull /\ pin'.input = pin.input
  BY <1>1, <1>2 DEF Pins
<1>10. /\ regs'[<<"M0", line[1]>>] = regs[<<"M0", line[1]>>] /\ regs'[<<"M1", line[1]>>] = regs[<<"M1", line[1]>>]
       /\ regs'[<<"PU", line[1]>>] = regs[<<"PU", line[1]>>] /\ regs'[<<"IE_P", line[1]>>] = regs[<<"IE_P", line[1]>>]
  BY <1>3, <1>7 DEF PortRegs
<1>11. Works("PIN")'
  <2>1. /\ line[2] \in regs[<<"M0", line[1]>>] <=> pin.mode \in {"PUSH_PULL", "OPEN_DRAIN"}
        /\ line[2] \in regs[<<"M1", line[1]>>] <=> pin.mode \in {"INPUT_ONLY", "OPEN_DRAIN"}
        /\ line[2] \in regs[<<"PU", line[1]>>] <=> pin.pull
        /\ line[2] \in regs[<<"IE_P", line[1]>>] <=> pin.input
    BY <1>1, PinWorks
  <2>2. line' = line BY <1>2
  <2>3. /\ line'[2] \in regs'[<<"P", line'[1]>>] <=> pin'.level
        /\ line'[2] \in regs'[<<"M0", line'[1]>>] <=> pin'.mode \in {"PUSH_PULL", "OPEN_DRAIN"}
        /\ line'[2] \in regs'[<<"M1", line'[1]>>] <=> pin'.mode \in {"INPUT_ONLY", "OPEN_DRAIN"}
        /\ line'[2] \in regs'[<<"PU", line'[1]>>] <=> pin'.pull
        /\ line'[2] \in regs'[<<"IE_P", line'[1]>>] <=> pin'.input
    BY <1>7, <1>8, <1>9, <1>10, <2>1, <2>2
  <2> QED BY <2>3, PinWorksNext
<1>12. line[1] = 0 => pin'.pull = FALSE /\ pin'.input = TRUE
  BY <1>9 DEF RegistersInv
<1> QED BY <1>2, <1>7, <1>9, <1>11, <1>12, PinCallKeeps

\* What is read differs from the latch at inputs only.
LEMMA LevelsRead ==
  ASSUME NEW port, NEW p \in read_port(port)
  PROVE  \E low \in SUBSET Inputs(port), high \in SUBSET Inputs(port) :
           p = (regs[<<"P", port>>] \ low) \cup high
<1> DEFINE R == regs[<<"P", port>>]
           yields == {b \in Inputs(port) : \/ b \notin regs[<<"M0", port>>]
                                          \/ b \in regs[<<"M1", port>>]
                                          \/ b \notin regs[<<"IE_P", port>>]}
           floats == {b \in yields : b \in regs[<<"M1", port>>] /\ b \notin regs[<<"M0", port>>]}
<1>0. read_port(port) = {(R \ yields) \cup high : high \in SUBSET ((yields \cap R) \cup floats)}
  BY DEF read_port
<1>4. yields \subseteq Inputs(port) /\ floats \subseteq Inputs(port) OBVIOUS
<1> HIDE DEF yields, floats
<1>1. PICK high \in SUBSET ((yields \cap R) \cup floats) : p = (R \ yields) \cup high
  <2>1. p \in {(R \ yields) \cup high : high \in SUBSET ((yields \cap R) \cup floats)}
    BY <1>0, Zenon
  <2> HIDE DEF R
  <2> QED BY <2>1, SMT
<1>2. (yields \cap R) \ high \in SUBSET Inputs(port) /\ high \in SUBSET Inputs(port)
  BY <1>4
<1>3. p = (R \ ((yields \cap R) \ high)) \cup high BY <1>1
<1> QED BY <1>2, <1>3

LEMMA WriteKeeps ==
  ASSUME RegistersInv, NEW b \in BOOLEAN, gpio_write(b)
  PROVE  RegistersInv'
<1>1. PinCall([pin EXCEPT !.level = b]) BY DEF gpio_write
<1>2. PICK p \in read_port(line[1]) : write_port(line[1], IF b THEN p \cup {line[2]} ELSE p \ {line[2]})
  BY DEF gpio_write
<1>3. PICK low \in SUBSET Inputs(line[1]), high \in SUBSET Inputs(line[1]) :
        p = (regs[<<"P", line[1]>>] \ low) \cup high
  BY <1>2, LevelsRead
<1>4. regs' = [regs EXCEPT ![<<"P", line[1]>>] =
                 IF b THEN ((regs[<<"P", line[1]>>] \ low) \cup high) \cup {line[2]}
                 ELSE ((regs[<<"P", line[1]>>] \ low) \cup high) \ {line[2]}]
  BY <1>2, <1>3 DEF write_port
<1> QED BY <1>1, <1>3, <1>4, LatchKeeps

LEMMA ToggleKeeps ==
  ASSUME RegistersInv, gpio_toggle
  PROVE  RegistersInv'
<1>1. PICK p \in read_port(line[1]) :
        /\ PinCall([pin EXCEPT !.level = line[2] \notin p])
        /\ write_port(line[1], IF line[2] \in p THEN p \ {line[2]} ELSE p \cup {line[2]})
  BY DEF gpio_toggle
<1>2. PICK b \in BOOLEAN : b = (line[2] \notin p) OBVIOUS
<1>3. PinCall([pin EXCEPT !.level = b]) BY <1>1, <1>2
<1>4. PICK low \in SUBSET Inputs(line[1]), high \in SUBSET Inputs(line[1]) :
        p = (regs[<<"P", line[1]>>] \ low) \cup high
  BY LevelsRead
<1>5. regs' = [regs EXCEPT ![<<"P", line[1]>>] = IF b THEN p \cup {line[2]} ELSE p \ {line[2]}]
  BY <1>1, <1>2 DEF write_port
<1>6. regs' = [regs EXCEPT ![<<"P", line[1]>>] =
                 IF b THEN ((regs[<<"P", line[1]>>] \ low) \cup high) \cup {line[2]}
                 ELSE ((regs[<<"P", line[1]>>] \ low) \cup high) \ {line[2]}]
  BY <1>4, <1>5
<1> QED BY <1>3, <1>4, <1>6, LatchKeeps

LEMMA PortBits ==
  ASSUME line \in Lines, NEW name \in PortRegs
  PROVE  \A b \in {line[2]} : b \in RegBits /\ Zone(<<name, line[1]>>, b) \in {"PIN", "any"}
BY OwnPin

LEMMA ModeKeeps ==
  ASSUME RegistersInv, NEW chosen \in Modes, gpio_set_mode(chosen)
  PROVE  RegistersInv'
<1> DEFINE Z == {"PIN", "any"}
           c0 == IF chosen \in {"PUSH_PULL", "OPEN_DRAIN"} THEN {} ELSE {line[2]}
           p0 == IF chosen \in {"PUSH_PULL", "OPEN_DRAIN"} THEN {line[2]} ELSE {}
           c1 == IF chosen \in {"INPUT_ONLY", "OPEN_DRAIN"} THEN {} ELSE {line[2]}
           p1 == IF chosen \in {"INPUT_ONLY", "OPEN_DRAIN"} THEN {line[2]} ELSE {}
<1>1. regs \in Files /\ line \in Lines /\ pin \in Pins /\ Works("PIN")
  BY DEF RegistersInv, RegistersTypes
<1>2. pin' = [pin EXCEPT !.mode = chosen] /\ up' = up \cup {"PIN"} /\ UNCHANGED <<used, role, line, on>>
  BY DEF gpio_set_mode, PinCall, fixed
<1>3. regs' = After(Port("M0", line[1], c0, p0) \o Port("M1", line[1], c1, p1))
  <2> DEFINE Latch(name, ones) == IF chosen \in ones THEN Port(name, line[1], {}, {line[2]})
                                ELSE Port(name, line[1], {line[2]}, {})
  <2>1. regs' = After(Latch("M0", {"PUSH_PULL", "OPEN_DRAIN"}) \o Latch("M1", {"INPUT_ONLY", "OPEN_DRAIN"}))
    BY DEF gpio_set_mode
  <2>2. Latch("M0", {"PUSH_PULL", "OPEN_DRAIN"}) = Port("M0", line[1], c0, p0)
    OBVIOUS
  <2>3. Latch("M1", {"INPUT_ONLY", "OPEN_DRAIN"}) = Port("M1", line[1], c1, p1)
    OBVIOUS
  <2> HIDE DEF Latch
  <2> QED BY <2>1, <2>2, <2>3
<1>4. <<"M0", line[1]>> \in Names /\ <<"M1", line[1]>> \in Names /\ "M0" \notin Extended /\ "M1" \notin Extended
  BY <1>1, OwnPin DEF PortRegs, Extended
<1>5. \A b \in c0 \cup p0 : b \in RegBits /\ Zone(<<"M0", line[1]>>, b) \in Z
  BY <1>1, PortBits DEF PortRegs
<1>6. \A b \in c1 \cup p1 : b \in RegBits /\ Zone(<<"M1", line[1]>>, b) \in Z
  BY <1>1, PortBits DEF PortRegs
<1>7. PICK z : z = After(Port("M0", line[1], c0, p0) \o Port("M1", line[1], c1, p1))
  OBVIOUS
<1>8. /\ z \in Files /\ Stays(regs, z, Z)
      /\ \E m \in Files : Stepped(regs, m, <<"M0", line[1]>>, c0, p0) /\ Stepped(m, z, <<"M1", line[1]>>, c1, p1)
  <2> HIDE DEF c0, p0, c1, p1, Z
  <2> QED BY <1>1, <1>4, <1>5, <1>6, <1>7, TwoAccesses
<1>9. PICK m \in Files : Stepped(regs, m, <<"M0", line[1]>>, c0, p0) /\ Stepped(m, z, <<"M1", line[1]>>, c1, p1)
  BY <1>8
<1>10. regs' = z BY <1>3, <1>7
<1>11. /\ regs'[<<"M0", line[1]>>] = (regs[<<"M0", line[1]>>] \ c0) \cup p0
       /\ regs'[<<"M1", line[1]>>] = (regs[<<"M1", line[1]>>] \ c1) \cup p1
       /\ regs'[<<"P", line[1]>>] = regs[<<"P", line[1]>>] /\ regs'[<<"PU", line[1]>>] = regs[<<"PU", line[1]>>]
       /\ regs'[<<"IE_P", line[1]>>] = regs[<<"IE_P", line[1]>>]
  <2> HIDE DEF c0, p0, c1, p1
  <2>1. \A name \in PortRegs : <<name, line[1]>> \in Names BY <1>1, OwnPin
  <2> QED BY <1>9, <1>10, <2>1 DEF Stepped, PortRegs
<1>12. line[2] \in regs'[<<"M0", line[1]>>] <=> chosen \in {"PUSH_PULL", "OPEN_DRAIN"}
  BY <1>11
<1>13. line[2] \in regs'[<<"M1", line[1]>>] <=> chosen \in {"INPUT_ONLY", "OPEN_DRAIN"}
  BY <1>11
<1> HIDE DEF c0, p0, c1, p1
<1>14. pin' \in Pins /\ pin'.level = pin.level /\ pin'.mode = chosen /\ pin'.pull = pin.pull /\ pin'.input = pin.input
  BY <1>1, <1>2 DEF Pins
<1>15. Works("PIN")'
  <2>1. /\ line[2] \in regs[<<"P", line[1]>>] <=> pin.level
        /\ line[2] \in regs[<<"PU", line[1]>>] <=> pin.pull
        /\ line[2] \in regs[<<"IE_P", line[1]>>] <=> pin.input
    BY <1>1, PinWorks
  <2>2. line' = line BY <1>2
  <2>3. /\ line'[2] \in regs'[<<"P", line'[1]>>] <=> pin'.level
        /\ line'[2] \in regs'[<<"M0", line'[1]>>] <=> pin'.mode \in {"PUSH_PULL", "OPEN_DRAIN"}
        /\ line'[2] \in regs'[<<"M1", line'[1]>>] <=> pin'.mode \in {"INPUT_ONLY", "OPEN_DRAIN"}
        /\ line'[2] \in regs'[<<"PU", line'[1]>>] <=> pin'.pull
        /\ line'[2] \in regs'[<<"IE_P", line'[1]>>] <=> pin'.input
    BY <1>11, <1>12, <1>13, <1>14, <2>1, <2>2
  <2> QED BY <2>3, PinWorksNext
<1>16. regs' \in Files /\ Stays(regs, regs', OwnZones)
  <2>1. Stays(regs, regs', {"PIN", "any"}) BY <1>8, <1>10
  <2> QED BY <1>8, <1>10, <2>1, OwnWider
<1>17. line[1] = 0 => pin'.pull = FALSE /\ pin'.input = TRUE
  BY <1>14 DEF RegistersInv
<1> QED BY <1>2, <1>14, <1>15, <1>16, <1>17, PinCallKeeps

\* Pull-up and input given: an extended register, or on port 0 none.
LEMMA MaskDoes ==
  ASSUME regs \in Files, line \in Lines, NEW name \in {"PU", "IE_P"}, NEW given \in BOOLEAN,
         NEW z, z = After(apply_mask(name, given))
  PROVE  /\ z \in Files /\ Stays(regs, z, {"PIN", "any"})
         /\ \A n \in Names \ {<<"P_SW2", 0>>, <<name, line[1]>>} : z[n] = regs[n]
         /\ line[1] = 0 => z[<<name, line[1]>>] = regs[<<name, line[1]>>]
         /\ line[1] # 0 => (line[2] \in z[<<name, line[1]>>] <=> given)
<1> DEFINE Z == {"PIN", "any"}
           put == IF given THEN {line[2]} ELSE {}
           o == Port("P_SW2", 0, {}, {"EAXFR"})
           n == <<name, line[1]>>
<1>1. OpenXfr = o BY DEF OpenXfr, Set, Merge
<1>2. <<"P_SW2", 0>> \in Names /\ "P_SW2" \notin Extended /\ (\A b \in {} \cup {"EAXFR"} : b \in RegBits
      /\ Zone(<<"P_SW2", 0>>, b) \in Z)
  BY NamesAre DEF Extended, Zone, PortRegs, BitZone, RegBits
<1>3. n \in Names /\ name \in PortRegs /\ n # <<"P_SW2", 0>> /\ name \in Extended
  BY OwnPin DEF PortRegs, Extended
<1>4. \A b \in {line[2]} \cup put : b \in RegBits /\ Zone(n, b) \in Z
  BY <1>3, PortBits
<1>5. CASE line[1] = 0
  <2>1. z = After(o) BY <1>1, <1>5 DEF apply_mask
  <2>2. z \in Files /\ Stays(regs, z, Z) /\ Stepped(regs, z, <<"P_SW2", 0>>, {}, {"EAXFR"})
    <3> HIDE DEF Z
    <3> QED BY <1>2, <2>1, OneAccess
  <2>3. \A k \in Names \ {<<"P_SW2", 0>>, n} : z[k] = regs[k]
    BY <2>2 DEF Stepped
  <2>4. z[n] = regs[n] BY <1>3, <2>2 DEF Stepped
  <2> QED BY <1>5, <2>2, <2>3, <2>4
<1>6. CASE line[1] # 0
  <2>1. line[1] \in {1, 3} BY <1>6, OwnPin
  <2>2. z = After(o \o Port(name, line[1], {line[2]}, put))
    BY <1>1, <2>1 DEF apply_mask
  <2>3. /\ z \in Files /\ Stays(regs, z, Z)
        /\ \E m \in Files : /\ Stepped(regs, m, <<"P_SW2", 0>>, {}, {"EAXFR"})
                            /\ (name \in Extended => "EAXFR" \in m[<<"P_SW2", 0>>])
                                 => Stepped(m, z, n, {line[2]}, put)
    <3> HIDE DEF Z, put
    <3> QED BY <1>2, <1>3, <1>4, <2>2, TwoAccesses
  <2>4. PICK m \in Files : /\ Stepped(regs, m, <<"P_SW2", 0>>, {}, {"EAXFR"})
                           /\ (name \in Extended => "EAXFR" \in m[<<"P_SW2", 0>>])
                                => Stepped(m, z, n, {line[2]}, put)
    BY <2>3
  <2>5. "EAXFR" \in m[<<"P_SW2", 0>>] BY <2>4 DEF Stepped
  <2>6. Stepped(m, z, n, {line[2]}, put) BY <2>4, <2>5
  <2>7. \A k \in Names \ {<<"P_SW2", 0>>, n} : z[k] = regs[k]
    BY <2>4, <2>6 DEF Stepped
  <2>8. line[2] \in z[n] <=> given BY <2>6 DEF Stepped
  <2> QED BY <1>6, <2>3, <2>7, <2>8
<1> QED BY <1>5, <1>6

LEMMA PullKeeps ==
  ASSUME RegistersInv, NEW b \in BOOLEAN, gpio_set_pullup_mask(b)
  PROVE  RegistersInv'
<1>1. regs \in Files /\ line \in Lines /\ pin \in Pins /\ Works("PIN")
  BY DEF RegistersInv, RegistersTypes
<1>2. pin' = [pin EXCEPT !.pull = b /\ line[1] # 0] /\ up' = up \cup {"PIN"} /\ UNCHANGED <<used, role, line, on>>
  BY DEF gpio_set_pullup_mask, PinCall, fixed
<1>3. PICK z : z = After(apply_mask("PU", b)) OBVIOUS
<1>4. regs' = z BY <1>3 DEF gpio_set_pullup_mask
<1>5. /\ regs' \in Files /\ Stays(regs, regs', {"PIN", "any"})
      /\ \A n \in Names \ {<<"P_SW2", 0>>, <<"PU", line[1]>>} : regs'[n] = regs[n]
      /\ line[1] = 0 => regs'[<<"PU", line[1]>>] = regs[<<"PU", line[1]>>]
      /\ line[1] # 0 => (line[2] \in regs'[<<"PU", line[1]>>] <=> b)
  BY <1>1, <1>3, <1>4, MaskDoes
<1>13. Stays(regs, regs', OwnZones) BY <1>5, OwnWider
<1>6. \A name \in PortRegs : <<name, line[1]>> \in Names BY <1>1, OwnPin
<1>7. /\ regs'[<<"P", line[1]>>] = regs[<<"P", line[1]>>] /\ regs'[<<"M0", line[1]>>] = regs[<<"M0", line[1]>>]
      /\ regs'[<<"M1", line[1]>>] = regs[<<"M1", line[1]>>] /\ regs'[<<"IE_P", line[1]>>] = regs[<<"IE_P", line[1]>>]
  BY <1>5, <1>6 DEF PortRegs
<1>8. pin' \in Pins /\ pin'.level = pin.level /\ pin'.mode = pin.mode /\ pin'.input = pin.input
      /\ pin'.pull = (b /\ line[1] # 0)
  BY <1>1, <1>2 DEF Pins
<1>9. PICK c \in BOOLEAN : c = (b /\ line[1] # 0) OBVIOUS
<1>10. pin'.pull = c BY <1>8, <1>9
<1>11. Works("PIN")'
  <2>1. /\ line[2] \in regs[<<"P", line[1]>>] <=> pin.level
        /\ line[2] \in regs[<<"M0", line[1]>>] <=> pin.mode \in {"PUSH_PULL", "OPEN_DRAIN"}
        /\ line[2] \in regs[<<"M1", line[1]>>] <=> pin.mode \in {"INPUT_ONLY", "OPEN_DRAIN"}
        /\ line[2] \in regs[<<"PU", line[1]>>] <=> pin.pull
        /\ line[2] \in regs[<<"IE_P", line[1]>>] <=> pin.input
    BY <1>1, PinWorks
  <2>2. line' = line BY <1>2
  <2>3. line[2] \in regs'[<<"PU", line[1]>>] <=> pin'.pull
    <3>1. CASE line[1] = 0
      <4>1. pin.pull = FALSE /\ c = FALSE BY <1>9, <3>1 DEF RegistersInv
      <4> QED BY <1>5, <1>10, <2>1, <3>1, <4>1
    <3>2. CASE line[1] # 0
      <4>1. c = b BY <1>9, <3>2
      <4> QED BY <1>5, <1>10, <3>2, <4>1
    <3> QED BY <3>1, <3>2
  <2>4. /\ line'[2] \in regs'[<<"P", line'[1]>>] <=> pin'.level
        /\ line'[2] \in regs'[<<"M0", line'[1]>>] <=> pin'.mode \in {"PUSH_PULL", "OPEN_DRAIN"}
        /\ line'[2] \in regs'[<<"M1", line'[1]>>] <=> pin'.mode \in {"INPUT_ONLY", "OPEN_DRAIN"}
        /\ line'[2] \in regs'[<<"PU", line'[1]>>] <=> pin'.pull
        /\ line'[2] \in regs'[<<"IE_P", line'[1]>>] <=> pin'.input
    BY <1>7, <1>8, <2>1, <2>2, <2>3
  <2> QED BY <2>4, PinWorksNext
<1>12. line[1] = 0 => pin'.pull = FALSE /\ pin'.input = TRUE
  <2>1. line[1] = 0 => c = FALSE BY <1>9
  <2> QED BY <1>8, <1>10, <2>1 DEF RegistersInv
<1> QED BY <1>2, <1>5, <1>8, <1>11, <1>12, <1>13, PinCallKeeps
LEMMA InputKeeps ==
  ASSUME RegistersInv, NEW b \in BOOLEAN, gpio_set_input_enable_mask(b)
  PROVE  RegistersInv'
<1>1. regs \in Files /\ line \in Lines /\ pin \in Pins /\ Works("PIN")
  BY DEF RegistersInv, RegistersTypes
<1>2. pin' = [pin EXCEPT !.input = b \/ line[1] = 0] /\ up' = up \cup {"PIN"} /\ UNCHANGED <<used, role, line, on>>
  BY DEF gpio_set_input_enable_mask, PinCall, fixed
<1>3. PICK z : z = After(apply_mask("IE_P", b)) OBVIOUS
<1>4. regs' = z BY <1>3 DEF gpio_set_input_enable_mask
<1>5. /\ regs' \in Files /\ Stays(regs, regs', {"PIN", "any"})
      /\ \A n \in Names \ {<<"P_SW2", 0>>, <<"IE_P", line[1]>>} : regs'[n] = regs[n]
      /\ line[1] = 0 => regs'[<<"IE_P", line[1]>>] = regs[<<"IE_P", line[1]>>]
      /\ line[1] # 0 => (line[2] \in regs'[<<"IE_P", line[1]>>] <=> b)
  BY <1>1, <1>3, <1>4, MaskDoes
<1>13. Stays(regs, regs', OwnZones) BY <1>5, OwnWider
<1>6. \A name \in PortRegs : <<name, line[1]>> \in Names BY <1>1, OwnPin
<1>7. /\ regs'[<<"P", line[1]>>] = regs[<<"P", line[1]>>] /\ regs'[<<"M0", line[1]>>] = regs[<<"M0", line[1]>>]
      /\ regs'[<<"M1", line[1]>>] = regs[<<"M1", line[1]>>] /\ regs'[<<"PU", line[1]>>] = regs[<<"PU", line[1]>>]
  BY <1>5, <1>6 DEF PortRegs
<1>8. pin' \in Pins /\ pin'.level = pin.level /\ pin'.mode = pin.mode /\ pin'.pull = pin.pull
      /\ pin'.input = (b \/ line[1] = 0)
  BY <1>1, <1>2 DEF Pins
<1>9. PICK c \in BOOLEAN : c = (b \/ line[1] = 0) OBVIOUS
<1>10. pin'.input = c BY <1>8, <1>9
<1>11. Works("PIN")'
  <2>1. /\ line[2] \in regs[<<"P", line[1]>>] <=> pin.level
        /\ line[2] \in regs[<<"M0", line[1]>>] <=> pin.mode \in {"PUSH_PULL", "OPEN_DRAIN"}
        /\ line[2] \in regs[<<"M1", line[1]>>] <=> pin.mode \in {"INPUT_ONLY", "OPEN_DRAIN"}
        /\ line[2] \in regs[<<"IE_P", line[1]>>] <=> pin.input
        /\ line[2] \in regs[<<"PU", line[1]>>] <=> pin.pull
    BY <1>1, PinWorks
  <2>2. line' = line BY <1>2
  <2>3. line[2] \in regs'[<<"IE_P", line[1]>>] <=> pin'.input
    <3>1. CASE line[1] = 0
      <4>1. pin.input = TRUE /\ c = TRUE BY <1>9, <3>1 DEF RegistersInv
      <4> QED BY <1>5, <1>10, <2>1, <3>1, <4>1
    <3>2. CASE line[1] # 0
      <4>1. c = b BY <1>9, <3>2
      <4> QED BY <1>5, <1>10, <3>2, <4>1
    <3> QED BY <3>1, <3>2
  <2>4. /\ line'[2] \in regs'[<<"P", line'[1]>>] <=> pin'.level
        /\ line'[2] \in regs'[<<"M0", line'[1]>>] <=> pin'.mode \in {"PUSH_PULL", "OPEN_DRAIN"}
        /\ line'[2] \in regs'[<<"M1", line'[1]>>] <=> pin'.mode \in {"INPUT_ONLY", "OPEN_DRAIN"}
        /\ line'[2] \in regs'[<<"IE_P", line'[1]>>] <=> pin'.input
        /\ line'[2] \in regs'[<<"PU", line'[1]>>] <=> pin'.pull
    BY <1>7, <1>8, <2>1, <2>2, <2>3
  <2> QED BY <2>4, PinWorksNext
<1>12. line[1] = 0 => pin'.pull = FALSE /\ pin'.input = TRUE
  <2>1. line[1] = 0 => c = TRUE BY <1>9
  <2> QED BY <1>8, <1>10, <2>1 DEF RegistersInv
<1> QED BY <1>2, <1>5, <1>8, <1>11, <1>12, <1>13, PinCallKeeps

-----------------------------------------------------------------------------
LEMMA RegistersStart == RegistersInit => RegistersInv
<1> SUFFICES ASSUME RegistersInit PROVE RegistersInv
  OBVIOUS
<1>1. regs = AtReset /\ up = {} /\ on = {} /\ line \in Lines
      /\ pin = [mode |-> "INPUT_ONLY", level |-> TRUE, pull |-> FALSE, input |-> TRUE]
  BY DEF RegistersInit
<1>2. RegistersTypes
  <2>1. AtReset \in Files BY DEF AtReset, Files, RegBits, Everything
  <2>2. used \subseteq Peripherals /\ role \in {"1ms", "free", "delay"}
    BY DEF RegistersInit
  <2>3. pin \in Pins BY <1>1 DEF Pins, Modes
  <2> QED BY <1>1, <2>1, <2>2, <2>3 DEF RegistersTypes
<1>3. AtReset[<<"IE", 0>>] = {} /\ AtReset[<<"IE2", 0>>] = {} /\ AtReset[<<"TCON", 0>>] = {}
      /\ AtReset[<<"INTCLKO", 0>>] = {}
  BY NamesAre DEF AtReset
<1>4. EnableBits /\ Enables = on BY <1>1, <1>3 DEF EnableBits, Enables
<1>5. Works("PIN")
  <2>1. line[1] \in {0, 1, 3} /\ line[2] = 2 /\ \A name \in PortRegs : <<name, line[1]>> \in Names
    BY <1>1, OwnPin
  <2>2. /\ <<"P", line[1]>>[1] = "P" /\ <<"M0", line[1]>>[1] = "M0" /\ <<"M1", line[1]>>[1] = "M1"
        /\ <<"PU", line[1]>>[1] = "PU"
        /\ <<"IE_P", line[1]>>[1] = "IE_P" /\ <<"M1", line[1]>>[2] = line[1]
    OBVIOUS
  <2>3. 2 \in AtReset[<<"P", line[1]>>] BY <2>1, <2>2 DEF AtReset, PortRegs
  <2>4. 2 \notin AtReset[<<"M0", line[1]>>] BY <2>1, <2>2 DEF AtReset, PortRegs
  <2>5. 2 \in AtReset[<<"M1", line[1]>>] BY <2>1, <2>2 DEF AtReset, PortRegs
  <2>6. 2 \notin AtReset[<<"PU", line[1]>>] BY <2>1, <2>2 DEF AtReset, PortRegs
  <2>7. 2 \in AtReset[<<"IE_P", line[1]>>] BY <2>1, <2>2 DEF AtReset, PortRegs
  <2>8. pin.level = TRUE /\ pin.mode = "INPUT_ONLY" /\ pin.pull = FALSE /\ pin.input = TRUE
    BY <1>1
  <2> QED BY <1>1, <2>1, <2>3, <2>4, <2>5, <2>6, <2>7, <2>8, PinWorks
<1> QED BY <1>1, <1>2, <1>4, <1>5 DEF RegistersInv

LEMMA RegistersStep == RegistersInv /\ [RegistersNext]_registersVars => RegistersInv'
<1> SUFFICES ASSUME RegistersInv, [RegistersNext]_registersVars PROVE RegistersInv'
  OBVIOUS
<1>1. ASSUME NEW p \in Peripherals \ {"PIN"}, SetUp(p) PROVE RegistersInv'
  <2>1. p = "TIMER0" => role \in {"1ms", "free", "delay"}
    BY DEF RegistersInv, RegistersTypes
  <2>2. p \in {"UART1", "UART2", "UART3", "TIMER0", "SPI", "ADC", "INT0", "INT1", "INT2", "QEI", "WDT"}
    BY DEF Peripherals
  <2>3. CASE p = "UART1" BY <1>1, <2>3, Uart1InitKeeps
  <2>4. CASE p = "UART2" BY <1>1, <2>4, Uart2InitKeeps
  <2>5. CASE p = "UART3" BY <1>1, <2>5, Uart3InitKeeps
  <2>6. CASE p = "TIMER0"
    BY <1>1, <2>1, <2>6, Init1msKeeps, InitFreeRun12tKeeps, DelayTimer01tInitKeeps
  <2>7. CASE p = "SPI" BY <1>1, <2>7, SpiInitKeeps
  <2>8. CASE p = "ADC" BY <1>1, <2>8, AdcInitKeeps
  <2>9. CASE p = "QEI" BY <1>1, <2>9, QeiInitKeeps
  <2>10. CASE p = "WDT" BY <1>1, <2>10, WdtEnableKeeps
  <2>11. CASE p = "INT0" BY <1>1, <2>11, Exti0Keeps
  <2>12. CASE p = "INT1" BY <1>1, <2>12, Exti1Keeps
  <2>13. CASE p = "INT2" BY <1>1, <2>13, Exti2Keeps
  <2> QED BY <2>2, <2>3, <2>4, <2>5, <2>6, <2>7, <2>8, <2>9, <2>10, <2>11, <2>12, <2>13
<1>2. ASSUME NEW p \in Peripherals \ {"PIN"}, interrupt_enable(p) \/ interrupt_disable(p) PROVE RegistersInv'
  BY <1>2, InterruptKeeps
<1>3. CASE timer_start \/ timer_stop BY <1>3, TimerKeeps
<1>4. CASE timer0_reset BY <1>4, ResetKeeps
<1>5. CASE delay_timer0_1t_wait BY <1>5, WaitKeeps
<1>6. CASE QeiStop BY <1>6, QeiStopKeeps
<1>7. CASE wdt_feed BY <1>7, FeedKeeps
<1>8. CASE GpioCall
  <2>1. CASE gpio_toggle BY <2>1, ToggleKeeps
  <2>2. ASSUME NEW chosen \in Modes, gpio_set_mode(chosen) PROVE RegistersInv'
    BY <2>2, ModeKeeps
  <2>3. ASSUME NEW b \in BOOLEAN, gpio_write(b) PROVE RegistersInv'
    BY <2>3, WriteKeeps
  <2>4. ASSUME NEW b \in BOOLEAN, gpio_set_pullup_mask(b) PROVE RegistersInv'
    BY <2>4, PullKeeps
  <2>5. ASSUME NEW b \in BOOLEAN, gpio_set_input_enable_mask(b) PROVE RegistersInv'
    BY <2>5, InputKeeps
  <2> QED BY <1>8, <2>1, <2>2, <2>3, <2>4, <2>5 DEF GpioCall
<1>9. CASE UNCHANGED registersVars
  BY <1>9 DEF registersVars, RegistersInv, RegistersTypes, EnableBits, Enables, Works, Has, Lacks, Quasi, Released
<1> QED BY <1>1, <1>2, <1>3, <1>4, <1>5, <1>6, <1>7, <1>8, <1>9 DEF RegistersNext

\* The registers are sets of bits, the program's pin has one of the four modes, and only
\* the given bits of the peripherals that have one are among those switched on
\* (hal/stc8h_uart.c, _timer.c, _gpio.c, _exti.c and the others).
THEOREM RegistersTypeCorrect == RegistersSpec => []RegistersTypes
<1>1. RegistersInv => RegistersTypes BY DEF RegistersInv
<1> QED BY <1>1, RegistersStart, RegistersStep, PTL DEF RegistersSpec

\* In whatever order a program sets its peripherals up and switches them, each keeps the
\* modes, clocks, switches and latches its init function left, and exactly the interrupts it
\* has enabled, and Timer0, are on, although the functions of one driver write registers of
\* the others.  The latch of an input is excepted when the program drives a pin of its port.
THEOREM SetupIsKept == RegistersSpec => []KeepsSetup
<1>1. RegistersInv => KeepsSetup BY DEF RegistersInv, KeepsSetup
<1> QED BY <1>1, RegistersStart, RegistersStep, PTL DEF RegistersSpec

-----------------------------------------------------------------------------
(* The two wires: what one step of the master makes of the wires and the device. *)

Edges == [do : {"scl", "sda", "read", "ack"}, to : Bit]
Devices == [mode : {"idle", "in", "ackout", "out", "ackin"}, bits : Seq(Bit), frame : Seq(WireByte),
            sent : 0 .. 2 * ByteBits - 1, ram : Seq(WireByte)]
Buses == [scl : Bit, sda : Bit, hold : Bit, dev : Devices, got : Seq(Bit)]
Bus == [scl |-> scl, sda |-> sda, hold |-> hold, dev |-> device, got |-> input]

Reads(c, d) == c = "i2c" /\ d.frame[1] = AddressByte(1)
Quiet(d, h, e, g) == e = d /\ g = h
Sends(d, e, g) == e = d /\ g = SendingBit(d.sent)

\* The device d that holds SDA at h becomes e, holding it at g.
Fall(c, d, h, e, g) ==
  \/ /\ d.mode = "in" /\ Len(d.bits) = ByteBits
     /\ \/ e = [d EXCEPT !.mode = "ackout", !.bits = <<>>, !.frame = Append(@, d.bits)] /\ g = 0
        \/ e = [d EXCEPT !.mode = "idle"] /\ g = 1
  \/ d.mode = "ackout" /\ Reads(c, d) /\ Sends([d EXCEPT !.mode = "out", !.sent = 0], e, g)
  \/ d.mode = "ackout" /\ ~Reads(c, d) /\ e = [d EXCEPT !.mode = "in"] /\ g = 1
  \/ d.mode = "out" /\ (d.sent + 1) % ByteBits # 0 /\ Sends([d EXCEPT !.sent = @ + 1], e, g)
  \/ /\ d.mode = "out" /\ (d.sent + 1) % ByteBits = 0
     /\ e = [d EXCEPT !.mode = "ackin", !.sent = (@ + 1) % (2 * ByteBits), !.bits = <<>>] /\ g = 1
  \/ d.mode = "ackin" /\ d.bits = <<0>> /\ Sends([d EXCEPT !.mode = "out", !.bits = <<>>], e, g)
  \/ d.mode = "ackin" /\ d.bits # <<0>> /\ e = [d EXCEPT !.mode = "idle"] /\ g = 1
  \/ d.mode = "in" /\ Len(d.bits) # ByteBits /\ Quiet(d, h, e, g)
  \/ d.mode = "idle" /\ Quiet(d, h, e, g)

Rise(d, l, e) == e = IF d.mode \in {"in", "ackin"} THEN [d EXCEPT !.bits = Append(@, l)] ELSE d

SclEdge(c, s, to, z) ==
  /\ z.scl = to /\ z.sda = s.sda /\ z.got = s.got
  /\ s.scl = 0 /\ to = 1 => Rise(s.dev, Level(s.sda, s.hold), z.dev) /\ z.hold = s.hold
  /\ s.scl = 1 /\ to = 0 => Fall(c, s.dev, s.hold, z.dev, z.hold)
  /\ s.scl = to => z.dev = s.dev /\ z.hold = s.hold

IsStart(s, to) == s.scl = 1 /\ Level(s.sda, s.hold) = 1 /\ to = 0
IsStop(s, to) == s.scl = 1 /\ s.sda = 0 /\ Level(to, s.hold) = 1
SdaEdge(s, to, z) ==
  /\ z.scl = s.scl /\ z.sda = to /\ z.got = s.got
  /\ IsStart(s, to) => z.dev = [Waiting EXCEPT !.mode = "in", !.ram = s.dev.ram] /\ z.hold = 1
  /\ IsStop(s, to) =>
       /\ z.dev = [s.dev EXCEPT !.mode = "idle",
                                !.ram = IF s.dev.frame # <<>> /\ s.dev.frame[1] = AddrBase
                                        THEN Tail(s.dev.frame) ELSE @]
       /\ z.hold = 1
  /\ ~IsStart(s, to) /\ ~IsStop(s, to) => z.dev = s.dev /\ z.hold = s.hold

Edge(c, s, a, z) ==
  /\ z \in Buses
  /\ a.do = "scl" => SclEdge(c, s, a.to, z)
  /\ a.do = "sda" => SdaEdge(s, a.to, z)
  /\ a.do = "read" => z = [s EXCEPT !.got = Append(@, Level(s.sda, s.hold))]
  /\ a.do = "ack" => z = s /\ Level(s.sda, s.hold) = 0

\* A byte is refused at the step a.
Refused(s, a) == a.do = "ack" /\ Level(s.sda, s.hold) = 1

\* Whatever the device does, the steps p lead from s to T, or to E where a byte is refused.
Goes(c, s, p, n, f) == f[0] = s /\ \A i \in 1 .. n : Edge(c, f[i - 1], p[i], f[i])
Brings(c, s, p, T, E) ==
  \A f, n : n \in 0 .. Len(p) /\ Goes(c, s, p, n, f) =>
    /\ n = Len(p) => f[n] \in T
    /\ n < Len(p) /\ Refused(f[n], p[n + 1]) => f[n] \in E

LEMMA BringsNow ==
  ASSUME NEW c, NEW s, NEW T, NEW E, Brings(c, s, <<>>, T, E)
  PROVE  s \in T
<1> DEFINE f == [i \in {0} |-> s]
<1>1. f[0] = s /\ Len(<<>>) = 0 /\ 0 \in 0 .. Len(<<>>) OBVIOUS
<1> HIDE DEF f
<1>2. Goes(c, s, <<>>, 0, f) BY <1>1 DEF Goes
<1> QED BY <1>1, <1>2 DEF Brings

LEMMA BringsNothing ==
  ASSUME NEW c, NEW T, NEW s \in T, NEW E
  PROVE  Brings(c, s, <<>>, T, E)
<1>1. ASSUME NEW f, NEW n \in 0 .. Len(<<>>), Goes(c, s, <<>>, n, f) PROVE f[n] \in T /\ n = Len(<<>>)
  BY <1>1 DEF Goes
<1> QED BY <1>1 DEF Brings

LEMMA BringsOn ==
  ASSUME NEW c, NEW s, NEW p \in Seq(Edges), p # <<>>, NEW T, NEW E, Brings(c, s, p, T, E), NEW z, Edge(c, s, Head(p), z)
  PROVE  Brings(c, z, Tail(p), T, E)
<1>1. Len(p) \in Nat \ {0} /\ Len(Tail(p)) = Len(p) - 1 /\ p[1] = Head(p)
      /\ \A i \in 1 .. Len(p) - 1 : Tail(p)[i] = p[i + 1]
  OBVIOUS
<1>2. ASSUME NEW f, NEW n \in 0 .. Len(Tail(p)), Goes(c, z, Tail(p), n, f)
      PROVE  /\ n = Len(Tail(p)) => f[n] \in T
             /\ n < Len(Tail(p)) /\ Refused(f[n], Tail(p)[n + 1]) => f[n] \in E
  <2> DEFINE g == [i \in 0 .. n + 1 |-> IF i = 0 THEN s ELSE f[i - 1]]
  <2>0. n \in Nat /\ n + 1 \in 0 .. Len(p) BY <1>1
  <2>1. g[0] = s /\ g[n + 1] = f[n] BY <2>0
  <2>2. ASSUME NEW i \in 1 .. n + 1 PROVE Edge(c, g[i - 1], p[i], g[i])
    <3>1. CASE i = 1
      <4>1. g[1] = f[0] /\ g[0] = s /\ 1 - 1 = 0 BY <2>0
      <4>2. f[0] = z BY <1>2 DEF Goes
      <4> HIDE DEF g
      <4> QED BY <1>1, <3>1, <4>1, <4>2
    <3>2. CASE i # 1
      <4>1. i - 1 \in 1 .. n /\ i - 1 \in 0 .. n + 1 /\ i \in 0 .. n + 1 /\ i # 0 /\ i - 1 # 0 /\ (i - 1) + 1 = i
            /\ i - 1 \in 1 .. Len(p) - 1
        BY <1>1, <2>0, <3>2
      <4>2. g[i] = f[i - 1] /\ g[i - 1] = f[(i - 1) - 1] /\ Tail(p)[i - 1] = p[i]
        BY <1>1, <4>1
      <4>3. Edge(c, f[(i - 1) - 1], Tail(p)[i - 1], f[i - 1])
        BY <1>2, <4>1 DEF Goes
      <4> HIDE DEF g
      <4> QED BY <4>2, <4>3
    <3> QED BY <3>1, <3>2
  <2>3. Goes(c, s, p, n + 1, g)
    <3> HIDE DEF g
    <3> QED BY <2>1, <2>2 DEF Goes
  <2> HIDE DEF g
  <2>4. /\ n + 1 = Len(p) => g[n + 1] \in T
        /\ n + 1 < Len(p) /\ Refused(g[n + 1], p[(n + 1) + 1]) => g[n + 1] \in E
    BY <2>0, <2>3 DEF Brings
  <2>5. n < Len(Tail(p)) => n + 1 < Len(p) /\ Tail(p)[n + 1] = p[(n + 1) + 1]
    <3>1. n < Len(Tail(p)) => n + 1 < Len(p) /\ n + 1 \in 1 .. Len(p) - 1
      BY <1>1, <2>0
    <3> QED BY <1>1, <3>1
  <2>6. n = Len(Tail(p)) => f[n] \in T
    <3>1. n = Len(Tail(p)) => n + 1 = Len(p) BY <1>1, <2>0
    <3> QED BY <2>1, <2>4, <3>1
  <2>7. n < Len(Tail(p)) /\ Refused(f[n], Tail(p)[n + 1]) => f[n] \in E
    BY <2>1, <2>4, <2>5
  <2> QED BY <2>6, <2>7
<1> QED BY <1>2 DEF Brings

LEMMA BringsRefused ==
  ASSUME NEW c, NEW s, NEW p \in Seq(Edges), p # <<>>, NEW T, NEW E, Brings(c, s, p, T, E), Refused(s, Head(p))
  PROVE  s \in E
<1> DEFINE f == [i \in {0} |-> s]
<1>1. f[0] = s /\ 0 < Len(p) /\ 0 \in 0 .. Len(p) /\ p[0 + 1] = Head(p) OBVIOUS
<1> HIDE DEF f
<1>2. Goes(c, s, p, 0, f) BY <1>1 DEF Goes
<1> QED BY <1>1, <1>2 DEF Brings

LEMMA BringsOne ==
  ASSUME NEW c, NEW s, NEW a, NEW T, NEW E, \A z : Edge(c, s, a, z) => z \in T, Refused(s, a) => s \in E
  PROVE  Brings(c, s, <<a>>, T, E)
<1>1. Len(<<a>>) = 1 /\ <<a>>[1] = a OBVIOUS
<1>2. ASSUME NEW f, NEW n \in 0 .. 1, Goes(c, s, <<a>>, n, f)
      PROVE  (n = 1 => f[n] \in T) /\ (n < 1 /\ Refused(f[n], <<a>>[n + 1]) => f[n] \in E)
  <2>1. f[0] = s BY <1>2 DEF Goes
  <2>2. CASE n = 0 BY <1>1, <2>1, <2>2
  <2>3. CASE n = 1
    <3>1. Edge(c, f[1 - 1], <<a>>[1], f[1]) BY <1>2, <2>3 DEF Goes
    <3> QED BY <1>1, <2>1, <2>3, <3>1
  <2> QED BY <2>2, <2>3
<1> QED BY <1>1, <1>2 DEF Brings

LEMMA BringsJoin ==
  ASSUME NEW c, NEW s, NEW a \in Seq(Edges), NEW b \in Seq(Edges), NEW M, NEW T, NEW E,
         Brings(c, s, a, M, E), \A m \in M : Brings(c, m, b, T, E)
  PROVE  Brings(c, s, a \o b, T, E)
<1>1. PICK k \in Nat, l \in Nat : k = Len(a) /\ l = Len(b) OBVIOUS
<1>2. /\ Len(a \o b) = k + l
      /\ \A i \in 1 .. k + l : (a \o b)[i] = IF i <= k THEN a[i] ELSE b[i - k]
  BY <1>1, ConcatProperties
<1>3. ASSUME NEW f, NEW n \in 0 .. k + l, Goes(c, s, a \o b, n, f)
      PROVE  /\ n = k + l => f[n] \in T
             /\ n < k + l /\ Refused(f[n], (a \o b)[n + 1]) => f[n] \in E
  <2>1. f[0] = s /\ \A i \in 1 .. n : Edge(c, f[i - 1], (a \o b)[i], f[i])
    BY <1>3 DEF Goes
  <2>2. CASE n < k
    <3>1. ASSUME NEW i \in 1 .. n PROVE Edge(c, f[i - 1], a[i], f[i])
      <4>1. i \in 1 .. k + l /\ i <= k BY <2>2
      <4> QED BY <1>2, <2>1, <4>1
    <3>2. Goes(c, s, a, n, f) BY <2>1, <3>1 DEF Goes
    <3>3. n + 1 \in 1 .. k + l /\ n + 1 <= k /\ n \in 0 .. k /\ n # k + l
      BY <2>2
    <3>4. (a \o b)[n + 1] = a[n + 1] BY <1>2, <3>3
    <3>5. n < k /\ Refused(f[n], a[n + 1]) => f[n] \in E
      BY <1>1, <3>2, <3>3 DEF Brings
    <3> QED BY <2>2, <3>3, <3>4, <3>5
  <2>3. CASE n >= k
    <3>1. ASSUME NEW i \in 1 .. k PROVE Edge(c, f[i - 1], a[i], f[i])
      <4>1. i \in 1 .. k + l /\ i <= k /\ i \in 1 .. n BY <2>3
      <4> QED BY <1>2, <2>1, <4>1
    <3>2. Goes(c, s, a, k, f) BY <2>1, <3>1 DEF Goes
    <3>3. f[k] \in M BY <1>1, <3>2 DEF Brings
    <3> DEFINE g == [i \in 0 .. n - k |-> f[k + i]]
    <3>4. n - k \in 0 .. l /\ k + (n - k) = n BY <2>3
    <3>5. g[0] = f[k] /\ g[n - k] = f[n] BY <3>4
    <3>6. ASSUME NEW i \in 1 .. n - k PROVE Edge(c, g[i - 1], b[i], g[i])
      <4>1. k + i \in 1 .. n /\ k + i \in 1 .. k + l /\ ~(k + i <= k) /\ (k + i) - k = i /\ (k + i) - 1 = k + (i - 1)
            /\ i \in 0 .. n - k /\ i - 1 \in 0 .. n - k
        BY <3>4
      <4>2. g[i] = f[k + i] /\ g[i - 1] = f[k + (i - 1)] BY <4>1
      <4>3. (a \o b)[k + i] = b[i] BY <1>2, <4>1
      <4>4. Edge(c, f[(k + i) - 1], (a \o b)[k + i], f[k + i]) BY <2>1, <4>1
      <4> HIDE DEF g
      <4> QED BY <4>1, <4>2, <4>3, <4>4
    <3> HIDE DEF g
    <3>7. Goes(c, f[k], b, n - k, g) BY <3>5, <3>6 DEF Goes
    <3>8. Brings(c, f[k], b, T, E) BY <3>3
    <3>9. /\ n - k = l => g[n - k] \in T
          /\ n - k < l /\ Refused(g[n - k], b[(n - k) + 1]) => g[n - k] \in E
      BY <1>1, <3>4, <3>7, <3>8 DEF Brings
    <3>10. n < k + l => n + 1 \in 1 .. k + l /\ ~(n + 1 <= k) /\ (n + 1) - k = (n - k) + 1 /\ n - k < l
      BY <2>3
    <3>11. n < k + l => (a \o b)[n + 1] = b[(n - k) + 1] BY <1>2, <3>10
    <3>12. n = k + l => n - k = l BY <2>3
    <3>13. n = k + l => f[n] \in T BY <3>5, <3>9, <3>12
    <3>14. n < k + l /\ Refused(f[n], (a \o b)[n + 1]) => f[n] \in E
      BY <3>5, <3>9, <3>10, <3>11
    <3> QED BY <3>13, <3>14
  <2>4. n < k \/ n >= k OBVIOUS
  <2> QED BY <2>2, <2>3, <2>4
<1> QED BY <1>2, <1>3 DEF Brings

-----------------------------------------------------------------------------
(* Pieces put together. *)

Joined(f, q, n) == f = [i \in 0 .. n |-> IF i = 0 THEN <<>> ELSE f[i - 1] \o q[i]]
Grown(f, q, n, z) == f[0] = <<>> /\ f[n] = z /\ \A i \in 1 .. n : f[i] = f[i - 1] \o q[i]

LEMMA JoinedExists ==
  ASSUME NEW q, NEW n \in Nat
  PROVE  \E f : Joined(f, q, n)
<1> DEFINE S == {k \in Nat : \E f : Joined(f, q, k)}
<1>1. 0 \in S
  <2> DEFINE f == [i \in 0 .. 0 |-> <<>>]
  <2>1. f = [i \in 0 .. 0 |-> IF i = 0 THEN <<>> ELSE f[i - 1] \o q[i]] OBVIOUS
  <2>2. Joined(f, q, 0)
    <3> HIDE DEF f
    <3> QED BY <2>1 DEF Joined
  <2> HIDE DEF f
  <2> QED BY <2>2
<1>2. ASSUME NEW k \in Nat, k \in S PROVE k + 1 \in S
  <2>1. PICK f : Joined(f, q, k) BY <1>2
  <2>2. f = [i \in 0 .. k |-> IF i = 0 THEN <<>> ELSE f[i - 1] \o q[i]]
    BY <2>1 DEF Joined
  <2> DEFINE g == [i \in 0 .. k + 1 |-> IF i <= k THEN f[i] ELSE f[k] \o q[k + 1]]
             h == [i \in 0 .. k + 1 |-> IF i = 0 THEN <<>> ELSE g[i - 1] \o q[i]]
  <2>3. ASSUME NEW i \in 0 .. k + 1 PROVE g[i] = h[i]
    <3>1. CASE i = 0
      <4>1. g[0] = f[0] /\ h[0] = <<>> OBVIOUS
      <4>2. f[0] = <<>> BY <2>2
      <4> QED BY <3>1, <4>1, <4>2
    <3>2. CASE i \in 1 .. k
      <4>1. i - 1 \in 0 .. k /\ i \in 0 .. k /\ i - 1 <= k /\ i <= k /\ i # 0 /\ i - 1 \in 0 .. k + 1
        BY <3>2
      <4>2. g[i] = f[i] /\ g[i - 1] = f[i - 1] /\ h[i] = g[i - 1] \o q[i]
        BY <4>1
      <4>3. f[i] = f[i - 1] \o q[i] BY <2>2, <4>1
      <4> HIDE DEF g, h
      <4> QED BY <4>2, <4>3
    <3>3. CASE i = k + 1
      <4>1. ~(k + 1 <= k) /\ (k + 1) - 1 = k /\ k \in 0 .. k + 1 /\ k <= k /\ k + 1 # 0 /\ k + 1 \in 0 .. k + 1
        OBVIOUS
      <4>2. g[k + 1] = f[k] \o q[k + 1] /\ g[k] = f[k] /\ h[k + 1] = g[k] \o q[k + 1]
        BY <4>1
      <4> HIDE DEF g, h
      <4> QED BY <3>3, <4>2
    <3> HIDE DEF g, h
    <3>4. i = 0 \/ i \in 1 .. k \/ i = k + 1 OBVIOUS
    <3> QED BY <3>1, <3>2, <3>3, <3>4
  <2>4. g = h
    <3>1. /\ DOMAIN g = 0 .. k + 1 /\ DOMAIN h = 0 .. k + 1
          /\ g = [i \in 0 .. k + 1 |-> g[i]] /\ h = [i \in 0 .. k + 1 |-> h[i]]
      OBVIOUS
    <3> HIDE DEF g, h
    <3> QED BY <2>3, <3>1
  <2>5. Joined(g, q, k + 1)
    <3>1. g = [i \in 0 .. k + 1 |-> IF i = 0 THEN <<>> ELSE g[i - 1] \o q[i]]
      BY <2>4
    <3> HIDE DEF g
    <3> QED BY <3>1 DEF Joined
  <2> HIDE DEF g
  <2> QED BY <2>5
<1>3. Nat \subseteq S
  <2> HIDE DEF S
  <2> QED BY <1>1, <1>2, SetInduction
<1> QED BY <1>3

\* Flat puts the pieces together, one after the other.
LEMMA FlatGrows ==
  ASSUME NEW q, NEW n \in Nat, Len(q) = n
  PROVE  \E f : Grown(f, q, n, Flat(q))
<1> DEFINE F == CHOOSE f : f = [i \in 0 .. Len(q) |-> IF i = 0 THEN <<>> ELSE f[i - 1] \o q[i]]
<1>1. \E f : f = [i \in 0 .. Len(q) |-> IF i = 0 THEN <<>> ELSE f[i - 1] \o q[i]]
  <2>1. PICK f : Joined(f, q, n) BY JoinedExists
  <2> QED BY <2>1 DEF Joined
<1>2. F = [i \in 0 .. Len(q) |-> IF i = 0 THEN <<>> ELSE F[i - 1] \o q[i]]
  BY <1>1
<1>3. Flat(q) = F[Len(q)] BY DEF Flat
<1> HIDE DEF F
<1>4. F[0] = <<>> BY <1>2
<1>5. ASSUME NEW i \in 1 .. n PROVE F[i] = F[i - 1] \o q[i] BY <1>2
<1>6. Grown(F, q, n, Flat(q)) BY <1>3, <1>4, <1>5 DEF Grown
<1> QED BY <1>6

-----------------------------------------------------------------------------
(* From any state of P the steps p lead into Q. *)

Carries(c, P, p, Q, E) == p \in Seq(Edges) /\ \A s \in P : Brings(c, s, p, Q, E)

LEMMA CarriesJoin ==
  ASSUME NEW c, NEW P, NEW M, NEW Q, NEW E, NEW p, NEW q, Carries(c, P, p, M, E), Carries(c, M, q, Q, E)
  PROVE  Carries(c, P, p \o q, Q, E)
<1>1. p \in Seq(Edges) /\ q \in Seq(Edges) /\ p \o q \in Seq(Edges)
  BY DEF Carries
<1>2. ASSUME NEW s \in P PROVE Brings(c, s, p \o q, Q, E)
  <2>1. Brings(c, s, p, M, E) /\ \A m \in M : Brings(c, m, q, Q, E)
    BY DEF Carries
  <2> QED BY <1>1, <2>1, BringsJoin
<1> QED BY <1>1, <1>2 DEF Carries

LEMMA CarriesOne ==
  ASSUME NEW c, NEW P, NEW Q, NEW E, NEW a \in Edges, \A s \in P : \A z : Edge(c, s, a, z) => z \in Q,
         \A s \in P : Refused(s, a) => s \in E
  PROVE  Carries(c, P, <<a>>, Q, E)
<1>1. <<a>> \in Seq(Edges) OBVIOUS
<1>2. ASSUME NEW s \in P PROVE Brings(c, s, <<a>>, Q, E)
  <2>1. (\A z : Edge(c, s, a, z) => z \in Q) /\ (Refused(s, a) => s \in E)
    OBVIOUS
  <2> QED BY <2>1, BringsOne
<1> QED BY <1>1, <1>2 DEF Carries

LEMMA CarriesNone ==
  ASSUME NEW c, NEW P, NEW Q, NEW E, P \subseteq Q
  PROVE  Carries(c, P, <<>>, Q, E)
<1>1. ASSUME NEW s \in P PROVE Brings(c, s, <<>>, Q, E) BY BringsNothing
<1>2. <<>> \in Seq(Edges) OBVIOUS
<1> QED BY <1>1, <1>2 DEF Carries

LEMMA CarriesWider ==
  ASSUME NEW c, NEW P, NEW Q, NEW E, NEW p, NEW R, NEW T, Carries(c, P, p, Q, E), R \subseteq P, Q \subseteq T
  PROVE  Carries(c, R, p, T, E)
<1>1. ASSUME NEW s \in R PROVE Brings(c, s, p, T, E)
  <2>1. Brings(c, s, p, Q, E) BY DEF Carries
  <2> QED BY <2>1 DEF Brings
<1> QED BY <1>1 DEF Carries

\* A piece at a time.
LEMMA CarriesFlat ==
  ASSUME NEW c, NEW q, NEW n \in Nat, Len(q) = n, NEW P, NEW E,
         \A i \in 1 .. n : Carries(c, P[i - 1], q[i], P[i], E)
  PROVE  Carries(c, P[0], Flat(q), P[n], E)
<1>1. PICK f : Grown(f, q, n, Flat(q)) BY FlatGrows
<1>2. f[0] = <<>> /\ f[n] = Flat(q) /\ \A i \in 1 .. n : f[i] = f[i - 1] \o q[i]
  BY <1>1 DEF Grown
<1> DEFINE S == {k \in Nat : k <= n => Carries(c, P[0], f[k], P[k], E)}
<1>3. 0 \in S BY <1>2, CarriesNone
<1>4. ASSUME NEW k \in Nat, k \in S PROVE k + 1 \in S
  <2>1. ASSUME k + 1 <= n PROVE Carries(c, P[0], f[k + 1], P[k + 1], E)
    <3>1. k + 1 \in 1 .. n /\ (k + 1) - 1 = k /\ k <= n BY <2>1
    <3>2. f[k + 1] = f[k] \o q[k + 1] BY <1>2, <3>1
    <3>3. Carries(c, P[0], f[k], P[k], E) /\ Carries(c, P[k], q[k + 1], P[k + 1], E)
      BY <1>4, <3>1
    <3> QED BY <3>2, <3>3, CarriesJoin
  <2> QED BY <2>1
<1>5. Nat \subseteq S
  <2> HIDE DEF S
  <2> QED BY <1>3, <1>4, SetInduction
<1> QED BY <1>2, <1>5

LEMMA SclCarries ==
  ASSUME NEW c, NEW P, NEW Q, NEW E, NEW v \in Bit,
         \A s \in P : \A z \in Buses : SclEdge(c, s, v, z) => z \in Q
  PROVE  Carries(c, P, Scl(v), Q, E)
<1> DEFINE a == [do |-> "scl", to |-> v]
<1>1. a \in Edges /\ a.do = "scl" /\ a.to = v /\ Scl(v) = <<a>>
  BY DEF Edges, Scl
<1> HIDE DEF a
<1>2. \A s \in P : \A z : Edge(c, s, a, z) => z \in Q BY <1>1 DEF Edge
<1>3. \A s \in P : Refused(s, a) => s \in E BY <1>1 DEF Refused
<1>4. Carries(c, P, <<a>>, Q, E) BY <1>1, <1>2, <1>3, CarriesOne
<1> QED BY <1>1, <1>4

LEMMA SdaCarries ==
  ASSUME NEW c, NEW P, NEW Q, NEW E, NEW v \in Bit,
         \A s \in P : \A z \in Buses : SdaEdge(s, v, z) => z \in Q
  PROVE  Carries(c, P, Sda(v), Q, E)
<1> DEFINE a == [do |-> "sda", to |-> v]
<1>1. a \in Edges /\ a.do = "sda" /\ a.to = v /\ Sda(v) = <<a>>
  BY DEF Edges, Sda
<1> HIDE DEF a
<1>2. \A s \in P : \A z : Edge(c, s, a, z) => z \in Q BY <1>1 DEF Edge
<1>3. \A s \in P : Refused(s, a) => s \in E BY <1>1 DEF Refused
<1>4. Carries(c, P, <<a>>, Q, E) BY <1>1, <1>2, <1>3, CarriesOne
<1> QED BY <1>1, <1>4

LEMMA ReadCarries ==
  ASSUME NEW c, NEW P, NEW Q, NEW E,
         \A s \in P : [s EXCEPT !.got = Append(@, Level(s.sda, s.hold))] \in Q
  PROVE  Carries(c, P, ReadSda, Q, E)
<1> DEFINE a == [do |-> "read", to |-> 0]
<1>1. a \in Edges /\ a.do = "read" /\ ReadSda = <<a>> BY DEF Edges, ReadSda, Bit
<1> HIDE DEF a
<1>2. \A s \in P : \A z : Edge(c, s, a, z) => z \in Q BY <1>1 DEF Edge
<1>3. \A s \in P : Refused(s, a) => s \in E BY <1>1 DEF Refused
<1>4. Carries(c, P, <<a>>, Q, E) BY <1>1, <1>2, <1>3, CarriesOne
<1> QED BY <1>1, <1>4

-----------------------------------------------------------------------------
(* A device that listens: it has had the bits B of a byte, after the bytes F. *)

In(L, D, B, F, R, G) ==
  {z \in Buses : /\ z.scl \in L /\ z.sda \in D /\ z.hold = 1 /\ z.got = G
                 /\ z.dev.mode = "in" /\ z.dev.bits = B /\ z.dev.frame = F /\ z.dev.ram \in R}
\* It has had a whole byte, and accepts or refuses it.
Acking(L, D, F, R, G) ==
  {z \in Buses : /\ z.scl \in L /\ z.sda \in D /\ z.got = G
                 /\ \/ z.hold = 0 /\ z.dev.mode = "ackout" /\ z.dev.bits = <<>> /\ z.dev.frame = F /\ z.dev.ram \in R
                    \/ z.hold = 1 /\ z.dev.mode = "idle"}
Accepted(F, R, G) ==
  {z \in Buses : /\ z.scl = 1 /\ z.sda = 1 /\ z.got = G
                 /\ z.hold = 0 /\ z.dev.mode = "ackout" /\ z.dev.bits = <<>> /\ z.dev.frame = F /\ z.dev.ram \in R}
Refusals == {z \in Buses : z.scl = 1 /\ z.sda = 1 /\ z.hold = 1 /\ z.dev.mode = "idle"}

LEMMA LevelHigh == \A v \in Bit : Level(v, 1) = v /\ Level(v, 0) = 0
BY DEF Bit, Level

LEMMA InSda ==
  ASSUME NEW c, NEW v \in Bit, NEW D, NEW B, NEW F, NEW R, NEW G, NEW E
  PROVE  Carries(c, In({0}, D, B, F, R, G), Sda(v), In({0}, {v}, B, F, R, G), E)
<1>1. ASSUME NEW s \in In({0}, D, B, F, R, G), NEW z \in Buses, SdaEdge(s, v, z)
      PROVE z \in In({0}, {v}, B, F, R, G)
  <2>1. s.scl = 0 /\ ~IsStart(s, v) /\ ~IsStop(s, v) BY DEF In, IsStart, IsStop
  <2>2. z.scl = 0 /\ z.sda = v /\ z.got = s.got /\ z.dev = s.dev /\ z.hold = s.hold
    BY <1>1, <2>1 DEF SdaEdge
  <2> QED BY <2>2 DEF In
<1> QED BY <1>1, SdaCarries

LEMMA InRises ==
  ASSUME NEW c, NEW v \in Bit, NEW B \in Seq(Bit), NEW F, NEW R, NEW G, NEW E
  PROVE  Carries(c, In({0}, {v}, B, F, R, G), Scl(1), In({1}, {v}, Append(B, v), F, R, G), E)
<1>1. ASSUME NEW s \in In({0}, {v}, B, F, R, G), NEW z \in Buses, SclEdge(c, s, 1, z)
      PROVE z \in In({1}, {v}, Append(B, v), F, R, G)
  <2>1. s.scl = 0 /\ s.sda = v /\ s.hold = 1 /\ s.dev.mode = "in" /\ s.dev \in Devices
        /\ s.dev.bits = B /\ s.dev.frame = F /\ s.dev.ram \in R /\ s.got = G
    BY DEF In, Buses
  <2>2. z.scl = 1 /\ z.sda = v /\ z.got = s.got /\ z.hold = 1 /\ Rise(s.dev, Level(v, 1), z.dev)
    BY <1>1, <2>1 DEF SclEdge
  <2>3. z.dev = [s.dev EXCEPT !.bits = Append(@, v)]
    BY <2>1, <2>2, LevelHigh DEF Rise
  <2>4. z.dev.mode = "in" /\ z.dev.bits = Append(B, v) /\ z.dev.frame = F /\ z.dev.ram \in R
    BY <2>1, <2>3 DEF Devices
  <2> QED BY <2>1, <2>2, <2>4 DEF In
<1>2. 1 \in Bit BY DEF Bit
<1> QED BY <1>1, <1>2, SclCarries

\* Within a byte nothing happens when the clock falls.
LEMMA InFalls ==
  ASSUME NEW c, NEW L, NEW D, NEW B \in Seq(Bit), Len(B) # ByteBits, NEW F, NEW R, NEW G, NEW E
  PROVE  Carries(c, In(L, D, B, F, R, G), Scl(0), In({0}, D, B, F, R, G), E)
<1>1. ASSUME NEW s \in In(L, D, B, F, R, G), NEW z \in Buses, SclEdge(c, s, 0, z)
      PROVE z \in In({0}, D, B, F, R, G)
  <2>1. s.scl \in Bit /\ s.sda \in D /\ s.hold = 1 /\ s.dev.mode = "in"
        /\ s.dev.bits = B /\ s.dev.frame = F /\ s.dev.ram \in R /\ s.got = G
    BY DEF In, Buses
  <2>2. z.scl = 0 /\ z.sda = s.sda /\ z.got = s.got BY <1>1 DEF SclEdge
  <2>3. CASE s.scl = 0
    <3>1. z.dev = s.dev /\ z.hold = s.hold BY <1>1, <2>3 DEF SclEdge
    <3> QED BY <2>1, <2>2, <3>1 DEF In
  <2>4. CASE s.scl = 1
    <3>1. Fall(c, s.dev, s.hold, z.dev, z.hold) BY <1>1, <2>4 DEF SclEdge
    <3>2. z.dev = s.dev /\ z.hold = s.hold BY <2>1, <3>1 DEF Fall, Quiet
    <3> QED BY <2>1, <2>2, <3>2 DEF In
  <2> QED BY <2>1, <2>3, <2>4 DEF Bit
<1>2. 0 \in Bit BY DEF Bit
<1> QED BY <1>1, <1>2, SclCarries

\* After the last bit the device answers.
LEMMA InAnswers ==
  ASSUME NEW c, NEW D, NEW B \in WireByte, NEW F \in Seq(WireByte), NEW R, NEW G, NEW E
  PROVE  Carries(c, In({1}, D, B, F, R, G), Scl(0), Acking({0}, D, Append(F, B), R, G), E)
<1>1. ASSUME NEW s \in In({1}, D, B, F, R, G), NEW z \in Buses, SclEdge(c, s, 0, z)
      PROVE z \in Acking({0}, D, Append(F, B), R, G)
  <2>1. s.scl = 1 /\ s.sda \in D /\ s.hold = 1 /\ s.dev.mode = "in" /\ s.dev \in Devices
        /\ s.dev.bits = B /\ s.dev.frame = F /\ s.dev.ram \in R /\ s.got = G
    BY DEF In, Buses
  <2>2. z.scl = 0 /\ z.sda = s.sda /\ z.got = s.got /\ Fall(c, s.dev, s.hold, z.dev, z.hold)
    BY <1>1, <2>1 DEF SclEdge
  <2>3. Len(B) = ByteBits BY DEF WireByte, ByteBits
  <2>4. \/ z.dev = [s.dev EXCEPT !.mode = "ackout", !.bits = <<>>, !.frame = Append(@, s.dev.bits)] /\ z.hold = 0
        \/ z.dev = [s.dev EXCEPT !.mode = "idle"] /\ z.hold = 1
    BY <2>1, <2>2, <2>3 DEF Fall
  <2>5. CASE z.dev = [s.dev EXCEPT !.mode = "ackout", !.bits = <<>>, !.frame = Append(@, s.dev.bits)] /\ z.hold = 0
    <3>1. z.dev.mode = "ackout" /\ z.dev.bits = <<>> /\ z.dev.frame = Append(F, B) /\ z.dev.ram \in R
      BY <2>1, <2>5 DEF Devices
    <3> QED BY <2>1, <2>2, <2>5, <3>1 DEF Acking
  <2>6. CASE z.dev = [s.dev EXCEPT !.mode = "idle"] /\ z.hold = 1
    <3>1. z.dev.mode = "idle" BY <2>1, <2>6 DEF Devices
    <3> QED BY <2>1, <2>2, <2>6, <3>1 DEF Acking
  <2> QED BY <2>4, <2>5, <2>6
<1>2. 0 \in Bit BY DEF Bit
<1> QED BY <1>1, <1>2, SclCarries

\* The master releases SDA, lets the device answer and clocks the answer.
LEMMA AckingSda ==
  ASSUME NEW c, NEW D, NEW F, NEW R, NEW G, NEW E
  PROVE  Carries(c, Acking({0}, D, F, R, G), Sda(1), Acking({0}, {1}, F, R, G), E)
<1>1. ASSUME NEW s \in Acking({0}, D, F, R, G), NEW z \in Buses, SdaEdge(s, 1, z)
      PROVE z \in Acking({0}, {1}, F, R, G)
  <2>1. s.scl = 0 /\ ~IsStart(s, 1) /\ ~IsStop(s, 1)
    BY DEF Acking, IsStart, IsStop
  <2>2. z.scl = 0 /\ z.sda = 1 /\ z.got = s.got /\ z.dev = s.dev /\ z.hold = s.hold
    BY <1>1, <2>1 DEF SdaEdge
  <2> QED BY <2>2 DEF Acking
<1>2. 1 \in Bit BY DEF Bit
<1> QED BY <1>1, <1>2, SdaCarries

LEMMA AckingRises ==
  ASSUME NEW c, NEW F, NEW R, NEW G, NEW E
  PROVE  Carries(c, Acking({0}, {1}, F, R, G), Scl(1), Acking({1}, {1}, F, R, G), E)
<1>1. ASSUME NEW s \in Acking({0}, {1}, F, R, G), NEW z \in Buses, SclEdge(c, s, 1, z)
      PROVE z \in Acking({1}, {1}, F, R, G)
  <2>1. s.scl = 0 /\ s.sda = 1 /\ s.dev.mode \in {"ackout", "idle"}
    BY DEF Acking
  <2>2. z.scl = 1 /\ z.sda = 1 /\ z.got = s.got /\ z.hold = s.hold /\ z.dev = s.dev
    BY <1>1, <2>1 DEF SclEdge, Rise
  <2> QED BY <2>2 DEF Acking
<1>2. 1 \in Bit BY DEF Bit
<1> QED BY <1>1, <1>2, SclCarries

LEMMA AckingEnds ==
  ASSUME NEW c, NEW F, NEW R, NEW G
  PROVE  Carries(c, Acking({1}, {1}, F, R, G), CheckAck, Accepted(F, R, G), Refusals)
<1> DEFINE a == [do |-> "ack", to |-> 0]
<1>1. a \in Edges /\ a.do = "ack" /\ CheckAck = <<a>>
  BY DEF Edges, CheckAck, Bit
<1> HIDE DEF a
<1>2. ASSUME NEW s \in Acking({1}, {1}, F, R, G), NEW z, Edge(c, s, a, z) PROVE z \in Accepted(F, R, G)
  <2>1. z = s /\ Level(s.sda, s.hold) = 0 BY <1>1, <1>2 DEF Edge
  <2>2. s.sda = 1 /\ s.hold # 1 BY <2>1, LevelHigh DEF Acking, Bit
  <2> QED BY <2>1, <2>2 DEF Acking, Accepted
<1>3. ASSUME NEW s \in Acking({1}, {1}, F, R, G), Refused(s, a) PROVE s \in Refusals
  <2>1. s.sda = 1 /\ s.hold # 0 BY <1>3, LevelHigh DEF Acking, Refused, Bit
  <2> QED BY <2>1 DEF Acking, Refusals
<1>4. \A s \in Acking({1}, {1}, F, R, G) : \A z : Edge(c, s, a, z) => z \in Accepted(F, R, G)
  BY <1>2
<1>5. \A s \in Acking({1}, {1}, F, R, G) : Refused(s, a) => s \in Refusals
  BY <1>3
<1>6. Carries(c, Acking({1}, {1}, F, R, G), <<a>>, Accepted(F, R, G), Refusals)
  BY <1>1, <1>4, <1>5, CarriesOne
<1> QED BY <1>1, <1>6

\* A device that goes on listening.
LEMMA AcceptedListens ==
  ASSUME NEW c, NEW F, c = "tm1637" \/ F[1] # AddressByte(1), NEW R, NEW G, NEW E
  PROVE  Carries(c, Accepted(F, R, G), Scl(0), In({0}, {1}, <<>>, F, R, G), E)
<1>1. ASSUME NEW s \in Accepted(F, R, G), NEW z \in Buses, SclEdge(c, s, 0, z)
      PROVE z \in In({0}, {1}, <<>>, F, R, G)
  <2>1. s.scl = 1 /\ s.sda = 1 /\ s.hold = 0 /\ s.dev.mode = "ackout" /\ s.dev \in Devices
        /\ s.dev.bits = <<>> /\ s.dev.frame = F /\ s.dev.ram \in R /\ s.got = G
    BY DEF Accepted, Buses
  <2>2. z.scl = 0 /\ z.sda = 1 /\ z.got = s.got /\ Fall(c, s.dev, s.hold, z.dev, z.hold)
    BY <1>1, <2>1 DEF SclEdge
  <2>3. ~Reads(c, s.dev) BY <2>1 DEF Reads
  <2>4. z.dev = [s.dev EXCEPT !.mode = "in"] /\ z.hold = 1
    BY <2>1, <2>2, <2>3 DEF Fall
  <2>5. z.dev.mode = "in" /\ z.dev.bits = <<>> /\ z.dev.frame = F /\ z.dev.ram \in R
    BY <2>1, <2>4 DEF Devices
  <2> QED BY <2>1, <2>2, <2>4, <2>5 DEF In
<1>2. 0 \in Bit BY DEF Bit
<1> QED BY <1>1, <1>2, SclCarries

LEMMA AcknowledgedListens ==
  ASSUME NEW c, NEW D, NEW F, c = "tm1637" \/ F[1] # AddressByte(1), NEW R, NEW G
  PROVE  Carries(c, Acking({0}, D, F, R, G), Acknowledged, In({0}, {1}, <<>>, F, R, G), Refusals)
<1>1. Carries(c, Acking({0}, D, F, R, G), Sda(1), Acking({0}, {1}, F, R, G), Refusals)
  BY AckingSda
<1>2. Carries(c, Acking({0}, {1}, F, R, G), Scl(1), Acking({1}, {1}, F, R, G), Refusals)
  BY AckingRises
<1>3. Carries(c, Acking({1}, {1}, F, R, G), CheckAck, Accepted(F, R, G), Refusals)
  BY AckingEnds
<1>4. Carries(c, Accepted(F, R, G), Scl(0), In({0}, {1}, <<>>, F, R, G), Refusals)
  BY AcceptedListens
<1>5. Carries(c, Acking({0}, D, F, R, G), Sda(1) \o Scl(1), Acking({1}, {1}, F, R, G), Refusals)
  BY <1>1, <1>2, CarriesJoin
<1>6. Carries(c, Acking({0}, D, F, R, G), Sda(1) \o Scl(1) \o CheckAck, Accepted(F, R, G), Refusals)
  BY <1>3, <1>5, CarriesJoin
<1> QED BY <1>4, <1>6, CarriesJoin DEF Acknowledged

-----------------------------------------------------------------------------
(* Bytes. *)

Prefix(q, i) == [j \in 1 .. i |-> q[j]]

LEMMA PrefixGrows ==
  ASSUME NEW S, NEW q \in Seq(S), NEW i \in 1 .. Len(q)
  PROVE  /\ Prefix(q, i - 1) \in Seq(S) /\ Len(Prefix(q, i - 1)) = i - 1
         /\ Append(Prefix(q, i - 1), q[i]) = Prefix(q, i)
<1>1. Prefix(q, i - 1) \in Seq(S) /\ Len(Prefix(q, i - 1)) = i - 1 BY DEF Prefix
<1>2. Prefix(q, i) \in Seq(S) /\ Len(Prefix(q, i)) = i BY DEF Prefix
<1>3. \A j \in 1 .. i : Append(Prefix(q, i - 1), q[i])[j] = Prefix(q, i)[j]
  BY <1>1 DEF Prefix
<1>4. Append(Prefix(q, i - 1), q[i]) \in Seq(S) /\ Len(Append(Prefix(q, i - 1), q[i])) = i
  BY <1>1
<1> QED BY <1>1, <1>2, <1>3, <1>4

LEMMA PrefixEnds ==
  ASSUME NEW S, NEW q \in Seq(S)
  PROVE  Prefix(q, 0) = <<>> /\ Prefix(q, Len(q)) = q
BY DEF Prefix

LEMMA ByteIsSeq == ASSUME NEW b \in WireByte PROVE b \in Seq(Bit) /\ Len(b) = 3 /\ \A i \in 1 .. 3 : b[i] \in Bit
<1>1. PICK x \in Bit, y \in Bit, z \in Bit : b = <<x, y, z>> BY DEF WireByte
<1>2. <<x, y, z>> \in Seq(Bit) /\ Len(<<x, y, z>>) = 3 OBVIOUS
<1>3. b[1] = x /\ b[2] = y /\ b[3] = z BY <1>1
<1>4. \A i \in 1 .. 3 : i = 1 \/ i = 2 \/ i = 3 OBVIOUS
<1> QED BY <1>1, <1>2, <1>3, <1>4

\* One bit of a byte on I2C, from the low clock to the next.
LEMMA I2cBit ==
  ASSUME NEW c, NEW v \in Bit, NEW B \in Seq(Bit), Len(B) < 2, NEW F, NEW R, NEW G, NEW E
  PROVE  Carries(c, In({0}, Bit, B, F, R, G), Sda(v) \o Scl(1) \o Scl(0), In({0}, Bit, Append(B, v), F, R, G), E)
<1>1. Carries(c, In({0}, Bit, B, F, R, G), Sda(v), In({0}, {v}, B, F, R, G), E)
  BY InSda
<1>2. Carries(c, In({0}, {v}, B, F, R, G), Scl(1), In({1}, {v}, Append(B, v), F, R, G), E)
  BY InRises
<1>3. Append(B, v) \in Seq(Bit) /\ Len(Append(B, v)) # ByteBits BY DEF ByteBits
<1>4. Carries(c, In({1}, {v}, Append(B, v), F, R, G), Scl(0), In({0}, {v}, Append(B, v), F, R, G), E)
  BY <1>3, InFalls
<1>5. In({0}, {v}, Append(B, v), F, R, G) \subseteq In({0}, Bit, Append(B, v), F, R, G)
  BY DEF In
<1>6. Carries(c, In({0}, Bit, B, F, R, G), Sda(v) \o Scl(1), In({1}, {v}, Append(B, v), F, R, G), E)
  BY <1>1, <1>2, CarriesJoin
<1>7. Carries(c, In({0}, Bit, B, F, R, G), Sda(v) \o Scl(1) \o Scl(0), In({0}, {v}, Append(B, v), F, R, G), E)
  BY <1>4, <1>6, CarriesJoin
<1> QED BY <1>5, <1>7, CarriesWider

LEMMA I2cLastBit ==
  ASSUME NEW c, NEW b \in WireByte, NEW F \in Seq(WireByte), NEW R, NEW G, NEW E
  PROVE  Carries(c, In({0}, Bit, Prefix(b, 2), F, R, G), Sda(b[3]) \o Scl(1) \o Scl(0), Acking({0}, Bit, Append(F, b), R, G), E)
<1> DEFINE v == b[3]
           B == Prefix(b, 2)
<1>0. v \in Bit /\ B \in Seq(Bit) /\ Append(B, v) = b
  <2>1. b \in Seq(Bit) /\ Len(b) = 3 /\ 3 \in 1 .. Len(b) /\ 3 - 1 = 2 /\ b[3] \in Bit
    BY ByteIsSeq
  <2>2. Prefix(b, 3 - 1) \in Seq(Bit) /\ Append(Prefix(b, 3 - 1), b[3]) = Prefix(b, 3)
    BY <2>1, PrefixGrows
  <2>3. Prefix(b, Len(b)) = b BY <2>1, PrefixEnds
  <2>4. Prefix(b, 3) = b BY <2>1, <2>3
  <2>5. Prefix(b, 3 - 1) = Prefix(b, 2) BY <2>1
  <2> QED BY <2>1, <2>2, <2>4, <2>5
<1> HIDE DEF v, B
<1>1. Carries(c, In({0}, Bit, B, F, R, G), Sda(v), In({0}, {v}, B, F, R, G), E)
  BY <1>0, InSda
<1>2. Carries(c, In({0}, {v}, B, F, R, G), Scl(1), In({1}, {v}, b, F, R, G), E)
  BY <1>0, InRises
<1>3. Carries(c, In({1}, {v}, b, F, R, G), Scl(0), Acking({0}, {v}, Append(F, b), R, G), E)
  BY InAnswers
<1>4. Acking({0}, {v}, Append(F, b), R, G) \subseteq Acking({0}, Bit, Append(F, b), R, G)
  BY <1>0 DEF Acking
<1>5. Carries(c, In({0}, Bit, B, F, R, G), Sda(v) \o Scl(1), In({1}, {v}, b, F, R, G), E)
  BY <1>1, <1>2, CarriesJoin
<1>6. Carries(c, In({0}, Bit, B, F, R, G), Sda(v) \o Scl(1) \o Scl(0), Acking({0}, {v}, Append(F, b), R, G), E)
  BY <1>3, <1>5, CarriesJoin
<1>7. Carries(c, In({0}, Bit, B, F, R, G), Sda(v) \o Scl(1) \o Scl(0), Acking({0}, Bit, Append(F, b), R, G), E)
  BY <1>4, <1>6, CarriesWider
<1> QED BY <1>7 DEF v, B

\* The bits of a byte one after the other.
Shifts(c, b, F, R, G, E, q) ==
  Carries(c, In({0}, Bit, <<>>, F, R, G), Flat(q), Acking({0}, Bit, Append(F, b), R, G), E)

LEMMA I2cBits ==
  ASSUME NEW c, NEW b \in WireByte, NEW F \in Seq(WireByte), NEW R, NEW G, NEW E
  PROVE  Shifts(c, b, F, R, G, E, [i \in 1 .. ByteBits |-> Sda(b[i]) \o Scl(1) \o Scl(0)])
<1> DEFINE q == [i \in 1 .. ByteBits |-> Sda(b[i]) \o Scl(1) \o Scl(0)]
           P == [i \in 0 .. 3 |-> IF i < 3 THEN In({0}, Bit, Prefix(b, i), F, R, G) ELSE Acking({0}, Bit, Append(F, b), R, G)]
<1>1. Len(q) = 3 /\ \A i \in 1 .. 3 : q[i] = Sda(b[i]) \o Scl(1) \o Scl(0)
  BY DEF ByteBits
<1>2. \A i \in 0 .. 2 : P[i] = In({0}, Bit, Prefix(b, i), F, R, G) OBVIOUS
<1>3. P[3] = Acking({0}, Bit, Append(F, b), R, G) OBVIOUS
<1> HIDE DEF q, P
<1>4. b \in Seq(Bit) /\ Len(b) = 3 /\ \A i \in 1 .. 3 : b[i] \in Bit
  BY ByteIsSeq
<1>5. P[0] = In({0}, Bit, <<>>, F, R, G) BY <1>2, <1>4, PrefixEnds
<1>6. ASSUME NEW i \in 1 .. 2 PROVE Carries(c, P[i - 1], q[i], P[i], E)
  <2>0. i \in 1 .. Len(b) BY <1>4
  <2>1. Prefix(b, i - 1) \in Seq(Bit) /\ Len(Prefix(b, i - 1)) = i - 1 /\ Append(Prefix(b, i - 1), b[i]) = Prefix(b, i)
    BY <1>4, <2>0, PrefixGrows
  <2>2. i - 1 < 2 /\ i \in 1 .. 3 /\ i \in 0 .. 2 /\ i - 1 \in 0 .. 2 OBVIOUS
  <2>3. Carries(c, In({0}, Bit, Prefix(b, i - 1), F, R, G), Sda(b[i]) \o Scl(1) \o Scl(0),
                In({0}, Bit, Append(Prefix(b, i - 1), b[i]), F, R, G), E)
    BY <1>4, <2>1, <2>2, I2cBit
  <2> QED BY <1>1, <1>2, <2>1, <2>2, <2>3
<1>7. Carries(c, P[2], q[3], P[3], E)
  <2>1. Carries(c, In({0}, Bit, Prefix(b, 2), F, R, G), Sda(b[3]) \o Scl(1) \o Scl(0), Acking({0}, Bit, Append(F, b), R, G), E)
    BY I2cLastBit
  <2>2. P[2] = In({0}, Bit, Prefix(b, 2), F, R, G) /\ q[3] = Sda(b[3]) \o Scl(1) \o Scl(0)
    BY <1>1, <1>2
  <2> QED BY <1>3, <2>1, <2>2
<1>8. ASSUME NEW i \in 1 .. 3 PROVE Carries(c, P[i - 1], q[i], P[i], E)
  <2>1. i \in 1 .. 2 \/ (i = 3 /\ i - 1 = 2) OBVIOUS
  <2> QED BY <1>6, <1>7, <2>1
<1>9. Carries(c, P[0], Flat(q), P[3], E) BY <1>1, <1>8, CarriesFlat
<1>10. Shifts(c, b, F, R, G, E, q) BY <1>3, <1>5, <1>9 DEF Shifts
<1> QED BY <1>10 DEF q

LEMMA I2cByte ==
  ASSUME NEW b \in WireByte, NEW F \in Seq(WireByte), Append(F, b)[1] # AddressByte(1), NEW R, NEW G
  PROVE  Carries("i2c", In({0}, Bit, <<>>, F, R, G), i2c_write_byte(b), In({0}, Bit, <<>>, Append(F, b), R, G), Refusals)
<1> DEFINE q == [i \in 1 .. ByteBits |-> Sda(b[i]) \o Scl(1) \o Scl(0)]
<1>1. Shifts("i2c", b, F, R, G, Refusals, q) BY I2cBits
<1>2. i2c_write_byte(b) = Flat(q) \o Acknowledged BY DEF i2c_write_byte
<1> HIDE DEF q
<1>3. Carries("i2c", In({0}, Bit, <<>>, F, R, G), Flat(q), Acking({0}, Bit, Append(F, b), R, G), Refusals)
  BY <1>1 DEF Shifts
<1>4. Carries("i2c", Acking({0}, Bit, Append(F, b), R, G), Acknowledged, In({0}, {1}, <<>>, Append(F, b), R, G), Refusals)
  BY AcknowledgedListens
<1>5. In({0}, {1}, <<>>, Append(F, b), R, G) \subseteq In({0}, Bit, <<>>, Append(F, b), R, G)
  BY DEF In, Bit
<1>6. Carries("i2c", In({0}, Bit, <<>>, F, R, G), Flat(q) \o Acknowledged, In({0}, {1}, <<>>, Append(F, b), R, G), Refusals)
  BY <1>3, <1>4, CarriesJoin
<1> QED BY <1>2, <1>5, <1>6, CarriesWider

\* The same on the bus of the display, where the clock falls first.
LEMMA TmBit ==
  ASSUME NEW c, NEW v \in Bit, NEW B \in Seq(Bit), Len(B) < 3, NEW F, NEW R, NEW G, NEW E
  PROVE  Carries(c, In(Bit, Bit, B, F, R, G), Scl(0) \o Sda(v) \o Scl(1), In({1}, Bit, Append(B, v), F, R, G), E)
<1>1. Carries(c, In(Bit, Bit, B, F, R, G), Scl(0), In({0}, Bit, B, F, R, G), E)
  <2>1. Len(B) # ByteBits BY DEF ByteBits
  <2> QED BY <2>1, InFalls
<1>2. Carries(c, In({0}, Bit, B, F, R, G), Sda(v), In({0}, {v}, B, F, R, G), E)
  BY InSda
<1>3. Carries(c, In({0}, {v}, B, F, R, G), Scl(1), In({1}, {v}, Append(B, v), F, R, G), E)
  BY InRises
<1>4. In({1}, {v}, Append(B, v), F, R, G) \subseteq In({1}, Bit, Append(B, v), F, R, G)
  BY DEF In
<1>5. Carries(c, In(Bit, Bit, B, F, R, G), Scl(0) \o Sda(v), In({0}, {v}, B, F, R, G), E)
  BY <1>1, <1>2, CarriesJoin
<1>6. Carries(c, In(Bit, Bit, B, F, R, G), Scl(0) \o Sda(v) \o Scl(1), In({1}, {v}, Append(B, v), F, R, G), E)
  BY <1>3, <1>5, CarriesJoin
<1> QED BY <1>4, <1>6, CarriesWider

ShiftsTm(c, b, F, R, G, E, q) ==
  Carries(c, In({0}, Bit, <<>>, F, R, G), Flat(q), In({1}, Bit, b, F, R, G), E)

LEMMA TmBits ==
  ASSUME NEW c, NEW b \in WireByte, NEW F \in Seq(WireByte), NEW R, NEW G, NEW E
  PROVE  ShiftsTm(c, b, F, R, G, E, [i \in 1 .. ByteBits |-> Scl(0) \o Sda(b[i]) \o Scl(1)])
<1> DEFINE q == [i \in 1 .. ByteBits |-> Scl(0) \o Sda(b[i]) \o Scl(1)]
           P == [i \in 0 .. 3 |-> IF i < 3 THEN In(Bit, Bit, Prefix(b, i), F, R, G) ELSE In({1}, Bit, b, F, R, G)]
<1>1. Len(q) = 3 /\ \A i \in 1 .. 3 : q[i] = Scl(0) \o Sda(b[i]) \o Scl(1)
  BY DEF ByteBits
<1>2. \A i \in 0 .. 2 : P[i] = In(Bit, Bit, Prefix(b, i), F, R, G) OBVIOUS
<1>3. P[3] = In({1}, Bit, b, F, R, G) OBVIOUS
<1> HIDE DEF q, P
<1>4. b \in Seq(Bit) /\ Len(b) = 3 /\ \A i \in 1 .. 3 : b[i] \in Bit
  BY ByteIsSeq
<1>5. In({0}, Bit, <<>>, F, R, G) \subseteq P[0]
  <2>1. P[0] = In(Bit, Bit, <<>>, F, R, G) BY <1>2, <1>4, PrefixEnds
  <2> QED BY <2>1 DEF In, Bit
<1>6. ASSUME NEW i \in 1 .. 3 PROVE Carries(c, P[i - 1], q[i], P[i], E)
  <2>0. i \in 1 .. Len(b) BY <1>4
  <2>1. Prefix(b, i - 1) \in Seq(Bit) /\ Len(Prefix(b, i - 1)) = i - 1 /\ Append(Prefix(b, i - 1), b[i]) = Prefix(b, i)
    BY <1>4, <2>0, PrefixGrows
  <2>2. i - 1 < 3 /\ i - 1 \in 0 .. 2 OBVIOUS
  <2>3. Carries(c, In(Bit, Bit, Prefix(b, i - 1), F, R, G), Scl(0) \o Sda(b[i]) \o Scl(1),
                In({1}, Bit, Append(Prefix(b, i - 1), b[i]), F, R, G), E)
    BY <1>4, <2>1, <2>2, TmBit
  <2>4. Carries(c, P[i - 1], q[i], In({1}, Bit, Prefix(b, i), F, R, G), E)
    BY <1>1, <1>2, <2>1, <2>2, <2>3
  <2>5. In({1}, Bit, Prefix(b, i), F, R, G) \subseteq P[i]
    <3>1. CASE i = 3
      <4>1. Prefix(b, Len(b)) = b BY <1>4, PrefixEnds
      <4> QED BY <1>3, <1>4, <3>1, <4>1
    <3>2. CASE i # 3
      <4>1. i \in 0 .. 2 BY <3>2
      <4> QED BY <1>2, <4>1 DEF In, Bit
    <3> QED BY <3>1, <3>2
  <2> QED BY <2>4, <2>5, CarriesWider
<1>7. Carries(c, P[0], Flat(q), P[3], E) BY <1>1, <1>6, CarriesFlat
<1>8. Carries(c, In({0}, Bit, <<>>, F, R, G), Flat(q), P[3], E)
  BY <1>5, <1>7, CarriesWider
<1>9. ShiftsTm(c, b, F, R, G, E, q) BY <1>3, <1>8 DEF ShiftsTm
<1> QED BY <1>9 DEF q

LEMMA TmByte ==
  ASSUME NEW b \in WireByte, NEW F \in Seq(WireByte), NEW R, NEW G
  PROVE  Carries("tm1637", In({0}, Bit, <<>>, F, R, G), tm1637_write_byte(b), In({0}, Bit, <<>>, Append(F, b), R, G), Refusals)
<1> DEFINE q == [i \in 1 .. ByteBits |-> Scl(0) \o Sda(b[i]) \o Scl(1)]
<1>1. ShiftsTm("tm1637", b, F, R, G, Refusals, q) BY TmBits
<1>2. tm1637_write_byte(b) = Flat(q) \o Scl(0) \o Acknowledged
  BY DEF tm1637_write_byte
<1> HIDE DEF q
<1>3. Carries("tm1637", In({0}, Bit, <<>>, F, R, G), Flat(q), In({1}, Bit, b, F, R, G), Refusals)
  BY <1>1 DEF ShiftsTm
<1>4. Carries("tm1637", In({1}, Bit, b, F, R, G), Scl(0), Acking({0}, Bit, Append(F, b), R, G), Refusals)
  BY InAnswers
<1>5. Carries("tm1637", Acking({0}, Bit, Append(F, b), R, G), Acknowledged, In({0}, {1}, <<>>, Append(F, b), R, G), Refusals)
  BY AcknowledgedListens
<1>6. In({0}, {1}, <<>>, Append(F, b), R, G) \subseteq In({0}, Bit, <<>>, Append(F, b), R, G)
  BY DEF In, Bit
<1>7. Carries("tm1637", In({0}, Bit, <<>>, F, R, G), Flat(q) \o Scl(0), Acking({0}, Bit, Append(F, b), R, G), Refusals)
  BY <1>3, <1>4, CarriesJoin
<1>8. Carries("tm1637", In({0}, Bit, <<>>, F, R, G), Flat(q) \o Scl(0) \o Acknowledged, In({0}, {1}, <<>>, Append(F, b), R, G), Refusals)
  BY <1>5, <1>7, CarriesJoin
<1> QED BY <1>2, <1>6, <1>8, CarriesWider

\* Several bytes: those of data, after the bytes F.
WritesAll(c, F, data, R, G, q) ==
  Carries(c, In({0}, Bit, <<>>, F, R, G), Flat(q), In({0}, Bit, <<>>, F \o data, R, G), Refusals)

LEMMA AppendOn ==
  ASSUME NEW S, NEW A \in Seq(S), NEW B \in Seq(S), NEW x \in S
  PROVE  Append(A \o B, x) = A \o Append(B, x) /\ A \o B \in Seq(S)
OBVIOUS

LEMMA Following ==
  ASSUME NEW F \in Seq(WireByte), NEW data \in Seq(WireByte), NEW i \in 1 .. Len(data)
  PROVE  /\ F \o Prefix(data, i - 1) \in Seq(WireByte)
         /\ Append(F \o Prefix(data, i - 1), data[i]) = F \o Prefix(data, i)
         /\ data[i] \in WireByte
<1>1. Prefix(data, i - 1) \in Seq(WireByte) /\ Append(Prefix(data, i - 1), data[i]) = Prefix(data, i)
  BY PrefixGrows
<1>2. data[i] \in WireByte OBVIOUS
<1>3. /\ Append(F \o Prefix(data, i - 1), data[i]) = F \o Append(Prefix(data, i - 1), data[i])
      /\ F \o Prefix(data, i - 1) \in Seq(WireByte)
  BY <1>1, <1>2, AppendOn
<1> QED BY <1>1, <1>2, <1>3

LEMMA I2cBytes ==
  ASSUME NEW F \in Seq(WireByte), F # <<>>, F[1] # AddressByte(1), NEW data \in Seq(WireByte), NEW R, NEW G
  PROVE  WritesAll("i2c", F, data, R, G, [i \in DOMAIN data |-> i2c_write_byte(data[i])])
<1> DEFINE q == [i \in DOMAIN data |-> i2c_write_byte(data[i])]
           P == [i \in 0 .. Len(data) |-> In({0}, Bit, <<>>, F \o Prefix(data, i), R, G)]
<1>1. Len(q) = Len(data) /\ \A i \in 1 .. Len(data) : q[i] = i2c_write_byte(data[i])
  OBVIOUS
<1>2. \A i \in 0 .. Len(data) : P[i] = In({0}, Bit, <<>>, F \o Prefix(data, i), R, G)
  OBVIOUS
<1> HIDE DEF q, P
<1>3. Len(data) \in Nat /\ 0 \in 0 .. Len(data) /\ Len(data) \in 0 .. Len(data)
  OBVIOUS
<1>4. P[0] = In({0}, Bit, <<>>, F, R, G)
  <2>1. Prefix(data, 0) = <<>> /\ F \o <<>> = F BY PrefixEnds
  <2> QED BY <1>2, <1>3, <2>1
<1>5. P[Len(data)] = In({0}, Bit, <<>>, F \o data, R, G)
  <2>1. Prefix(data, Len(data)) = data BY PrefixEnds
  <2> QED BY <1>2, <1>3, <2>1
<1>6. ASSUME NEW i \in 1 .. Len(data) PROVE Carries("i2c", P[i - 1], q[i], P[i], Refusals)
  <2>1. /\ F \o Prefix(data, i - 1) \in Seq(WireByte)
        /\ Append(F \o Prefix(data, i - 1), data[i]) = F \o Prefix(data, i)
        /\ data[i] \in WireByte
    BY Following
  <2>2. Append(F \o Prefix(data, i - 1), data[i])[1] # AddressByte(1)
    <3>1. Prefix(data, i) \in Seq(WireByte) BY DEF Prefix
    <3>2. (F \o Prefix(data, i))[1] = F[1] BY <3>1
    <3> QED BY <2>1, <3>2
  <2>3. Carries("i2c", In({0}, Bit, <<>>, F \o Prefix(data, i - 1), R, G), i2c_write_byte(data[i]),
                In({0}, Bit, <<>>, F \o Prefix(data, i), R, G), Refusals)
    <3> DEFINE K == F \o Prefix(data, i - 1)
    <3>1. K \in Seq(WireByte) /\ Append(K, data[i])[1] # AddressByte(1) /\ Append(K, data[i]) = F \o Prefix(data, i)
      BY <2>1, <2>2
    <3> HIDE DEF K
    <3>2. Carries("i2c", In({0}, Bit, <<>>, K, R, G), i2c_write_byte(data[i]),
                  In({0}, Bit, <<>>, Append(K, data[i]), R, G), Refusals)
      BY <2>1, <3>1, I2cByte
    <3> QED BY <3>1, <3>2 DEF K
  <2>4. i - 1 \in 0 .. Len(data) /\ i \in 0 .. Len(data) OBVIOUS
  <2> QED BY <1>1, <1>2, <2>3, <2>4
<1>7. Carries("i2c", P[0], Flat(q), P[Len(data)], Refusals)
  BY <1>1, <1>3, <1>6, CarriesFlat
<1>8. WritesAll("i2c", F, data, R, G, q) BY <1>4, <1>5, <1>7 DEF WritesAll
<1> QED BY <1>8 DEF q

LEMMA TmBytes ==
  ASSUME NEW F \in Seq(WireByte), NEW data \in Seq(WireByte), NEW R, NEW G
  PROVE  WritesAll("tm1637", F, data, R, G, [i \in DOMAIN data |-> tm1637_write_byte(data[i])])
<1> DEFINE q == [i \in DOMAIN data |-> tm1637_write_byte(data[i])]
           P == [i \in 0 .. Len(data) |-> In({0}, Bit, <<>>, F \o Prefix(data, i), R, G)]
<1>1. Len(q) = Len(data) /\ \A i \in 1 .. Len(data) : q[i] = tm1637_write_byte(data[i])
  OBVIOUS
<1>2. \A i \in 0 .. Len(data) : P[i] = In({0}, Bit, <<>>, F \o Prefix(data, i), R, G)
  OBVIOUS
<1> HIDE DEF q, P
<1>3. Len(data) \in Nat /\ 0 \in 0 .. Len(data) /\ Len(data) \in 0 .. Len(data)
  OBVIOUS
<1>4. P[0] = In({0}, Bit, <<>>, F, R, G)
  <2>1. Prefix(data, 0) = <<>> /\ F \o <<>> = F BY PrefixEnds
  <2> QED BY <1>2, <1>3, <2>1
<1>5. P[Len(data)] = In({0}, Bit, <<>>, F \o data, R, G)
  <2>1. Prefix(data, Len(data)) = data BY PrefixEnds
  <2> QED BY <1>2, <1>3, <2>1
<1>6. ASSUME NEW i \in 1 .. Len(data) PROVE Carries("tm1637", P[i - 1], q[i], P[i], Refusals)
  <2>1. /\ F \o Prefix(data, i - 1) \in Seq(WireByte)
        /\ Append(F \o Prefix(data, i - 1), data[i]) = F \o Prefix(data, i)
        /\ data[i] \in WireByte
    BY Following
  <2> DEFINE K == F \o Prefix(data, i - 1)
  <2>2. K \in Seq(WireByte) /\ Append(K, data[i]) = F \o Prefix(data, i) BY <2>1
  <2>3. i - 1 \in 0 .. Len(data) /\ i \in 0 .. Len(data) OBVIOUS
  <2>4. P[i - 1] = In({0}, Bit, <<>>, K, R, G) /\ P[i] = In({0}, Bit, <<>>, F \o Prefix(data, i), R, G)
    BY <1>2, <2>3
  <2> HIDE DEF K
  <2>5. Carries("tm1637", In({0}, Bit, <<>>, K, R, G), tm1637_write_byte(data[i]),
                In({0}, Bit, <<>>, Append(K, data[i]), R, G), Refusals)
    BY <2>1, <2>2, TmByte
  <2> QED BY <1>1, <2>2, <2>4, <2>5
<1>7. Carries("tm1637", P[0], Flat(q), P[Len(data)], Refusals)
  BY <1>1, <1>3, <1>6, CarriesFlat
<1>8. WritesAll("tm1637", F, data, R, G, q) BY <1>4, <1>5, <1>7 DEF WritesAll
<1> QED BY <1>8 DEF q

-----------------------------------------------------------------------------
(* Beginning and end of a frame. *)

Rams == Seq(WireByte)
\* The device does not pull.
Loose(L, D, R, G) ==
  {z \in Buses : z.scl \in L /\ z.sda \in D /\ z.hold = 1 /\ z.dev.ram \in R /\ z.got = G}
\* Nor does it listen.
Silent(L, D, G) ==
  {z \in Buses : z.scl \in L /\ z.sda \in D /\ z.hold = 1 /\ z.dev.mode = "idle" /\ z.got \in G}
\* After a frame F.
Free(F, R, G) ==
  {z \in Buses : /\ z.scl = 1 /\ z.sda = 1 /\ z.hold = 1 /\ z.dev.mode = "idle"
                 /\ z.dev.frame = F /\ z.dev.ram \in R /\ z.got = G}
RamsAfter(F, R) == IF F # <<>> /\ F[1] = AddrBase THEN {Tail(F)} ELSE R

LEMMA LooseSda ==
  ASSUME NEW c, NEW D, NEW R, D = {1} \/ R = Rams, NEW G, NEW E
  PROVE  Carries(c, Loose(Bit, D, R, G), Sda(1), Loose(Bit, {1}, R, G), E)
<1>1. ASSUME NEW s \in Loose(Bit, D, R, G), NEW z \in Buses, SdaEdge(s, 1, z)
      PROVE z \in Loose(Bit, {1}, R, G)
  <2>1. s.scl \in Bit /\ s.sda \in D /\ s.hold = 1 /\ s.dev.ram \in R /\ s.got = G
    BY DEF Loose
  <2>2. z.scl = s.scl /\ z.sda = 1 /\ z.got = G /\ ~IsStart(s, 1)
    BY <1>1, <2>1 DEF SdaEdge, IsStart
  <2>3. CASE IsStop(s, 1)
    <3>1. z.hold = 1 BY <1>1, <2>3 DEF SdaEdge
    <3>2. s.sda = 0 BY <2>3 DEF IsStop
    <3>3. R = Rams BY <2>1, <3>2
    <3>4. z.dev.ram \in Rams BY DEF Buses, Devices, Rams
    <3> QED BY <2>1, <2>2, <3>1, <3>3, <3>4 DEF Loose
  <2>4. CASE ~IsStop(s, 1)
    <3>1. z.dev = s.dev /\ z.hold = s.hold BY <1>1, <2>2, <2>4 DEF SdaEdge
    <3> QED BY <2>1, <2>2, <3>1 DEF Loose
  <2> QED BY <2>3, <2>4
<1>2. 1 \in Bit BY DEF Bit
<1> QED BY <1>1, <1>2, SdaCarries

LEMMA LooseScl ==
  ASSUME NEW c, NEW R, NEW G, NEW E
  PROVE  Carries(c, Loose(Bit, {1}, R, G), Scl(1), Loose({1}, {1}, R, G), E)
<1>1. ASSUME NEW s \in Loose(Bit, {1}, R, G), NEW z \in Buses, SclEdge(c, s, 1, z)
      PROVE z \in Loose({1}, {1}, R, G)
  <2>1. s.scl \in Bit /\ s.sda = 1 /\ s.hold = 1 /\ s.dev \in Devices /\ s.dev.ram \in R /\ s.got = G
    BY DEF Loose, Buses
  <2>2. z.scl = 1 /\ z.sda = 1 /\ z.got = G BY <1>1, <2>1 DEF SclEdge
  <2>3. CASE s.scl = 0
    <3>1. Rise(s.dev, Level(s.sda, s.hold), z.dev) /\ z.hold = 1
      BY <1>1, <2>1, <2>3 DEF SclEdge
    <3>2. z.dev.ram = s.dev.ram BY <2>1, <3>1 DEF Rise, Devices
    <3> QED BY <2>1, <2>2, <3>1, <3>2 DEF Loose
  <2>4. CASE s.scl = 1
    <3>1. z.dev = s.dev /\ z.hold = s.hold BY <1>1, <2>4 DEF SclEdge
    <3> QED BY <2>1, <2>2, <3>1 DEF Loose
  <2> QED BY <2>1, <2>3, <2>4 DEF Bit
<1>2. 1 \in Bit BY DEF Bit
<1> QED BY <1>1, <1>2, SclCarries

LEMMA LooseStarts ==
  ASSUME NEW c, NEW R, NEW G, NEW E
  PROVE  Carries(c, Loose({1}, {1}, R, G), Sda(0), In({1}, {0}, <<>>, <<>>, R, G), E)
<1>1. ASSUME NEW s \in Loose({1}, {1}, R, G), NEW z \in Buses, SdaEdge(s, 0, z)
      PROVE z \in In({1}, {0}, <<>>, <<>>, R, G)
  <2>1. s.scl = 1 /\ s.sda = 1 /\ s.hold = 1 /\ s.dev.ram \in R /\ s.got = G
    BY DEF Loose
  <2>2. IsStart(s, 0) BY <2>1, LevelHigh DEF IsStart, Bit
  <2>3. z.scl = 1 /\ z.sda = 0 /\ z.got = G /\ z.hold = 1 /\ z.dev = [Waiting EXCEPT !.mode = "in", !.ram = s.dev.ram]
    BY <1>1, <2>1, <2>2 DEF SdaEdge
  <2>4. z.dev.mode = "in" /\ z.dev.bits = <<>> /\ z.dev.frame = <<>> /\ z.dev.ram \in R
    BY <2>1, <2>3 DEF Waiting
  <2> QED BY <2>3, <2>4 DEF In
<1>2. 0 \in Bit BY DEF Bit
<1> QED BY <1>1, <1>2, SdaCarries

\* The start condition makes the device listen, whatever it did before, if it does not pull.
LEMMA StartListens ==
  ASSUME NEW c, NEW D, NEW R, D = {1} \/ R = Rams, NEW G, NEW E
  PROVE  Carries(c, Loose(Bit, D, R, G), start, In({0}, Bit, <<>>, <<>>, R, G), E)
<1>1. Carries(c, Loose(Bit, D, R, G), Sda(1), Loose(Bit, {1}, R, G), E)
  BY LooseSda
<1>2. Carries(c, Loose(Bit, {1}, R, G), Scl(1), Loose({1}, {1}, R, G), E)
  BY LooseScl
<1>3. Carries(c, Loose({1}, {1}, R, G), Sda(0), In({1}, {0}, <<>>, <<>>, R, G), E)
  BY LooseStarts
<1>4. Carries(c, In({1}, {0}, <<>>, <<>>, R, G), Scl(0), In({0}, {0}, <<>>, <<>>, R, G), E)
  <2>1. <<>> \in Seq(Bit) /\ Len(<<>>) # ByteBits BY DEF ByteBits
  <2> QED BY <2>1, InFalls
<1>5. Carries(c, Loose(Bit, D, R, G), Sda(1) \o Scl(1), Loose({1}, {1}, R, G), E)
  BY <1>1, <1>2, CarriesJoin
<1>6. Carries(c, Loose(Bit, D, R, G), Sda(1) \o Scl(1) \o Sda(0), In({1}, {0}, <<>>, <<>>, R, G), E)
  BY <1>3, <1>5, CarriesJoin
<1>7. Carries(c, Loose(Bit, D, R, G), start, In({0}, {0}, <<>>, <<>>, R, G), E)
  BY <1>4, <1>6, CarriesJoin DEF start
<1>8. In({0}, {0}, <<>>, <<>>, R, G) \subseteq In({0}, Bit, <<>>, <<>>, R, G)
  BY DEF In, Bit
<1> QED BY <1>7, <1>8, CarriesWider

LEMMA InStops ==
  ASSUME NEW c, NEW B, NEW F, NEW R, NEW G, NEW E
  PROVE  Carries(c, In({1}, {0}, B, F, R, G), Sda(1), Free(F, RamsAfter(F, R), G), E)
<1>1. ASSUME NEW s \in In({1}, {0}, B, F, R, G), NEW z \in Buses, SdaEdge(s, 1, z)
      PROVE z \in Free(F, RamsAfter(F, R), G)
  <2>1. s.scl = 1 /\ s.sda = 0 /\ s.hold = 1 /\ s.dev \in Devices /\ s.dev.frame = F /\ s.dev.ram \in R /\ s.got = G
    BY DEF In, Buses
  <2>2. IsStop(s, 1) BY <2>1, LevelHigh DEF IsStop, Bit
  <2>3. /\ z.scl = 1 /\ z.sda = 1 /\ z.got = G /\ z.hold = 1
        /\ z.dev = [s.dev EXCEPT !.mode = "idle",
                                 !.ram = IF s.dev.frame # <<>> /\ s.dev.frame[1] = AddrBase
                                         THEN Tail(s.dev.frame) ELSE @]
    BY <1>1, <2>1, <2>2 DEF SdaEdge
  <2>4. z.dev.mode = "idle" /\ z.dev.frame = F
        /\ z.dev.ram = IF s.dev.frame # <<>> /\ s.dev.frame[1] = AddrBase THEN Tail(s.dev.frame) ELSE s.dev.ram
    BY <2>1, <2>3 DEF Devices
  <2>5. z.dev.ram \in RamsAfter(F, R) BY <2>1, <2>4 DEF RamsAfter
  <2> QED BY <2>3, <2>4, <2>5 DEF Free
<1>2. 1 \in Bit BY DEF Bit
<1> QED BY <1>1, <1>2, SdaCarries

LEMMA I2cStopFrees ==
  ASSUME NEW c, NEW F, NEW R, NEW G, NEW E
  PROVE  Carries(c, In({0}, Bit, <<>>, F, R, G), i2c_stop, Free(F, RamsAfter(F, R), G), E)
<1>0. 0 \in Bit /\ <<>> \in Seq(Bit) BY DEF Bit
<1>1. Carries(c, In({0}, Bit, <<>>, F, R, G), Sda(0), In({0}, {0}, <<>>, F, R, G), E)
  BY <1>0, InSda
<1>2. Carries(c, In({0}, {0}, <<>>, F, R, G), Scl(1), In({1}, {0}, Append(<<>>, 0), F, R, G), E)
  BY <1>0, InRises
<1>3. Carries(c, In({1}, {0}, Append(<<>>, 0), F, R, G), Sda(1), Free(F, RamsAfter(F, R), G), E)
  BY InStops
<1>4. Carries(c, In({0}, Bit, <<>>, F, R, G), Sda(0) \o Scl(1), In({1}, {0}, Append(<<>>, 0), F, R, G), E)
  BY <1>1, <1>2, CarriesJoin
<1> QED BY <1>3, <1>4, CarriesJoin DEF i2c_stop

LEMMA TmStopFrees ==
  ASSUME NEW c, NEW F, NEW R, NEW G, NEW E
  PROVE  Carries(c, In({0}, Bit, <<>>, F, R, G), tm1637_stop, Free(F, RamsAfter(F, R), G), E)
<1>0. 0 \in Bit /\ <<>> \in Seq(Bit) /\ Len(<<>>) # ByteBits
  BY DEF Bit, ByteBits
<1>1. Carries(c, In({0}, Bit, <<>>, F, R, G), Scl(0), In({0}, Bit, <<>>, F, R, G), E)
  BY <1>0, InFalls
<1>2. Carries(c, In({0}, Bit, <<>>, F, R, G), Sda(0), In({0}, {0}, <<>>, F, R, G), E)
  BY <1>0, InSda
<1>3. Carries(c, In({0}, {0}, <<>>, F, R, G), Scl(1), In({1}, {0}, Append(<<>>, 0), F, R, G), E)
  BY <1>0, InRises
<1>4. Carries(c, In({1}, {0}, Append(<<>>, 0), F, R, G), Sda(1), Free(F, RamsAfter(F, R), G), E)
  BY InStops
<1>5. Carries(c, In({0}, Bit, <<>>, F, R, G), Scl(0) \o Sda(0), In({0}, {0}, <<>>, F, R, G), E)
  BY <1>1, <1>2, CarriesJoin
<1>6. Carries(c, In({0}, Bit, <<>>, F, R, G), Scl(0) \o Sda(0) \o Scl(1), In({1}, {0}, Append(<<>>, 0), F, R, G), E)
  BY <1>3, <1>5, CarriesJoin
<1> QED BY <1>4, <1>6, CarriesJoin DEF tm1637_stop

-----------------------------------------------------------------------------
(* A device that does not listen takes part in nothing but the stop condition. *)

LEMMA SilentScl ==
  ASSUME NEW c, NEW v \in Bit, NEW L, NEW D, NEW G, NEW E
  PROVE  Carries(c, Silent(L, D, G), Scl(v), Silent({v}, D, G), E)
<1>1. ASSUME NEW s \in Silent(L, D, G), NEW z \in Buses, SclEdge(c, s, v, z)
      PROVE z \in Silent({v}, D, G)
  <2>1. s.scl \in Bit /\ s.sda \in D /\ s.hold = 1 /\ s.dev.mode = "idle" /\ s.got \in G
    BY DEF Silent, Buses
  <2>2. z.scl = v /\ z.sda = s.sda /\ z.got = s.got BY <1>1 DEF SclEdge
  <2>3. CASE s.scl = 0 /\ v = 1
    <3>1. z.dev = s.dev /\ z.hold = s.hold BY <1>1, <2>1, <2>3 DEF SclEdge, Rise
    <3> QED BY <2>1, <2>2, <3>1 DEF Silent
  <2>4. CASE s.scl = 1 /\ v = 0
    <3>1. Fall(c, s.dev, s.hold, z.dev, z.hold) BY <1>1, <2>4 DEF SclEdge
    <3>2. z.dev = s.dev /\ z.hold = s.hold BY <2>1, <3>1 DEF Fall, Quiet
    <3> QED BY <2>1, <2>2, <3>2 DEF Silent
  <2>5. CASE s.scl = v
    <3>1. z.dev = s.dev /\ z.hold = s.hold BY <1>1, <2>5 DEF SclEdge
    <3> QED BY <2>1, <2>2, <3>1 DEF Silent
  <2> QED BY <2>1, <2>3, <2>4, <2>5 DEF Bit
<1> QED BY <1>1, SclCarries

LEMMA SilentSda ==
  ASSUME NEW c, NEW v \in Bit, NEW D, NEW G, NEW E
  PROVE  Carries(c, Silent({0}, D, G), Sda(v), Silent({0}, {v}, G), E)
<1>1. ASSUME NEW s \in Silent({0}, D, G), NEW z \in Buses, SdaEdge(s, v, z)
      PROVE z \in Silent({0}, {v}, G)
  <2>1. s.scl = 0 /\ ~IsStart(s, v) /\ ~IsStop(s, v)
    BY DEF Silent, IsStart, IsStop
  <2>2. z.scl = 0 /\ z.sda = v /\ z.got = s.got /\ z.dev = s.dev /\ z.hold = s.hold
    BY <1>1, <2>1 DEF SdaEdge
  <2> QED BY <2>2 DEF Silent
<1> QED BY <1>1, SdaCarries

LEMMA SilentStops ==
  ASSUME NEW c, NEW G, NEW E
  PROVE  Carries(c, Silent({1}, {0}, G), Sda(1), Silent({1}, {1}, G), E)
<1>1. ASSUME NEW s \in Silent({1}, {0}, G), NEW z \in Buses, SdaEdge(s, 1, z)
      PROVE z \in Silent({1}, {1}, G)
  <2>1. s.scl = 1 /\ s.sda = 0 /\ s.hold = 1 /\ s.dev \in Devices /\ s.got \in G
    BY DEF Silent, Buses
  <2>2. IsStop(s, 1) BY <2>1, LevelHigh DEF IsStop, Bit
  <2>3. /\ z.scl = 1 /\ z.sda = 1 /\ z.got = s.got /\ z.hold = 1
        /\ z.dev = [s.dev EXCEPT !.mode = "idle",
                                 !.ram = IF s.dev.frame # <<>> /\ s.dev.frame[1] = AddrBase
                                         THEN Tail(s.dev.frame) ELSE @]
    BY <1>1, <2>1, <2>2 DEF SdaEdge
  <2>4. z.dev.mode = "idle" BY <2>1, <2>3 DEF Devices
  <2> QED BY <2>1, <2>3, <2>4 DEF Silent
<1>2. 1 \in Bit BY DEF Bit
<1> QED BY <1>1, <1>2, SdaCarries

LEMMA SilentI2cStop ==
  ASSUME NEW c, NEW D, NEW G, NEW E
  PROVE  Carries(c, Silent({0}, D, G), i2c_stop, Silent({1}, {1}, G), E)
<1>0. 0 \in Bit /\ 1 \in Bit BY DEF Bit
<1>1. Carries(c, Silent({0}, D, G), Sda(0), Silent({0}, {0}, G), E)
  BY <1>0, SilentSda
<1>2. Carries(c, Silent({0}, {0}, G), Scl(1), Silent({1}, {0}, G), E)
  BY <1>0, SilentScl
<1>3. Carries(c, Silent({1}, {0}, G), Sda(1), Silent({1}, {1}, G), E)
  BY SilentStops
<1>4. Carries(c, Silent({0}, D, G), Sda(0) \o Scl(1), Silent({1}, {0}, G), E)
  BY <1>1, <1>2, CarriesJoin
<1> QED BY <1>3, <1>4, CarriesJoin DEF i2c_stop

LEMMA SilentTmStop ==
  ASSUME NEW c, NEW D, NEW G, NEW E
  PROVE  Carries(c, Silent({0}, D, G), tm1637_stop, Silent({1}, {1}, G), E)
<1>0. 0 \in Bit /\ 1 \in Bit BY DEF Bit
<1>1. Carries(c, Silent({0}, D, G), Scl(0), Silent({0}, D, G), E)
  BY <1>0, SilentScl
<1>2. Carries(c, Silent({0}, D, G), Sda(0), Silent({0}, {0}, G), E)
  BY <1>0, SilentSda
<1>3. Carries(c, Silent({0}, {0}, G), Scl(1), Silent({1}, {0}, G), E)
  BY <1>0, SilentScl
<1>4. Carries(c, Silent({1}, {0}, G), Sda(1), Silent({1}, {1}, G), E)
  BY SilentStops
<1>5. Carries(c, Silent({0}, D, G), Scl(0) \o Sda(0), Silent({0}, {0}, G), E)
  BY <1>1, <1>2, CarriesJoin
<1>6. Carries(c, Silent({0}, D, G), Scl(0) \o Sda(0) \o Scl(1), Silent({1}, {0}, G), E)
  BY <1>3, <1>5, CarriesJoin
<1> QED BY <1>4, <1>6, CarriesJoin DEF tm1637_stop

\* What follows a byte that is refused.
LEMMA RefusalEnds ==
  ASSUME NEW c, NEW s \in Refusals
  PROVE  Brings(c, s, Scl(0) \o stop, Refusals, {}) /\ Scl(0) \o stop \in Seq(Edges)
<1>1. Refusals = Silent({1}, {1}, Seq(Bit)) BY DEF Refusals, Silent, Buses
<1>2. Carries(c, Silent({1}, {1}, Seq(Bit)), Scl(0), Silent({0}, {1}, Seq(Bit)), {})
  <2>1. 0 \in Bit BY DEF Bit
  <2> QED BY <2>1, SilentScl
<1>3. Carries(c, Silent({0}, {1}, Seq(Bit)), i2c_stop, Silent({1}, {1}, Seq(Bit)), {})
  BY SilentI2cStop
<1>4. Carries(c, Silent({0}, {1}, Seq(Bit)), tm1637_stop, Silent({1}, {1}, Seq(Bit)), {})
  BY SilentTmStop
<1>5. stop = i2c_stop \/ stop = tm1637_stop BY DEF stop
<1>6. Carries(c, Silent({0}, {1}, Seq(Bit)), stop, Silent({1}, {1}, Seq(Bit)), {})
  BY <1>3, <1>4, <1>5
<1>7. Carries(c, Refusals, Scl(0) \o stop, Refusals, {})
  BY <1>1, <1>2, <1>6, CarriesJoin
<1> QED BY <1>7 DEF Carries

-----------------------------------------------------------------------------
(* A device that is read: it drives the bit n of what it sends. *)

Out(L, D, n, G) ==
  {z \in Buses : /\ z.scl \in L /\ z.sda \in D /\ z.got = G
                 /\ z.dev.mode = "out" /\ z.dev.sent = n /\ z.hold = SendingBit(n)}
\* After a byte it listens for the answer of the master: the bits B.
Turned(L, D, n, B, G) ==
  {z \in Buses : /\ z.scl \in L /\ z.sda \in D /\ z.hold = 1 /\ z.got = G
                 /\ z.dev.mode = "ackin" /\ z.dev.sent = n /\ z.dev.bits = B}

LEMMA OutSda ==
  ASSUME NEW c, NEW v \in Bit, NEW D, NEW n, NEW G, NEW E
  PROVE  Carries(c, Out({0}, D, n, G), Sda(v), Out({0}, {v}, n, G), E)
<1>1. ASSUME NEW s \in Out({0}, D, n, G), NEW z \in Buses, SdaEdge(s, v, z)
      PROVE z \in Out({0}, {v}, n, G)
  <2>1. s.scl = 0 /\ ~IsStart(s, v) /\ ~IsStop(s, v) BY DEF Out, IsStart, IsStop
  <2>2. z.scl = 0 /\ z.sda = v /\ z.got = s.got /\ z.dev = s.dev /\ z.hold = s.hold
    BY <1>1, <2>1 DEF SdaEdge
  <2> QED BY <2>2 DEF Out
<1> QED BY <1>1, SdaCarries

LEMMA OutRises ==
  ASSUME NEW c, NEW D, NEW n, NEW G, NEW E
  PROVE  Carries(c, Out({0}, D, n, G), Scl(1), Out({1}, D, n, G), E)
<1>1. ASSUME NEW s \in Out({0}, D, n, G), NEW z \in Buses, SclEdge(c, s, 1, z)
      PROVE z \in Out({1}, D, n, G)
  <2>1. s.scl = 0 /\ s.dev.mode = "out" BY DEF Out
  <2>2. z.scl = 1 /\ z.sda = s.sda /\ z.got = s.got /\ z.hold = s.hold /\ z.dev = s.dev
    BY <1>1, <2>1 DEF SclEdge, Rise
  <2> QED BY <2>2 DEF Out
<1>2. 1 \in Bit BY DEF Bit
<1> QED BY <1>1, <1>2, SclCarries

LEMMA OutRead ==
  ASSUME NEW c, NEW n, SendingBit(n) \in Bit, NEW G \in Seq(Bit), NEW E
  PROVE  Carries(c, Out({1}, {1}, n, G), ReadSda, Out({1}, {1}, n, Append(G, SendingBit(n))), E)
<1>1. ASSUME NEW s \in Out({1}, {1}, n, G)
      PROVE [s EXCEPT !.got = Append(@, Level(s.sda, s.hold))] \in Out({1}, {1}, n, Append(G, SendingBit(n)))
  <2>1. s \in Buses /\ s.scl = 1 /\ s.sda = 1 /\ s.got = G /\ s.dev.mode = "out" /\ s.dev.sent = n /\ s.hold = SendingBit(n)
    BY DEF Out
  <2>2. Level(s.sda, s.hold) = SendingBit(n) BY <2>1 DEF Level, Bit
  <2> DEFINE z == [s EXCEPT !.got = Append(@, Level(s.sda, s.hold))]
  <2>3. z = [s EXCEPT !.got = Append(G, SendingBit(n))] BY <2>1, <2>2 DEF Buses
  <2>4. Append(G, SendingBit(n)) \in Seq(Bit) OBVIOUS
  <2>5. z \in Buses /\ z.scl = 1 /\ z.sda = 1 /\ z.got = Append(G, SendingBit(n)) /\ z.dev = s.dev /\ z.hold = s.hold
    <3> HIDE DEF z
    <3> QED BY <2>1, <2>3, <2>4 DEF Buses
  <2> HIDE DEF z
  <2>6. z \in Out({1}, {1}, n, Append(G, SendingBit(n))) BY <2>1, <2>5 DEF Out
  <2> QED BY <2>6 DEF z
<1> QED BY <1>1, ReadCarries

LEMMA OutNext ==
  ASSUME NEW c, NEW D, NEW n \in 0 .. 5, (n + 1) % ByteBits # 0, NEW G, NEW E
  PROVE  Carries(c, Out({1}, D, n, G), Scl(0), Out({0}, D, n + 1, G), E)
<1>1. ASSUME NEW s \in Out({1}, D, n, G), NEW z \in Buses, SclEdge(c, s, 0, z)
      PROVE z \in Out({0}, D, n + 1, G)
  <2>1. s.scl = 1 /\ s.sda \in D /\ s.got = G /\ s.dev.mode = "out" /\ s.dev.sent = n /\ s.dev \in Devices
    BY DEF Out, Buses
  <2>2. z.scl = 0 /\ z.sda = s.sda /\ z.got = G /\ Fall(c, s.dev, s.hold, z.dev, z.hold)
    BY <1>1, <2>1 DEF SclEdge
  <2>3. Sends([s.dev EXCEPT !.sent = @ + 1], z.dev, z.hold)
    BY <2>1, <2>2 DEF Fall
  <2>4. z.dev = [s.dev EXCEPT !.sent = @ + 1] /\ [s.dev EXCEPT !.sent = @ + 1].sent = n + 1
        /\ z.hold = SendingBit([s.dev EXCEPT !.sent = @ + 1].sent)
    BY <2>1, <2>3 DEF Sends, Devices
  <2>5. z.dev.mode = "out" /\ z.dev.sent = n + 1 /\ z.hold = SendingBit(n + 1)
    BY <2>1, <2>4 DEF Devices
  <2> QED BY <2>1, <2>2, <2>5 DEF Out
<1>2. 0 \in Bit BY DEF Bit
<1> QED BY <1>1, <1>2, SclCarries

LEMMA OutTurns ==
  ASSUME NEW c, NEW D, NEW n \in 0 .. 5, (n + 1) % ByteBits = 0, NEW G, NEW E
  PROVE  Carries(c, Out({1}, D, n, G), Scl(0), Turned({0}, D, (n + 1) % (2 * ByteBits), <<>>, G), E)
<1>1. ASSUME NEW s \in Out({1}, D, n, G), NEW z \in Buses, SclEdge(c, s, 0, z)
      PROVE z \in Turned({0}, D, (n + 1) % (2 * ByteBits), <<>>, G)
  <2>1. s.scl = 1 /\ s.sda \in D /\ s.got = G /\ s.dev.mode = "out" /\ s.dev.sent = n /\ s.dev \in Devices
    BY DEF Out, Buses
  <2>2. z.scl = 0 /\ z.sda = s.sda /\ z.got = G /\ Fall(c, s.dev, s.hold, z.dev, z.hold)
    BY <1>1, <2>1 DEF SclEdge
  <2>3. z.dev = [s.dev EXCEPT !.mode = "ackin", !.sent = (@ + 1) % (2 * ByteBits), !.bits = <<>>] /\ z.hold = 1
    BY <2>1, <2>2 DEF Fall
  <2>4. z.dev.mode = "ackin" /\ z.dev.sent = (n + 1) % (2 * ByteBits) /\ z.dev.bits = <<>>
    BY <2>1, <2>3 DEF Devices
  <2> QED BY <2>1, <2>2, <2>3, <2>4 DEF Turned
<1>2. 0 \in Bit BY DEF Bit
<1> QED BY <1>1, <1>2, SclCarries

LEMMA TurnedSda ==
  ASSUME NEW c, NEW v \in Bit, NEW D, NEW n, NEW B, NEW G, NEW E
  PROVE  Carries(c, Turned({0}, D, n, B, G), Sda(v), Turned({0}, {v}, n, B, G), E)
<1>1. ASSUME NEW s \in Turned({0}, D, n, B, G), NEW z \in Buses, SdaEdge(s, v, z)
      PROVE z \in Turned({0}, {v}, n, B, G)
  <2>1. s.scl = 0 /\ ~IsStart(s, v) /\ ~IsStop(s, v)
    BY DEF Turned, IsStart, IsStop
  <2>2. z.scl = 0 /\ z.sda = v /\ z.got = s.got /\ z.dev = s.dev /\ z.hold = s.hold
    BY <1>1, <2>1 DEF SdaEdge
  <2> QED BY <2>2 DEF Turned
<1> QED BY <1>1, SdaCarries

LEMMA TurnedRises ==
  ASSUME NEW c, NEW v \in Bit, NEW n, NEW G, NEW E
  PROVE  Carries(c, Turned({0}, {v}, n, <<>>, G), Scl(1), Turned({1}, {v}, n, <<v>>, G), E)
<1>1. ASSUME NEW s \in Turned({0}, {v}, n, <<>>, G), NEW z \in Buses, SclEdge(c, s, 1, z)
      PROVE z \in Turned({1}, {v}, n, <<v>>, G)
  <2>1. s.scl = 0 /\ s.sda = v /\ s.hold = 1 /\ s.got = G /\ s.dev.mode = "ackin" /\ s.dev.sent = n /\ s.dev.bits = <<>>
        /\ s.dev \in Devices
    BY DEF Turned, Buses
  <2>2. z.scl = 1 /\ z.sda = v /\ z.got = G /\ z.hold = 1 /\ Rise(s.dev, Level(v, 1), z.dev)
    BY <1>1, <2>1 DEF SclEdge
  <2>3. z.dev = [s.dev EXCEPT !.bits = Append(@, v)]
    BY <2>1, <2>2, LevelHigh DEF Rise
  <2>4. z.dev.mode = "ackin" /\ z.dev.sent = n /\ z.dev.bits = Append(<<>>, v) /\ Append(<<>>, v) = <<v>>
    BY <2>1, <2>3 DEF Devices
  <2> QED BY <2>2, <2>4 DEF Turned
<1>2. 1 \in Bit BY DEF Bit
<1> QED BY <1>1, <1>2, SclCarries

\* Acknowledged, it sends on; otherwise it is silent.
LEMMA TurnedOn ==
  ASSUME NEW c, NEW D, NEW n, NEW G, NEW E
  PROVE  Carries(c, Turned({1}, D, n, <<0>>, G), Scl(0), Out({0}, D, n, G), E)
<1>1. ASSUME NEW s \in Turned({1}, D, n, << 0 >>, G), NEW z \in Buses, SclEdge(c, s, 0, z)
      PROVE z \in Out({0}, D, n, G)
  <2>1. s.scl = 1 /\ s.sda \in D /\ s.got = G /\ s.dev.mode = "ackin" /\ s.dev.sent = n /\ s.dev.bits = <<0>> /\ s.dev \in Devices
    BY DEF Turned, Buses
  <2>2. z.scl = 0 /\ z.sda = s.sda /\ z.got = G /\ Fall(c, s.dev, s.hold, z.dev, z.hold)
    BY <1>1, <2>1 DEF SclEdge
  <2>3. Sends([s.dev EXCEPT !.mode = "out", !.bits = <<>>], z.dev, z.hold)
    BY <2>1, <2>2 DEF Fall
  <2>4. z.dev = [s.dev EXCEPT !.mode = "out", !.bits = <<>>] /\ [s.dev EXCEPT !.mode = "out", !.bits = <<>>].sent = n
        /\ z.hold = SendingBit([s.dev EXCEPT !.mode = "out", !.bits = <<>>].sent)
    BY <2>1, <2>3 DEF Sends, Devices
  <2>5. z.dev.mode = "out" /\ z.dev.sent = n /\ z.hold = SendingBit(n)
    BY <2>1, <2>4 DEF Devices
  <2> QED BY <2>1, <2>2, <2>5 DEF Out
<1>2. 0 \in Bit BY DEF Bit
<1> QED BY <1>1, <1>2, SclCarries

LEMMA TurnedOff ==
  ASSUME NEW c, NEW D, NEW n, NEW G, NEW E
  PROVE  Carries(c, Turned({1}, D, n, <<1>>, G), Scl(0), Silent({0}, D, {G}), E)
<1>1. ASSUME NEW s \in Turned({1}, D, n, << 1 >>, G), NEW z \in Buses, SclEdge(c, s, 0, z)
      PROVE z \in Silent({0}, D, {G})
  <2>1. s.scl = 1 /\ s.sda \in D /\ s.got = G /\ s.dev.mode = "ackin" /\ s.dev.bits = <<1>> /\ s.dev \in Devices
    BY DEF Turned, Buses
  <2>2. z.scl = 0 /\ z.sda = s.sda /\ z.got = G /\ Fall(c, s.dev, s.hold, z.dev, z.hold)
    BY <1>1, <2>1 DEF SclEdge
  <2>3. <<1>> # <<0>> OBVIOUS
  <2>4. z.dev = [s.dev EXCEPT !.mode = "idle"] /\ z.hold = 1
    BY <2>1, <2>2, <2>3 DEF Fall
  <2>5. z.dev.mode = "idle" BY <2>1, <2>4 DEF Devices
  <2> QED BY <2>1, <2>2, <2>4, <2>5 DEF Silent
<1>2. 0 \in Bit BY DEF Bit
<1> QED BY <1>1, <1>2, SclCarries

\* One bit that is read.
LEMMA ReadBit ==
  ASSUME NEW c, NEW n \in 0 .. 5, SendingBit(n) \in Bit, NEW G \in Seq(Bit), NEW E, NEW Q,
         Carries(c, Out({1}, {1}, n, Append(G, SendingBit(n))), Scl(0), Q, E)
  PROVE  Carries(c, Out({0}, {1}, n, G), Scl(1) \o ReadSda \o Scl(0), Q, E)
<1>1. Carries(c, Out({0}, {1}, n, G), Scl(1), Out({1}, {1}, n, G), E)
  BY OutRises
<1>2. Carries(c, Out({1}, {1}, n, G), ReadSda, Out({1}, {1}, n, Append(G, SendingBit(n))), E)
  BY OutRead
<1>3. Carries(c, Out({0}, {1}, n, G), Scl(1) \o ReadSda, Out({1}, {1}, n, Append(G, SendingBit(n))), E)
  BY <1>1, <1>2, CarriesJoin
<1> QED BY <1>3, CarriesJoin

LEMMA SentBits ==
  ASSUME NEW k \in {0, 1}
  PROVE  /\ Source[k + 1] \in WireByte
         /\ \A i \in 1 .. 3 : SendingBit(3 * k + (i - 1)) = Source[k + 1][i] /\ SendingBit(3 * k + (i - 1)) \in Bit
<1>1. Source[1] = <<0, 1, 1>> /\ Source[2] = <<1, 0, 0>> BY DEF Source
<1>2. \A n : SendingBit(n) = Source[1 + ((n \div 3) % 2)][1 + (n % 3)]
  BY DEF SendingBit, ByteBits
<1>3. /\ 0 \div 3 = 0 /\ 1 \div 3 = 0 /\ 2 \div 3 = 0 /\ 3 \div 3 = 1 /\ 4 \div 3 = 1 /\ 5 \div 3 = 1
      /\ 0 % 3 = 0 /\ 1 % 3 = 1 /\ 2 % 3 = 2 /\ 3 % 3 = 0 /\ 4 % 3 = 1 /\ 5 % 3 = 2 /\ 0 % 2 = 0 /\ 1 % 2 = 1
  OBVIOUS
<1>4. /\ SendingBit(0) = Source[1][1] /\ SendingBit(1) = Source[1][2] /\ SendingBit(2) = Source[1][3]
      /\ SendingBit(3) = Source[2][1] /\ SendingBit(4) = Source[2][2] /\ SendingBit(5) = Source[2][3]
  BY <1>2, <1>3
<1>5. Source[1] \in WireByte /\ Source[2] \in WireByte BY <1>1 DEF WireByte, Bit
<1>6. \A j \in 1 .. 3 : Source[1][j] \in Bit /\ Source[2][j] \in Bit
  BY <1>5, ByteIsSeq
<1>7. ASSUME NEW i \in 1 .. 3
      PROVE SendingBit(3 * k + (i - 1)) = Source[k + 1][i] /\ SendingBit(3 * k + (i - 1)) \in Bit
  <2>1. k = 0 \/ k = 1 OBVIOUS
  <2>2. (i = 1 /\ i - 1 = 0) \/ (i = 2 /\ i - 1 = 1) \/ (i = 3 /\ i - 1 = 2)
    OBVIOUS
  <2>3. CASE k = 0
    <3>1. 3 * k + (i - 1) = i - 1 /\ k + 1 = 1 BY <2>3
    <3> QED BY <1>4, <1>6, <2>2, <3>1
  <2>4. CASE k = 1
    <3>1. 3 * k + (i - 1) = 3 + (i - 1) /\ k + 1 = 2 /\ 3 + 0 = 3 /\ 3 + 1 = 4 /\ 3 + 2 = 5
      BY <2>4
    <3> QED BY <1>4, <1>6, <2>2, <3>1
  <2> QED BY <2>1, <2>3, <2>4
<1>8. Source[k + 1] \in WireByte
  <2>1. k + 1 = 1 \/ k + 1 = 2 OBVIOUS
  <2> QED BY <1>5, <2>1
<1> QED BY <1>7, <1>8

ReadsBits(c, k, G, E, q) ==
  Carries(c, Out({0}, {1}, 3 * k, G), Flat(q), Turned({0}, {1}, (3 * k + 3) % 6, <<>>, G \o Source[k + 1]), E)

LEMMA ReadBits ==
  ASSUME NEW c, NEW k \in {0, 1}, NEW G \in Seq(Bit), NEW E
  PROVE  ReadsBits(c, k, G, E, [i \in 1 .. ByteBits |-> Scl(1) \o ReadSda \o Scl(0)])
<1> DEFINE b == Source[k + 1]
           W == Turned({0}, {1}, (3 * k + 3) % 6, <<>>, G \o b)
           q == [i \in 1 .. ByteBits |-> Scl(1) \o ReadSda \o Scl(0)]
           P == [i \in 0 .. 3 |-> IF i < 3 THEN Out({0}, {1}, 3 * k + i, G \o Prefix(b, i)) ELSE W]
<1>1. Len(q) = 3 /\ \A i \in 1 .. 3 : q[i] = Scl(1) \o ReadSda \o Scl(0)
  BY DEF ByteBits
<1>2. \A i \in 0 .. 2 : P[i] = Out({0}, {1}, 3 * k + i, G \o Prefix(b, i))
  OBVIOUS
<1>3. P[3] = W OBVIOUS
<1>4. b \in WireByte /\ \A i \in 1 .. 3 : SendingBit(3 * k + (i - 1)) = b[i] /\ SendingBit(3 * k + (i - 1)) \in Bit
  BY SentBits
<1>5. W = Turned({0}, {1}, (3 * k + 3) % 6, <<>>, G \o b) OBVIOUS
<1> HIDE DEF q, P, b, W
<1>6. b \in Seq(Bit) /\ Len(b) = 3 /\ \A i \in 1 .. 3 : b[i] \in Bit
  BY <1>4, ByteIsSeq
<1>7. P[0] = Out({0}, {1}, 3 * k, G)
  <2>1. Prefix(b, 0) = <<>> /\ G \o <<>> = G /\ 3 * k + 0 = 3 * k
    BY <1>6, PrefixEnds
  <2>2. P[0] = Out({0}, {1}, 3 * k + 0, G \o Prefix(b, 0)) BY <1>2
  <2> QED BY <2>1, <2>2
<1>8. ASSUME NEW i \in 1 .. 3 PROVE Carries(c, P[i - 1], q[i], P[i], E)
  <2> DEFINE n == 3 * k + (i - 1)
             H == G \o Prefix(b, i - 1)
  <2>0. i \in 1 .. Len(b) BY <1>6
  <2>1. Prefix(b, i - 1) \in Seq(Bit) /\ Append(Prefix(b, i - 1), b[i]) = Prefix(b, i)
    BY <1>6, <2>0, PrefixGrows
  <2>2. H \in Seq(Bit) /\ Append(H, b[i]) = G \o Prefix(b, i)
    <3>1. b[i] \in Bit BY <1>6
    <3>2. /\ Append(G \o Prefix(b, i - 1), b[i]) = G \o Append(Prefix(b, i - 1), b[i])
          /\ G \o Prefix(b, i - 1) \in Seq(Bit)
      BY <2>1, <3>1, AppendOn
    <3> QED BY <2>1, <3>2
  <2>3. n \in 0 .. 5 /\ SendingBit(n) = b[i] /\ SendingBit(n) \in Bit /\ b[i] \in Bit
    BY <1>4, <1>6
  <2>4. P[i - 1] = Out({0}, {1}, n, H)
    <3>1. i - 1 \in 0 .. 2 OBVIOUS
    <3> QED BY <1>2, <3>1
  <2>5. (i = 3 /\ (n + 1) % ByteBits = 0 /\ n + 1 = 3 * k + 3) \/ (i # 3 /\ (n + 1) % ByteBits # 0 /\ n + 1 = 3 * k + i)
    <3>1. (k = 0 \/ k = 1) /\ (i = 1 \/ i = 2 \/ i = 3) OBVIOUS
    <3>2. 1 % 3 = 1 /\ 2 % 3 = 2 /\ 3 % 3 = 0 /\ 4 % 3 = 1 /\ 5 % 3 = 2 /\ 6 % 3 = 0
      OBVIOUS
    <3>3. n + 1 = 3 * k + i OBVIOUS
    <3> HIDE DEF n
    <3> QED BY <3>1, <3>2, <3>3 DEF ByteBits
  <2> HIDE DEF n, H
  <2>6. Carries(c, Out({1}, {1}, n, Append(H, SendingBit(n))), Scl(0), P[i], E)
    <3>1. CASE i = 3
      <4>1. Carries(c, Out({1}, {1}, n, Append(H, SendingBit(n))), Scl(0),
                    Turned({0}, {1}, (n + 1) % (2 * ByteBits), <<>>, Append(H, SendingBit(n))), E)
        BY <2>3, <2>5, <3>1, OutTurns
      <4>2. Append(H, SendingBit(n)) = G \o b
        <5>1. Prefix(b, Len(b)) = b BY <1>6, PrefixEnds
        <5> QED BY <1>6, <2>2, <2>3, <3>1, <5>1
      <4>3. (n + 1) % (2 * ByteBits) = (3 * k + 3) % 6
        <5>1. 2 * ByteBits = 6 BY DEF ByteBits
        <5> QED BY <2>5, <3>1, <5>1
      <4> QED BY <1>3, <1>5, <3>1, <4>1, <4>2, <4>3
    <3>2. CASE i # 3
      <4>1. Carries(c, Out({1}, {1}, n, Append(H, SendingBit(n))), Scl(0),
                    Out({0}, {1}, n + 1, Append(H, SendingBit(n))), E)
        BY <2>3, <2>5, <3>2, OutNext
      <4>2. i \in 0 .. 2 /\ n + 1 = 3 * k + i BY <2>5, <3>2
      <4>3. P[i] = Out({0}, {1}, n + 1, G \o Prefix(b, i)) BY <1>2, <4>2
      <4> QED BY <2>2, <2>3, <4>1, <4>3
    <3> QED BY <3>1, <3>2
  <2>7. Carries(c, Out({0}, {1}, n, H), Scl(1) \o ReadSda \o Scl(0), P[i], E)
    BY <2>2, <2>3, <2>6, ReadBit
  <2> QED BY <1>1, <2>4, <2>7
<1>9. Carries(c, P[0], Flat(q), P[3], E) BY <1>1, <1>8, CarriesFlat
<1>10. ReadsBits(c, k, G, E, q) BY <1>3, <1>7, <1>9 DEF ReadsBits, W, b
<1> QED BY <1>10 DEF q

\* A byte that is read and answered.
LEMMA ReadByte ==
  ASSUME NEW c, NEW k \in {0, 1}, NEW G \in Seq(Bit), NEW ack, NEW v \in Bit, (ack /\ v = 0) \/ (~ack /\ v = 1), NEW E, NEW Q,
         Carries(c, Turned({1}, {v}, (3 * k + 3) % 6, <<v>>, G \o Source[k + 1]), Scl(0) \o Sda(1), Q, E)
  PROVE  Carries(c, Out({0}, Bit, 3 * k, G), i2c_read_byte(ack), Q, E)
<1> DEFINE q == [i \in 1 .. ByteBits |-> Scl(1) \o ReadSda \o Scl(0)]
           H == G \o Source[k + 1]
           n == (3 * k + 3) % 6
<1>0. i2c_read_byte(ack) = Sda(1) \o Flat(q) \o Sda(v) \o Scl(1) \o Scl(0) \o Sda(1)
  BY DEF i2c_read_byte
<1>1. ReadsBits(c, k, G, E, q) BY ReadBits
<1> HIDE DEF q
<1>2. Carries(c, Out({0}, {1}, 3 * k, G), Flat(q), Turned({0}, {1}, n, <<>>, H), E)
  BY <1>1 DEF ReadsBits
<1>3. Carries(c, Turned({1}, {v}, n, <<v>>, H), Scl(0) \o Sda(1), Q, E) OBVIOUS
<1> HIDE DEF H, n
<1>4. Carries(c, Out({0}, Bit, 3 * k, G), Sda(1), Out({0}, {1}, 3 * k, G), E)
  <2>1. 1 \in Bit BY DEF Bit
  <2> QED BY <2>1, OutSda
<1>5. Carries(c, Turned({0}, {1}, n, <<>>, H), Sda(v), Turned({0}, {v}, n, <<>>, H), E)
  BY TurnedSda
<1>6. Carries(c, Turned({0}, {v}, n, <<>>, H), Scl(1), Turned({1}, {v}, n, <<v>>, H), E)
  BY TurnedRises
<1>7. Carries(c, Out({0}, Bit, 3 * k, G), Sda(1) \o Flat(q), Turned({0}, {1}, n, <<>>, H), E)
  BY <1>2, <1>4, CarriesJoin
<1>8. Carries(c, Out({0}, Bit, 3 * k, G), Sda(1) \o Flat(q) \o Sda(v), Turned({0}, {v}, n, <<>>, H), E)
  BY <1>5, <1>7, CarriesJoin
<1>9. Carries(c, Out({0}, Bit, 3 * k, G), Sda(1) \o Flat(q) \o Sda(v) \o Scl(1), Turned({1}, {v}, n, <<v>>, H), E)
  BY <1>6, <1>8, CarriesJoin
<1>10. Carries(c, Out({0}, Bit, 3 * k, G), (Sda(1) \o Flat(q) \o Sda(v) \o Scl(1)) \o (Scl(0) \o Sda(1)), Q, E)
  BY <1>3, <1>9, CarriesJoin
<1>11. (Sda(1) \o Flat(q) \o Sda(v) \o Scl(1)) \o (Scl(0) \o Sda(1)) = Sda(1) \o Flat(q) \o Sda(v) \o Scl(1) \o Scl(0) \o Sda(1)
  <2> DEFINE A == Sda(1) \o Flat(q) \o Sda(v) \o Scl(1)
  <2>1. A \in Seq(Edges) BY <1>9 DEF Carries
  <2>2. Scl(0) \in Seq(Edges) /\ Sda(1) \in Seq(Edges)
    BY DEF Scl, Sda, Edges, Bit
  <2> HIDE DEF A
  <2>3. A \o (Scl(0) \o Sda(1)) = (A \o Scl(0)) \o Sda(1) BY <2>1, <2>2
  <2> QED BY <2>3 DEF A
<1> QED BY <1>0, <1>10, <1>11

LEMMA ReadByteOn ==
  ASSUME NEW c, NEW G \in Seq(Bit), NEW E
  PROVE  Carries(c, Out({0}, Bit, 0, G), i2c_read_byte(TRUE), Out({0}, Bit, 3, G \o Source[1]), E)
<1> DEFINE H == G \o Source[0 + 1]
<1>1. Carries(c, Turned({1}, {0}, 3, <<0>>, H), Scl(0), Out({0}, {0}, 3, H), E)
  BY TurnedOn
<1>2. Carries(c, Out({0}, {0}, 3, H), Sda(1), Out({0}, {1}, 3, H), E)
  <2>1. 1 \in Bit BY DEF Bit
  <2> QED BY <2>1, OutSda
<1>3. Carries(c, Turned({1}, {0}, 3, <<0>>, H), Scl(0) \o Sda(1), Out({0}, {1}, 3, H), E)
  BY <1>1, <1>2, CarriesJoin
<1>4. Out({0}, {1}, 3, H) \subseteq Out({0}, Bit, 3, H) BY DEF Out, Bit
<1>5. Carries(c, Turned({1}, {0}, 3, <<0>>, H), Scl(0) \o Sda(1), Out({0}, Bit, 3, H), E)
  BY <1>3, <1>4, CarriesWider
<1>6. (3 * 0 + 3) % 6 = 3 /\ 3 * 0 = 0 /\ 0 \in Bit /\ 0 \in {0, 1} /\ 0 + 1 = 1
  BY DEF Bit
<1>7. Carries(c, Turned({1}, {0}, (3 * 0 + 3) % 6, <<0>>, H), Scl(0) \o Sda(1), Out({0}, Bit, 3, H), E)
  BY <1>5, <1>6
<1>8. Carries(c, Out({0}, Bit, 3 * 0, G), i2c_read_byte(TRUE), Out({0}, Bit, 3, H), E)
  BY <1>6, <1>7, ReadByte
<1> QED BY <1>6, <1>8

LEMMA ReadByteOff ==
  ASSUME NEW c, NEW k \in {0, 1}, NEW G \in Seq(Bit), NEW E
  PROVE  Carries(c, Out({0}, Bit, 3 * k, G), i2c_read_byte(FALSE), Silent({0}, {1}, {G \o Source[k + 1]}), E)
<1> DEFINE H == G \o Source[k + 1]
           n == (3 * k + 3) % 6
<1>0. 1 \in Bit BY DEF Bit
<1>1. Carries(c, Turned({1}, {1}, n, <<1>>, H), Scl(0), Silent({0}, {1}, {H}), E)
  BY TurnedOff
<1>2. Carries(c, Silent({0}, {1}, {H}), Sda(1), Silent({0}, {1}, {H}), E)
  BY <1>0, SilentSda
<1>3. Carries(c, Turned({1}, {1}, n, <<1>>, H), Scl(0) \o Sda(1), Silent({0}, {1}, {H}), E)
  BY <1>1, <1>2, CarriesJoin
<1> QED BY <1>0, <1>3, ReadByte

\* The bytes that are read.
ReadsAll(c, len, E, q) ==
  Carries(c, Out({0}, Bit, 0, <<>>), Flat(q), Silent({0}, {1}, {Flat(SubSeq(Source, 1, len))}), E)

LEMMA FlatOne ==
  ASSUME NEW q, Len(q) = 1, NEW S, q[1] \in Seq(S)
  PROVE  Flat(q) = q[1]
<1>1. PICK f : Grown(f, q, 1, Flat(q)) BY FlatGrows
<1>2. f[0] = <<>> /\ f[1] = Flat(q) /\ f[1] = f[1 - 1] \o q[1] /\ 1 - 1 = 0
  BY <1>1 DEF Grown
<1>3. <<>> \o q[1] = q[1] OBVIOUS
<1> QED BY <1>2, <1>3

LEMMA FlatTwo ==
  ASSUME NEW q, Len(q) = 2, NEW S, q[1] \in Seq(S), q[2] \in Seq(S)
  PROVE  Flat(q) = q[1] \o q[2]
<1>1. PICK f : Grown(f, q, 2, Flat(q)) BY FlatGrows
<1>2. f[0] = <<>> /\ f[2] = Flat(q) /\ f[1] = f[0] \o q[1] /\ f[2] = f[1] \o q[2]
  <2>1. f[0] = <<>> /\ f[2] = Flat(q) /\ \A i \in 1 .. 2 : f[i] = f[i - 1] \o q[i]
    BY <1>1 DEF Grown
  <2>2. 1 \in 1 .. 2 /\ 2 \in 1 .. 2 /\ 1 - 1 = 0 /\ 2 - 1 = 1 OBVIOUS
  <2>3. f[1] = f[1 - 1] \o q[1] /\ f[2] = f[2 - 1] \o q[2] BY <2>1, <2>2
  <2> QED BY <2>1, <2>2, <2>3
<1>3. <<>> \o q[1] = q[1] OBVIOUS
<1> QED BY <1>2, <1>3

LEMMA ReadBytes ==
  ASSUME NEW c, NEW len \in 1 .. 2, NEW E
  PROVE  ReadsAll(c, len, E, [i \in 1 .. len |-> i2c_read_byte(i < len)])
<1> DEFINE q == [i \in 1 .. len |-> i2c_read_byte(i < len)]
           T == SubSeq(Source, 1, len)
<1>1. Len(q) = len /\ \A i \in 1 .. len : q[i] = i2c_read_byte(i < len) OBVIOUS
<1>2. Source[1] \in Seq(Bit) /\ Source[2] \in Seq(Bit)
  <2>1. Source[0 + 1] \in WireByte /\ Source[1 + 1] \in WireByte /\ 0 + 1 = 1 /\ 1 + 1 = 2
    BY SentBits
  <2> QED BY <2>1, ByteIsSeq
<1>3. Len(T) = len /\ T[1] = Source[1] /\ (len = 2 => T[2] = Source[2])
  BY DEF Source
<1> HIDE DEF q, T
<1>4. CASE len = 1
  <2>1. Flat(T) = Source[1]
    <3>1. Len(T) = 1 /\ T[1] \in Seq(Bit) BY <1>2, <1>3, <1>4
    <3> QED BY <1>3, <3>1, FlatOne
  <2> DEFINE P == [i \in 0 .. 1 |-> IF i = 0 THEN Out({0}, Bit, 0, <<>>) ELSE Silent({0}, {1}, {Flat(T)})]
  <2>2. P[0] = Out({0}, Bit, 0, <<>>) /\ P[1] = Silent({0}, {1}, {Flat(T)})
    OBVIOUS
  <2> HIDE DEF P
  <2>3. Carries(c, Out({0}, Bit, 3 * 0, <<>>), i2c_read_byte(FALSE), Silent({0}, {1}, {<<>> \o Source[0 + 1]}), E)
    <3>1. <<>> \in Seq(Bit) /\ 0 \in {0, 1} OBVIOUS
    <3> QED BY <3>1, ReadByteOff
  <2>4. 3 * 0 = 0 /\ 0 + 1 = 1 /\ <<>> \o Source[1] = Source[1] BY <1>2
  <2>5. q[1] = i2c_read_byte(FALSE)
    <3>1. 1 \in 1 .. len /\ (1 < len) = FALSE BY <1>4
    <3> QED BY <1>1, <3>1
  <2>6. Carries(c, P[0], q[1], P[1], E) BY <2>1, <2>2, <2>3, <2>4, <2>5
  <2>7. ASSUME NEW i \in 1 .. 1 PROVE Carries(c, P[i - 1], q[i], P[i], E)
    <3>1. i = 1 /\ i - 1 = 0 OBVIOUS
    <3> QED BY <2>6, <3>1
  <2>8. Len(q) = 1 BY <1>1, <1>4
  <2>9. Carries(c, P[0], Flat(q), P[1], E) BY <2>7, <2>8, CarriesFlat
  <2> QED BY <2>2, <2>9 DEF ReadsAll, q, T
<1>5. CASE len = 2
  <2>1. Flat(T) = Source[1] \o Source[2]
    <3>1. Len(T) = 2 /\ T[1] \in Seq(Bit) /\ T[2] \in Seq(Bit)
      BY <1>2, <1>3, <1>5
    <3> QED BY <1>3, <1>5, <3>1, FlatTwo
  <2> DEFINE P == [i \in 0 .. 2 |-> IF i = 0 THEN Out({0}, Bit, 0, <<>>)
                                    ELSE IF i = 1 THEN Out({0}, Bit, 3, Source[1]) ELSE Silent({0}, {1}, {Flat(T)})]
  <2>2. P[0] = Out({0}, Bit, 0, <<>>) /\ P[1] = Out({0}, Bit, 3, Source[1]) /\ P[2] = Silent({0}, {1}, {Flat(T)})
    OBVIOUS
  <2> HIDE DEF P
  <2>3. Carries(c, Out({0}, Bit, 0, <<>>), i2c_read_byte(TRUE), Out({0}, Bit, 3, <<>> \o Source[1]), E)
    <3>1. <<>> \in Seq(Bit) OBVIOUS
    <3> QED BY <3>1, ReadByteOn
  <2>4. Carries(c, Out({0}, Bit, 3 * 1, Source[1]), i2c_read_byte(FALSE), Silent({0}, {1}, {Source[1] \o Source[1 + 1]}), E)
    BY <1>2, ReadByteOff
  <2>5. 3 * 1 = 3 /\ 1 + 1 = 2 /\ <<>> \o Source[1] = Source[1] BY <1>2
  <2>6. q[1] = i2c_read_byte(TRUE) /\ q[2] = i2c_read_byte(FALSE)
    <3>1. 1 \in 1 .. len /\ 2 \in 1 .. len /\ (1 < len) = TRUE /\ (2 < len) = FALSE
      BY <1>5
    <3> QED BY <1>1, <3>1
  <2>7. Carries(c, P[0], q[1], P[1], E) /\ Carries(c, P[1], q[2], P[2], E)
    BY <2>1, <2>2, <2>3, <2>4, <2>5, <2>6
  <2>8. ASSUME NEW i \in 1 .. 2 PROVE Carries(c, P[i - 1], q[i], P[i], E)
    <3>1. (i = 1 /\ i - 1 = 0) \/ (i = 2 /\ i - 1 = 1) OBVIOUS
    <3> QED BY <2>7, <3>1
  <2>9. Len(q) = 2 BY <1>1, <1>5
  <2>10. Carries(c, P[0], Flat(q), P[2], E) BY <2>8, <2>9, CarriesFlat
  <2> QED BY <2>2, <2>10 DEF ReadsAll, q, T
<1> QED BY <1>4, <1>5

-----------------------------------------------------------------------------
(* The calls. *)

\* What a call that answers OK has achieved; every call leaves the bus free.
Goal(aim) ==
  {z \in Refusals :
     /\ aim.op = "write" => z.dev.frame = <<AddressByte(0)>> \o aim.data
     /\ aim.op = "read" => z.got = Flat(aim.data)
     /\ aim.op = "display" => z.dev.frame = <<Display(aim.data[2])>> /\ z.dev.ram = aim.data[1]}
Begins == Loose(Bit, Bit, Rams, <<>>)
Achieves(c, steps, aim) == Carries(c, Begins, steps, Goal(aim), Refusals)

LEMMA BusAddresses ==
  /\ AddressByte(0) \in WireByte /\ AddressByte(1) \in WireByte /\ AddressByte(0) # AddressByte(1)
  /\ Append(<<>>, AddressByte(0)) = <<AddressByte(0)>> /\ Append(<<>>, AddressByte(1)) = <<AddressByte(1)>>
  /\ <<>> \in Seq(WireByte) /\ <<AddressByte(0)>> \in Seq(WireByte)
BY DEF AddressByte, WireByte, Bit

LEMMA I2cAddressed ==
  ASSUME NEW G
  PROVE  Carries("i2c", Loose(Bit, Bit, Rams, G), start \o i2c_write_byte(AddressByte(0)),
                 In({0}, Bit, <<>>, <<AddressByte(0)>>, Rams, G), Refusals)
<1>1. Carries("i2c", Loose(Bit, Bit, Rams, G), start, In({0}, Bit, <<>>, <<>>, Rams, G), Refusals)
  BY StartListens
<1>2. Append(<<>>, AddressByte(0))[1] # AddressByte(1) BY BusAddresses
<1>3. Carries("i2c", In({0}, Bit, <<>>, <<>>, Rams, G), i2c_write_byte(AddressByte(0)),
              In({0}, Bit, <<>>, Append(<<>>, AddressByte(0)), Rams, G), Refusals)
  BY <1>2, BusAddresses, I2cByte
<1>4. Carries("i2c", In({0}, Bit, <<>>, <<>>, Rams, G), i2c_write_byte(AddressByte(0)),
              In({0}, Bit, <<>>, <<AddressByte(0)>>, Rams, G), Refusals)
  BY <1>3, BusAddresses
<1> QED BY <1>1, <1>4, CarriesJoin

LEMMA WriteAchieves ==
  ASSUME NEW data \in Seq(WireByte)
  PROVE  Achieves("i2c", i2c_write(data), Asked("write", data))
<1> DEFINE q == [i \in DOMAIN data |-> i2c_write_byte(data[i])]
           F == <<AddressByte(0)>>
<1>0. i2c_write(data) = start \o i2c_write_byte(AddressByte(0)) \o Flat(q) \o i2c_stop
  BY DEF i2c_write
<1>1. WritesAll("i2c", F, data, Rams, <<>>, q)
  <2>1. F \in Seq(WireByte) /\ F # <<>> /\ F[1] # AddressByte(1) BY BusAddresses
  <2> HIDE DEF F
  <2> QED BY <2>1, I2cBytes
<1> HIDE DEF q
<1>2. Carries("i2c", Begins, start \o i2c_write_byte(AddressByte(0)), In({0}, Bit, <<>>, F, Rams, <<>>), Refusals)
  BY I2cAddressed DEF Begins
<1>3. Carries("i2c", In({0}, Bit, <<>>, F, Rams, <<>>), Flat(q), In({0}, Bit, <<>>, F \o data, Rams, <<>>), Refusals)
  BY <1>1 DEF WritesAll
<1>4. Carries("i2c", In({0}, Bit, <<>>, F \o data, Rams, <<>>), i2c_stop,
              Free(F \o data, RamsAfter(F \o data, Rams), <<>>), Refusals)
  BY I2cStopFrees
<1>5. Carries("i2c", Begins, start \o i2c_write_byte(AddressByte(0)) \o Flat(q), In({0}, Bit, <<>>, F \o data, Rams, <<>>), Refusals)
  BY <1>2, <1>3, CarriesJoin
<1>6. Carries("i2c", Begins, i2c_write(data), Free(F \o data, RamsAfter(F \o data, Rams), <<>>), Refusals)
  BY <1>0, <1>4, <1>5, CarriesJoin
<1>7. Free(F \o data, RamsAfter(F \o data, Rams), <<>>) \subseteq Goal(Asked("write", data))
  <2>1. Asked("write", data).op = "write" /\ Asked("write", data).data = data
    BY DEF Asked
  <2> QED BY <2>1 DEF Free, Goal, Refusals
<1>8. Carries("i2c", Begins, i2c_write(data), Goal(Asked("write", data)), Refusals)
  BY <1>6, <1>7, CarriesWider
<1> QED BY <1>8 DEF Achieves

LEMMA ProbeAchieves == Achieves("i2c", i2c_probe, Asked("write", <<>>))
<1> DEFINE F == <<AddressByte(0)>>
<1>1. Carries("i2c", Begins, start \o i2c_write_byte(AddressByte(0)), In({0}, Bit, <<>>, F, Rams, <<>>), Refusals)
  BY I2cAddressed DEF Begins
<1>2. Carries("i2c", In({0}, Bit, <<>>, F, Rams, <<>>), i2c_stop, Free(F, RamsAfter(F, Rams), <<>>), Refusals)
  BY I2cStopFrees
<1>3. Carries("i2c", Begins, i2c_probe, Free(F, RamsAfter(F, Rams), <<>>), Refusals)
  BY <1>1, <1>2, CarriesJoin DEF i2c_probe
<1>4. Free(F, RamsAfter(F, Rams), <<>>) \subseteq Goal(Asked("write", <<>>))
  <2>1. Asked("write", <<>>).op = "write" /\ Asked("write", <<>>).data = <<>> /\ F \o <<>> = F
    BY DEF Asked
  <2> QED BY <2>1 DEF Free, Goal, Refusals
<1>5. Carries("i2c", Begins, i2c_probe, Goal(Asked("write", <<>>)), Refusals)
  BY <1>3, <1>4, CarriesWider
<1> QED BY <1>5 DEF Achieves

\* The device that is asked to send drives the wire as soon as it has acknowledged.
LEMMA AcceptedSends ==
  ASSUME NEW R, NEW G, NEW E
  PROVE  Carries("i2c", Accepted(<<AddressByte(1)>>, R, G), Scl(0), Out({0}, {1}, 0, G), E)
<1>1. ASSUME NEW s \in Accepted(<<AddressByte(1)>>, R, G), NEW z \in Buses, SclEdge("i2c", s, 0, z)
      PROVE z \in Out({0}, {1}, 0, G)
  <2>1. s.scl = 1 /\ s.sda = 1 /\ s.hold = 0 /\ s.dev.mode = "ackout" /\ s.dev \in Devices
        /\ s.dev.frame = <<AddressByte(1)>> /\ s.got = G
    BY DEF Accepted, Buses
  <2>2. z.scl = 0 /\ z.sda = 1 /\ z.got = s.got /\ Fall("i2c", s.dev, s.hold, z.dev, z.hold)
    BY <1>1, <2>1 DEF SclEdge
  <2>3. Reads("i2c", s.dev) BY <2>1 DEF Reads
  <2>4. Sends([s.dev EXCEPT !.mode = "out", !.sent = 0], z.dev, z.hold)
    BY <2>1, <2>2, <2>3 DEF Fall
  <2>5. z.dev = [s.dev EXCEPT !.mode = "out", !.sent = 0] /\ [s.dev EXCEPT !.mode = "out", !.sent = 0].sent = 0
        /\ z.hold = SendingBit([s.dev EXCEPT !.mode = "out", !.sent = 0].sent)
    BY <2>1, <2>4 DEF Sends, Devices
  <2>6. z.dev.mode = "out" /\ z.dev.sent = 0 /\ z.hold = SendingBit(0)
    BY <2>1, <2>5 DEF Devices
  <2> QED BY <2>1, <2>2, <2>6 DEF Out
<1>2. 0 \in Bit BY DEF Bit
<1> QED BY <1>1, <1>2, SclCarries

LEMMA I2cAsked ==
  ASSUME NEW G
  PROVE  Carries("i2c", Loose(Bit, Bit, Rams, G), start \o i2c_write_byte(AddressByte(1)), Out({0}, {1}, 0, G), Refusals)
<1> DEFINE b == AddressByte(1)
           q == [i \in 1 .. ByteBits |-> Sda(b[i]) \o Scl(1) \o Scl(0)]
           P == Loose(Bit, Bit, Rams, G)
           A == In({0}, Bit, <<>>, <<>>, Rams, G)
<1>1. Carries("i2c", P, start, A, Refusals) BY StartListens
<1>2. Shifts("i2c", b, <<>>, Rams, G, Refusals, q)
  <2>1. b \in WireByte /\ <<>> \in Seq(WireByte) BY BusAddresses
  <2> HIDE DEF b
  <2> QED BY <2>1, I2cBits
<1>3. i2c_write_byte(b) = Flat(q) \o Acknowledged BY DEF i2c_write_byte
<1> HIDE DEF q
<1>4. Carries("i2c", A, Flat(q), Acking({0}, Bit, <<b>>, Rams, G), Refusals)
  <2>1. Append(<<>>, b) = <<b>> OBVIOUS
  <2> QED BY <1>2, <2>1 DEF Shifts
<1>5. Carries("i2c", Acking({0}, Bit, <<b>>, Rams, G), Sda(1), Acking({0}, {1}, <<b>>, Rams, G), Refusals)
  BY AckingSda
<1>6. Carries("i2c", Acking({0}, {1}, <<b>>, Rams, G), Scl(1), Acking({1}, {1}, <<b>>, Rams, G), Refusals)
  BY AckingRises
<1>7. Carries("i2c", Acking({1}, {1}, <<b>>, Rams, G), CheckAck, Accepted(<<b>>, Rams, G), Refusals)
  BY AckingEnds
<1>8. Carries("i2c", Accepted(<<b>>, Rams, G), Scl(0), Out({0}, {1}, 0, G), Refusals)
  BY AcceptedSends
<1>9. Carries("i2c", Acking({0}, Bit, <<b>>, Rams, G), Acknowledged, Out({0}, {1}, 0, G), Refusals)
  <2>1. Carries("i2c", Acking({0}, Bit, <<b>>, Rams, G), Sda(1) \o Scl(1), Acking({1}, {1}, <<b>>, Rams, G), Refusals)
    BY <1>5, <1>6, CarriesJoin
  <2>2. Carries("i2c", Acking({0}, Bit, <<b>>, Rams, G), Sda(1) \o Scl(1) \o CheckAck, Accepted(<<b>>, Rams, G), Refusals)
    BY <1>7, <2>1, CarriesJoin
  <2> QED BY <1>8, <2>2, CarriesJoin DEF Acknowledged
<1>10. Carries("i2c", A, i2c_write_byte(b), Out({0}, {1}, 0, G), Refusals)
  BY <1>3, <1>4, <1>9, CarriesJoin
<1> QED BY <1>1, <1>10, CarriesJoin

LEMMA ReadAchieves ==
  ASSUME NEW len \in 1 .. 2
  PROVE  Achieves("i2c", i2c_read(len), Asked("read", SubSeq(Source, 1, len)))
<1> DEFINE q == [i \in 1 .. len |-> i2c_read_byte(i < len)]
           T == SubSeq(Source, 1, len)
<1>0. i2c_read(len) = start \o i2c_write_byte(AddressByte(1)) \o Flat(q) \o i2c_stop
  BY DEF i2c_read
<1>1. ReadsAll("i2c", len, Refusals, q) BY ReadBytes
<1> HIDE DEF q
<1>2. Carries("i2c", Out({0}, Bit, 0, <<>>), Flat(q), Silent({0}, {1}, {Flat(T)}), Refusals)
  BY <1>1 DEF ReadsAll
<1> HIDE DEF T
<1>3. Carries("i2c", Begins, start \o i2c_write_byte(AddressByte(1)), Out({0}, {1}, 0, <<>>), Refusals)
  BY I2cAsked DEF Begins
<1>4. Out({0}, {1}, 0, <<>>) \subseteq Out({0}, Bit, 0, <<>>) BY DEF Out, Bit
<1>5. Carries("i2c", Begins, start \o i2c_write_byte(AddressByte(1)), Out({0}, Bit, 0, <<>>), Refusals)
  BY <1>3, <1>4, CarriesWider
<1>6. Carries("i2c", Silent({0}, {1}, {Flat(T)}), i2c_stop, Silent({1}, {1}, {Flat(T)}), Refusals)
  BY SilentI2cStop
<1>7. Carries("i2c", Begins, start \o i2c_write_byte(AddressByte(1)) \o Flat(q), Silent({0}, {1}, {Flat(T)}), Refusals)
  BY <1>2, <1>5, CarriesJoin
<1>8. Carries("i2c", Begins, i2c_read(len), Silent({1}, {1}, {Flat(T)}), Refusals)
  BY <1>0, <1>6, <1>7, CarriesJoin
<1>9. Silent({1}, {1}, {Flat(T)}) \subseteq Goal(Asked("read", T))
  <2>1. Asked("read", T).op = "read" /\ Asked("read", T).data = T BY DEF Asked
  <2> QED BY <2>1 DEF Silent, Goal, Refusals
<1>10. Carries("i2c", Begins, i2c_read(len), Goal(Asked("read", T)), Refusals)
  BY <1>8, <1>9, CarriesWider
<1> QED BY <1>10 DEF Achieves, T

\* A command of one byte on the bus of the display.
LEMMA TmCommand ==
  ASSUME NEW cmd \in WireByte, cmd # AddrBase, NEW D, NEW R, D = {1} \/ R = Rams, NEW G
  PROVE  Carries("tm1637", Loose(Bit, D, R, G), tm1637_write_cmd(cmd), Free(<<cmd>>, R, G), Refusals)
<1>0. <<>> \in Seq(WireByte) /\ Append(<<>>, cmd) = <<cmd>> OBVIOUS
<1>1. Carries("tm1637", Loose(Bit, D, R, G), start, In({0}, Bit, <<>>, <<>>, R, G), Refusals)
  BY StartListens
<1>2. Carries("tm1637", In({0}, Bit, <<>>, <<>>, R, G), tm1637_write_byte(cmd), In({0}, Bit, <<>>, Append(<<>>, cmd), R, G), Refusals)
  BY <1>0, TmByte
<1>3. Carries("tm1637", In({0}, Bit, <<>>, <<cmd>>, R, G), tm1637_stop, Free(<<cmd>>, RamsAfter(<<cmd>>, R), G), Refusals)
  BY TmStopFrees
<1>4. RamsAfter(<<cmd>>, R) = R BY DEF RamsAfter
<1>5. Carries("tm1637", Loose(Bit, D, R, G), start \o tm1637_write_byte(cmd), In({0}, Bit, <<>>, <<cmd>>, R, G), Refusals)
  BY <1>0, <1>1, <1>2, CarriesJoin
<1>6. Carries("tm1637", Loose(Bit, D, R, G), tm1637_write_cmd(cmd), Free(<<cmd>>, RamsAfter(<<cmd>>, R), G), Refusals)
  BY <1>3, <1>5, CarriesJoin DEF tm1637_write_cmd
<1> QED BY <1>4, <1>6

LEMMA FreeIsLoose ==
  ASSUME NEW F, NEW R, NEW G
  PROVE  Free(F, R, G) \subseteq Loose(Bit, {1}, R, G)
BY DEF Free, Loose, Bit

LEMMA DisplayAchieves ==
  ASSUME NEW data \in Seq(WireByte), NEW lit \in Bit
  PROVE  Achieves("tm1637", tm1637_display_raw(data, lit), Asked("display", <<data, lit>>))
<1> DEFINE q == [i \in DOMAIN data |-> tm1637_write_byte(data[i])]
           F == <<AddrBase>>
           A == tm1637_write_cmd(DataAuto)
           w == tm1637_write_byte(AddrBase)
<1>0. tm1637_display_raw(data, lit) = A \o start \o w \o Flat(q) \o tm1637_stop \o tm1637_write_cmd(Display(lit))
  BY DEF tm1637_display_raw
<1>1. DataAuto \in WireByte /\ DataAuto # AddrBase /\ AddrBase \in WireByte
  BY DEF DataAuto, AddrBase, WireByte, Bit
<1>2. Display(lit) \in WireByte /\ Display(lit) # AddrBase
  BY DEF Display, AddrBase, WireByte, Bit
<1>3. WritesAll("tm1637", F, data, Rams, <<>>, q)
  <2>1. F \in Seq(WireByte) BY <1>1
  <2> HIDE DEF F
  <2> QED BY <2>1, TmBytes
<1> HIDE DEF q
<1>4. Carries("tm1637", Begins, A, Free(<<DataAuto>>, Rams, <<>>), Refusals)
  BY <1>1, TmCommand DEF Begins
<1>5. Carries("tm1637", Free(<<DataAuto>>, Rams, <<>>), start, In({0}, Bit, <<>>, <<>>, Rams, <<>>), Refusals)
  <2>1. Carries("tm1637", Loose(Bit, {1}, Rams, <<>>), start, In({0}, Bit, <<>>, <<>>, Rams, <<>>), Refusals)
    BY StartListens
  <2> QED BY <2>1, FreeIsLoose, CarriesWider
<1>6. Carries("tm1637", In({0}, Bit, <<>>, <<>>, Rams, <<>>), w, In({0}, Bit, <<>>, F, Rams, <<>>), Refusals)
  <2>1. <<>> \in Seq(WireByte) /\ Append(<<>>, AddrBase) = F OBVIOUS
  <2>2. Carries("tm1637", In({0}, Bit, <<>>, <<>>, Rams, <<>>), w, In({0}, Bit, <<>>, Append(<<>>, AddrBase), Rams, <<>>), Refusals)
    BY <1>1, <2>1, TmByte
  <2> QED BY <2>1, <2>2
<1>7. Carries("tm1637", In({0}, Bit, <<>>, F, Rams, <<>>), Flat(q), In({0}, Bit, <<>>, F \o data, Rams, <<>>), Refusals)
  BY <1>3 DEF WritesAll
<1>8. Carries("tm1637", In({0}, Bit, <<>>, F \o data, Rams, <<>>), tm1637_stop, Free(F \o data, {data}, <<>>), Refusals)
  <2>1. RamsAfter(F \o data, Rams) = {data}
    <3>1. F \o data # <<>> /\ (F \o data)[1] = AddrBase /\ Tail(F \o data) = data
      BY <1>1
    <3> HIDE DEF F
    <3> QED BY <3>1 DEF RamsAfter
  <2>2. Carries("tm1637", In({0}, Bit, <<>>, F \o data, Rams, <<>>), tm1637_stop,
                Free(F \o data, RamsAfter(F \o data, Rams), <<>>), Refusals)
    BY TmStopFrees
  <2> QED BY <2>1, <2>2
<1>9. Carries("tm1637", Free(F \o data, {data}, <<>>), tm1637_write_cmd(Display(lit)), Free(<<Display(lit)>>, {data}, <<>>), Refusals)
  <2>1. Carries("tm1637", Loose(Bit, {1}, {data}, <<>>), tm1637_write_cmd(Display(lit)), Free(<<Display(lit)>>, {data}, <<>>), Refusals)
    BY <1>2, TmCommand
  <2> QED BY <2>1, FreeIsLoose, CarriesWider
<1> HIDE DEF A, w
<1>10. Carries("tm1637", Begins, A \o start, In({0}, Bit, <<>>, <<>>, Rams, <<>>), Refusals)
  BY <1>4, <1>5, CarriesJoin
<1>11. Carries("tm1637", Begins, A \o start \o w, In({0}, Bit, <<>>, F, Rams, <<>>), Refusals)
  BY <1>6, <1>10, CarriesJoin
<1>12. Carries("tm1637", Begins, A \o start \o w \o Flat(q), In({0}, Bit, <<>>, F \o data, Rams, <<>>), Refusals)
  BY <1>7, <1>11, CarriesJoin
<1>13. Carries("tm1637", Begins, A \o start \o w \o Flat(q) \o tm1637_stop, Free(F \o data, {data}, <<>>), Refusals)
  BY <1>8, <1>12, CarriesJoin
<1>14. Carries("tm1637", Begins, tm1637_display_raw(data, lit), Free(<<Display(lit)>>, {data}, <<>>), Refusals)
  BY <1>0, <1>9, <1>13, CarriesJoin
<1>15. Free(<<Display(lit)>>, {data}, <<>>) \subseteq Goal(Asked("display", <<data, lit>>))
  <2> DEFINE x == Asked("display", <<data, lit>>)
  <2>1. x.op = "display" /\ x.data[1] = data /\ x.data[2] = lit BY DEF Asked
  <2> HIDE DEF x
  <2>2. Free(<<Display(lit)>>, {data}, <<>>) \subseteq Goal(x)
    BY <2>1 DEF Free, Goal, Refusals
  <2> QED BY <2>2 DEF x
<1>16. Carries("tm1637", Begins, tm1637_display_raw(data, lit), Goal(Asked("display", <<data, lit>>)), Refusals)
  BY <1>14, <1>15, CarriesWider
<1> QED BY <1>16 DEF Achieves

-----------------------------------------------------------------------------
(* The invariant: the steps still to be made lead to what was asked. *)

WireInv ==
  /\ chip \in {"i2c", "tm1637"} /\ Bus \in Buses /\ todo \in Seq(Edges)
  /\ reply \in {"none", "OK", "ERROR"} /\ stuck \in BOOLEAN
  /\ ~stuck /\ reply = "ERROR" => Brings(chip, Bus, todo, Refusals, {})
  /\ ~stuck /\ reply # "ERROR" => Brings(chip, Bus, todo, Goal(request), Refusals)

LEMMA BusParts ==
  /\ Bus.scl = scl /\ Bus.sda = sda /\ Bus.hold = hold /\ Bus.dev = device /\ Bus.got = input
  /\ Bus'.scl = scl' /\ Bus'.sda = sda' /\ Bus'.hold = hold' /\ Bus'.dev = device' /\ Bus'.got = input'
  /\ Bus \in Buses <=> scl \in Bit /\ sda \in Bit /\ hold \in Bit /\ device \in Devices /\ input \in Seq(Bit)
  /\ Bus' \in Buses <=> scl' \in Bit /\ sda' \in Bit /\ hold' \in Bit /\ device' \in Devices /\ input' \in Seq(Bit)
BY DEF Bus, Buses

LEMMA LevelBit == \A x \in Bit, y \in Bit : Level(x, y) \in Bit
BY DEF Level, Bit

LEMMA SendingTyped == ASSUME NEW n \in 0 .. 5 PROVE SendingBit(n) \in Bit
<1>1. PICK k \in {0, 1}, i \in 1 .. 3 : n = 3 * k + (i - 1)
  <2>1. CASE n < 3
    <3>1. n + 1 \in 1 .. 3 /\ n = 3 * 0 + ((n + 1) - 1) /\ 0 \in {0, 1} BY <2>1
    <3> QED BY <3>1
  <2>2. CASE n >= 3
    <3>1. n - 2 \in 1 .. 3 /\ n = 3 * 1 + ((n - 2) - 1) /\ 1 \in {0, 1} BY <2>2
    <3> QED BY <3>1
  <2> QED BY <2>1, <2>2
<1> QED BY <1>1, SentBits

\* What the device does keeps to its type.
LEMMA FallTyped ==
  ASSUME NEW c, NEW d \in Devices, NEW h \in Bit, NEW e, NEW g, Fall(c, d, h, e, g)
  PROVE  e \in Devices /\ g \in Bit
<1>0. 0 \in Bit /\ 1 \in Bit /\ ByteBits = 3 /\ <<>> \in Seq(Bit)
  BY DEF Bit, ByteBits
<1>d. d.bits \in Seq(Bit) /\ d.frame \in Seq(WireByte) /\ d.ram \in Seq(WireByte) /\ d.sent \in 0 .. 5
      /\ d = [mode |-> d.mode, bits |-> d.bits, frame |-> d.frame, sent |-> d.sent, ram |-> d.ram]
  BY <1>0 DEF Devices
<1>t. \A m \in {"idle", "in", "ackout", "out", "ackin"}, b \in Seq(Bit), n \in 0 .. 5 :
        [mode |-> m, bits |-> b, frame |-> d.frame, sent |-> n, ram |-> d.ram] \in Devices
  BY <1>0, <1>d DEF Devices
<1>1. CASE d.mode = "in" /\ Len(d.bits) = ByteBits
           /\ (\/ e = [d EXCEPT !.mode = "ackout", !.bits = <<>>, !.frame = Append(@, d.bits)] /\ g = 0
               \/ e = [d EXCEPT !.mode = "idle"] /\ g = 1)
  <2>1. d.bits \in WireByte
    <3>1. d.bits \in Seq(Bit) /\ Len(d.bits) = 3 BY <1>0, <1>1 DEF Devices
    <3>2. d.bits = <<d.bits[1], d.bits[2], d.bits[3]>> /\ d.bits[1] \in Bit /\ d.bits[2] \in Bit /\ d.bits[3] \in Bit
      BY <3>1
    <3> QED BY <3>2 DEF WireByte
  <2>2. Append(d.frame, d.bits) \in Seq(WireByte) BY <2>1 DEF Devices
  <2> QED BY <1>0, <1>1, <2>2 DEF Devices
<1>2. CASE d.mode = "ackout" /\ Reads(c, d) /\ Sends([d EXCEPT !.mode = "out", !.sent = 0], e, g)
  <2>1. e = [d EXCEPT !.mode = "out", !.sent = 0] /\ g = SendingBit([d EXCEPT !.mode = "out", !.sent = 0].sent)
    BY <1>2 DEF Sends
  <2>2. e = [mode |-> "out", bits |-> d.bits, frame |-> d.frame, sent |-> 0, ram |-> d.ram]
        /\ [d EXCEPT !.mode = "out", !.sent = 0].sent = 0
    BY <1>d, <2>1
  <2>3. e \in Devices /\ [d EXCEPT !.mode = "out", !.sent = 0].sent \in 0 .. 5
    <3>1. d.bits \in Seq(Bit) /\ 0 \in 0 .. 5 BY <1>d
    <3>2. [mode |-> "out", bits |-> d.bits, frame |-> d.frame, sent |-> 0, ram |-> d.ram] \in Devices
      BY <1>t, <3>1
    <3> QED BY <2>2, <3>1, <3>2
  <2> QED BY <2>1, <2>3, SendingTyped
<1>3. CASE d.mode = "ackout" /\ ~Reads(c, d) /\ e = [d EXCEPT !.mode = "in"] /\ g = 1
  BY <1>0, <1>3 DEF Devices
<1>4. CASE d.mode = "out" /\ (d.sent + 1) % ByteBits # 0 /\ Sends([d EXCEPT !.sent = @ + 1], e, g)
  <2>1. e = [d EXCEPT !.sent = @ + 1] /\ g = SendingBit([d EXCEPT !.sent = @ + 1].sent)
    BY <1>4 DEF Sends
  <2>2. d.sent \in 0 .. 5 BY <1>0 DEF Devices
  <2>3. d.sent + 1 \in 0 .. 5
    <3>1. d.sent # 5
      <4>1. 6 % 3 = 0 /\ 5 + 1 = 6 OBVIOUS
      <4> QED BY <1>0, <1>4, <4>1
    <3> QED BY <2>2, <3>1
  <2>4. e \in Devices /\ [d EXCEPT !.sent = @ + 1].sent \in 0 .. 5
    BY <1>0, <2>1, <2>3 DEF Devices
  <2> QED BY <2>1, <2>4, SendingTyped
<1>5. CASE d.mode = "out" /\ (d.sent + 1) % ByteBits = 0
           /\ e = [d EXCEPT !.mode = "ackin", !.sent = (@ + 1) % (2 * ByteBits), !.bits = <<>>] /\ g = 1
  <2>1. d.sent \in 0 .. 5 BY <1>0 DEF Devices
  <2>2. (d.sent + 1) % 6 \in 0 .. 5 BY <2>1
  <2>3. e = [mode |-> "ackin", bits |-> <<>>, frame |-> d.frame, sent |-> (d.sent + 1) % 6, ram |-> d.ram]
    <3>1. 2 * ByteBits = 6 BY <1>0
    <3> QED BY <1>d, <1>5, <3>1
  <2>4. [mode |-> "ackin", bits |-> <<>>, frame |-> d.frame, sent |-> (d.sent + 1) % 6, ram |-> d.ram] \in Devices
    BY <1>0, <1>t, <2>2
  <2> QED BY <1>0, <1>5, <2>3, <2>4
<1>6. CASE d.mode = "ackin" /\ d.bits = <<0>> /\ Sends([d EXCEPT !.mode = "out", !.bits = <<>>], e, g)
  <2>1. e = [d EXCEPT !.mode = "out", !.bits = <<>>] /\ g = SendingBit([d EXCEPT !.mode = "out", !.bits = <<>>].sent)
    BY <1>6 DEF Sends
  <2>2. e = [mode |-> "out", bits |-> <<>>, frame |-> d.frame, sent |-> d.sent, ram |-> d.ram]
        /\ [d EXCEPT !.mode = "out", !.bits = <<>>].sent = d.sent
    BY <1>d, <2>1
  <2>3. e \in Devices /\ [d EXCEPT !.mode = "out", !.bits = <<>>].sent \in 0 .. 5
    BY <1>0, <1>d, <1>t, <2>2
  <2> QED BY <2>1, <2>3, SendingTyped
<1>7. CASE d.mode = "ackin" /\ d.bits # <<0>> /\ e = [d EXCEPT !.mode = "idle"] /\ g = 1
  BY <1>0, <1>7 DEF Devices
<1>8. CASE Quiet(d, h, e, g) BY <1>8 DEF Quiet
<1> QED BY <1>1, <1>2, <1>3, <1>4, <1>5, <1>6, <1>7, <1>8 DEF Fall

LEMMA RiseTyped ==
  ASSUME NEW d \in Devices, NEW l \in Bit, NEW e, Rise(d, l, e)
  PROVE  e \in Devices
<1>1. CASE d.mode \in {"in", "ackin"}
  <2>1. e = [d EXCEPT !.bits = Append(@, l)] BY <1>1 DEF Rise
  <2>2. Append(d.bits, l) \in Seq(Bit) BY DEF Devices
  <2> QED BY <2>1, <2>2 DEF Devices
<1>2. CASE d.mode \notin {"in", "ackin"} BY <1>2 DEF Rise
<1> QED BY <1>1, <1>2

\* The steps of the master are edges.
LEMMA FallsIsFall ==
  ASSUME device \in Devices, Falls
  PROVE  Fall(chip, device, hold, device', hold')
<1>0. IsRead <=> Reads(chip, device) BY DEF IsRead, Reads
<1>1. device.mode \in {"idle", "in", "ackout", "out", "ackin"} BY DEF Devices
<1>2. CASE device.mode = "in" /\ Len(device.bits) = ByteBits
  BY <1>2 DEF Falls, Fall
<1>3. CASE device.mode = "in" /\ Len(device.bits) # ByteBits
  BY <1>3 DEF Falls, Fall, Quiet
<1>4. CASE device.mode = "ackout" /\ IsRead
  BY <1>0, <1>4 DEF Falls, Fall, SendBit, Sends
<1>5. CASE device.mode = "ackout" /\ ~IsRead BY <1>0, <1>5 DEF Falls, Fall
<1>6. CASE device.mode = "out" /\ (device.sent + 1) % ByteBits # 0
  BY <1>6 DEF Falls, Fall, SendBit, Sends
<1>7. CASE device.mode = "out" /\ (device.sent + 1) % ByteBits = 0
  BY <1>7 DEF Falls, Fall
<1>8. CASE device.mode = "ackin" /\ device.bits = <<0>>
  BY <1>8 DEF Falls, Fall, SendBit, Sends
<1>9. CASE device.mode = "ackin" /\ device.bits # <<0>> BY <1>9 DEF Falls, Fall
<1>10. CASE device.mode = "idle" BY <1>10 DEF Falls, Fall, Quiet
<1> QED BY <1>1, <1>2, <1>3, <1>4, <1>5, <1>6, <1>7, <1>8, <1>9, <1>10

LEMMA SclStepIsEdge ==
  ASSUME WireInv, SclStep
  PROVE  Edge(chip, Bus, Now, Bus')
<1>1. Now \in Edges /\ Now.do = "scl" /\ Now.to \in Bit
  <2>1. todo \in Seq(Edges) /\ todo # <<>> /\ Now.do = "scl"
    BY DEF SclStep, WireInv
  <2>2. Now \in Edges BY <2>1 DEF Now
  <2> QED BY <2>1, <2>2 DEF Edges
<1>2. scl \in Bit /\ sda \in Bit /\ hold \in Bit /\ device \in Devices /\ input \in Seq(Bit)
  BY BusParts DEF WireInv
<1>3. scl' = Now.to /\ sda' = sda /\ input' = input BY DEF SclStep
<1>4. scl = 0 /\ Now.to = 1 => Rise(device, Level(sda, hold), device') /\ hold' = hold
  BY DEF SclStep, Rises, Rise
<1>5. scl = 1 /\ Now.to = 0 => Fall(chip, device, hold, device', hold')
  <2>1. scl = 1 /\ Now.to = 0 => Falls BY DEF SclStep
  <2> QED BY <1>2, <2>1, FallsIsFall
<1>6. scl = Now.to => device' = device /\ hold' = hold BY <1>1 DEF SclStep, Bit
<1>7. device' \in Devices /\ hold' \in Bit
  <2>1. (scl = 0 /\ Now.to = 1) \/ (scl = 1 /\ Now.to = 0) \/ scl = Now.to
    BY <1>1, <1>2 DEF Bit
  <2>2. CASE scl = 0 /\ Now.to = 1 BY <1>2, <1>4, <2>2, LevelBit, RiseTyped
  <2>3. CASE scl = 1 /\ Now.to = 0 BY <1>2, <1>5, <2>3, FallTyped
  <2>4. CASE scl = Now.to BY <1>2, <1>6, <2>4
  <2> QED BY <2>1, <2>2, <2>3, <2>4
<1>8. Bus' \in Buses BY <1>1, <1>2, <1>3, <1>7, BusParts
<1>9. SclEdge(chip, Bus, Now.to, Bus')
  BY <1>3, <1>4, <1>5, <1>6, BusParts DEF SclEdge
<1> QED BY <1>1, <1>8, <1>9 DEF Edge

LEMMA SdaStepIsEdge ==
  ASSUME WireInv, SdaStep
  PROVE  Edge(chip, Bus, Now, Bus')
<1>1. Now \in Edges /\ Now.do = "sda" /\ Now.to \in Bit
  <2>1. todo \in Seq(Edges) /\ todo # <<>> /\ Now.do = "sda"
    BY DEF SdaStep, WireInv
  <2>2. Now \in Edges BY <2>1 DEF Now
  <2> QED BY <2>1, <2>2 DEF Edges
<1>2. scl \in Bit /\ sda \in Bit /\ hold \in Bit /\ device \in Devices /\ input \in Seq(Bit)
  BY BusParts DEF WireInv
<1>3. sda' = Now.to /\ scl' = scl /\ input' = input BY DEF SdaStep
<1>4. IsStart(Bus, Now.to) <=> scl = 1 /\ Level(sda, hold) = 1 /\ Now.to = 0
  BY BusParts DEF IsStart
<1>5. IsStop(Bus, Now.to) <=> scl = 1 /\ sda = 0 /\ Level(Now.to, hold) = 1
  BY BusParts DEF IsStop
<1>6. ~(IsStart(Bus, Now.to) /\ IsStop(Bus, Now.to)) BY <1>4, <1>5 DEF Level
<1>7. IsStart(Bus, Now.to) => Started
  <2>1. ASSUME scl = 1, Level(sda, hold) = 1, Now.to = 0 PROVE Started
    BY <2>1 DEF SdaStep, Level
  <2> QED BY <1>4, <2>1
<1>8. IsStop(Bus, Now.to) => Stopped BY <1>4, <1>5, <1>6 DEF SdaStep
<1>9. ~IsStart(Bus, Now.to) /\ ~IsStop(Bus, Now.to) => device' = device /\ hold' = hold
  BY <1>4, <1>5 DEF SdaStep
<1>10. device' \in Devices /\ hold' \in Bit
  <2>1. CASE IsStart(Bus, Now.to)
    <3>1. device' = [mode |-> "in", bits |-> <<>>, frame |-> <<>>, sent |-> 0, ram |-> device.ram] /\ hold' = 1
      BY <1>7, <2>1 DEF Started, Waiting
    <3>2. device.ram \in Seq(WireByte) /\ <<>> \in Seq(Bit) /\ <<>> \in Seq(WireByte) /\ 0 \in 0 .. 2 * ByteBits - 1
      BY <1>2 DEF Devices, ByteBits
    <3> QED BY <3>1, <3>2 DEF Devices, Bit
  <2>2. CASE IsStop(Bus, Now.to)
    <3> DEFINE r == IF device.frame # <<>> /\ device.frame[1] = AddrBase THEN Tail(device.frame) ELSE device.ram
    <3>1. device.frame \in Seq(WireByte) /\ device.ram \in Seq(WireByte)
      BY <1>2 DEF Devices
    <3>2. r \in Seq(WireByte) BY <3>1
    <3>3. device' = [device EXCEPT !.mode = "idle", !.ram = r] /\ hold' = 1
      BY <1>2, <1>8, <2>2 DEF Stopped, Devices
    <3> HIDE DEF r
    <3> QED BY <1>2, <3>2, <3>3 DEF Devices, Bit
  <2>3. CASE ~IsStart(Bus, Now.to) /\ ~IsStop(Bus, Now.to) BY <1>2, <1>9, <2>3
  <2> QED BY <2>1, <2>2, <2>3
<1>11. Bus' \in Buses BY <1>1, <1>2, <1>3, <1>10, BusParts
<1>12. SdaEdge(Bus, Now.to, Bus')
  BY <1>3, <1>7, <1>8, <1>9, BusParts DEF SdaEdge, Started, Stopped
<1> QED BY <1>1, <1>11, <1>12 DEF Edge

LEMMA ReadStepIsEdge ==
  ASSUME WireInv, ReadStep
  PROVE  Edge(chip, Bus, Now, Bus')
<1>1. Now.do = "read" BY DEF ReadStep
<1>2. scl \in Bit /\ sda \in Bit /\ hold \in Bit /\ device \in Devices /\ input \in Seq(Bit)
  BY BusParts DEF WireInv
<1>3. input' = Append(input, Level(sda, hold)) /\ scl' = scl /\ sda' = sda /\ hold' = hold /\ device' = device
  BY DEF ReadStep, wires
<1>4. input' \in Seq(Bit)
  <2>1. Level(sda, hold) \in Bit BY <1>2, LevelBit
  <2> QED BY <1>2, <1>3, <2>1
<1>5. Bus' \in Buses BY <1>2, <1>3, <1>4, BusParts
<1>6. Bus' = [Bus EXCEPT !.got = Append(@, Level(Bus.sda, Bus.hold))]
  BY <1>3 DEF Bus
<1> QED BY <1>1, <1>5, <1>6 DEF Edge

\* A step of the master that is an edge makes the first of the steps that were left.
LEMMA EdgeKeeps ==
  ASSUME WireInv, todo # <<>>, todo' = Tail(todo), Edge(chip, Bus, Now, Bus'),
         UNCHANGED <<chip, request, reply, stuck>>
  PROVE  WireInv'
<1>1. Bus' \in Buses BY DEF Edge
<1>2. todo' \in Seq(Edges) BY DEF WireInv
<1>3. ~stuck' /\ reply' = "ERROR" => Brings(chip', Bus', todo', Refusals, {})
  BY BringsOn DEF WireInv, Now
<1>4. Goal(request)' = Goal(request) BY DEF Goal
<1>5. ~stuck' /\ reply' # "ERROR" => Brings(chip', Bus', todo', Goal(request)', Refusals)
  BY <1>4, BringsOn DEF WireInv, Now
<1> QED BY <1>1, <1>2, <1>3, <1>5 DEF WireInv

LEMMA LevelEdges ==
  /\ Scl(0) \in Seq(Edges) /\ Scl(1) \in Seq(Edges) /\ Sda(0) \in Seq(Edges) /\ Sda(1) \in Seq(Edges)
BY DEF Scl, Sda, Edges, Bit

LEMMA StopEdges == Scl(0) \o stop \in Seq(Edges)
<1>1. i2c_stop \in Seq(Edges) /\ tm1637_stop \in Seq(Edges)
  BY LevelEdges DEF i2c_stop, tm1637_stop
<1>2. stop \in Seq(Edges) BY <1>1 DEF stop
<1> QED BY <1>2, LevelEdges

LEMMA AckKeeps ==
  ASSUME WireInv, AckStep
  PROVE  WireInv'
<1>0. Bus' = Bus /\ UNCHANGED <<chip, request, stuck>> /\ Now.do = "ack" /\ todo # <<>>
  BY DEF AckStep, Bus, wires
<1>1. Bus.sda = sda /\ Bus.hold = hold /\ sda \in Bit /\ hold \in Bit
  BY BusParts DEF WireInv
<1>2. CASE Level(sda, hold) = 0
  <2>1. todo' = Tail(todo) /\ reply' = reply BY <1>2 DEF AckStep, StepDone
  <2>2. Edge(chip, Bus, Now, Bus') BY <1>0, <1>1, <1>2 DEF Edge, WireInv
  <2> QED BY <1>0, <2>1, <2>2, EdgeKeeps
<1>3. CASE Level(sda, hold) # 0
  <2>1. todo' = Scl(0) \o stop /\ reply' = "ERROR" BY <1>3 DEF AckStep
  <2>2. Refused(Bus, Now) BY <1>0, <1>1, <1>3, LevelBit DEF Refused, Bit
  <2>3. ~stuck => Bus \in Refusals
    <3>1. ~stuck /\ reply = "ERROR" => Bus \in {}
      BY <1>0, <2>2, BringsRefused DEF WireInv, Now
    <3>2. ~stuck /\ reply # "ERROR" => Bus \in Refusals
      BY <1>0, <2>2, BringsRefused DEF WireInv, Now
    <3> QED BY <3>1, <3>2
  <2>4. Scl(0) \o stop \in Seq(Edges) BY StopEdges
  <2>5. ~stuck => Brings(chip, Bus, Scl(0) \o stop, Refusals, {})
    BY <2>3, RefusalEnds
  <2> QED BY <1>0, <2>1, <2>4, <2>5 DEF WireInv
<1> QED BY <1>2, <1>3

\* A call begins with a device that does not pull, or after a reset that nothing is claimed of.
LEMMA BusCallKeeps ==
  ASSUME WireInv, NEW aim, NEW steps, BusCall(aim, steps), Achieves(chip, steps, aim)
  PROVE  WireInv'
<1>1. todo = <<>> /\ request' = aim /\ todo' = steps /\ reply' = "OK" /\ input' = <<>>
      /\ chip' = chip /\ scl' = scl /\ sda' = sda /\ hold' = hold /\ device' = device /\ stuck' = (stuck /\ hold = 0)
  BY DEF BusCall, wires
<1>2. scl \in Bit /\ sda \in Bit /\ hold \in Bit /\ device \in Devices
  BY BusParts DEF WireInv
<1>3. Bus' \in Buses BY <1>1, <1>2, BusParts
<1>4. steps \in Seq(Edges) /\ \A s \in Begins : Brings(chip, s, steps, Goal(aim), Refusals)
  BY DEF Achieves, Carries
<1>5. ~stuck' => hold = 1
  <2>1. CASE stuck BY <1>1, <1>2, <2>1 DEF Bit
  <2>2. CASE ~stuck
    <3>1. Bus \in Refusals
      <4>1. CASE reply = "ERROR"
        <5>1. Brings(chip, Bus, <<>>, Refusals, {})
          BY <1>1, <2>2, <4>1 DEF WireInv
        <5> QED BY <5>1, BringsNow
      <4>2. CASE reply # "ERROR"
        <5>1. Brings(chip, Bus, <<>>, Goal(request), Refusals)
          BY <1>1, <2>2, <4>2 DEF WireInv
        <5>2. Bus \in Goal(request) BY <5>1, BringsNow
        <5> QED BY <5>2 DEF Goal
      <4> QED BY <4>1, <4>2
    <3>2. Bus.hold = 1 BY <3>1 DEF Refusals
    <3> QED BY <3>2, BusParts
  <2> QED BY <2>1, <2>2
<1>6. ~stuck' => Bus' \in Begins
  <2>1. Bus'.scl \in Bit /\ Bus'.sda \in Bit /\ Bus'.hold = hold /\ Bus'.dev = device /\ Bus'.got = <<>>
    BY <1>1, <1>2, BusParts
  <2>2. device.ram \in Rams BY <1>2 DEF Devices, Rams
  <2> QED BY <1>3, <1>5, <2>1, <2>2 DEF Begins, Loose
<1>7. ~stuck' => Brings(chip', Bus', todo', Goal(aim), Refusals)
  BY <1>1, <1>4, <1>6
<1>8. Goal(request)' = Goal(aim) BY <1>1 DEF Goal
<1>9. chip' \in {"i2c", "tm1637"} /\ stuck' \in BOOLEAN BY <1>1 DEF WireInv
<1> QED BY <1>1, <1>3, <1>4, <1>7, <1>8, <1>9 DEF WireInv

LEMMA WireResetKeeps ==
  ASSUME WireInv, Reset
  PROVE  WireInv'
<1>1. stuck' = TRUE /\ reply' = "none" /\ input' = <<>> /\ todo' \in ReleaseWires
      /\ chip' = chip /\ scl' = scl /\ sda' = sda /\ hold' = hold /\ device' = device
  BY DEF Reset, wires
<1>2. Bus' \in Buses BY <1>1, BusParts DEF WireInv
<1>3. todo' \in Seq(Edges)
  <2>1. Sda(1) \o Scl(1) \in Seq(Edges) /\ Scl(1) \o Sda(1) \in Seq(Edges)
    BY LevelEdges
  <2>2. todo' = Sda(1) \o Scl(1) \/ todo' = Scl(1) \o Sda(1)
    BY <1>1 DEF ReleaseWires
  <2> QED BY <2>1, <2>2
<1> QED BY <1>1, <1>2, <1>3 DEF WireInv

LEMMA WireInitInv == ASSUME WireInit PROVE WireInv
<1>1. Bus \in Buses /\ todo \in Seq(Edges) /\ stuck \in BOOLEAN /\ chip \in {"i2c", "tm1637"}
      /\ reply = "none" /\ todo = <<>>
  <2>1. /\ chip \in {"i2c", "tm1637"} /\ scl = 1 /\ sda = 1 /\ hold = 1 /\ todo = <<>> /\ input = <<>>
        /\ reply = "none" /\ stuck = FALSE
        /\ device = [mode |-> "idle", bits |-> <<>>, frame |-> <<>>, sent |-> 0, ram |-> <<>>]
    BY DEF WireInit, Waiting
  <2>2. <<>> \in Seq(Bit) /\ <<>> \in Seq(WireByte) /\ 0 \in 0 .. 2 * ByteBits - 1 /\ <<>> \in Seq(Edges)
    BY DEF ByteBits
  <2>3. device \in Devices BY <2>1, <2>2 DEF Devices
  <2>4. Bus \in Buses BY <2>1, <2>2, <2>3, BusParts DEF Bit
  <2> QED BY <2>1, <2>2, <2>4
<1>2. request.op = "none" BY DEF WireInit, Asked
<1>3. Bus \in Goal(request)
  <2>1. Bus.scl = 1 /\ Bus.sda = 1 /\ Bus.hold = 1 /\ Bus.dev.mode = "idle"
    BY DEF WireInit, Bus, Waiting
  <2> QED BY <1>1, <1>2, <2>1 DEF Goal, Refusals
<1>4. Brings(chip, Bus, todo, Goal(request), Refusals)
  BY <1>1, <1>3, BringsNothing
<1> QED BY <1>1, <1>4 DEF WireInv

LEMMA WireKeeps == ASSUME WireInv, [WireNext]_wireVars PROVE WireInv'
<1>1. CASE SclStep
  <2>1. todo # <<>> /\ todo' = Tail(todo) /\ UNCHANGED <<chip, request, reply, stuck>>
    BY <1>1 DEF SclStep, StepDone
  <2> QED BY <1>1, <2>1, SclStepIsEdge, EdgeKeeps
<1>2. CASE SdaStep
  <2>1. todo # <<>> /\ todo' = Tail(todo) /\ UNCHANGED <<chip, request, reply, stuck>>
    BY <1>2 DEF SdaStep, StepDone
  <2> QED BY <1>2, <2>1, SdaStepIsEdge, EdgeKeeps
<1>3. CASE ReadStep
  <2>1. todo # <<>> /\ todo' = Tail(todo) /\ UNCHANGED <<chip, request, reply, stuck>>
    BY <1>3 DEF ReadStep, StepDone
  <2> QED BY <1>3, <2>1, ReadStepIsEdge, EdgeKeeps
<1>4. CASE AckStep BY <1>4, AckKeeps
<1>5. CASE I2cCall
  <2>1. chip = "i2c" BY <1>5 DEF I2cCall
  <2>2. CASE \E data \in Payloads : BusCall(Asked("write", data), i2c_write(data))
    <3>1. PICK data \in Payloads : BusCall(Asked("write", data), i2c_write(data))
      BY <2>2
    <3>2. Achieves("i2c", i2c_write(data), Asked("write", data))
      BY TwoWireAssumption, WriteAchieves DEF TwoWireAssumption
    <3> QED BY <2>1, <3>1, <3>2, BusCallKeeps
  <2>3. CASE \E len \in 1 .. 2 : BusCall(Asked("read", SubSeq(Source, 1, len)), i2c_read(len))
    <3>1. PICK len \in 1 .. 2 : BusCall(Asked("read", SubSeq(Source, 1, len)), i2c_read(len))
      BY <2>3
    <3>2. Achieves("i2c", i2c_read(len), Asked("read", SubSeq(Source, 1, len)))
      BY ReadAchieves
    <3> QED BY <2>1, <3>1, <3>2, BusCallKeeps
  <2>4. CASE BusCall(Asked("write", <<>>), i2c_probe)
    BY <2>1, <2>4, ProbeAchieves, BusCallKeeps
  <2> QED BY <1>5, <2>2, <2>3, <2>4 DEF I2cCall
<1>6. CASE TmCall
  <2>1. chip = "tm1637" BY <1>6 DEF TmCall
  <2>2. PICK data \in Payloads \ {<<>>}, lit \in Bit : BusCall(Asked("display", <<data, lit>>), tm1637_display_raw(data, lit))
    BY <1>6 DEF TmCall
  <2>3. Achieves("tm1637", tm1637_display_raw(data, lit), Asked("display", <<data, lit>>))
    BY TwoWireAssumption, DisplayAchieves DEF TwoWireAssumption
  <2> QED BY <2>1, <2>2, <2>3, BusCallKeeps
<1>7. CASE Reset BY <1>7, WireResetKeeps
<1>8. CASE UNCHANGED wireVars
  <2>1. UNCHANGED <<chip, scl, sda, hold, todo, request, input, reply, device, resets, stuck>>
    BY <1>8 DEF wireVars, wires
  <2>2. Bus' = Bus BY <2>1 DEF Bus
  <2>3. Goal(request)' = Goal(request) BY <2>1 DEF Goal
  <2> QED BY <2>1, <2>2, <2>3 DEF WireInv
<1> QED BY <1>1, <1>2, <1>3, <1>4, <1>5, <1>6, <1>7, <1>8 DEF WireNext

LEMMA WireCarried == ASSUME WireInv PROVE BusIsCarried
<1>1. ASSUME todo = <<>>, ~stuck PROVE Bus \in Refusals /\ (reply # "ERROR" => Bus \in Goal(request))
  <2>1. CASE reply = "ERROR"
    <3>1. Brings(chip, Bus, <<>>, Refusals, {}) BY <1>1, <2>1 DEF WireInv
    <3>2. Bus \in Refusals BY <3>1, BringsNow
    <3> QED BY <2>1, <3>2
  <2>2. CASE reply # "ERROR"
    <3>1. Brings(chip, Bus, <<>>, Goal(request), Refusals)
      BY <1>1, <2>2 DEF WireInv
    <3>2. Bus \in Goal(request) BY <3>1, BringsNow
    <3> QED BY <3>2 DEF Goal
  <2> QED BY <2>1, <2>2
<1>2. BusIsFree
  <2>1. ASSUME todo = <<>>, ~stuck PROVE device.mode = "idle" /\ scl = 1 /\ Level(sda, hold) = 1
    <3>1. Bus \in Refusals BY <1>1, <2>1
    <3>2. device.mode = "idle" /\ scl = 1 /\ sda = 1 /\ hold = 1
      BY <3>1, BusParts DEF Refusals
    <3> QED BY <3>2 DEF Level
  <2> QED BY <2>1 DEF BusIsFree, Returned
<1>3. OkIsCarried
  <2>1. ASSUME todo = <<>>, ~stuck, reply = "OK"
        PROVE  /\ request.op = "write" => device.frame = <<AddressByte(0)>> \o request.data
               /\ request.op = "read" => input = Flat(request.data)
               /\ request.op = "display" => device.frame = <<Display(request.data[2])>> /\ device.ram = request.data[1]
    <3>1. Bus \in Goal(request) BY <1>1, <2>1
    <3> QED BY <3>1, BusParts DEF Goal
  <2> QED BY <2>1 DEF OkIsCarried, Returned
<1> QED BY <1>2, <1>3 DEF BusIsCarried

\* A call that answers OK has carried every bit to the device or from it, and every call
\* that ends leaves the bus free, whichever byte was refused; unless a reset has left the
\* device pulling SDA.  Of the payloads nothing is assumed but that they are bytes.
THEOREM BusCarries == WireSpec => []BusIsCarried
<1>1. WireInit => WireInv BY WireInitInv
<1>2. WireInv /\ [WireNext]_wireVars => WireInv' BY WireKeeps
<1>3. WireInv => BusIsCarried BY WireCarried
<1> QED BY <1>1, <1>2, <1>3, PTL DEF WireSpec

\* The types of the wires: a device hears whole bytes, and sends what it has.
THEOREM WireTypeCorrect == WireSpec => []WireTypeOK
<1>1. WireInit => WireInv BY WireInitInv
<1>2. WireInv /\ [WireNext]_wireVars => WireInv' BY WireKeeps
<1>3. WireInv => WireTypeOK
  <2>1. ASSUME WireInv PROVE WireTypeOK
    <3>1. scl \in Bit /\ sda \in Bit /\ hold \in Bit /\ device \in Devices
      BY <2>1, BusParts DEF WireInv
    <3>2. reply \in {"none", "OK", "ERROR"} BY <2>1 DEF WireInv
    <3> QED BY <3>1, <3>2 DEF WireTypeOK, Devices
  <2> QED BY <2>1
<1> QED BY <1>1, <1>2, <1>3, PTL DEF WireSpec

=============================================================================
