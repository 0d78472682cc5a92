------------------------------ MODULE ByteQueue ------------------------------
(***************************************************************************)
(* What the receive buffer between an interrupt and the main loop promises:  *)
(* a bounded FIFO that refuses a byte only when it is full, and then says so.*)
(* The consumer looks at the oldest byte first and removes it afterwards;    *)
(* what it removes is what it saw.                                          *)
(***************************************************************************)
EXTENDS Naturals, Sequences

CONSTANTS Bytes, Capacity

VARIABLES
  queue,    \* bytes stored and not yet removed, oldest first
  seen,     \* the byte the consumer read last
  overflow  \* a byte was refused since the flag was last cleared

queueVars == <<queue, seen, overflow>>

Init == queue = <<>> /\ seen \in Bytes /\ overflow = FALSE

Store(b) ==
  /\ Len(queue) < Capacity
  /\ queue' = Append(queue, b)
  /\ UNCHANGED <<seen, overflow>>

RefuseByte ==
  /\ Len(queue) = Capacity
  /\ overflow' = TRUE
  /\ UNCHANGED <<queue, seen>>

Look ==
  /\ queue # <<>>
  /\ seen' = Head(queue)
  /\ UNCHANGED <<queue, overflow>>

Remove ==
  /\ queue # <<>> /\ seen = Head(queue)
  /\ queue' = Tail(queue)
  /\ UNCHANGED <<seen, overflow>>

ClearOverflow ==
  /\ overflow' = FALSE
  /\ UNCHANGED <<queue, seen>>

Next == (\E b \in Bytes : Store(b)) \/ RefuseByte \/ Look \/ Remove \/ ClearOverflow

Spec == Init /\ [][Next]_queueVars
=============================================================================
