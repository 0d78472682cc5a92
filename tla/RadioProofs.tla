----------------------------- MODULE RadioProofs -----------------------------
(***************************************************************************)
(* What the radio driver and the link above it promise, for all depths,     *)
(* retries, time limits and ticks, and for all channels, widths and powers of   *)
(* a setup: Nrf24, RfLink and Nrf24Setup.  They share no state.              *)
(***************************************************************************)
EXTENDS RfLink, Nrf24, Nrf24Setup, FiniteSetTheorems, SequenceTheorems, TLAPS

-----------------------------------------------------------------------------
(* The radios.  A program uses what it has read of the flags a while ago: the *)
(* invariant says what the FIFOs hold at each of its places, however the      *)
(* flags lag behind.  The sender's part speaks of the receiver's chip only    *)
(* by the packet it took last and the reply that went with it.               *)

\* The chip has the packet of the round or none.
OnePacket == ptxChip.tx = <<>> \/ (Len(ptxChip.tx) = 1 /\ Head(ptxChip.tx).n = ptx.n)

\* The packet was taken, and what came back is the reply that was attached to it.
ReplyIsIn ==
  ptxChip.tx = <<>> /\ prxChip.taken = ptx.n /\ ptxChip.rx = prxChip.reply

Polling ==
  ptx.pc = "poll" =>
    \/ /\ ptxChip.tx # <<>> /\ ptxChip.rx = <<>> /\ ~ptxChip.late
       /\ ptxChip.irq \subseteq {"MAX_RT"}
       /\ "MAX_RT" \notin ptxChip.irq => ptxChip.tries <= MaxRetries
    \/ /\ ReplyIsIn
       /\ "TX_DS" \in ptxChip.irq /\ "MAX_RT" \notin ptxChip.irq
       /\ "RX_DR" \in ptxChip.irq \/ ptxChip.late => ptxChip.rx # <<>>

Completing ==
  ptx.pc = "complete" =>
    IF "MAX_RT" \in ptx.stat THEN "MAX_RT" \in ptxChip.irq
    ELSE ReplyIsIn /\ ("RX_DR" \in ptx.stat => ptxChip.rx # <<>>)

Fetching ==
  /\ ptx.pc \in {"width", "read"} => ReplyIsIn /\ ptxChip.rx # <<>>
  /\ ptx.pc = "read" => Head(ptxChip.rx).fits

Told ==
  ptx.pc \in {"clear", "idle"} =>
    /\ ptxChip.tx = <<>>
    /\ ptx.result \in {"ACK_EMPTY", "INVALID", "ACK_OK"} => prxChip.taken = ptx.n
    /\ ptx.result = "ACK_OK" => prxChip.reply = <<[n |-> ptx.heard, fits |-> TRUE]>>
    /\ ptx.result = "ACK_EMPTY" => prxChip.reply = <<>>
    /\ ptx.result = "INVALID" => prxChip.reply # <<>> /\ ~prxChip.reply[1].fits

SenderInv ==
  /\ ptx \in PtxStates /\ ptxChip \in PtxChips
  /\ Len(ptxChip.tx) <= Depth /\ Len(ptxChip.rx) <= Depth
  /\ OnePacket /\ Polling /\ Completing /\ Fetching /\ Told

\* A flag tells of a packet, except while it is being cleared; what is fetched is there.
FlagsTell ==
  /\ prx.pc # "clear" /\ ("RX_DR" \in prxChip.irq \/ prxChip.late) => prxChip.rx # <<>>
  /\ prx.pc \in {"width", "read"} => prxChip.rx # <<>>
  /\ prx.pc \in {"width", "read", "clear"} => "RX_DR" \in prx.stat

ReceiverInv ==
  /\ prx \in PrxStates /\ prxChip \in PrxChips
  /\ Len(prxChip.rx) <= Depth /\ Len(prxChip.ack) <= Depth /\ Len(prxChip.reply) <= 1
  /\ FlagsTell
  /\ prx.pc = "ack" => Len(prxChip.ack) < Depth

RadioInv == SenderInv /\ ReceiverInv

USE RadioAssumption

LEMMA RadioInitInv == RadioInit => RadioInv
<1> SUFFICES ASSUME RadioInit PROVE RadioInv
  OBVIOUS
<1>1. <<>> \in Seq(Item) /\ Len(<<>>) = 0
  OBVIOUS
<1>2. SenderInv
  <2>1. ptx \in PtxStates
    BY DEF RadioInit, PtxStates, Flags
  <2>2. ptxChip \in PtxChips /\ Len(ptxChip.tx) <= Depth /\ Len(ptxChip.rx) <= Depth
    BY <1>1 DEF RadioInit, PtxChips, Flags
  <2> QED BY <2>1, <2>2 DEF RadioInit, SenderInv, OnePacket, Polling, Completing, Fetching, Told
<1>3. ReceiverInv
  BY <1>1 DEF RadioInit, ReceiverInv, PrxStates, PrxChips, Flags, FlagsTell
<1> QED BY <1>2, <1>3 DEF RadioInv

-----------------------------------------------------------------------------
(* The steps of the sending program. *)

LEMMA SendKeeps == ASSUME SenderInv, NEW fits \in BOOLEAN, SendPacket(fits) PROVE SenderInv'
<1>1. /\ ptx' = [ptx EXCEPT !.pc = "poll", !.n = @ + 1, !.stat = {}]
      /\ ptxChip' = [tx |-> <<[n |-> ptx.n + 1, fits |-> fits]>>, rx |-> <<>>, irq |-> {},
                     late |-> FALSE, tries |-> 0]
      /\ ptx.n < MaxPackets
  BY DEF SendPacket
<1>2. ptx' \in PtxStates /\ ptx'.pc = "poll" /\ ptx'.n = ptx.n + 1
  <2>1. ptx.n + 1 \in 0 .. MaxPackets /\ {} \in SUBSET Flags
    BY <1>1 DEF SenderInv, PtxStates
  <2> QED BY <1>1, <2>1 DEF SenderInv, PtxStates
<1>3. [n |-> ptx.n + 1, fits |-> fits] \in Item
  BY <1>1, <1>2 DEF Item, PtxStates
<1>4. ptxChip' \in PtxChips /\ Len(ptxChip'.tx) = 1 /\ Len(ptxChip'.rx) = 0
  BY <1>1, <1>3 DEF PtxChips, Flags
<1>5. Head(ptxChip'.tx).n = ptx'.n
  BY <1>1, <1>2
<1>6. Polling'
  BY <1>1 DEF Polling
<1> QED BY <1>2, <1>4, <1>5, <1>6 DEF SenderInv, OnePacket, Completing, Fetching, Told

LEMMA PollKeeps == ASSUME SenderInv, PollStatus PROVE SenderInv'
<1>1. /\ ptx' = [ptx EXCEPT !.pc = "complete", !.stat = ptxChip.irq] /\ ptxChip' = ptxChip
      /\ prxChip' = prxChip /\ ptx.pc = "poll"
      /\ ptxChip.irq \cap {"TX_DS", "MAX_RT"} # {}
  BY DEF PollStatus, PtxAt
<1>2. ptx' \in PtxStates /\ ptx'.pc = "complete" /\ ptx'.stat = ptxChip.irq /\ ptx'.n = ptx.n
  BY <1>1 DEF SenderInv, PtxStates, PtxChips
<1>3. Completing'
  BY <1>1, <1>2 DEF SenderInv, Polling, Completing, ReplyIsIn
<1> QED BY <1>1, <1>2, <1>3 DEF SenderInv, OnePacket, Polling, Fetching, Told

LEMMA TimeoutKeeps == ASSUME SenderInv, Timeout PROVE SenderInv'
<1>1. /\ ptx' = [ptx EXCEPT !.pc = "idle", !.result = "TIMEOUT"]
      /\ ptxChip' = [tx |-> <<>>, rx |-> <<>>, irq |-> {}, late |-> FALSE, tries |-> 0]
  BY DEF Timeout
<1>2. ptx' \in PtxStates /\ ptx'.pc = "idle" /\ ptx'.result = "TIMEOUT"
  BY <1>1 DEF SenderInv, PtxStates
<1>3. ptxChip' \in PtxChips /\ ptxChip'.tx = <<>> /\ Len(<<>>) = 0 /\ ptxChip'.rx = <<>>
  BY <1>1 DEF PtxChips, Flags
<1> QED BY <1>2, <1>3 DEF SenderInv, OnePacket, Polling, Completing, Fetching, Told

LEMMA CompleteKeeps == ASSUME SenderInv, CompleteMaxRt \/ CompleteDone PROVE SenderInv'
<1>1. CASE CompleteMaxRt
  <2>1. /\ ptx' = [ptx EXCEPT !.pc = "clear", !.stat = {"MAX_RT"}, !.result = "MAX_RT"]
        /\ ptxChip' = [ptxChip EXCEPT !.tx = <<>>]
    BY <1>1 DEF CompleteMaxRt
  <2>2. ptx' \in PtxStates /\ ptx'.pc = "clear" /\ ptx'.result = "MAX_RT"
    BY <2>1 DEF SenderInv, PtxStates, Flags
  <2>3. /\ ptxChip' \in PtxChips /\ ptxChip'.tx = <<>> /\ Len(<<>>) = 0
        /\ ptxChip'.rx = ptxChip.rx
    <3>1. <<>> \in Seq(Item) /\ Len(<<>>) = 0
      OBVIOUS
    <3> QED BY <2>1, <3>1 DEF SenderInv, PtxChips
  <2> QED BY <2>2, <2>3 DEF SenderInv, OnePacket, Polling, Completing, Fetching, Told
<1>2. CASE CompleteDone
  <2>1. /\ ptx.pc = "complete" /\ "MAX_RT" \notin ptx.stat
        /\ ptxChip' = ptxChip /\ prxChip' = prxChip
    BY <1>2 DEF CompleteDone, PtxAt
  <2>2. ReplyIsIn /\ ("RX_DR" \in ptx.stat => ptxChip.rx # <<>>)
    BY <2>1 DEF SenderInv, Completing
  <2>3. CASE "RX_DR" \in ptx.stat \/ ptxChip.rx # <<>>
    <3>1. ptx' = [ptx EXCEPT !.pc = "width"]
      BY <1>2, <2>3 DEF CompleteDone
    <3>2. ptx' \in PtxStates /\ ptx'.pc = "width" /\ ptx'.n = ptx.n
      BY <3>1 DEF SenderInv, PtxStates
    <3> QED BY <2>1, <2>2, <2>3, <3>2
            DEF SenderInv, OnePacket, Polling, Completing, Fetching, Told, ReplyIsIn
  <2>4. CASE ~("RX_DR" \in ptx.stat \/ ptxChip.rx # <<>>)
    <3>1. ptx' = [ptx EXCEPT !.pc = "clear", !.result = "ACK_EMPTY"]
      BY <1>2, <2>4 DEF CompleteDone
    <3>2. /\ ptx' \in PtxStates /\ ptx'.pc = "clear" /\ ptx'.n = ptx.n
          /\ ptx'.result = "ACK_EMPTY"
      BY <3>1 DEF SenderInv, PtxStates
    <3> QED BY <2>1, <2>2, <2>4, <3>2
            DEF SenderInv, OnePacket, Polling, Completing, Fetching, Told, ReplyIsIn
  <2> QED BY <2>3, <2>4
<1> QED BY <1>1, <1>2

LEMMA AckWidthKeeps == ASSUME SenderInv, AckWidth PROVE SenderInv'
<1>1. /\ ptx.pc = "width" /\ prxChip' = prxChip /\ ReplyIsIn /\ ptxChip.rx # <<>>
  BY DEF AckWidth, PtxAt, SenderInv, Fetching
<1>2. CASE Head(ptxChip.rx).fits
  <2>1. ptx' = [ptx EXCEPT !.pc = "read"] /\ ptxChip' = ptxChip
    BY <1>2 DEF AckWidth
  <2>2. ptx' \in PtxStates /\ ptx'.pc = "read" /\ ptx'.n = ptx.n
    BY <2>1 DEF SenderInv, PtxStates
  <2> QED BY <1>1, <1>2, <2>1, <2>2
          DEF SenderInv, OnePacket, Polling, Completing, Fetching, Told, ReplyIsIn
<1>3. CASE ~Head(ptxChip.rx).fits
  <2>1. /\ ptx' = [ptx EXCEPT !.pc = "clear", !.stat = @ \cup {"RX_DR"}, !.result = "INVALID"]
        /\ ptxChip' = [ptxChip EXCEPT !.rx = <<>>]
    BY <1>3 DEF AckWidth
  <2>2. /\ ptx' \in PtxStates /\ ptx'.pc = "clear" /\ ptx'.n = ptx.n /\ ptx'.result = "INVALID"
    BY <2>1 DEF SenderInv, PtxStates, Flags
  <2>3. /\ ptxChip' \in PtxChips /\ ptxChip'.tx = <<>> /\ Len(<<>>) = 0 /\ ptxChip'.rx = <<>>
    BY <1>1, <2>1 DEF SenderInv, PtxChips, ReplyIsIn
  <2>4. ~prxChip.reply[1].fits
    BY <1>1, <1>3 DEF ReplyIsIn, SenderInv, PtxChips
  <2> QED BY <1>1, <2>2, <2>3, <2>4
          DEF SenderInv, OnePacket, Polling, Completing, Fetching, Told, ReplyIsIn
<1> QED BY <1>2, <1>3

LEMMA AckReadKeeps == ASSUME RadioInv, AckRead PROVE SenderInv'
<1>1. /\ ptx.pc = "read" /\ prxChip' = prxChip /\ ReplyIsIn /\ ptxChip.rx # <<>>
      /\ Head(ptxChip.rx).fits
      /\ ptx' = [ptx EXCEPT !.pc = "clear", !.stat = @ \cup {"RX_DR"}, !.result = "ACK_OK",
                            !.heard = Head(ptxChip.rx).n]
      /\ ptxChip' = [ptxChip EXCEPT !.rx = Tail(@)]
  BY DEF AckRead, PtxAt, RadioInv, SenderInv, Fetching
<1>2. ptxChip.rx \in Seq(Item) /\ Len(ptxChip.rx) = 1 /\ ptxChip.rx = prxChip.reply
  <2>1. ptxChip.rx \in Seq(Item) /\ ptxChip.rx # <<>>
    BY <1>1 DEF RadioInv, SenderInv, PtxChips
  <2>2. ptxChip.rx = prxChip.reply /\ Len(ptxChip.rx) <= 1
    BY <1>1 DEF RadioInv, ReceiverInv, ReplyIsIn
  <2>3. Len(ptxChip.rx) \in Nat /\ Len(ptxChip.rx) # 0
    <3>1. \A t \in Seq(Item) : t # <<>> => Len(t) \in Nat /\ Len(t) # 0
      BY EmptySeq
    <3> QED BY <2>1, <3>1
  <2>4. \A k \in Nat : k # 0 /\ k <= 1 => k = 1
    OBVIOUS
  <2>5. Len(ptxChip.rx) = 1
    BY <2>2, <2>3, <2>4, Zenon
  <2> QED BY <2>1, <2>2, <2>5, Zenon
<1>3. Head(ptxChip.rx) = ptxChip.rx[1] /\ ptxChip.rx[1] \in Item
  BY <1>2
<1>4. ptx' \in PtxStates /\ ptx'.pc = "clear" /\ ptx'.n = ptx.n /\ ptx'.result = "ACK_OK"
      /\ ptx'.heard = ptxChip.rx[1].n
  BY <1>1, <1>3 DEF RadioInv, SenderInv, PtxStates, Flags, Item
<1>5. ptxChip.rx[1] = [n |-> ptxChip.rx[1].n, fits |-> TRUE]
  BY <1>1, <1>3 DEF Item
<1>6. prxChip.reply = <<[n |-> ptx'.heard, fits |-> TRUE]>>
  BY <1>2, <1>4, <1>5
<1>7. /\ ptxChip' \in PtxChips /\ ptxChip'.tx = <<>> /\ Len(<<>>) = 0 /\ Len(ptxChip'.rx) = 0
  <2>1. Tail(ptxChip.rx) \in Seq(Item) /\ Len(Tail(ptxChip.rx)) = 0
    BY <1>2, HeadTailProperties
  <2> QED BY <1>1, <2>1 DEF RadioInv, SenderInv, PtxChips, ReplyIsIn
<1> QED BY <1>1, <1>4, <1>6, <1>7
        DEF SenderInv, OnePacket, Polling, Completing, Fetching, Told, ReplyIsIn

LEMMA PtxClearKeeps == ASSUME SenderInv, PtxClear PROVE SenderInv'
<1>1. /\ ptx.pc = "clear" /\ prxChip' = prxChip
      /\ ptx' = [ptx EXCEPT !.pc = "idle"]
      /\ ptxChip' = [ptxChip EXCEPT !.irq = @ \ ptx.stat]
  BY DEF PtxClear, PtxAt
<1>2. /\ ptx' \in PtxStates /\ ptx'.pc = "idle" /\ ptx'.n = ptx.n /\ ptx'.result = ptx.result
      /\ ptx'.heard = ptx.heard
  BY <1>1 DEF SenderInv, PtxStates
<1>3. ptxChip' \in PtxChips /\ ptxChip'.tx = ptxChip.tx /\ ptxChip'.rx = ptxChip.rx
  BY <1>1 DEF SenderInv, PtxChips
<1> QED BY <1>1, <1>2, <1>3 DEF SenderInv, OnePacket, Polling, Completing, Fetching, Told

-----------------------------------------------------------------------------
(* The air. *)

\* An attempt is made while the sender polls, and nothing has come back for its packet.
LEMMA SendingIsPolling ==
  ASSUME SenderInv, Sending
  PROVE  /\ ptx.pc = "poll" /\ ptxChip.rx = <<>> /\ ~ptxChip.late /\ ptxChip.irq = {}
         /\ Len(ptxChip.tx) = 1 /\ Head(ptxChip.tx).n = ptx.n /\ Head(ptxChip.tx) \in Item
         /\ ptxChip.tries \in 0 .. MaxRetries
<1>1. ptxChip.tx # <<>> /\ "MAX_RT" \notin ptxChip.irq
  BY DEF Sending
<1>2. ptx.pc = "poll"
  BY <1>1 DEF SenderInv, Polling, Completing, Fetching, Told, PtxStates, ReplyIsIn
<1>3. /\ ptxChip.rx = <<>> /\ ~ptxChip.late /\ ptxChip.irq = {}
      /\ ptxChip.tries <= MaxRetries
  BY <1>1, <1>2 DEF SenderInv, Polling, ReplyIsIn
<1>4. Len(ptxChip.tx) = 1 /\ Head(ptxChip.tx).n = ptx.n /\ ptxChip.tx \in Seq(Item)
  BY <1>1 DEF SenderInv, OnePacket, PtxChips
<1> QED BY <1>2, <1>3, <1>4 DEF SenderInv, PtxChips

\* No answer: another attempt, or the last one was made.
LEMMA UnansweredKeeps ==
  ASSUME SenderInv, Sending, Unanswered, ptx' = ptx
  PROVE  SenderInv'
<1>1. /\ ptx.pc = "poll" /\ ptxChip.rx = <<>> /\ ~ptxChip.late /\ ptxChip.irq = {}
      /\ ptxChip.tx # <<>> /\ ptxChip.tries \in 0 .. MaxRetries
  BY SendingIsPolling DEF Sending
<1>2. /\ ptxChip' = [ptxChip EXCEPT !.tries = ptxChip.tries + 1,
                        !.irq = IF ptxChip.tries = MaxRetries THEN {"MAX_RT"} ELSE {}]
  BY <1>1 DEF Unanswered
<1>3. /\ ptxChip' \in PtxChips /\ ptxChip'.tx = ptxChip.tx /\ ptxChip'.rx = <<>>
      /\ ~ptxChip'.late /\ ptxChip'.tries = ptxChip.tries + 1
      /\ ptxChip'.irq = IF ptxChip.tries = MaxRetries THEN {"MAX_RT"} ELSE {}
  <2>1. ptxChip.tries + 1 \in 0 .. MaxRetries + 1
    BY <1>1
  <2>2. (IF ptxChip.tries = MaxRetries THEN {"MAX_RT"} ELSE {}) \in SUBSET Flags
    BY DEF Flags
  <2> QED BY <1>1, <1>2, <2>1, <2>2 DEF SenderInv, PtxChips
<1>4. Polling'
  BY <1>1, <1>3 DEF Polling
<1> QED BY <1>1, <1>3, <1>4 DEF SenderInv, OnePacket, Completing, Fetching, Told

\* The receiver's chip hears the packet: from now on it has taken it, and the reply is
\* one that the receiving program put there.
LEMMA HeardKeeps ==
  ASSUME RadioInv, Sending, CanHear, prxChip' = Heard, prx' = prx
  PROVE  /\ ReceiverInv' /\ prxChip'.taken = ptx.n
         /\ prxChip'.reply \in Seq(Item) /\ Len(prxChip'.reply) <= 1
<1> DEFINE p == Head(ptxChip.tx)
<1>1. p \in Item /\ p.n = ptx.n
  BY SendingIsPolling DEF RadioInv
<1>2. CASE p.n = prxChip.taken
  <2>1. prxChip' = prxChip
    BY <1>2 DEF Heard
  <2> QED BY <1>1, <1>2, <2>1 DEF RadioInv, ReceiverInv, FlagsTell, PrxChips
<1>3. CASE p.n # prxChip.taken
  <2> DEFINE got == IF prxChip.ack = <<>> THEN <<>> ELSE <<Head(prxChip.ack)>>
             rest == SubSeq(prxChip.ack, 2, Len(prxChip.ack))
  <2>1. /\ prxChip.rx \in Seq(Item) /\ prxChip.ack \in Seq(Item)
        /\ Len(prxChip.rx) < Depth /\ Len(prxChip.ack) <= Depth
    BY <1>3 DEF RadioInv, ReceiverInv, PrxChips, CanHear
  <2>2. prxChip' = [prxChip EXCEPT !.rx = Append(prxChip.rx, p), !.late = TRUE, !.taken = p.n,
                                   !.reply = got, !.ack = rest]
    BY <1>3 DEF Heard
  <2>3. got \in Seq(Item) /\ Len(got) <= 1
    <3>1. CASE prxChip.ack = <<>>
      BY <3>1
    <3>2. CASE prxChip.ack # <<>>
      <4>1. Head(prxChip.ack) \in Item
        BY <2>1, <3>2, HeadTailProperties
      <4> QED BY <3>2, <4>1
    <3> QED BY <3>1, <3>2
  <2>4. rest \in Seq(Item) /\ Len(rest) <= Len(prxChip.ack)
    <3>1. CASE prxChip.ack = <<>>
      <4>1. Len(prxChip.ack) = 0
        BY <3>1
      <4> QED BY <4>1, SubSeqEmpty
    <3>2. CASE prxChip.ack # <<>>
      <4>1. rest = Tail(prxChip.ack)
        BY <2>1, <3>2, TailIsSubSeq
      <4> QED BY <2>1, <3>2, <4>1, HeadTailProperties
    <3> QED BY <3>1, <3>2
  <2>5. /\ Append(prxChip.rx, p) \in Seq(Item) /\ Append(prxChip.rx, p) # <<>>
        /\ Len(Append(prxChip.rx, p)) = Len(prxChip.rx) + 1
    BY <1>1, <2>1, AppendProperties
  <2> HIDE DEF got, rest
  <2>6. p.n \in 0 .. MaxPackets
    BY <1>1 DEF Item
  <2> HIDE DEF p
  <2>7. /\ prxChip' \in PrxChips /\ prxChip'.rx = Append(prxChip.rx, p) /\ prxChip'.taken = p.n
        /\ prxChip'.reply = got /\ prxChip'.ack = rest /\ prxChip'.irq = prxChip.irq
    BY <2>2, <2>3, <2>4, <2>5, <2>6 DEF RadioInv, ReceiverInv, PrxChips
  <2>8. Len(prxChip'.rx) <= Depth /\ Len(prxChip'.ack) <= Depth
        /\ (prx.pc = "ack" => Len(prxChip'.ack) < Depth)
    <3>1. Len(prxChip.rx) \in Nat /\ Len(prxChip.ack) \in Nat /\ Len(rest) \in Nat
      BY <2>1, <2>4
    <3> QED BY <2>1, <2>4, <2>5, <2>7, <3>1 DEF RadioInv, ReceiverInv
  <2>9. FlagsTell'
    BY <2>5, <2>7 DEF RadioInv, ReceiverInv, FlagsTell
  <2> QED BY <1>1, <2>3, <2>7, <2>8, <2>9 DEF RadioInv, ReceiverInv
<1> QED BY <1>2, <1>3

LEMMA AirKeeps == ASSUME RadioInv, PacketLost \/ AckLost \/ Acknowledged PROVE RadioInv'
<1>1. CASE PacketLost
  <2>1. SenderInv'
    BY <1>1, UnansweredKeeps DEF PacketLost, RadioInv
  <2>2. ReceiverInv'
    BY <1>1 DEF PacketLost, RadioInv, ReceiverInv, FlagsTell
  <2> QED BY <2>1, <2>2 DEF RadioInv
<1>2. CASE AckLost
  <2>1. SenderInv'
    BY <1>2, UnansweredKeeps DEF AckLost, RadioInv
  <2>2. ReceiverInv'
    BY <1>2, HeardKeeps DEF AckLost
  <2> QED BY <2>1, <2>2 DEF RadioInv
<1>3. CASE Acknowledged
  <2>1. /\ ptx.pc = "poll" /\ ptxChip.rx = <<>> /\ ~ptxChip.late /\ ptxChip.irq = {}
        /\ Len(ptxChip.tx) = 1 /\ ptxChip.tx \in Seq(Item)
    BY <1>3, SendingIsPolling DEF Acknowledged, RadioInv, SenderInv, PtxChips
  <2>2. /\ ReceiverInv' /\ prxChip'.taken = ptx.n
        /\ prxChip'.reply \in Seq(Item) /\ Len(prxChip'.reply) <= 1
    BY <1>3, HeardKeeps DEF Acknowledged
  <2>3. ptx' = ptx /\ prxChip' = Heard
    BY <1>3 DEF Acknowledged
  <2>4. Tail(ptxChip.tx) = <<>> /\ <<>> \in Seq(Item)
    <3>1. Tail(ptxChip.tx) \in Seq(Item) /\ Len(Tail(ptxChip.tx)) = 0
      BY <2>1, HeadTailProperties
    <3> QED BY <3>1, EmptySeq
  <2>5. <<>> \o prxChip'.reply = prxChip'.reply
    BY <2>2, ConcatEmptySeq
  <2>6. ptxChip' = [ptxChip EXCEPT !.tx = <<>>, !.irq = {"TX_DS"}, !.rx = prxChip'.reply,
                                   !.late = prxChip'.reply # <<>>]
    BY <1>3, <2>1, <2>3, <2>4, <2>5 DEF Acknowledged
  <2>7. (prxChip'.reply # <<>>) \in BOOLEAN /\ {"TX_DS"} \in SUBSET Flags
    BY DEF Flags
  <2>8. /\ ptxChip' \in PtxChips /\ ptxChip'.tx = <<>> /\ ptxChip'.irq = {"TX_DS"}
        /\ ptxChip'.rx = prxChip'.reply /\ ptxChip'.late = (prxChip'.reply # <<>>)
    BY <2>2, <2>4, <2>6, <2>7 DEF RadioInv, SenderInv, PtxChips
  <2>9. Polling'
    BY <2>1, <2>2, <2>3, <2>8 DEF Polling, ReplyIsIn
  <2>10. Len(ptxChip'.tx) <= Depth /\ Len(ptxChip'.rx) <= Depth
    <3>1. Len(<<>>) = 0 /\ Len(prxChip'.reply) \in Nat
      BY <2>2
    <3> QED BY <2>2, <2>8, <3>1
  <2>11. SenderInv'
    BY <2>1, <2>3, <2>8, <2>9, <2>10
       DEF RadioInv, SenderInv, OnePacket, Completing, Fetching, Told
  <2> QED BY <2>2, <2>11 DEF RadioInv
<1> QED BY <1>1, <1>2, <1>3

LEMMA RaiseKeeps == ASSUME RadioInv, RaisePtx \/ RaisePrx PROVE RadioInv'
<1>1. CASE RaisePtx
  <2>1. /\ ptxChip.late /\ ptx' = ptx /\ prx' = prx /\ prxChip' = prxChip
        /\ ptxChip' = [ptxChip EXCEPT !.late = FALSE, !.irq = @ \cup {"RX_DR"}]
    BY <1>1 DEF RaisePtx
  <2>2. /\ ptxChip' \in PtxChips /\ ptxChip'.tx = ptxChip.tx /\ ptxChip'.rx = ptxChip.rx
        /\ ptxChip'.irq = ptxChip.irq \cup {"RX_DR"} /\ ~ptxChip'.late
        /\ ptxChip'.tries = ptxChip.tries
    BY <2>1 DEF RadioInv, SenderInv, PtxChips, Flags
  <2>3. Polling' /\ Completing' /\ Fetching' /\ Told' /\ OnePacket'
    BY <2>1, <2>2
       DEF RadioInv, SenderInv, OnePacket, Polling, Completing, Fetching, Told, ReplyIsIn
  <2>4. ReceiverInv'
    BY <2>1 DEF RadioInv, ReceiverInv, FlagsTell
  <2> QED BY <2>1, <2>2, <2>3, <2>4 DEF RadioInv, SenderInv
<1>2. CASE RaisePrx
  <2>1. /\ prxChip.late /\ ptx' = ptx /\ prx' = prx /\ ptxChip' = ptxChip
        /\ prxChip' = [prxChip EXCEPT !.late = FALSE, !.irq = @ \cup {"RX_DR"}]
    BY <1>2 DEF RaisePrx
  <2>2. /\ prxChip' \in PrxChips /\ prxChip'.rx = prxChip.rx /\ prxChip'.ack = prxChip.ack
        /\ prxChip'.taken = prxChip.taken /\ prxChip'.reply = prxChip.reply
        /\ ~prxChip'.late
    BY <2>1 DEF RadioInv, ReceiverInv, PrxChips, Flags
  <2>3. SenderInv'
    BY <2>1, <2>2
       DEF RadioInv, SenderInv, OnePacket, Polling, Completing, Fetching, Told, ReplyIsIn
  <2>4. FlagsTell'
    BY <2>1, <2>2 DEF RadioInv, ReceiverInv, FlagsTell
  <2> QED BY <2>1, <2>2, <2>3, <2>4 DEF RadioInv, ReceiverInv
<1> QED BY <1>1, <1>2

-----------------------------------------------------------------------------
(* The steps of the receiving program, which the sender's part does not see.   *)

LEMMA UnseenBySender ==
  ASSUME SenderInv, UNCHANGED <<ptx, ptxChip>>,
         prxChip'.taken = prxChip.taken, prxChip'.reply = prxChip.reply
  PROVE  SenderInv'
  BY DEF SenderInv, OnePacket, Polling, Completing, Fetching, Told, ReplyIsIn

LEMMA ReceiverKeeps ==
  ASSUME RadioInv, PrxStep \/ Recover
  PROVE  /\ ReceiverInv'
         /\ UNCHANGED <<ptx, ptxChip>>
         /\ prxChip'.taken = prxChip.taken /\ prxChip'.reply = prxChip.reply
<1>1. /\ prx \in PrxStates /\ prxChip \in PrxChips /\ FlagsTell
      /\ prxChip.rx \in Seq(Item) /\ Len(prxChip.rx) <= Depth
      /\ prxChip.ack \in Seq(Item) /\ Len(prxChip.ack) <= Depth /\ Len(prxChip.reply) <= 1
      /\ prx.pc = "ack" => Len(prxChip.ack) < Depth
      /\ <<>> \in Seq(Item) /\ Len(<<>>) = 0
  BY DEF RadioInv, ReceiverInv, PrxChips
<1>2. CASE ReadStatus
  <2>1. /\ prxChip' = prxChip /\ UNCHANGED <<ptx, ptxChip>> /\ prx.pc = "status"
        /\ prx' = [prx EXCEPT !.pc = IF "RX_DR" \in prxChip.irq THEN "width" ELSE "fifo",
                              !.stat = prxChip.irq, !.ok = FALSE]
    BY <1>2 DEF ReadStatus, PrxAt
  <2>2. /\ prx' \in PrxStates /\ prx'.stat = prxChip.irq
        /\ prx'.pc = IF "RX_DR" \in prxChip.irq THEN "width" ELSE "fifo"
    BY <1>1, <2>1 DEF PrxStates, PrxChips
  <2> QED BY <1>1, <2>1, <2>2 DEF ReceiverInv, FlagsTell
<1>3. CASE ReadFifoStatus
  <2>1. /\ prxChip' = prxChip /\ UNCHANGED <<ptx, ptxChip>> /\ prx.pc = "fifo"
    BY <1>3 DEF ReadFifoStatus, PrxAt
  <2>2. CASE prxChip.rx = <<>>
    <3>1. prx' = [prx EXCEPT !.pc = "status"]
      BY <1>3, <2>2 DEF ReadFifoStatus
    <3>2. prx' \in PrxStates /\ prx'.pc = "status"
      BY <1>1, <3>1 DEF PrxStates
    <3> QED BY <1>1, <2>1, <3>2 DEF ReceiverInv, FlagsTell
  <2>3. CASE prxChip.rx # <<>>
    <3>1. prx' = [prx EXCEPT !.pc = "width", !.stat = @ \cup {"RX_DR"}]
      BY <1>3, <2>3 DEF ReadFifoStatus
    <3>2. prx' \in PrxStates /\ prx'.pc = "width" /\ "RX_DR" \in prx'.stat
      BY <1>1, <3>1 DEF PrxStates, Flags
    <3> QED BY <1>1, <2>1, <2>3, <3>2 DEF ReceiverInv, FlagsTell
  <2> QED BY <2>2, <2>3
<1>4. CASE PacketWidth
  <2>1. /\ UNCHANGED <<ptx, ptxChip>> /\ prx.pc = "width" /\ prxChip.rx # <<>>
        /\ "RX_DR" \in prx.stat
    BY <1>1, <1>4 DEF PacketWidth, PrxAt, FlagsTell
  <2>2. CASE Head(prxChip.rx).fits
    <3>1. Go("read") /\ prxChip' = prxChip
      BY <1>4, <2>2 DEF PacketWidth
    <3>2. prx' \in PrxStates /\ prx'.stat = prx.stat /\ prx'.pc = "read"
      BY <1>1, <3>1 DEF Go, PrxStates
    <3> QED BY <1>1, <2>1, <3>1, <3>2 DEF ReceiverInv, FlagsTell
  <2>3. CASE ~Head(prxChip.rx).fits
    <3>1. Go("clear") /\ prxChip' = [prxChip EXCEPT !.rx = <<>>]
      BY <1>4, <2>3 DEF PacketWidth
    <3>2. prx' \in PrxStates /\ prx'.stat = prx.stat /\ prx'.pc = "clear"
      BY <1>1, <3>1 DEF Go, PrxStates
    <3>3. /\ prxChip' \in PrxChips /\ prxChip'.rx = <<>> /\ prxChip'.ack = prxChip.ack
          /\ prxChip'.taken = prxChip.taken /\ prxChip'.reply = prxChip.reply
      BY <1>1, <3>1 DEF PrxChips
    <3> QED BY <1>1, <2>1, <3>2, <3>3 DEF ReceiverInv, FlagsTell
  <2> QED BY <2>2, <2>3
<1>5. CASE PacketRead
  <2>1. /\ UNCHANGED <<ptx, ptxChip>> /\ prxChip.rx # <<>> /\ "RX_DR" \in prx.stat
        /\ prx' = [prx EXCEPT !.pc = "clear", !.n = Head(prxChip.rx).n, !.ok = TRUE]
        /\ prxChip' = [prxChip EXCEPT !.rx = Tail(@)]
    BY <1>1, <1>5 DEF PacketRead, PrxAt, FlagsTell
  <2>2. /\ Head(prxChip.rx) \in Item /\ Tail(prxChip.rx) \in Seq(Item)
        /\ Len(Tail(prxChip.rx)) = Len(prxChip.rx) - 1 /\ Len(prxChip.rx) \in Nat
    BY <1>1, <2>1, HeadTailProperties
  <2>3. prx' \in PrxStates /\ prx'.stat = prx.stat /\ prx'.pc = "clear"
    BY <1>1, <2>1, <2>2 DEF PrxStates, Item
  <2>4. /\ prxChip' \in PrxChips /\ prxChip'.rx = Tail(prxChip.rx) /\ prxChip'.ack = prxChip.ack
        /\ prxChip'.taken = prxChip.taken /\ prxChip'.reply = prxChip.reply
    BY <1>1, <2>1, <2>2 DEF PrxChips
  <2>5. Len(prxChip'.rx) <= Depth
    BY <1>1, <2>2, <2>4
  <2> QED BY <1>1, <2>1, <2>3, <2>4, <2>5 DEF ReceiverInv, FlagsTell
<1>6. CASE PrxClear
  <2>1. /\ UNCHANGED <<ptx, ptxChip>> /\ ~prxChip.late /\ "RX_DR" \in prx.stat
        /\ Go(IF prx.ok THEN "full" ELSE "status")
        /\ prxChip' = [prxChip EXCEPT !.irq = @ \ prx.stat]
    BY <1>1, <1>6 DEF PrxClear, PrxAt, FlagsTell
  <2>2. prx' \in PrxStates /\ prx'.pc \in {"full", "status"}
    BY <1>1, <2>1 DEF Go, PrxStates
  <2>3. /\ prxChip' \in PrxChips /\ prxChip'.rx = prxChip.rx /\ prxChip'.ack = prxChip.ack
        /\ "RX_DR" \notin prxChip'.irq /\ ~prxChip'.late
        /\ prxChip'.taken = prxChip.taken /\ prxChip'.reply = prxChip.reply
    BY <1>1, <2>1 DEF PrxChips
  <2> QED BY <1>1, <2>1, <2>2, <2>3 DEF ReceiverInv, FlagsTell
<1>7. CASE PreloadCheck
  <2>1. /\ UNCHANGED <<ptx, ptxChip>> /\ prxChip' = prxChip /\ prx.pc = "full"
        /\ Go(IF Len(prxChip.ack) = Depth THEN "status" ELSE "ack")
    BY <1>7 DEF PreloadCheck, PrxAt
  <2>2. /\ prx' \in PrxStates
        /\ prx'.pc = IF Len(prxChip.ack) = Depth THEN "status" ELSE "ack"
    BY <1>1, <2>1 DEF Go, PrxStates
  <2>3. Len(prxChip.ack) \in Nat
    BY <1>1
  <2> QED BY <1>1, <2>1, <2>2, <2>3 DEF ReceiverInv, FlagsTell
<1>8. CASE PreloadFlush
  <2>1. /\ UNCHANGED <<ptx, ptxChip>> /\ prx.pc = "start" /\ Go("ack")
        /\ prxChip' = [prxChip EXCEPT !.ack = <<>>]
    BY <1>8 DEF PreloadFlush, PrxAt
  <2>2. prx' \in PrxStates /\ prx'.pc = "ack"
    BY <1>1, <2>1 DEF Go, PrxStates
  <2>3. /\ prxChip' \in PrxChips /\ prxChip'.rx = prxChip.rx /\ prxChip'.ack = <<>>
        /\ prxChip'.irq = prxChip.irq /\ prxChip'.late = prxChip.late
        /\ prxChip'.taken = prxChip.taken /\ prxChip'.reply = prxChip.reply
    BY <1>1, <2>1 DEF PrxChips
  <2> QED BY <1>1, <2>1, <2>2, <2>3 DEF ReceiverInv, FlagsTell
<1>9. ASSUME NEW fits \in BOOLEAN, PreloadWrite(fits)
      PROVE  /\ ReceiverInv'
             /\ UNCHANGED <<ptx, ptxChip>>
             /\ prxChip'.taken = prxChip.taken /\ prxChip'.reply = prxChip.reply
  <2> DEFINE reply == [n |-> prx.n, fits |-> fits]
  <2>1. /\ UNCHANGED <<ptx, ptxChip>> /\ prx.pc = "ack" /\ Go("status")
        /\ prxChip' = [prxChip EXCEPT !.ack = Append(@, reply)]
    BY <1>9 DEF PreloadWrite, PrxAt
  <2>2. prx' \in PrxStates /\ prx'.pc = "status"
    BY <1>1, <2>1 DEF Go, PrxStates
  <2>3. reply \in Item
    BY <1>1 DEF Item, PrxStates
  <2>4. /\ Append(prxChip.ack, reply) \in Seq(Item) /\ Len(prxChip.ack) \in Nat
        /\ Len(Append(prxChip.ack, reply)) = Len(prxChip.ack) + 1
    BY <1>1, <2>3, AppendProperties
  <2> HIDE DEF reply
  <2>5. /\ prxChip' \in PrxChips /\ prxChip'.rx = prxChip.rx
        /\ prxChip'.ack = Append(prxChip.ack, reply)
        /\ prxChip'.irq = prxChip.irq /\ prxChip'.late = prxChip.late
        /\ prxChip'.taken = prxChip.taken /\ prxChip'.reply = prxChip.reply
    BY <1>1, <2>1, <2>4 DEF PrxChips
  <2>6. Len(prxChip'.ack) <= Depth
    BY <1>1, <2>1, <2>4, <2>5
  <2> QED BY <1>1, <2>1, <2>2, <2>5, <2>6 DEF ReceiverInv, FlagsTell
<1>10. CASE Recover
  <2>1. /\ UNCHANGED <<ptx, ptxChip>> /\ ~prxChip.late /\ Go("start")
        /\ prxChip' = [prxChip EXCEPT !.rx = <<>>, !.ack = <<>>, !.irq = {}]
    BY <1>10 DEF Recover
  <2>2. prx' \in PrxStates /\ prx'.pc = "start"
    BY <1>1, <2>1 DEF Go, PrxStates
  <2>3. /\ prxChip' \in PrxChips /\ prxChip'.rx = <<>> /\ prxChip'.ack = <<>>
        /\ prxChip'.irq = {} /\ ~prxChip'.late
        /\ prxChip'.taken = prxChip.taken /\ prxChip'.reply = prxChip.reply
    BY <1>1, <2>1 DEF PrxChips, Flags
  <2> QED BY <1>1, <2>1, <2>2, <2>3 DEF ReceiverInv, FlagsTell
<1> QED BY <1>2, <1>3, <1>4, <1>5, <1>6, <1>7, <1>8, <1>9, <1>10 DEF PrxStep

LEMMA RadioNextInv == RadioInv /\ [RadioNext]_radioVars => RadioInv'
<1> SUFFICES ASSUME RadioInv, [RadioNext]_radioVars PROVE RadioInv'
  OBVIOUS
<1>1. CASE UNCHANGED radioVars
  BY <1>1 DEF radioVars, RadioInv, SenderInv, OnePacket, Polling, Completing, Fetching, Told,
              ReplyIsIn, ReceiverInv, FlagsTell
<1>2. CASE Ptx
  <2>1. prx' = prx /\ prxChip' = prxChip
    BY <1>2 DEF Ptx, PtxAt, SendPacket, PollStatus, Timeout, CompleteMaxRt, CompleteDone,
                AckWidth, AckRead, PtxClear
  <2>2. ReceiverInv'
    BY <2>1 DEF RadioInv, ReceiverInv, FlagsTell
  <2>3. SenderInv'
    BY <1>2, SendKeeps, PollKeeps, TimeoutKeeps, CompleteKeeps, AckWidthKeeps, AckReadKeeps,
       PtxClearKeeps DEF Ptx, RadioInv
  <2> QED BY <2>2, <2>3 DEF RadioInv
<1>3. CASE PrxStep \/ Recover
  BY <1>3, ReceiverKeeps, UnseenBySender DEF RadioInv
<1>4. CASE Air
  BY <1>4, AirKeeps, RaiseKeeps DEF Air
<1> QED BY <1>1, <1>2, <1>3, <1>4 DEF RadioNext

\* FIFOs and flags keep their types; no FIFO takes more than it holds.
THEOREM RadioTypeCorrect == RadioSpec => []RadioTypeOK
<1>1. RadioInv => RadioTypeOK
  BY DEF RadioInv, SenderInv, ReceiverInv, RadioTypeOK
<1> QED BY <1>1, RadioInitInv, RadioNextInv, PTL DEF RadioSpec

\* For every depth, number of retries and of packets: the driver reads a FIFO only when a
\* packet is there, and what it reports of a round is so (drv_nrf24l01.c:684-750).
THEOREM RadioReportsAreTrue == RadioSpec => []ReportsAreTrue
<1>1. RadioInv => ReportsAreTrue
  BY DEF RadioInv, SenderInv, ReceiverInv, Fetching, Told, FlagsTell,
         ReportsAreTrue, ReadsFindAPacket, DoneMeansTaken, AckReportIsTrue
<1> QED BY <1>1, RadioInitInv, RadioNextInv, PTL DEF RadioSpec

-----------------------------------------------------------------------------
(* The link.  timeout_ms stands still while a node is connecting, so that     *)
(* only of a connected node it can be said that timeout_ms is the silence    *)
(* since it heard its peer.                                                 *)

\* While a node is connected timeout_ms is the time ticked since the last packet.
TimeoutIsSilence ==
  \A n \in Nodes : link[n].state = "CONNECTED" =>
    link[n].timeout = silence[n] /\ silence[n] < LostTimeout

IInv == LinkTypeOK /\ IsFiniteSet(air) /\ TimeoutIsSilence

Links == [state : {"IDLE", "CONNECTING", "CONNECTED", "LOST"}, seq_tx : 0 .. SeqMod - 1,
          ack_pending : BOOLEAN, timeout : 0 .. TimeMod - 1]

USE LinkAssumption

\* The sequence number and the time stay in their bytes.
LEMMA ModRange == ASSUME NEW k \in Nat, NEW m \in Nat \ {0} PROVE k % m \in 0 .. m - 1
  OBVIOUS

LEMMA ModSmall == ASSUME NEW m \in Nat, NEW k \in 0 .. m - 1 PROVE k % m = k
  OBVIOUS

\* The set of packets may become smaller.
LEMMA SmallerAir ==
  ASSUME air \subseteq Packet, Cardinality(air) <= MaxAir, IsFiniteSet(air),
         NEW less \in SUBSET air
  PROVE  less \subseteq Packet /\ Cardinality(less) <= MaxAir /\ IsFiniteSet(less)
  BY FS_Subset, FS_CardinalityType

\* The link of one node becomes another one.
LEMMA OneLink ==
  ASSUME IInv, NEW n \in Nodes, NEW new, new \in Links, link' = [link EXCEPT ![n] = new]
  PROVE  link' \in [Nodes -> Links]
  BY DEF IInv, LinkTypeOK, Links

LEMMA InitInvariant == LinkInit => IInv
  <1> SUFFICES ASSUME LinkInit PROVE IInv
    OBVIOUS
  <1>1. IsFiniteSet(air) /\ Cardinality(air) = 0
    BY FS_EmptySet DEF LinkInit
  <1>2. QED
    BY <1>1 DEF LinkInit, IdleLink, IInv, LinkTypeOK, TimeoutIsSilence

-----------------------------------------------------------------------------
(* One lemma for each kind of step. *)

LEMMA ResetStep == ASSUME IInv, NEW n \in Nodes, Reset(n) PROVE IInv'
  BY DEF Reset, IdleLink, IInv, LinkTypeOK, TimeoutIsSilence

LEMMA SendStep == ASSUME IInv, NEW n \in Nodes, NEW type \in Types, Send(n, type) PROVE IInv'
  <1> DEFINE p == [src |-> n, type |-> type, seq |-> link[n].seq_tx]
  <1>1. link[n] \in Links /\ n \in Nodes
    BY DEF Links, IInv, LinkTypeOK
  <1>2. NextTx(n) \in 0 .. SeqMod - 1
    <2>1. link[n].seq_tx + 1 \in Nat
      BY <1>1 DEF Links
    <2>2. QED
      BY <2>1, ModRange DEF NextTx
  <1>3. air' \subseteq Packet /\ IsFiniteSet(air') /\ Cardinality(air') <= MaxAir
    <2>1. p \in Packet /\ air' = air \cup {p}
      BY <1>1 DEF Send, Packet, Links
    <2>2. IsFiniteSet(air) /\ air \subseteq Packet /\ Cardinality(air) < MaxAir
      BY DEF Send, IInv, LinkTypeOK
    <2>3. /\ IsFiniteSet(air')
          /\ Cardinality(air') = IF p \in air THEN Cardinality(air) ELSE Cardinality(air) + 1
      BY <2>1, <2>2, FS_AddElement
    <2>4. Cardinality(air) \in Nat
      BY <2>2, FS_CardinalityType
    <2>5. QED
      BY <2>1, <2>2, <2>3, <2>4
  <1>4. link' \in [Nodes -> Links]
    <2> DEFINE new == [link[n] EXCEPT !.seq_tx = NextTx(n),
                                      !.state = IF type = "HELLO" THEN "CONNECTING" ELSE @,
                                      !.ack_pending = @ \/ type \in Required]
    <2>1. new \in Links
      BY <1>1, <1>2 DEF Links
    <2>2. link' = [link EXCEPT ![n] = new]
      BY DEF Send, IInv, LinkTypeOK
    <2>3. QED
      BY <2>1, <2>2, OneLink
  <1>5. \A m \in Nodes : link'[m].timeout = link[m].timeout
                         /\ (link'[m].state = "CONNECTED" => link[m].state = "CONNECTED")
    BY DEF Send, IInv, LinkTypeOK
  <1>6. QED
    BY <1>3, <1>4, <1>5 DEF Send, Links, IInv, LinkTypeOK, TimeoutIsSilence

LEMMA PollStep == ASSUME IInv, NEW n \in Nodes, NEW p \in air, PollPacket(n, p) PROVE IInv'
  <1>1. air' \subseteq Packet /\ IsFiniteSet(air') /\ Cardinality(air') <= MaxAir
    BY SmallerAir DEF PollPacket, IInv, LinkTypeOK
  <1>2. link' \in [Nodes -> Links]
    <2> DEFINE new == [link[n] EXCEPT !.ack_pending = FALSE, !.timeout = 0,
                                      !.state = "CONNECTED"]
    <2>1. new \in Links
      <3>1. link[n] \in Links /\ 0 \in 0 .. TimeMod - 1
        BY DEF Links, IInv, LinkTypeOK
      <3>2. QED
        BY <3>1 DEF Links
    <2>2. link' = [link EXCEPT ![n] = new]
      BY DEF PollPacket, Accept, IInv, LinkTypeOK
    <2>3. QED
      BY <2>1, <2>2, OneLink
  <1>3. QED
    BY <1>1, <1>2 DEF PollPacket, Accept, Links, IInv, LinkTypeOK, TimeoutIsSilence

\* The sum of tick does not wrap on a connected node: the time is below the limit.
LEMMA TickSum ==
  ASSUME IInv, NEW n \in Nodes, link[n].state = "CONNECTED", NEW e \in Elapsed
  PROVE  (link[n].timeout + e) % TimeMod = silence[n] + e
  <1>1. link[n].timeout = silence[n] /\ silence[n] \in 0 .. LostTimeout - 1
    BY DEF IInv, LinkTypeOK, TimeoutIsSilence
  <1>2. silence[n] + e \in 0 .. TimeMod - 1
    BY <1>1
  <1>3. QED
    BY <1>1, <1>2, ModSmall

LEMMA TickStep == ASSUME IInv, NEW n \in Nodes, NEW e \in Elapsed, Tick(n, e) PROVE IInv'
  <1>1. (link[n].timeout + e) % TimeMod = silence[n] + e
    BY TickSum DEF Tick
  <1>2. silence[n] + e \in 0 .. TimeMod - 1
    <2>1. link[n].timeout + e \in Nat
      BY DEF IInv, LinkTypeOK
    <2>2. QED
      BY <1>1, <2>1, ModRange
  <1>3. link' \in [Nodes -> Links]
    <2> DEFINE new == [link[n] EXCEPT !.timeout = (@ + e) % TimeMod,
                                      !.state = IF Expired(n, e) THEN "LOST" ELSE @]
    <2>1. new \in Links
      BY <1>1, <1>2 DEF Links, IInv, LinkTypeOK
    <2>2. link' = [link EXCEPT ![n] = new]
      BY DEF Tick, IInv, LinkTypeOK
    <2>3. QED
      BY <2>1, <2>2, OneLink
  <1>4. silence' \in [Nodes -> 0 .. LostTimeout]
    BY DEF Tick, IInv, LinkTypeOK
  <1>5. TimeoutIsSilence'
    BY <1>1, <1>2 DEF Tick, Expired, IInv, LinkTypeOK, TimeoutIsSilence
  <1>6. QED
    BY <1>3, <1>4, <1>5 DEF Tick, Links, IInv, LinkTypeOK

\* The air, or the nodes that are alive, change and nothing else.
LEMMA AirStep ==
  ASSUME IInv, NEW n \in Nodes, Die(n) \/ \E p \in air : PollOtherThanData(n, p) \/ Lose(p)
  PROVE  IInv'
  <1>1. air' \subseteq Packet /\ IsFiniteSet(air') /\ Cardinality(air') <= MaxAir
    BY SmallerAir DEF Die, PollOtherThanData, Lose, IInv, LinkTypeOK
  <1>2. QED
    BY <1>1 DEF Die, PollOtherThanData, Lose, IInv, LinkTypeOK, TimeoutIsSilence

LEMMA StepInvariant == IInv /\ [LinkNext]_linkVars => IInv'
  <1> SUFFICES ASSUME IInv, [LinkNext]_linkVars PROVE IInv'
    OBVIOUS
  <1>1. CASE UNCHANGED linkVars
    BY <1>1 DEF linkVars, IInv, LinkTypeOK, TimeoutIsSilence
  <1>2. CASE LinkNext
    <2>1. \E n \in Nodes : TRUE
      BY FS_EmptySet DEF IInv
    <2>2. QED
      BY <1>2, <2>1, ResetStep, SendStep, PollStep, TickStep, AirStep DEF LinkNext
  <1>3. QED
    BY <1>1, <1>2

\* Type correctness, for all constants.
THEOREM TypeCorrect == LinkSpec => []LinkTypeOK
  BY InitInvariant, StepInvariant, PTL DEF LinkSpec, IInv

\* A connected node has heard its peer within the time limit (proto_rf_link.c:163-181).
THEOREM ConnectedHasHeard == LinkSpec => []ConnectedMeansHeard
  <1>1. IInv => ConnectedMeansHeard
    BY DEF IInv, TimeoutIsSilence, ConnectedMeansHeard
  <1>2. QED
    BY <1>1, InitInvariant, StepInvariant, PTL DEF LinkSpec

-----------------------------------------------------------------------------
\* Only tick declares a link lost, and only when the silence has reached the limit.
LEMMA LostStep ==
  ASSUME IInv, [LinkNext]_linkVars, NEW n \in Nodes, link[n].state # "LOST", link[n].state' = "LOST"
  PROVE  silence'[n] >= LostTimeout
  <1> USE DEF IInv, LinkTypeOK
  <1>1. CASE UNCHANGED linkVars
    BY <1>1 DEF linkVars
  <1>2. ASSUME NEW m \in Nodes, Reset(m) \/ Die(m) PROVE FALSE
    BY <1>2 DEF Reset, Die, IdleLink
  <1>3. ASSUME NEW m \in Nodes, NEW type \in Types, Send(m, type) PROVE FALSE
    BY <1>3 DEF Send
  <1>4. ASSUME NEW m \in Nodes, NEW p \in air, PollPacket(m, p) \/ PollOtherThanData(m, p) \/ Lose(p)
        PROVE  FALSE
    BY <1>4 DEF PollPacket, Accept, PollOtherThanData, Lose
  <1>5. ASSUME NEW m \in Nodes, NEW e \in Elapsed, Tick(m, e) PROVE silence'[n] >= LostTimeout
    <2>1. m = n
      BY <1>5 DEF Tick
    <2>2. Expired(n, e) /\ (link[n].timeout + e) % TimeMod = silence[n] + e
      BY <1>5, <2>1, TickSum DEF Tick
    <2>3. QED
      BY <1>5, <2>1, <2>2 DEF Tick, Expired
  <1>6. QED
    BY <1>1, <1>2, <1>3, <1>4, <1>5 DEF LinkNext

\* A link is declared lost only after the silence that its limit asks for.
THEOREM LostWasDeserved == LinkSpec => LostIsDeserved
  <1>1. IInv /\ [LinkNext]_linkVars =>
          [\A n \in Nodes : link[n].state # "LOST" /\ link[n].state' = "LOST"
             => silence'[n] >= LostTimeout]_linkVars
    BY LostStep
  <1>2. QED
    BY <1>1, InitInvariant, StepInvariant, PTL DEF LinkSpec, LostIsDeserved

-----------------------------------------------------------------------------
(* The setup of two radios.  What a node has before it is a sequence of        *)
(* transactions: the invariant says of each register that it holds what it     *)
(* must hold, or that the last transaction that is still to touch it writes     *)
(* that, so it holds of every rest of the sequence too.  FEATURE and DYNPD,     *)
(* which a locked radio ignores, go through the seven phases of Featured, and      *)
(* CE is tied to CONFIG by the transactions that come right before and after.  *)

\* A register holds v, or the last that is still to be done with it is to write v.
Settled(t, g, v, now) ==
  \/ now = v /\ \A i \in DOMAIN t : t[i].reg # g
  \/ \E i \in DOMAIN t :
       /\ t[i].op \in {"write", "ce"} /\ t[i].reg = g /\ t[i].val = v
       /\ \A j \in DOMAIN t : j > i => t[j].reg # g

\* One transaction further, whatever it is.
LEMMA SettledStep ==
  ASSUME NEW T, NEW t \in Seq(T), t # <<>>, NEW g, NEW v, NEW now, NEW next,
         Settled(t, g, v, now),
         Head(t).reg # g => next = now,
         Head(t).op \in {"write", "ce"} /\ Head(t).reg = g => next = Head(t).val
  PROVE  Settled(Tail(t), g, v, next)
<1> DEFINE u == Tail(t)
<1>1. /\ u \in Seq(T) /\ Len(u) = Len(t) - 1 /\ Len(t) \in Nat \ {0}
      /\ \A i \in DOMAIN u : u[i] = t[i + 1]
      /\ DOMAIN u = 1 .. Len(u) /\ DOMAIN t = 1 .. Len(t) /\ Head(t) = t[1]
  BY HeadTailProperties
<1> HIDE DEF u
<1>2. CASE now = v /\ \A i \in DOMAIN t : t[i].reg # g
  <2>1. t[1].reg # g /\ next = v
    BY <1>1, <1>2
  <2>2. \A i \in DOMAIN u : i + 1 \in DOMAIN t
    BY <1>1
  <2> QED BY <1>1, <1>2, <2>1, <2>2 DEF Settled, u
<1>3. CASE \E i \in DOMAIN t :
             /\ t[i].op \in {"write", "ce"} /\ t[i].reg = g /\ t[i].val = v
             /\ \A j \in DOMAIN t : j > i => t[j].reg # g
  <2>1. PICK i \in DOMAIN t :
             /\ t[i].op \in {"write", "ce"} /\ t[i].reg = g /\ t[i].val = v
             /\ \A j \in DOMAIN t : j > i => t[j].reg # g
    BY <1>3
  <2>2. CASE i = 1
    <3>1. next = v
      BY <2>1, <2>2, <1>1
    <3>2. \A j \in DOMAIN u : j + 1 \in DOMAIN t /\ j + 1 > i
      BY <1>1, <2>2
    <3> QED BY <1>1, <2>1, <3>1, <3>2 DEF Settled, u
  <2>3. CASE i # 1
    <3>1. i - 1 \in DOMAIN u /\ u[i - 1] = t[i]
      BY <1>1, <2>1, <2>3
    <3>2. \A j \in DOMAIN u : j > i - 1 => u[j].reg # g
      BY <1>1, <2>1
    <3> QED BY <2>1, <3>1, <3>2 DEF Settled, u
  <2> QED BY <2>2, <2>3
<1> QED BY <1>2, <1>3 DEF Settled

\* What every radio has to hold in the end, but CONFIG and the features.
Address == IF firmware = "ack_payload" THEN "STACK" ELSE "STC01"
Goal ==
  [RF_CH |-> Channel, SETUP_AW |-> Width - 2, TX_ADDR |-> Address, RX_ADDR_P0 |-> Address,
   EN_AA |-> Pipe0, EN_RXADDR |-> Pipe0, RF_SETUP |-> <<"1MBPS", Power>>,
   RX_PW_P0 |-> IF firmware = "ack_payload" THEN 0 ELSE 32]
Mode(n) == IF n = "sender" THEN {"PWR_UP"} ELSE {"PWR_UP", "PRIM_RX"}

\* The node n with the transactions t before it, the registers r and CE at c.
Registered(t, r) == \A g \in DOMAIN Goal \ {"RX_PW_P0"} : Settled(t, g, Goal[g], r[g])
Moded(n, t, r) == Settled(t, "CONFIG", Mode(n), r.CONFIG)
Listening(n, t, c) == n = "receiver" => Settled(t, "CE", TRUE, c)

\* Payloads of a fixed size have one; the features are not touched.  Or the other way round.
Touched == IF firmware = "ack_payload" THEN {"RX_PW_P0"} ELSE {"FEATURE", "DYNPD"}
Untouched(t, r) ==
  /\ \A i \in DOMAIN t : t[i].reg \notin Touched
  /\ \A g \in Touched : r[g] = PowerOn[g]
Sized(t, r) == firmware # "ack_payload" => Settled(t, "RX_PW_P0", 32, r.RX_PW_P0)

\* The steps of EnableFeatureBits and of the write of DYNPD, at t[i], t[i + 1] and t[i + 2];
\* after step j there is none of them.
Is(s, op, reg) == s.op = op /\ s.reg = reg
NoneBut(t, lo, hi) == \A i \in DOMAIN t : i \in lo .. hi \/ t[i].reg \notin {"FEATURE", "DYNPD"}
ToEnable(t) ==
  \E i \in DOMAIN t :
    /\ {i + 1, i + 2} \subseteq DOMAIN t
    /\ Is(t[i], "feature", "FEATURE") /\ Is(t[i + 1], "readback", "FEATURE") /\ Is(t[i + 2], "write", "DYNPD")
    /\ NoneBut(t, i, i + 2)
ToReadBack(n, t, r, open) ==
  /\ Len(t) >= 2 /\ Is(t[1], "readback", "FEATURE") /\ Is(t[2], "write", "DYNPD") /\ NoneBut(t, 1, 2)
  /\ n \in open => FeatureBits \subseteq r.FEATURE
ToActivate(n, t, open) ==
  /\ Len(t) >= 4 /\ n \notin open /\ NoneBut(t, 1, 4)
  /\ Is(t[1], "activate", "FEATURE") /\ Is(t[2], "feature", "FEATURE")
  /\ Is(t[3], "confirm", "FEATURE") /\ Is(t[4], "write", "DYNPD")
ToFeature(n, t, open) ==
  /\ Len(t) >= 3 /\ n \in open /\ NoneBut(t, 1, 3)
  /\ Is(t[1], "feature", "FEATURE") /\ Is(t[2], "confirm", "FEATURE") /\ Is(t[3], "write", "DYNPD")
ToConfirm(n, t, r, open) ==
  /\ Len(t) >= 2 /\ n \in open /\ FeatureBits \subseteq r.FEATURE /\ NoneBut(t, 1, 2)
  /\ Is(t[1], "confirm", "FEATURE") /\ Is(t[2], "write", "DYNPD")
ToSize(n, t, r, open) ==
  /\ Len(t) >= 1 /\ n \in open /\ FeatureBits \subseteq r.FEATURE
  /\ Is(t[1], "write", "DYNPD") /\ NoneBut(t, 1, 1)
Enabled(n, t, r, open) ==
  n \in open /\ FeatureBits \subseteq r.FEATURE /\ r.DYNPD = Pipe0 /\ NoneBut(t, 1, 0)
Featured(n, t, r, open) ==
  firmware = "ack_payload" =>
    \/ ToEnable(t) \/ ToReadBack(n, t, r, open) \/ ToActivate(n, t, open)
    \/ ToFeature(n, t, open) \/ ToConfirm(n, t, r, open) \/ ToSize(n, t, r, open)
    \/ Enabled(n, t, r, open)

\* CE is low before a radio is made a transmitter, and a receiver before CE goes high.
Sends(config) == "PWR_UP" \in config /\ "PRIM_RX" \notin config
Hears(config) == {"PWR_UP", "PRIM_RX"} \subseteq config
LowFirst(t, c) ==
  \A i \in DOMAIN t : t[i].reg = "CONFIG" /\ Sends(t[i].val) =>
    \/ i = 1 /\ c = FALSE
    \/ i > 1 /\ t[i - 1].op = "ce" /\ t[i - 1].val = FALSE
HearsFirst(t, r) ==
  \A i \in DOMAIN t : t[i].op = "ce" /\ t[i].val = TRUE =>
    \/ i = 1 /\ Hears(r.CONFIG)
    \/ i > 1 /\ t[i - 1].reg = "CONFIG" /\ Hears(t[i - 1].val)
PulsesEnd(t) == \A i \in DOMAIN t : t[i].op = "pulse" => i + 1 = Len(t) /\ t[i + 1] = CeLow[1]
Quiet(n, t, r, c) == c = TRUE /\ Sends(r.CONFIG) => t = SetUpRadio(n) \/ t = CeLow

StationInv(n, t, r, c, open) ==
  /\ Registered(t, r) /\ Moded(n, t, r) /\ Listening(n, t, c)
  /\ Untouched(t, r) /\ Sized(t, r) /\ Featured(n, t, r, open)
  /\ LowFirst(t, c) /\ HearsFirst(t, r) /\ PulsesEnd(t) /\ Quiet(n, t, r, c)

SetupInv ==
  /\ SetupTypeOK /\ plus \subseteq unlocked
  /\ \A n \in Stations : StationInv(n, spi[n], radios[n], ce[n], unlocked)

-----------------------------------------------------------------------------
\* What the first transaction of t does to the registers, CE and the lock of its radio.
Effect(n, t, r, c, open, r2, c2, open2) ==
  LET h == t[1] IN
  /\ \A g \in DOMAIN PowerOn : h.reg # g => r2[g] = r[g]
  /\ h.op = "write" /\ (h.reg \in {"FEATURE", "DYNPD"} => n \in open) => r2[h.reg] = h.val
  /\ h.reg # "CE" => c2 = c
  /\ h.reg = "CE" => c2 = h.val
  /\ h.op = "feature" /\ n \in open => r2.FEATURE = r.FEATURE \cup FeatureBits
  /\ h.op \in {"readback", "confirm", "activate"} => r2.FEATURE = r.FEATURE
  /\ h.op \in {"readback", "confirm"} => n \in open /\ FeatureBits \subseteq r.FEATURE
  /\ h.op # "activate" => (n \in open2 <=> n \in open)
  /\ h.op = "activate" /\ n \notin open => n \in open2

\* The rest of a sequence, place by place.
LEMMA TailIs ==
  ASSUME NEW T, NEW t \in Seq(T), t # <<>>
  PROVE  /\ Tail(t) \in Seq(T) /\ Len(Tail(t)) = Len(t) - 1 /\ Len(t) \in Nat \ {0}
         /\ \A i \in DOMAIN Tail(t) : i + 1 \in DOMAIN t /\ Tail(t)[i] = t[i + 1] /\ i \in Nat \ {0}
         /\ DOMAIN Tail(t) = 1 .. Len(t) - 1 /\ DOMAIN t = 1 .. Len(t) /\ Head(t) = t[1]
  BY HeadTailProperties

\* Which transactions touch which register.
LEMMA TransferType ==
  ASSUME NEW s \in Transfers
  PROVE  /\ s.op = "write" => s.reg \in DOMAIN PowerOn \ {"FEATURE"}
         /\ s.reg = "CE" <=> s.op \in {"ce", "pulse"}
         /\ s.reg = "CE" => s.val \in BOOLEAN
         /\ s.op = "pulse" => s.val = TRUE
         /\ s.op \in {"save", "restore"} => s.reg = "RX_ADDR_P0"
         /\ s.reg = "FEATURE" <=> s.op \in {"feature", "readback", "confirm", "activate"}
         /\ s.reg \in DOMAIN PowerOn \ {"FEATURE", "RX_ADDR_P0"} => s.op = "write"
         /\ s.reg = "DYNPD" => s.val = Pipe0
         /\ s.op \in {"feature", "readback", "confirm"} => s.val = FeatureBits
  BY DEF Transfers, PowerOn

\* The programs, transaction by transaction.
Writing(reg, val) == [op |-> "write", reg |-> reg, val |-> val]
Entered(n) == \* Enter(n)
  IF n = "sender" THEN <<CeLow[1], Writing("CONFIG", Mode(n))>> ELSE <<Writing("CONFIG", Mode(n)), CeHigh[1]>>

\* The transactions the driver makes.
LEMMA Singles ==
  /\ \A b \in BOOLEAN : [op |-> "ce", reg |-> "CE", val |-> b] \in Transfers
  /\ \A reg \in {"RF_CH", "SETUP_AW", "SETUP_RETR", "RX_PW_P0"}, k \in Nat : Writing(reg, k) \in Transfers
  /\ \A reg \in {"TX_ADDR", "RX_ADDR_P0"}, k \in {"STACK", "STC01", "pattern"} : Writing(reg, k) \in Transfers
  /\ \A reg \in {"EN_AA", "EN_RXADDR", "DYNPD"} : Writing(reg, Pipe0) \in Transfers
  /\ \A k \in Nat : Writing("RF_SETUP", <<"1MBPS", k>>) \in Transfers
  /\ \A k \in SUBSET {"PWR_UP", "PRIM_RX"} : Writing("CONFIG", k) \in Transfers
  /\ \A op \in {"save", "restore"} : [op |-> op, reg |-> "RX_ADDR_P0", val |-> 0] \in Transfers
  /\ \A op \in {"feature", "readback", "confirm"} : [op |-> op, reg |-> "FEATURE", val |-> FeatureBits] \in Transfers
  /\ [op |-> "activate", reg |-> "FEATURE", val |-> 0] \in Transfers
  /\ \A op \in {"flush", "load"} : [op |-> op, reg |-> "TX", val |-> 0] \in Transfers
  /\ [op |-> "pulse", reg |-> "CE", val |-> TRUE] \in Transfers
  BY DEF Transfers, Writing

\* Two of them in a row.
LEMMA TwoSteps ==
  ASSUME NEW T, NEW a \in T, NEW b \in T
  PROVE  LET s == <<a>> \o <<b>> IN s \in Seq(T) /\ Len(s) = 2 /\ s[1] = a /\ s[2] = b
  OBVIOUS

\* What enter_tx and enter_rx make.
LEMMA EnterIs ==
  ASSUME NEW n \in Stations
  PROVE  Enter(n) \in Seq(Transfers) /\ Len(Enter(n)) = 2
         /\ Enter(n)[1] = Entered(n)[1] /\ Enter(n)[2] = Entered(n)[2]
<1>1. CASE n = "sender"
  <2>1. PICK a \in Transfers, b \in Transfers : a = CeLow[1] /\ b = Writing("CONFIG", {"PWR_UP"})
    BY Singles DEF CeLow, Step
  <2>2. CeLow = <<a>> /\ WriteReg("CONFIG", {"PWR_UP"}) = <<b>>
    BY <2>1 DEF CeLow, WriteReg, Step, Writing
  <2>3. Enter(n) = <<a>> \o <<b>> /\ Entered(n) = <<a, b>>
    BY <1>1, <2>1, <2>2 DEF Enter, enter_tx, Entered, Mode
  <2> QED BY <2>3, TwoSteps
<1>2. CASE n # "sender"
  <2>1. PICK a \in Transfers, b \in Transfers : a = CeHigh[1] /\ b = Writing("CONFIG", {"PWR_UP", "PRIM_RX"})
    BY Singles DEF CeHigh, Step
  <2>2. CeHigh = <<a>> /\ WriteReg("CONFIG", {"PWR_UP", "PRIM_RX"}) = <<b>>
    BY <2>1 DEF CeHigh, WriteReg, Step, Writing
  <2>3. Enter(n) = <<b>> \o <<a>> /\ Entered(n) = <<b, a>>
    BY <1>2, <2>1, <2>2 DEF Enter, enter_rx, Entered, Mode
  <2>4. LET s == <<b>> \o <<a>> IN s \in Seq(Transfers) /\ Len(s) = 2 /\ s[1] = b /\ s[2] = a
    BY TwoSteps
  <2>5. <<b, a>>[1] = b /\ <<b, a>>[2] = a
    OBVIOUS
  <2> QED BY <2>3, <2>4, <2>5
<1> QED BY <1>1, <1>2

\* Two sequences put together, place by place.
LEMMA Joined ==
  ASSUME NEW T, NEW s \in Seq(T), NEW e \in Seq(T)
  PROVE  /\ s \o e \in Seq(T) /\ Len(s \o e) = Len(s) + Len(e)
         /\ DOMAIN (s \o e) = 1 .. Len(s) + Len(e)
         /\ \A i \in 1 .. Len(s) : (s \o e)[i] = s[i]
         /\ \A i \in 1 .. Len(e) : (s \o e)[Len(s) + i] = e[i]
<1>1. Len(s) \in Nat /\ Len(e) \in Nat
  OBVIOUS
<1>2. /\ s \o e \in Seq(T) /\ Len(s \o e) = Len(s) + Len(e)
      /\ \A i \in 1 .. Len(s) + Len(e) : (s \o e)[i] = IF i <= Len(s) THEN s[i] ELSE e[i - Len(s)]
  BY ConcatProperties
<1>3. DOMAIN (s \o e) = 1 .. Len(s) + Len(e)
  BY <1>2, LenProperties
<1>4. \A i \in 1 .. Len(s) : i \in 1 .. Len(s) + Len(e) /\ i <= Len(s)
  BY <1>1
<1>5. \A i \in 1 .. Len(e) : Len(s) + i \in 1 .. Len(s) + Len(e) /\ ~(Len(s) + i <= Len(s)) /\ (Len(s) + i) - Len(s) = i
  BY <1>1
<1> QED BY <1>2, <1>3, <1>4, <1>5

\* main of nrf24_ack_payload up to its loop.
LEMMA AckPayloadIs ==
  ASSUME NEW n \in Stations, firmware = "ack_payload"
  PROVE  LET t == SetUpRadio(n) IN
         /\ t \in Seq(Transfers) /\ Len(t) = 14
         /\ t[1] = CeLow[1] /\ t[2] = Writing("RF_CH", Channel) /\ t[3] = Writing("SETUP_AW", Width - 2)
         /\ t[4] = Writing("TX_ADDR", "STACK") /\ t[5] = Writing("RX_ADDR_P0", "STACK")
         /\ t[6] = Writing("EN_RXADDR", Pipe0) /\ t[7] = Writing("EN_AA", Pipe0) /\ t[8] = Writing("SETUP_RETR", 58)
         /\ t[9] = Writing("RF_SETUP", <<"1MBPS", Power>>)
         /\ Is(t[10], "feature", "FEATURE") /\ Is(t[11], "readback", "FEATURE") /\ t[12] = Writing("DYNPD", Pipe0)
         /\ t[13] = Entered(n)[1] /\ t[14] = Entered(n)[2]
<1>0. PICK e \in Seq(Transfers) : e = Enter(n) /\ Len(e) = 2 /\ e[1] = Entered(n)[1] /\ e[2] = Entered(n)[2]
  BY EnterIs
<1>1. PICK a1 \in Transfers, a2 \in Transfers, a3 \in Transfers, a4 \in Transfers, a5 \in Transfers, a6 \in Transfers,
           a7 \in Transfers, a8 \in Transfers, a9 \in Transfers, b1 \in Transfers, b2 \in Transfers, b3 \in Transfers :
        /\ a1 = CeLow[1] /\ a2 = Writing("RF_CH", Channel) /\ a3 = Writing("SETUP_AW", Width - 2)
        /\ a4 = Writing("TX_ADDR", "STACK") /\ a5 = Writing("RX_ADDR_P0", "STACK")
        /\ a6 = Writing("EN_RXADDR", Pipe0) /\ a7 = Writing("EN_AA", Pipe0) /\ a8 = Writing("SETUP_RETR", 58)
        /\ a9 = Writing("RF_SETUP", <<"1MBPS", Power>>)
        /\ b1 = [op |-> "feature", reg |-> "FEATURE", val |-> FeatureBits]
        /\ b2 = [op |-> "readback", reg |-> "FEATURE", val |-> FeatureBits]
        /\ b3 = Writing("DYNPD", Pipe0)
  <2>1. Channel \in Nat /\ Width - 2 \in Nat /\ Power \in Nat
    BY SetupAssumption
  <2>2. CeLow[1] = [op |-> "ce", reg |-> "CE", val |-> FALSE]
    BY DEF CeLow, Step
  <2> QED BY <2>1, <2>2, Singles
<1>2. CeLow = <<a1>>
  BY <1>1 DEF CeLow, Step
<1>3. /\ set_channel(Channel) = <<a2>> /\ set_address_width(Width) = <<a3>>
      /\ set_tx_address("STACK", Width) = <<a4>> /\ set_rx_address("STACK", Width) = <<a5>>
  BY <1>1, SetupAssumption DEF set_channel, set_address_width, set_tx_address, set_rx_address, Guarded, WriteReg, Step, Writing
<1>4. set_rx_pipes(Pipe0) = <<a6>> /\ set_auto_ack(Pipe0) = <<a7>>
  BY <1>1 DEF set_rx_pipes, set_auto_ack, WriteReg, Step, Writing
<1>5. set_auto_retransmit(3, 10) = <<a8>>
  BY <1>1 DEF set_auto_retransmit, Guarded, WriteReg, Step, Writing
<1>9. set_rate_power("1MBPS", Power) = <<a9>>
  <2>1. Power <= 3
    BY SetupAssumption
  <2> QED BY <1>1, <2>1 DEF set_rate_power, Guarded, WriteReg, Step, Writing
<1>6. enable_ack_payload(Pipe0) = <<b1>> \o <<b2>> \o <<b3>>
  BY <1>1 DEF enable_ack_payload, EnableFeatureBits, WriteReg, Step, Writing
<1> DEFINE t == SetUpRadio(n)
<1>7. t = <<a1>> \o (<<a2>> \o <<a3>> \o <<a4>> \o <<a5>> \o <<a6>> \o <<a7>> \o <<a8>> \o <<a9>> \o (<<b1>> \o <<b2>> \o <<b3>>)) \o e
  BY <1>0, <1>2, <1>3, <1>4, <1>5, <1>6, <1>9 DEF SetUpRadio, init_pins, Configure, configure_radio
<1>8. /\ t \in Seq(Transfers) /\ Len(t) = 14
      /\ t[1] = a1 /\ t[2] = a2 /\ t[3] = a3 /\ t[4] = a4 /\ t[5] = a5 /\ t[6] = a6 /\ t[7] = a7 /\ t[8] = a8
      /\ t[9] = a9 /\ t[10] = b1 /\ t[11] = b2 /\ t[12] = b3 /\ t[13] = e[1] /\ t[14] = e[2]
  <2> DEFINE s == <<a1>> \o (<<a2>> \o <<a3>> \o <<a4>> \o <<a5>> \o <<a6>> \o <<a7>> \o <<a8>> \o <<a9>>
                                \o (<<b1>> \o <<b2>> \o <<b3>>))
  <2>1. /\ s \in Seq(Transfers) /\ Len(s) = 12
        /\ s[1] = a1 /\ s[2] = a2 /\ s[3] = a3 /\ s[4] = a4 /\ s[5] = a5 /\ s[6] = a6 /\ s[7] = a7 /\ s[8] = a8
        /\ s[9] = a9 /\ s[10] = b1 /\ s[11] = b2 /\ s[12] = b3
    OBVIOUS
  <2>2. t = s \o e
    BY <1>7
  <2> HIDE DEF s, t
  <2>3. /\ t \in Seq(Transfers) /\ Len(t) = Len(s) + Len(e)
        /\ \A i \in 1 .. Len(s) : t[i] = s[i]
        /\ \A i \in 1 .. Len(e) : t[Len(s) + i] = e[i]
    <3>1. s \in Seq(Transfers)
      BY <2>1
    <3>2. /\ s \o e \in Seq(Transfers) /\ Len(s \o e) = Len(s) + Len(e)
          /\ \A i \in 1 .. Len(s) : (s \o e)[i] = s[i]
          /\ \A i \in 1 .. Len(e) : (s \o e)[Len(s) + i] = e[i]
      BY <3>1, Joined
    <3> QED BY <2>2, <3>2
  <2>4. t[12 + 1] = e[1] /\ t[12 + 2] = e[2]
    BY <1>0, <2>1, <2>3
  <2> QED BY <1>0, <2>1, <2>3, <2>4
<1> HIDE DEF t
<1> QED BY <1>0, <1>1, <1>8 DEF Is, t

\* main of nrf24_fixed_ping up to its loop, with the address in RAM or in code memory.
LEMMA FixedIs ==
  ASSUME NEW n \in Stations, firmware \in {"fixed_ping", "fixed_code"}
  PROVE  LET t == SetUpRadio(n) IN
         /\ t \in Seq(Transfers) /\ Len(t) = 15
         /\ t[1] = CeLow[1] /\ Is(t[2], "save", "RX_ADDR_P0") /\ t[3] = Writing("RX_ADDR_P0", "pattern")
         /\ Is(t[4], "restore", "RX_ADDR_P0")
         /\ t[5] = Writing("RF_CH", Channel) /\ t[6] = Writing("SETUP_AW", Width - 2)
         /\ t[7] = Writing("TX_ADDR", "STC01") /\ t[8] = Writing("RX_ADDR_P0", "STC01") /\ t[9] = Writing("RX_PW_P0", 32)
         /\ t[10] = Writing("EN_RXADDR", Pipe0) /\ t[11] = Writing("EN_AA", Pipe0) /\ t[12] = Writing("SETUP_RETR", 58)
         /\ t[13] = Writing("RF_SETUP", <<"1MBPS", Power>>)
         /\ t[14] = Entered(n)[1] /\ t[15] = Entered(n)[2]
<1>0. PICK e \in Seq(Transfers) : e = Enter(n) /\ Len(e) = 2 /\ e[1] = Entered(n)[1] /\ e[2] = Entered(n)[2]
  BY EnterIs
<1>1. PICK a1 \in Transfers, a2 \in Transfers, a3 \in Transfers, a4 \in Transfers, a5 \in Transfers, a6 \in Transfers,
           a7 \in Transfers, a8 \in Transfers, a9 \in Transfers, b1 \in Transfers, b2 \in Transfers, b3 \in Transfers,
           b4 \in Transfers :
        /\ a1 = CeLow[1] /\ a2 = [op |-> "save", reg |-> "RX_ADDR_P0", val |-> 0]
        /\ a3 = Writing("RX_ADDR_P0", "pattern") /\ a4 = [op |-> "restore", reg |-> "RX_ADDR_P0", val |-> 0]
        /\ a5 = Writing("RF_CH", Channel) /\ a6 = Writing("SETUP_AW", Width - 2)
        /\ a7 = Writing("TX_ADDR", "STC01") /\ a8 = Writing("RX_ADDR_P0", "STC01") /\ a9 = Writing("RX_PW_P0", 32)
        /\ b1 = Writing("EN_RXADDR", Pipe0) /\ b2 = Writing("EN_AA", Pipe0) /\ b3 = Writing("SETUP_RETR", 58)
        /\ b4 = Writing("RF_SETUP", <<"1MBPS", Power>>)
  <2>1. Channel \in Nat /\ Width - 2 \in Nat /\ Power \in Nat
    BY SetupAssumption
  <2>2. CeLow[1] = [op |-> "ce", reg |-> "CE", val |-> FALSE]
    BY DEF CeLow, Step
  <2> QED BY <2>1, <2>2, Singles
<1>2. CeLow = <<a1>> /\ check_present = <<a2>> \o <<a3>> \o <<a4>>
  BY <1>1 DEF CeLow, check_present, Step, WriteReg, Writing
<1>3. /\ set_channel(Channel) = <<a5>> /\ set_address_width(Width) = <<a6>>
      /\ set_tx_address("STC01", Width) = <<a7>> /\ set_rx_address("STC01", Width) = <<a8>>
  BY <1>1, SetupAssumption DEF set_channel, set_address_width, set_tx_address, set_rx_address, Guarded, WriteReg, Step, Writing
<1>4. set_payload_size(32) = <<a9>> /\ set_rx_pipes(Pipe0) = <<b1>> /\ set_auto_ack(Pipe0) = <<b2>>
  BY <1>1 DEF set_payload_size, set_rx_pipes, set_auto_ack, Guarded, WriteReg, Step, Writing
<1>5. set_auto_retransmit(3, 10) = <<b3>>
  BY <1>1 DEF set_auto_retransmit, Guarded, WriteReg, Step, Writing
<1>6. set_rate_power("1MBPS", Power) = <<b4>>
  <2>1. Power <= 3
    BY SetupAssumption
  <2> QED BY <1>1, <2>1 DEF set_rate_power, Guarded, WriteReg, Step, Writing
<1>7. config_pipe0_fixed_code("STC01") = <<a6>> \o <<a7>> \o <<a8>> \o <<a9>>
  BY <1>1 DEF config_pipe0_fixed_code, WriteReg, Step, Writing
<1> DEFINE t == SetUpRadio(n)
           Listed(s) ==
             /\ s \in Seq(Transfers) /\ Len(s) = 13
             /\ s[1] = a1 /\ s[2] = a2 /\ s[3] = a3 /\ s[4] = a4 /\ s[5] = a5 /\ s[6] = a6 /\ s[7] = a7 /\ s[8] = a8
             /\ s[9] = a9 /\ s[10] = b1 /\ s[11] = b2 /\ s[12] = b3 /\ s[13] = b4
<1>8. \E s \in Seq(Transfers) : t = s \o e /\ Listed(s)
  <2>1. CASE firmware = "fixed_ping"
    <3> DEFINE s == <<a1>> \o (<<a2>> \o <<a3>> \o <<a4>> \o <<a5>> \o <<a6>> \o <<a7>> \o <<a8>> \o <<a9>>
                                 \o <<b1>> \o <<b2>> \o <<b3>> \o <<b4>>)
    <3>1. t = s \o e
      BY <1>0, <1>2, <1>3, <1>4, <1>5, <1>6, <2>1 DEF SetUpRadio, init_pins, Configure, configure_ping
    <3>2. s \in Seq(Transfers) /\ Listed(s)
      OBVIOUS
    <3> HIDE DEF s, t, Listed
    <3> QED BY <3>1, <3>2
  <2>2. CASE firmware = "fixed_code"
    <3> DEFINE s == <<a1>> \o (<<a2>> \o <<a3>> \o <<a4>> \o <<a5>> \o (<<a6>> \o <<a7>> \o <<a8>> \o <<a9>>)
                                 \o <<b1>> \o <<b2>> \o <<b3>> \o <<b4>>)
    <3>1. t = s \o e
      BY <1>0, <1>2, <1>3, <1>4, <1>5, <1>6, <1>7, <2>2 DEF SetUpRadio, init_pins, Configure, configure_ping_code
    <3>2. s \in Seq(Transfers) /\ Listed(s)
      OBVIOUS
    <3> HIDE DEF s, t, Listed
    <3> QED BY <3>1, <3>2
  <2> QED BY <2>1, <2>2
<1> HIDE DEF t
<1>9. PICK s \in Seq(Transfers) : t = s \o e /\ Listed(s)
  BY <1>8
<1>10. Len(s) = 13 /\ Len(e) = 2
  BY <1>0, <1>9
<1>11. /\ t \in Seq(Transfers) /\ Len(t) = 15
       /\ \A i \in 1 .. 13 : t[i] = s[i]
       /\ \A i \in 1 .. 2 : t[13 + i] = e[i]
  <2>1. /\ s \o e \in Seq(Transfers) /\ Len(s \o e) = Len(s) + Len(e)
        /\ \A i \in 1 .. Len(s) : (s \o e)[i] = s[i]
        /\ \A i \in 1 .. Len(e) : (s \o e)[Len(s) + i] = e[i]
    BY Joined
  <2>2. t = s \o e
    BY <1>9
  <2>3. t \in Seq(Transfers) /\ Len(t) = 13 + 2
    BY <1>10, <2>1, <2>2
  <2>4. \A i \in 1 .. 13 : t[i] = s[i]
    BY <1>10, <2>1, <2>2
  <2>5. \A i \in 1 .. 2 : t[13 + i] = e[i]
    BY <1>10, <2>1, <2>2
  <2>6. 13 + 2 = 15
    OBVIOUS
  <2> QED BY <2>3, <2>4, <2>5, <2>6
<1>12. t[13 + 1] = e[1] /\ t[13 + 2] = e[2]
  BY <1>11
<1>13. /\ t[1] = a1 /\ t[2] = a2 /\ t[3] = a3 /\ t[4] = a4 /\ t[5] = a5 /\ t[6] = a6 /\ t[7] = a7 /\ t[8] = a8
       /\ t[9] = a9 /\ t[10] = b1 /\ t[11] = b2 /\ t[12] = b3 /\ t[13] = b4
  <2>1. Listed(s)
    BY <1>9
  <2> QED BY <2>1, <1>11
<1> QED BY <1>0, <1>1, <1>11, <1>12, <1>13 DEF Is, t

\* Both begin with CE low.
LEMMA SetUpIs ==
  ASSUME SetupTypeOK, NEW n \in Stations
  PROVE  SetUpRadio(n)[1] = CeLow[1] /\ SetUpRadio(n) \in Seq(Transfers)
  BY AckPayloadIs, FixedIs DEF SetupTypeOK

\* The last transaction that touches a register is a write of v.
LEMMA SettledAt ==
  ASSUME NEW T, NEW t \in Seq(T), NEW i \in 1 .. Len(t), NEW g, NEW v, NEW now,
         t[i].op \in {"write", "ce"}, t[i].reg = g, t[i].val = v,
         \A j \in 1 .. Len(t) : j > i => t[j].reg # g
  PROVE  Settled(t, g, v, now)
  BY LenProperties DEF Settled

\* Switched on, and after every reset, a node comes to its setup whatever the radio holds.
LEMMA StationStarts ==
  ASSUME SetupTypeOK, NEW n \in Stations, NEW r, NEW c, NEW open, \A g \in Touched : r[g] = PowerOn[g]
  PROVE  StationInv(n, SetUpRadio(n), r, c, open)
<1> DEFINE t == SetUpRadio(n)
<1>1. CASE firmware = "ack_payload"
  <2>1. /\ t \in Seq(Transfers) /\ Len(t) = 14
        /\ t[1] = CeLow[1] /\ t[2] = Writing("RF_CH", Channel) /\ t[3] = Writing("SETUP_AW", Width - 2)
        /\ t[4] = Writing("TX_ADDR", "STACK") /\ t[5] = Writing("RX_ADDR_P0", "STACK")
        /\ t[6] = Writing("EN_RXADDR", Pipe0) /\ t[7] = Writing("EN_AA", Pipe0) /\ t[8] = Writing("SETUP_RETR", 58)
        /\ t[9] = Writing("RF_SETUP", <<"1MBPS", Power>>)
        /\ Is(t[10], "feature", "FEATURE") /\ Is(t[11], "readback", "FEATURE") /\ t[12] = Writing("DYNPD", Pipe0)
        /\ t[13] = Entered(n)[1] /\ t[14] = Entered(n)[2]
    BY <1>1, AckPayloadIs
  <2>2. DOMAIN t = 1 .. 14
    <3> HIDE DEF t
    <3> QED BY <2>1, LenProperties
  <2> HIDE DEF t
  <2>3. /\ t[1].op = "ce" /\ t[1].reg = "CE" /\ t[1].val = FALSE
        /\ t[2].reg = "RF_CH" /\ t[3].reg = "SETUP_AW" /\ t[4].reg = "TX_ADDR" /\ t[5].reg = "RX_ADDR_P0"
        /\ t[6].reg = "EN_RXADDR" /\ t[7].reg = "EN_AA" /\ t[8].reg = "SETUP_RETR" /\ t[9].reg = "RF_SETUP"
        /\ t[10].reg = "FEATURE" /\ t[11].reg = "FEATURE" /\ t[12].reg = "DYNPD"
        /\ \A i \in {2, 3, 4, 5, 6, 7, 8, 9, 12} : t[i].op = "write"
        /\ t[10].op = "feature" /\ t[11].op = "readback"
    BY <2>1 DEF Writing, Is, CeLow, Step
  <2>4. /\ n = "sender" => /\ t[13].op = "ce" /\ t[13].reg = "CE" /\ t[13].val = FALSE
                           /\ t[14].op = "write" /\ t[14].reg = "CONFIG" /\ t[14].val = Mode(n)
        /\ n # "sender" => /\ t[13].op = "write" /\ t[13].reg = "CONFIG" /\ t[13].val = Mode(n)
                           /\ t[14].op = "ce" /\ t[14].reg = "CE" /\ t[14].val = TRUE
    BY <2>1 DEF Entered, Writing, CeLow, CeHigh, Step
  <2>5. \A j \in DOMAIN t :
          /\ t[j].reg = "RF_CH" => j = 2
          /\ t[j].reg = "SETUP_AW" => j = 3
          /\ t[j].reg = "TX_ADDR" => j = 4
          /\ t[j].reg = "RX_ADDR_P0" => j = 5
          /\ t[j].reg = "EN_RXADDR" => j = 6
          /\ t[j].reg = "EN_AA" => j = 7
          /\ t[j].reg = "RF_SETUP" => j = 9
          /\ t[j].reg \in {"FEATURE", "DYNPD"} => j \in 10 .. 12
          /\ t[j].reg = "CONFIG" => j = 13 + (IF n = "sender" THEN 1 ELSE 0)
          /\ t[j].reg = "CE" => j \in {1, 13, 14}
          /\ t[j].op \notin {"pulse", "save"} /\ t[j].reg # "RX_PW_P0"
    BY <2>2, <2>3, <2>4
  <2>6. Registered(t, r)
    <3>1. /\ 2 \in DOMAIN t /\ t[2].val = Channel /\ 3 \in DOMAIN t /\ t[3].val = Width - 2
          /\ 4 \in DOMAIN t /\ t[4].val = "STACK" /\ 5 \in DOMAIN t /\ t[5].val = "STACK"
          /\ 6 \in DOMAIN t /\ t[6].val = Pipe0 /\ 7 \in DOMAIN t /\ t[7].val = Pipe0
          /\ 9 \in DOMAIN t /\ t[9].val = <<"1MBPS", Power>>
      BY <2>1, <2>2 DEF Writing
    <3>2. \A g : \A i \in DOMAIN t :
            t[i].op = "write" /\ t[i].reg = g /\ (\A j \in DOMAIN t : t[j].reg = g => j = i)
              => \A now : Settled(t, g, t[i].val, now)
      BY <2>2 DEF Settled
    <3>3. /\ Settled(t, "RF_CH", Channel, r.RF_CH) /\ Settled(t, "SETUP_AW", Width - 2, r.SETUP_AW)
          /\ Settled(t, "TX_ADDR", "STACK", r.TX_ADDR) /\ Settled(t, "RX_ADDR_P0", "STACK", r.RX_ADDR_P0)
      BY <2>3, <2>5, <3>1, <3>2
    <3>4. /\ Settled(t, "EN_RXADDR", Pipe0, r.EN_RXADDR) /\ Settled(t, "EN_AA", Pipe0, r.EN_AA)
          /\ Settled(t, "RF_SETUP", <<"1MBPS", Power>>, r.RF_SETUP)
      BY <2>3, <2>5, <3>1, <3>2
    <3> QED BY <1>1, <3>3, <3>4 DEF Registered, Goal, Address
  <2>7. Moded(n, t, r) /\ Listening(n, t, c)
    <3>1. CASE n = "sender"
      <4>1. 14 \in DOMAIN t /\ \A j \in DOMAIN t : j > 14 => t[j].reg # "CONFIG"
        BY <2>2
      <4> QED BY <2>4, <3>1, <4>1 DEF Moded, Listening, Settled
    <3>2. CASE n # "sender"
      <4>1. 13 \in DOMAIN t /\ \A j \in DOMAIN t : j > 13 => t[j].reg # "CONFIG"
        BY <2>2, <2>5, <3>2
      <4>2. 14 \in DOMAIN t /\ \A j \in DOMAIN t : j > 14 => t[j].reg # "CE"
        BY <2>2
      <4>3. Settled(t, "CONFIG", Mode(n), r.CONFIG)
        BY <2>4, <3>2, <4>1 DEF Settled
      <4>4. Settled(t, "CE", TRUE, c)
        BY <2>4, <3>2, <4>2 DEF Settled
      <4> QED BY <4>3, <4>4 DEF Moded, Listening
    <3> QED BY <3>1, <3>2
  <2>8. Untouched(t, r) /\ Sized(t, r)
    BY <1>1, <2>5 DEF Untouched, Touched, Sized
  <2>9. Featured(n, t, r, open)
    <3>1. {10, 11, 12} \subseteq DOMAIN t /\ t[12].op = "write" /\ t[12].reg = "DYNPD"
      BY <2>2, <2>3
    <3>2. NoneBut(t, 10, 12)
      BY <2>5 DEF NoneBut
    <3>3. ToEnable(t)
      <4>1. {10 + 1, 10 + 2} \subseteq DOMAIN t /\ 10 + 1 = 11 /\ 10 + 2 = 12 /\ 10 \in DOMAIN t
        BY <2>2
      <4>2. Is(t[10 + 1], "readback", "FEATURE") /\ Is(t[10 + 2], "write", "DYNPD") /\ NoneBut(t, 10, 10 + 2)
        BY <2>1, <3>1, <3>2, <4>1 DEF Is
      <4> QED BY <2>1, <4>1, <4>2 DEF ToEnable
    <3> QED BY <3>3 DEF Featured
  <2>10. LowFirst(t, c)
    <3> SUFFICES ASSUME NEW i \in DOMAIN t, t[i].reg = "CONFIG", Sends(t[i].val)
                 PROVE  i > 1 /\ t[i - 1].op = "ce" /\ t[i - 1].val = FALSE
      BY DEF LowFirst
    <3>1. n = "sender"
      BY <2>4, <2>5 DEF Sends, Mode
    <3>2. i = 14
      BY <2>5, <3>1
    <3> QED BY <2>4, <3>1, <3>2
  <2>11. HearsFirst(t, r)
    <3> SUFFICES ASSUME NEW i \in DOMAIN t, t[i].op = "ce", t[i].val = TRUE
                 PROVE  i > 1 /\ t[i - 1].reg = "CONFIG" /\ Hears(t[i - 1].val)
      BY DEF HearsFirst
    <3>0. t[i] \in Transfers
      BY <2>1, <2>2, ElementOfSeq
    <3>1. i \in {1, 13, 14}
      BY <3>0, <2>5, TransferType
    <3>2. n # "sender"
      BY <2>3, <2>4, <3>1
    <3>3. i = 14
      BY <2>3, <2>4, <3>1, <3>2
    <3> QED BY <2>4, <3>2, <3>3 DEF Hears, Mode
  <2>12. PulsesEnd(t)
    BY <2>5 DEF PulsesEnd
  <2>13. Quiet(n, t, r, c)
    BY DEF Quiet, t
  <2> QED BY <2>6, <2>7, <2>8, <2>9, <2>10, <2>11, <2>12, <2>13 DEF StationInv, t
<1>2. CASE firmware \in {"fixed_ping", "fixed_code"}
  <2>1. /\ t \in Seq(Transfers) /\ Len(t) = 15
        /\ t[1] = CeLow[1] /\ Is(t[2], "save", "RX_ADDR_P0") /\ t[3] = Writing("RX_ADDR_P0", "pattern")
        /\ Is(t[4], "restore", "RX_ADDR_P0")
        /\ t[5] = Writing("RF_CH", Channel) /\ t[6] = Writing("SETUP_AW", Width - 2)
        /\ t[7] = Writing("TX_ADDR", "STC01") /\ t[8] = Writing("RX_ADDR_P0", "STC01") /\ t[9] = Writing("RX_PW_P0", 32)
        /\ t[10] = Writing("EN_RXADDR", Pipe0) /\ t[11] = Writing("EN_AA", Pipe0) /\ t[12] = Writing("SETUP_RETR", 58)
        /\ t[13] = Writing("RF_SETUP", <<"1MBPS", Power>>)
        /\ t[14] = Entered(n)[1] /\ t[15] = Entered(n)[2]
    BY <1>2, FixedIs
  <2>2. DOMAIN t = 1 .. 15
    <3> HIDE DEF t
    <3> QED BY <2>1, LenProperties
  <2> HIDE DEF t
  <2>3. /\ t[1].op = "ce" /\ t[1].reg = "CE" /\ t[1].val = FALSE
        /\ t[2].reg = "RX_ADDR_P0" /\ t[3].reg = "RX_ADDR_P0" /\ t[4].reg = "RX_ADDR_P0"
        /\ t[5].reg = "RF_CH" /\ t[6].reg = "SETUP_AW" /\ t[7].reg = "TX_ADDR" /\ t[8].reg = "RX_ADDR_P0"
        /\ t[9].reg = "RX_PW_P0" /\ t[10].reg = "EN_RXADDR" /\ t[11].reg = "EN_AA" /\ t[12].reg = "SETUP_RETR"
        /\ t[13].reg = "RF_SETUP"
        /\ \A i \in {3, 5, 6, 7, 8, 9, 10, 11, 12, 13} : t[i].op = "write"
        /\ t[2].op = "save" /\ t[4].op = "restore"
    BY <2>1 DEF Writing, Is, CeLow, Step
  <2>4. /\ n = "sender" => /\ t[14].op = "ce" /\ t[14].reg = "CE" /\ t[14].val = FALSE
                           /\ t[15].op = "write" /\ t[15].reg = "CONFIG" /\ t[15].val = Mode(n)
        /\ n # "sender" => /\ t[14].op = "write" /\ t[14].reg = "CONFIG" /\ t[14].val = Mode(n)
                           /\ t[15].op = "ce" /\ t[15].reg = "CE" /\ t[15].val = TRUE
    BY <2>1 DEF Entered, Writing, CeLow, CeHigh, Step
  <2>5. \A j \in DOMAIN t :
          /\ t[j].reg = "RF_CH" => j = 5
          /\ t[j].reg = "SETUP_AW" => j = 6
          /\ t[j].reg = "TX_ADDR" => j = 7
          /\ t[j].reg = "RX_ADDR_P0" => j <= 8
          /\ t[j].reg = "RX_PW_P0" => j = 9
          /\ t[j].reg = "EN_RXADDR" => j = 10
          /\ t[j].reg = "EN_AA" => j = 11
          /\ t[j].reg = "RF_SETUP" => j = 13
          /\ t[j].reg = "CONFIG" => j = 14 + (IF n = "sender" THEN 1 ELSE 0)
          /\ t[j].reg = "CE" => j \in {1, 14, 15}
          /\ t[j].op # "pulse" /\ t[j].reg \notin {"FEATURE", "DYNPD"}
    BY <2>2, <2>3, <2>4
  <2>6. Registered(t, r) /\ Sized(t, r)
    <3>1. /\ 5 \in DOMAIN t /\ t[5].val = Channel /\ 6 \in DOMAIN t /\ t[6].val = Width - 2
          /\ 7 \in DOMAIN t /\ t[7].val = "STC01" /\ 8 \in DOMAIN t /\ t[8].val = "STC01"
          /\ 10 \in DOMAIN t /\ t[10].val = Pipe0 /\ 11 \in DOMAIN t /\ t[11].val = Pipe0
          /\ 13 \in DOMAIN t /\ t[13].val = <<"1MBPS", Power>> /\ 9 \in DOMAIN t /\ t[9].val = 32
      BY <2>1, <2>2 DEF Writing
    <3>2. \A g : \A i \in DOMAIN t :
            t[i].op = "write" /\ t[i].reg = g /\ (\A j \in DOMAIN t : t[j].reg = g => j <= i)
              => \A now : Settled(t, g, t[i].val, now)
      BY <2>2 DEF Settled
    <3>a. \A j \in DOMAIN t :
            /\ t[j].reg = "RF_CH" => j <= 5
            /\ t[j].reg = "SETUP_AW" => j <= 6
            /\ t[j].reg = "TX_ADDR" => j <= 7
            /\ t[j].reg = "RX_ADDR_P0" => j <= 8
            /\ t[j].reg = "RX_PW_P0" => j <= 9
            /\ t[j].reg = "EN_RXADDR" => j <= 10
            /\ t[j].reg = "EN_AA" => j <= 11
            /\ t[j].reg = "RF_SETUP" => j <= 13
      BY <2>5
    <3>3. /\ Settled(t, "RF_CH", Channel, r.RF_CH) /\ Settled(t, "SETUP_AW", Width - 2, r.SETUP_AW)
          /\ Settled(t, "TX_ADDR", "STC01", r.TX_ADDR) /\ Settled(t, "RX_ADDR_P0", "STC01", r.RX_ADDR_P0)
      BY <2>3, <3>a, <3>1, <3>2
    <3>4. /\ Settled(t, "EN_RXADDR", Pipe0, r.EN_RXADDR) /\ Settled(t, "EN_AA", Pipe0, r.EN_AA)
          /\ Settled(t, "RF_SETUP", <<"1MBPS", Power>>, r.RF_SETUP) /\ Settled(t, "RX_PW_P0", 32, r.RX_PW_P0)
      BY <2>3, <3>a, <3>1, <3>2
    <3> QED BY <1>2, <3>3, <3>4 DEF Registered, Sized, Goal, Address
  <2>7. Moded(n, t, r) /\ Listening(n, t, c)
    <3>1. CASE n = "sender"
      <4>1. 15 \in DOMAIN t /\ \A j \in DOMAIN t : j > 15 => t[j].reg # "CONFIG"
        BY <2>2
      <4> QED BY <2>4, <3>1, <4>1 DEF Moded, Listening, Settled
    <3>2. CASE n # "sender"
      <4>1. 14 \in DOMAIN t /\ \A j \in DOMAIN t : j > 14 => t[j].reg # "CONFIG"
        BY <2>2, <2>5, <3>2
      <4>2. 15 \in DOMAIN t /\ \A j \in DOMAIN t : j > 15 => t[j].reg # "CE"
        BY <2>2
      <4>3. Settled(t, "CONFIG", Mode(n), r.CONFIG)
        BY <2>4, <3>2, <4>1 DEF Settled
      <4>4. Settled(t, "CE", TRUE, c)
        BY <2>4, <3>2, <4>2 DEF Settled
      <4> QED BY <4>3, <4>4 DEF Moded, Listening
    <3> QED BY <3>1, <3>2
  <2>8. Untouched(t, r) /\ Featured(n, t, r, open)
    BY <1>2, <2>5 DEF Untouched, Touched, Featured
  <2>10. LowFirst(t, c)
    <3> SUFFICES ASSUME NEW i \in DOMAIN t, t[i].reg = "CONFIG", Sends(t[i].val)
                 PROVE  i > 1 /\ t[i - 1].op = "ce" /\ t[i - 1].val = FALSE
      BY DEF LowFirst
    <3>1. n = "sender"
      BY <2>4, <2>5 DEF Sends, Mode
    <3>2. i = 15
      BY <2>5, <3>1
    <3> QED BY <2>4, <3>1, <3>2
  <2>11. HearsFirst(t, r)
    <3> SUFFICES ASSUME NEW i \in DOMAIN t, t[i].op = "ce", t[i].val = TRUE
                 PROVE  i > 1 /\ t[i - 1].reg = "CONFIG" /\ Hears(t[i - 1].val)
      BY DEF HearsFirst
    <3>0. t[i] \in Transfers
      BY <2>1, <2>2, ElementOfSeq
    <3>1. i \in {1, 14, 15}
      BY <3>0, <2>5, TransferType
    <3>2. n # "sender"
      BY <2>3, <2>4, <3>1
    <3>3. i = 15
      BY <2>3, <2>4, <3>1, <3>2
    <3> QED BY <2>4, <3>2, <3>3 DEF Hears, Mode
  <2>12. PulsesEnd(t)
    BY <2>5 DEF PulsesEnd
  <2>13. Quiet(n, t, r, c)
    BY DEF Quiet, t
  <2> QED BY <2>6, <2>7, <2>8, <2>10, <2>11, <2>12, <2>13 DEF StationInv, t
<1> QED BY <1>1, <1>2 DEF SetupTypeOK

\* A transaction leaves what is settled settled.
LEMMA StationSettles ==
  ASSUME NEW n \in Stations, NEW t \in Seq(Transfers), t # <<>>, NEW r, NEW r2,
         NEW c, NEW c2, NEW open, NEW open2, Effect(n, t, r, c, open, r2, c2, open2),
         Registered(t, r), Moded(n, t, r), Listening(n, t, c), Sized(t, r), Untouched(t, r)
  PROVE  /\ Registered(Tail(t), r2) /\ Moded(n, Tail(t), r2) /\ Listening(n, Tail(t), c2)
         /\ Sized(Tail(t), r2) /\ Untouched(Tail(t), r2)
<1>1. t[1] \in Transfers /\ Head(t) = t[1]
  BY TailIs
<1> DEFINE h == t[1]
<1>2. DOMAIN Goal \subseteq DOMAIN PowerOn \ {"FEATURE", "DYNPD", "CONFIG"}
  BY DEF Goal, PowerOn
<1>3. ASSUME NEW g \in DOMAIN PowerOn \ {"FEATURE", "DYNPD"}
      PROVE  /\ h.reg # g => r2[g] = r[g]
             /\ h.op \in {"write", "ce"} /\ h.reg = g => r2[g] = h.val
  BY <1>1, TransferType DEF Effect, PowerOn
<1>4. Registered(Tail(t), r2)
  <2> SUFFICES ASSUME NEW g \in DOMAIN Goal \ {"RX_PW_P0"}
               PROVE  Settled(Tail(t), g, Goal[g], r2[g])
    BY DEF Registered
  <2>1. Settled(t, g, Goal[g], r[g])
    BY DEF Registered
  <2>2. g \in DOMAIN PowerOn \ {"FEATURE", "DYNPD"}
    BY <1>2
  <2> HIDE DEF h
  <2> QED BY <2>1, <1>3, <2>2, <1>1, SettledStep DEF h
<1>5. Moded(n, Tail(t), r2)
  <2>1. "CONFIG" \in DOMAIN PowerOn \ {"FEATURE", "DYNPD"}
    BY DEF PowerOn
  <2>2. /\ h.reg # "CONFIG" => r2.CONFIG = r.CONFIG
        /\ h.op \in {"write", "ce"} /\ h.reg = "CONFIG" => r2.CONFIG = h.val
    BY <2>1, <1>3
  <2> QED BY <2>2, <1>1, SettledStep DEF Moded
<1>6. Listening(n, Tail(t), c2)
  BY <1>1, SettledStep DEF Listening, Effect
<1>7. Sized(Tail(t), r2)
  <2>1. "RX_PW_P0" \in DOMAIN PowerOn \ {"FEATURE", "DYNPD"}
    BY DEF PowerOn
  <2>2. /\ h.reg # "RX_PW_P0" => r2.RX_PW_P0 = r.RX_PW_P0
        /\ h.op \in {"write", "ce"} /\ h.reg = "RX_PW_P0" => r2.RX_PW_P0 = h.val
    BY <2>1, <1>3
  <2> QED BY <2>2, <1>1, SettledStep DEF Sized
<1>8. Untouched(Tail(t), r2)
  <2>1. \A g \in Touched : g \in DOMAIN PowerOn
    BY DEF Touched, PowerOn
  <2>2. h.reg \notin Touched
    BY TailIs DEF Untouched
  <2>3. \A g \in Touched : r2[g] = r[g]
    BY <2>1, <2>2 DEF Effect
  <2>4. \A i \in DOMAIN Tail(t) : Tail(t)[i].reg \notin Touched
    BY TailIs DEF Untouched
  <2> QED BY <2>3, <2>4 DEF Untouched
<1> QED BY <1>4, <1>5, <1>6, <1>7, <1>8

\* A sequence of one.
LEMMA SingleIs ==
  ASSUME NEW T, NEW t \in Seq(T), Len(t) = 1
  PROVE  t = <<t[1]>>
<1>1. \E e \in T : e = t[1] /\ t = <<e>>
  OBVIOUS
<1> QED BY <1>1

\* After the high half of a pulse comes the low one, and nothing else.
LEMMA PulseThenLow ==
  ASSUME NEW t \in Seq(Transfers), t # <<>>, PulsesEnd(t), t[1].op = "pulse"
  PROVE  Tail(t) = CeLow
<1>1. 1 \in DOMAIN t
  BY TailIs
<1>2. 1 + 1 = Len(t) /\ t[1 + 1] = CeLow[1]
  BY <1>1 DEF PulsesEnd
<1>3. Tail(t) \in Seq(Transfers) /\ Len(Tail(t)) = 1 /\ Tail(t)[1] = CeLow[1]
  <2>1. /\ Tail(t) \in Seq(Transfers) /\ Len(Tail(t)) = Len(t) - 1 /\ DOMAIN Tail(t) = 1 .. Len(t) - 1
        /\ \A i \in DOMAIN Tail(t) : Tail(t)[i] = t[i + 1]
    BY TailIs
  <2>2. Len(t) = 2 /\ 1 \in DOMAIN Tail(t) /\ t[1 + 1] = CeLow[1]
    BY <1>2, <2>1
  <2> QED BY <2>1, <2>2
<1>4. Tail(t) = <<CeLow[1]>>
  BY <1>3, SingleIs
<1> QED BY <1>4 DEF CeLow, Step

\* CE is low while a payload could leave, after a transaction too.
LEMMA StationEdges ==
  ASSUME SetupTypeOK, NEW n \in Stations, NEW t \in Seq(Transfers), t # <<>>, NEW r, NEW r2,
         NEW c \in BOOLEAN, NEW c2, NEW open, NEW open2, Effect(n, t, r, c, open, r2, c2, open2),
         LowFirst(t, c), HearsFirst(t, r), PulsesEnd(t), Quiet(n, t, r, c)
  PROVE  /\ LowFirst(Tail(t), c2) /\ HearsFirst(Tail(t), r2) /\ PulsesEnd(Tail(t))
         /\ Quiet(n, Tail(t), r2, c2)
<1> DEFINE h == t[1]
<1>1. h \in Transfers /\ 1 \in DOMAIN t
  BY TailIs
<1>2. LowFirst(Tail(t), c2)
  <2> SUFFICES ASSUME NEW i \in DOMAIN Tail(t), Tail(t)[i].reg = "CONFIG", Sends(Tail(t)[i].val)
               PROVE  (i = 1 /\ c2 = FALSE) \/ (i > 1 /\ Tail(t)[i - 1].op = "ce" /\ Tail(t)[i - 1].val = FALSE)
    BY DEF LowFirst
  <2> DEFINE k == i + 1
  <2>0. k \in DOMAIN t /\ Tail(t)[i] = t[k] /\ i \in Nat \ {0} /\ k - 1 = i /\ k > 1
    BY TailIs
  <2>1. t[k - 1].op = "ce" /\ t[k - 1].val = FALSE
    BY <2>0 DEF LowFirst
  <2>2. CASE i = 1
    BY <2>0, <2>1, <2>2, <1>1, TransferType DEF Effect
  <2>3. CASE i > 1
    BY <2>0, <2>1, <2>3, TailIs
  <2>4. i = 1 \/ i > 1
    BY <2>0
  <2> QED BY <2>2, <2>3, <2>4
<1>3. HearsFirst(Tail(t), r2)
  <2> SUFFICES ASSUME NEW i \in DOMAIN Tail(t), Tail(t)[i].op = "ce", Tail(t)[i].val = TRUE
               PROVE  \/ i = 1 /\ Hears(r2.CONFIG)
                      \/ i > 1 /\ Tail(t)[i - 1].reg = "CONFIG" /\ Hears(Tail(t)[i - 1].val)
    BY DEF HearsFirst
  <2>1. t[i].reg = "CONFIG" /\ Hears(t[i].val)
    BY TailIs DEF HearsFirst
  <2>2. CASE i = 1
    <3>1. h.op = "write" /\ h.reg = "CONFIG"
      BY <2>1, <2>2, <1>1, TransferType DEF PowerOn
    <3> QED BY <3>1, <2>1, <2>2 DEF Effect
  <2>3. CASE i > 1
    BY <2>1, <2>3, TailIs
  <2> QED BY <2>2, <2>3, TailIs
<1>4. PulsesEnd(Tail(t))
  BY TailIs DEF PulsesEnd
<1>5. Quiet(n, Tail(t), r2, c2)
  <2> SUFFICES ASSUME c2 = TRUE, Sends(r2.CONFIG), Tail(t) # SetUpRadio(n)
               PROVE  Tail(t) = CeLow
    BY DEF Quiet
  <2>1. CASE h.op = "pulse"
    BY <2>1, PulseThenLow
  <2>2. CASE h.op = "ce"
    <3>1. h.val = TRUE
      BY <2>2, <1>1, TransferType DEF Effect
    <3>2. Hears(r.CONFIG)
      BY <2>2, <3>1, <1>1 DEF HearsFirst
    <3>3. r2.CONFIG = r.CONFIG
      BY <2>2, <1>1, TransferType DEF Effect, PowerOn
    <3> QED BY <3>2, <3>3 DEF Hears, Sends
  <2>3. CASE h.reg = "CONFIG"
    <3>1. h.op = "write" /\ r2.CONFIG = h.val /\ c2 = c
      BY <2>3, <1>1, TransferType DEF Effect, PowerOn
    <3>2. c = FALSE
      BY <3>1, <2>3, <1>1 DEF LowFirst
    <3> QED BY <3>1, <3>2
  <2>4. CASE h.op \notin {"pulse", "ce"} /\ h.reg # "CONFIG"
    <3>1. c2 = c /\ r2.CONFIG = r.CONFIG
      BY <2>4, <1>1, TransferType DEF Effect, PowerOn
    <3>2. t = SetUpRadio(n) \/ t = CeLow
      BY <3>1 DEF Quiet
    <3>3. h.op = "ce"
      BY <3>2, SetUpIs DEF CeLow, Step
    <3> QED BY <3>3, <2>4
  <2> QED BY <2>1, <2>2, <2>3, <2>4
<1> QED BY <1>2, <1>3, <1>4, <1>5

\* The phases of enabling the features, each by the step that ends it.
LEMMA NoneButTail ==
  ASSUME NEW t \in Seq(Transfers), t # <<>>, NEW lo \in Nat, NEW hi \in Nat, NoneBut(t, lo, hi)
  PROVE  /\ NoneBut(Tail(t), lo - 1, hi - 1)
         /\ lo <= 1 => NoneBut(Tail(t), 1, hi - 1)
<1>1. \A i \in DOMAIN Tail(t) : i + 1 \in lo .. hi => i \in lo - 1 .. hi - 1 /\ (lo <= 1 => i \in 1 .. hi - 1)
  BY TailIs
<1> QED BY <1>1, TailIs DEF NoneBut

\* A transaction leads from a phase to itself or the next.
LEMMA StationFeatures ==
  ASSUME NEW n \in Stations, NEW t \in Seq(Transfers), t # <<>>, NEW r, NEW r2,
         NEW c, NEW c2, NEW open, NEW open2, Effect(n, t, r, c, open, r2, c2, open2),
         Featured(n, t, r, open)
  PROVE  Featured(n, Tail(t), r2, open2)
<1> SUFFICES ASSUME firmware = "ack_payload"
             PROVE  Featured(n, Tail(t), r2, open2)
  BY DEF Featured
<1> DEFINE h == t[1]
           u == Tail(t)
<1>1. h \in Transfers /\ 1 \in DOMAIN t /\ Len(t) \in Nat /\ Len(u) = Len(t) - 1
  BY TailIs
<1>2. \A i \in 1 .. Len(u) : u[i] = t[i + 1]
  BY TailIs
<1>3. CASE ToEnable(t)
  <2>1. PICK i \in DOMAIN t :
          /\ {i + 1, i + 2} \subseteq DOMAIN t
          /\ Is(t[i], "feature", "FEATURE") /\ Is(t[i + 1], "readback", "FEATURE") /\ Is(t[i + 2], "write", "DYNPD")
          /\ NoneBut(t, i, i + 2)
    BY <1>3 DEF ToEnable
  <2>2. i \in Nat \ {0} /\ DOMAIN t = 1 .. Len(t) /\ DOMAIN u = 1 .. Len(t) - 1
    BY TailIs
  <2>3. CASE i = 1
    <3>1. Len(u) >= 2 /\ u[1] = t[2] /\ u[2] = t[3] /\ NoneBut(u, 1, 2)
      BY <2>1, <2>2, <2>3, <1>1, <1>2, NoneButTail
    <3>2. n \in open2 => FeatureBits \subseteq r2.FEATURE
      BY <2>1, <2>3 DEF Effect, Is
    <3> QED BY <3>1, <3>2, <2>1, <2>3 DEF Featured, ToReadBack
  <2>4. CASE i # 1
    <3>1. PICK k \in Nat : k = i - 1 /\ k >= 1
      BY <2>2, <2>4
    <3>2. {k, k + 1, k + 2} \subseteq DOMAIN u /\ u[k] = t[i] /\ u[k + 1] = t[i + 1] /\ u[k + 2] = t[i + 2]
      BY <3>1, <2>1, <2>2, <1>1, <1>2
    <3>3. NoneBut(u, i - 1, (i + 2) - 1)
      BY <2>1, <2>2, NoneButTail
    <3>4. NoneBut(u, k, k + 2)
      BY <3>1, <3>3, <2>2
    <3> QED BY <3>2, <3>4, <2>1 DEF Featured, ToEnable
  <2> QED BY <2>3, <2>4
<1>4. CASE ToReadBack(n, t, r, open)
  <2>1. h.op = "readback" /\ n \in open2 /\ FeatureBits \subseteq r2.FEATURE
    BY <1>4 DEF ToReadBack, Is, Effect
  <2>2. NoneBut(u, 1, 1) /\ u[1] = t[2] /\ Len(u) >= 1
    BY <1>1, <1>2, <1>4, NoneButTail DEF ToReadBack
  <2> QED BY <1>4, <2>1, <2>2 DEF ToReadBack, ToSize, Featured
<1>5. CASE ToActivate(n, t, open)
  <2>1. n \in open2
    BY <1>5 DEF ToActivate, Is, Effect
  <2>2. NoneBut(u, 1, 3) /\ u[1] = t[2] /\ u[2] = t[3] /\ u[3] = t[4] /\ Len(u) >= 3
    BY <1>1, <1>2, <1>5, NoneButTail DEF ToActivate
  <2> QED BY <1>5, <2>1, <2>2 DEF ToActivate, ToFeature, Featured
<1>6. CASE ToFeature(n, t, open)
  <2>1. n \in open2 /\ FeatureBits \subseteq r2.FEATURE
    BY <1>6 DEF ToFeature, Is, Effect
  <2>2. NoneBut(u, 1, 2) /\ u[1] = t[2] /\ u[2] = t[3] /\ Len(u) >= 2
    BY <1>1, <1>2, <1>6, NoneButTail DEF ToFeature
  <2> QED BY <1>6, <2>1, <2>2 DEF ToFeature, ToConfirm, Featured
<1>9. CASE ToConfirm(n, t, r, open)
  <2>1. n \in open2 /\ FeatureBits \subseteq r2.FEATURE
    BY <1>9 DEF ToConfirm, Is, Effect
  <2>2. NoneBut(u, 1, 1) /\ u[1] = t[2] /\ Len(u) >= 1
    BY <1>1, <1>2, <1>9, NoneButTail DEF ToConfirm
  <2> QED BY <1>9, <2>1, <2>2 DEF ToConfirm, ToSize, Featured
<1>7. CASE ToSize(n, t, r, open)
  <2>1. n \in open2 /\ r2.DYNPD = Pipe0
    BY <1>1, <1>7, TransferType DEF ToSize, Is, Effect
  <2>2. r2.FEATURE = r.FEATURE
    BY <1>7 DEF ToSize, Is, Effect, PowerOn
  <2>3. NoneBut(u, 1, 0)
    BY <1>7, NoneButTail DEF ToSize
  <2> QED BY <1>7, <2>1, <2>2, <2>3 DEF ToSize, Enabled, Featured
<1>8. CASE Enabled(n, t, r, open)
  <2>1. h.reg \notin {"FEATURE", "DYNPD"} /\ \A i \in DOMAIN u : u[i].reg \notin {"FEATURE", "DYNPD"}
    BY <1>1, <1>8, TailIs DEF Enabled, NoneBut
  <2>2. h.op # "activate"
    BY <1>1, <2>1, TransferType
  <2>3. n \in open2 /\ r2.FEATURE = r.FEATURE /\ r2.DYNPD = r.DYNPD
    BY <1>8, <2>1, <2>2 DEF Enabled, Effect, PowerOn
  <2> QED BY <1>8, <2>1, <2>3 DEF Enabled, NoneBut, Featured
<1> QED BY <1>3, <1>4, <1>5, <1>6, <1>7, <1>8, <1>9 DEF Featured

\* A readback without the bits: ACTIVATE, and once more.
LEMMA StationActivates ==
  ASSUME SetupTypeOK, NEW n \in Stations, NEW t \in Seq(Transfers), t # <<>>, NEW r, NEW c, NEW open,
         StationInv(n, t, r, c, open), t[1].op = "readback",
         ~(n \in open /\ FeatureBits \subseteq r.FEATURE)
  PROVE  Activate \o Tail(t) \in Seq(Transfers) /\ StationInv(n, Activate \o Tail(t), r, c, open)
<1> DEFINE u == Activate \o Tail(t)
<1>0. t[1] \in Transfers /\ t[1] = Head(t)
  BY TailIs
<1>1. t[1] \in Transfers /\ t[1].reg = "FEATURE" /\ t[1] = Head(t)
  BY <1>0, TransferType
<1>2. /\ u \in Seq(Transfers) /\ Len(u) = Len(t) + 2 /\ Len(t) \in Nat \ {0}
      /\ Is(u[1], "activate", "FEATURE") /\ Is(u[2], "feature", "FEATURE") /\ Is(u[3], "confirm", "FEATURE")
      /\ \A i \in 4 .. Len(u) : i - 2 \in 2 .. Len(t) /\ u[i] = t[i - 2]
      /\ DOMAIN u = 1 .. Len(u) /\ DOMAIN t = 1 .. Len(t)
  <2>1. Activate \in Seq(Transfers) /\ Len(Activate) = 3
        /\ Is(Activate[1], "activate", "FEATURE") /\ Is(Activate[2], "feature", "FEATURE")
        /\ Is(Activate[3], "confirm", "FEATURE")
    <3>1. [op |-> "activate", reg |-> "FEATURE", val |-> 0] \in Transfers
      BY DEF Transfers
    <3>2. [op |-> "feature", reg |-> "FEATURE", val |-> FeatureBits] \in Transfers
      BY DEF Transfers
    <3>3. [op |-> "confirm", reg |-> "FEATURE", val |-> FeatureBits] \in Transfers
      BY DEF Transfers
    <3>4. PICK a \in Transfers, b \in Transfers, d \in Transfers :
            /\ a = [op |-> "activate", reg |-> "FEATURE", val |-> 0]
            /\ b = [op |-> "feature", reg |-> "FEATURE", val |-> FeatureBits]
            /\ d = [op |-> "confirm", reg |-> "FEATURE", val |-> FeatureBits]
      BY <3>1, <3>2, <3>3
    <3>5. LET s == <<a>> \o <<b>> \o <<d>> IN
          s \in Seq(Transfers) /\ Len(s) = 3 /\ s[1] = a /\ s[2] = b /\ s[3] = d
      OBVIOUS
    <3>6. Activate = <<a>> \o <<b>> \o <<d>>
      BY <3>4 DEF Activate, Step
    <3> QED BY <3>4, <3>5, <3>6 DEF Is
  <2>2. Tail(t) \in Seq(Transfers) /\ Len(Tail(t)) = Len(t) - 1 /\ Len(t) \in Nat \ {0}
        /\ DOMAIN t = 1 .. Len(t) /\ DOMAIN Tail(t) = 1 .. Len(t) - 1
        /\ \A i \in DOMAIN Tail(t) : Tail(t)[i] = t[i + 1]
    BY TailIs
  <2>3. u \in Seq(Transfers) /\ Len(u) = Len(t) + 2 /\ u[1] = Activate[1] /\ u[2] = Activate[2]
        /\ u[3] = Activate[3]
        /\ \A i \in 4 .. Len(u) : u[i] = Tail(t)[i - 3]
    <3>1. PICK a \in Seq(Transfers) : a = Activate /\ Len(a) = 3
      BY <2>1
    <3>2. PICK b \in Seq(Transfers) : b = Tail(t) /\ Len(b) = Len(t) - 1
      BY <2>2
    <3>3. /\ Len(a \o b) = Len(a) + Len(b) /\ a \o b \in Seq(Transfers)
          /\ \A i \in 1 .. Len(a) + Len(b) : (a \o b)[i] = IF i <= Len(a) THEN a[i] ELSE b[i - Len(a)]
      BY ConcatProperties
    <3>4. u = a \o b
      BY <3>1, <3>2
    <3> HIDE DEF u
    <3> QED BY <3>1, <3>2, <3>3, <3>4, <2>2
  <2>4. \A i \in 4 .. Len(u) : i - 3 \in DOMAIN Tail(t) /\ i - 2 \in 2 .. Len(t) /\ Tail(t)[i - 3] = t[i - 2]
    <3>1. ASSUME NEW i \in 4 .. Len(u)
          PROVE  i - 3 \in DOMAIN Tail(t) /\ i - 2 \in 2 .. Len(t) /\ (i - 3) + 1 = i - 2
      <4> HIDE DEF u
      <4> QED BY <2>2, <2>3
    <3> QED BY <3>1, <2>2
  <2>5. DOMAIN u = 1 .. Len(u)
    BY <2>3
  <2> HIDE DEF u
  <2> QED BY <2>1, <2>2, <2>3, <2>4, <2>5
<1> HIDE DEF u
<1>3. ASSUME NEW g, g # "FEATURE", NEW v, NEW now, Settled(t, g, v, now)
      PROVE  Settled(u, g, v, now)
  <2>1. \A i \in DOMAIN u : u[i].reg = "FEATURE" \/ (i - 2 \in DOMAIN t /\ i - 2 > 1 /\ u[i] = t[i - 2])
    BY <1>2 DEF Is
  <2>2. CASE now = v /\ \A i \in DOMAIN t : t[i].reg # g
    BY <1>3, <2>1, <2>2 DEF Settled
  <2>3. ASSUME NEW i \in DOMAIN t,
               t[i].op \in {"write", "ce"} /\ t[i].reg = g /\ t[i].val = v,
               \A j \in DOMAIN t : j > i => t[j].reg # g
        PROVE  Settled(u, g, v, now)
    <3>1. i # 1
      BY <2>3, <1>1, <1>3
    <3>2. i + 2 \in DOMAIN u /\ u[i + 2] = t[i]
      BY <3>1, <1>2
    <3>3. \A j \in DOMAIN u : j > i + 2 => u[j].reg # g
      BY <2>1, <2>3, <1>3, <1>2
    <3> QED BY <2>3, <3>2, <3>3 DEF Settled
  <2> QED BY <1>3, <2>2, <2>3 DEF Settled
<1>4. Registered(u, r) /\ Moded(n, u, r) /\ Listening(n, u, c) /\ Sized(u, r)
  BY <1>3 DEF StationInv, Registered, Goal, Moded, Listening, Sized
<1>5. firmware = "ack_payload" /\ Untouched(u, r)
  <2>1. "FEATURE" \notin Touched
    BY <1>1, TailIs DEF StationInv, Untouched
  <2>2. firmware = "ack_payload" /\ Touched = {"RX_PW_P0"}
    BY <2>1 DEF Touched
  <2>3. \A i \in DOMAIN t : t[i].reg # "RX_PW_P0"
    BY <2>2 DEF StationInv, Untouched
  <2>4. \A i \in DOMAIN u : u[i].reg = "FEATURE" \/ (i - 2 \in DOMAIN t /\ u[i] = t[i - 2])
    BY <1>2 DEF Is
  <2>5. \A i \in DOMAIN u : u[i].reg \notin Touched
    BY <2>2, <2>3, <2>4
  <2> QED BY <2>2, <2>5 DEF StationInv, Untouched
<1>6. Featured(n, u, r, open)
  <2>1. ToReadBack(n, t, r, open)
    <3>1. ~ToEnable(t)
      BY <1>1, <1>2 DEF ToEnable, Is, NoneBut
    <3>2. ~Enabled(n, t, r, open)
      BY <1>1, <1>2 DEF Enabled, NoneBut
    <3> QED BY <3>1, <3>2, <1>5 DEF StationInv, Featured, ToActivate, ToFeature, ToConfirm, ToSize, Is
  <2>2. n \notin open
    BY <2>1 DEF ToReadBack
  <2>3. Is(u[4], "write", "DYNPD") /\ Len(u) >= 4
    BY <1>2, <2>1 DEF ToReadBack
  <2>4. NoneBut(u, 1, 4)
    <3>1. \A i \in DOMAIN u : i > 4 => i - 2 \in DOMAIN t /\ i - 2 \notin 1 .. 2 /\ u[i] = t[i - 2]
      BY <1>2
    <3>2. NoneBut(t, 1, 2)
      BY <2>1 DEF ToReadBack
    <3> SUFFICES ASSUME NEW i \in DOMAIN u, i \notin 1 .. 4 PROVE u[i].reg \notin {"FEATURE", "DYNPD"}
      BY DEF NoneBut
    <3>3. i > 4
      BY <1>2
    <3> QED BY <3>1, <3>2, <3>3 DEF NoneBut
  <2> QED BY <1>2, <2>2, <2>3, <2>4 DEF Featured, ToActivate
<1>7. LowFirst(u, c)
  <2> SUFFICES ASSUME NEW i \in DOMAIN u, u[i].reg = "CONFIG", Sends(u[i].val)
               PROVE  i > 1 /\ u[i - 1].op = "ce" /\ u[i - 1].val = FALSE
    BY DEF LowFirst
  <2>1. i \in 4 .. Len(u)
    BY <1>2 DEF Is
  <2>2. t[(i - 2) - 1].op = "ce" /\ t[(i - 2) - 1].val = FALSE
    BY <2>1, <1>2 DEF StationInv, LowFirst
  <2>3. i # 4
    BY <2>2, <1>1, TransferType
  <2>4. i - 1 \in 4 .. Len(u) /\ u[i - 1] = t[(i - 2) - 1]
    BY <1>2, <2>1, <2>3
  <2> QED BY <2>1, <2>2, <2>4
<1>8. HearsFirst(u, r)
  <2> SUFFICES ASSUME NEW i \in DOMAIN u, u[i].op = "ce", u[i].val = TRUE
               PROVE  i > 1 /\ u[i - 1].reg = "CONFIG" /\ Hears(u[i - 1].val)
    BY DEF HearsFirst
  <2>1. i \in 4 .. Len(u)
    BY <1>2 DEF Is
  <2>2. t[(i - 2) - 1].reg = "CONFIG" /\ Hears(t[(i - 2) - 1].val)
    BY <2>1, <1>2 DEF StationInv, HearsFirst
  <2>3. i # 4
    BY <2>2, <1>1
  <2>4. i - 1 \in 4 .. Len(u) /\ u[i - 1] = t[(i - 2) - 1]
    BY <1>2, <2>1, <2>3
  <2> QED BY <2>1, <2>2, <2>4
<1>9. PulsesEnd(u)
  <2> SUFFICES ASSUME NEW i \in DOMAIN u, u[i].op = "pulse"
               PROVE  i + 1 = Len(u) /\ u[i + 1] = CeLow[1]
    BY DEF PulsesEnd
  <2>1. i \in 4 .. Len(u)
    BY <1>2 DEF Is
  <2>2. (i - 2) + 1 = Len(t) /\ t[(i - 2) + 1] = CeLow[1]
    BY <2>1, <1>2 DEF StationInv, PulsesEnd
  <2>3. i + 1 \in 4 .. Len(u) /\ u[i + 1] = t[(i - 2) + 1]
    BY <1>2, <2>1, <2>2
  <2> QED BY <2>2, <2>3, <1>2, <2>1
<1>10. Quiet(n, u, r, c)
  <2>1. SetUpRadio(n)[1].op = "ce" /\ CeLow[1].op = "ce"
    BY SetUpIs DEF CeLow, Step
  <2> QED BY <2>1 DEF StationInv, Quiet
<1> QED BY <1>2, <1>4, <1>5, <1>6, <1>7, <1>8, <1>9, <1>10 DEF StationInv, u

\* A node at rest has what it set up.
Rested(n, r, c, open) ==
  /\ \A g \in DOMAIN Goal \ {"RX_PW_P0"} : r[g] = Goal[g]
  /\ r.CONFIG = Mode(n) /\ (n = "receiver" => c = TRUE)
  /\ \A g \in Touched : r[g] = PowerOn[g]
  /\ firmware # "ack_payload" => r.RX_PW_P0 = 32
  /\ firmware = "ack_payload" => n \in open /\ FeatureBits \subseteq r.FEATURE /\ r.DYNPD = Pipe0
  /\ ~(c = TRUE /\ Sends(r.CONFIG))

LEMMA StationRests ==
  ASSUME SetupTypeOK, NEW n \in Stations, NEW r, NEW c, NEW open, StationInv(n, <<>>, r, c, open)
  PROVE  Rested(n, r, c, open)
<1>1. \A g, v, now : Settled(<<>>, g, v, now) => now = v
  BY DEF Settled
<1>2. firmware = "ack_payload" => Enabled(n, <<>>, r, open)
  BY DEF StationInv, Featured, ToEnable, ToReadBack, ToActivate, ToFeature, ToConfirm, ToSize
<1>3. <<>> # SetUpRadio(n) /\ <<>> # CeLow
  <2>1. SetUpRadio(n) # <<>>
    BY AckPayloadIs, FixedIs DEF SetupTypeOK
  <2> QED BY <2>1 DEF CeLow, Step
<1>4. /\ \A g \in DOMAIN Goal \ {"RX_PW_P0"} : r[g] = Goal[g]
      /\ r.CONFIG = Mode(n) /\ (n = "receiver" => c = TRUE)
      /\ \A g \in Touched : r[g] = PowerOn[g]
      /\ firmware # "ack_payload" => r.RX_PW_P0 = 32
  BY <1>1 DEF StationInv, Registered, Moded, Listening, Untouched, Sized
<1> QED BY <1>2, <1>3, <1>4 DEF StationInv, Enabled, Quiet, Rested

\* What a round or a mode switch leaves alone: all but CONFIG and CE.
LEMMA StationKeeps ==
  ASSUME SetupTypeOK, NEW n \in Stations, NEW r, NEW c, NEW open, StationInv(n, <<>>, r, c, open),
         NEW t \in Seq(Transfers), \A i \in DOMAIN t : t[i].reg \in {"CONFIG", "CE", "TX"}
  PROVE  /\ Registered(t, r) /\ Untouched(t, r) /\ Sized(t, r) /\ Featured(n, t, r, open)
         /\ Quiet(n, t, r, c)
<1>0. Rested(n, r, c, open)
  BY StationRests
<1>1. \A g, v : g \notin {"CONFIG", "CE", "TX"} => Settled(t, g, v, v)
  BY DEF Settled
<1>2. Registered(t, r)
  <2> SUFFICES ASSUME NEW g \in DOMAIN Goal \ {"RX_PW_P0"}
               PROVE  Settled(t, g, Goal[g], r[g])
    BY DEF Registered
  <2>1. r[g] = Goal[g]
    BY <1>0 DEF Rested
  <2>2. g \notin {"CONFIG", "CE", "TX"}
    BY DEF Goal
  <2> QED BY <1>1, <2>1, <2>2
<1>3. Untouched(t, r)
  BY <1>0 DEF Untouched, Touched, Rested
<1>4. Sized(t, r)
  BY <1>0, <1>1 DEF Sized, Rested
<1>5. Featured(n, t, r, open)
  BY <1>0 DEF Featured, Enabled, NoneBut, Rested
<1> QED BY <1>2, <1>3, <1>4, <1>5, <1>0 DEF Quiet, Rested

\* A round of the sender.
LEMMA StationSends ==
  ASSUME SetupTypeOK, NEW n \in Stations, NEW r, NEW c, NEW open, StationInv(n, <<>>, r, c, open), Sends(r.CONFIG)
  PROVE  LET t == flush_tx \o write_payload \o pulse_ce IN
         t \in Seq(Transfers) /\ StationInv(n, t, r, c, open)
<1> DEFINE t == flush_tx \o write_payload \o pulse_ce
<1>1. PICK a \in Transfers, b \in Transfers, p \in Transfers, z \in Transfers :
        /\ a = [op |-> "flush", reg |-> "TX", val |-> 0] /\ b = [op |-> "load", reg |-> "TX", val |-> 0]
        /\ p = [op |-> "pulse", reg |-> "CE", val |-> TRUE] /\ z = [op |-> "ce", reg |-> "CE", val |-> FALSE]
  BY Singles
<1>2. t = <<a>> \o <<b>> \o (<<p>> \o <<z>>)
  BY <1>1 DEF flush_tx, write_payload, pulse_ce, CeLow, Step
<1>3. t \in Seq(Transfers) /\ Len(t) = 4 /\ t[1] = a /\ t[2] = b /\ t[3] = p /\ t[4] = z
  <2>1. LET s == <<a>> \o <<b>> \o (<<p>> \o <<z>>) IN
        s \in Seq(Transfers) /\ Len(s) = 4 /\ s[1] = a /\ s[2] = b /\ s[3] = p /\ s[4] = z
    OBVIOUS
  <2> QED BY <1>2, <2>1
<1> HIDE DEF t
<1>4. DOMAIN t = 1 .. 4
  BY <1>3, LenProperties
<1>5. \A i \in DOMAIN t :
        /\ t[i].reg \in {"TX", "CE"} /\ (t[i].op = "ce" => t[i].val = FALSE)
        /\ t[i].op = "pulse" => i = 3
  BY <1>1, <1>3, <1>4
<1>6. n = "sender" /\ r.CONFIG = Mode(n)
  <2>1. Rested(n, r, c, open)
    BY StationRests
  <2> QED BY <2>1 DEF Rested, Sends, Mode
<1>7. Moded(n, t, r) /\ Listening(n, t, c)
  BY <1>5, <1>6 DEF Moded, Listening, Settled
<1>8. LowFirst(t, c) /\ HearsFirst(t, r)
  BY <1>5 DEF LowFirst, HearsFirst
<1>9. PulsesEnd(t)
  <2>1. t[3 + 1] = CeLow[1] /\ 3 + 1 = Len(t)
    BY <1>1, <1>3 DEF CeLow, Step
  <2> QED BY <1>5, <2>1 DEF PulsesEnd
<1>10. Registered(t, r) /\ Untouched(t, r) /\ Sized(t, r) /\ Featured(n, t, r, open) /\ Quiet(n, t, r, c)
  BY <1>3, <1>5, StationKeeps
<1> QED BY <1>3, <1>7, <1>8, <1>9, <1>10 DEF StationInv, t

\* An ACK payload of the receiver.
LEMMA StationLoads ==
  ASSUME SetupTypeOK, NEW n \in Stations, NEW r, NEW c, NEW open, StationInv(n, <<>>, r, c, open)
  PROVE  write_payload \in Seq(Transfers) /\ StationInv(n, write_payload, r, c, open)
<1> DEFINE t == write_payload
<1>1. PICK b \in Transfers : b = [op |-> "load", reg |-> "TX", val |-> 0]
  BY Singles
<1>2. t = <<b>>
  BY <1>1 DEF write_payload, Step
<1>3. t \in Seq(Transfers) /\ DOMAIN t = 1 .. 1 /\ t[1] = b
  BY <1>2
<1> HIDE DEF t
<1>4. \A i \in DOMAIN t : t[i].reg = "TX" /\ t[i].op = "load"
  BY <1>1, <1>3
<1>5. Moded(n, t, r) /\ Listening(n, t, c)
  <2>0. Rested(n, r, c, open)
    BY StationRests
  <2>1. r.CONFIG = Mode(n) /\ (n = "receiver" => c = TRUE)
    BY <2>0 DEF Rested
  <2> QED BY <1>4, <2>1 DEF Moded, Listening, Settled
<1>6. LowFirst(t, c) /\ HearsFirst(t, r) /\ PulsesEnd(t)
  BY <1>4 DEF LowFirst, HearsFirst, PulsesEnd
<1>7. Registered(t, r) /\ Untouched(t, r) /\ Sized(t, r) /\ Featured(n, t, r, open) /\ Quiet(n, t, r, c)
  BY <1>3, <1>4, StationKeeps
<1> QED BY <1>3, <1>5, <1>6, <1>7 DEF StationInv, t

\* Away and back: the driver's four mode functions, then recover.
Away(a, b) ==
  \/ a = CeLow[1] /\ b.op = "write" /\ b.reg = "CONFIG"
  \/ a.op = "write" /\ a.reg = "CONFIG" /\ Hears(a.val) /\ b = CeHigh[1]

\* Each mode function is two transactions.
LEMMA AwayIs ==
  ASSUME NEW away \in {power_down, enter_standby, enter_rx, enter_tx}
  PROVE  \E a \in Transfers, b \in Transfers : away = <<a>> \o <<b>> /\ Away(a, b)
<1>1. PICK low \in Transfers, high \in Transfers, off \in Transfers, up \in Transfers, rx \in Transfers :
        /\ low = [op |-> "ce", reg |-> "CE", val |-> FALSE] /\ high = [op |-> "ce", reg |-> "CE", val |-> TRUE]
        /\ off = Writing("CONFIG", {}) /\ up = Writing("CONFIG", {"PWR_UP"})
        /\ rx = Writing("CONFIG", {"PWR_UP", "PRIM_RX"})
  BY Singles
<1>2. /\ CeLow = <<low>> /\ CeHigh = <<high>> /\ WriteReg("CONFIG", {}) = <<off>>
      /\ WriteReg("CONFIG", {"PWR_UP"}) = <<up>> /\ WriteReg("CONFIG", {"PWR_UP", "PRIM_RX"}) = <<rx>>
  BY <1>1 DEF CeLow, CeHigh, WriteReg, Step, Writing
<1>3. CeLow[1] = low /\ CeHigh[1] = high
  BY <1>1 DEF CeLow, CeHigh, Step
<1>4. Away(low, off) /\ Away(low, up) /\ Away(rx, high)
  BY <1>1, <1>3 DEF Away, Writing, Hears
<1>5. /\ power_down = <<low>> \o <<off>> /\ enter_standby = <<low>> \o <<up>>
      /\ enter_rx = <<rx>> \o <<high>> /\ enter_tx = <<low>> \o <<up>>
  BY <1>2 DEF power_down, enter_standby, enter_rx, enter_tx
<1> QED BY <1>4, <1>5

\* Any mode and back.
LEMMA StationSwitches ==
  ASSUME SetupTypeOK, NEW n \in Stations, NEW r, NEW c, NEW open, StationInv(n, <<>>, r, c, open),
         NEW away \in {power_down, enter_standby, enter_rx, enter_tx}
  PROVE  LET t == away \o recover(Enter(n)) IN
         t \in Seq(Transfers) /\ StationInv(n, t, r, c, open)
<1> DEFINE t == away \o recover(Enter(n))
<1>1. PICK a \in Transfers, b \in Transfers : away = <<a>> \o <<b>> /\ Away(a, b)
  BY AwayIs
<1>2. PICK e \in Seq(Transfers) : e = Enter(n) /\ Len(e) = 2 /\ e[1] = Entered(n)[1] /\ e[2] = Entered(n)[2]
  BY EnterIs
<1>3. PICK low \in Transfers, flush \in Transfers :
        low = [op |-> "ce", reg |-> "CE", val |-> FALSE] /\ flush = [op |-> "flush", reg |-> "TX", val |-> 0]
  BY Singles
<1>4. CeLow = <<low>> /\ flush_tx = <<flush>> /\ CeLow[1] = low
  BY <1>3 DEF CeLow, flush_tx, Step
<1>5. t = (<<a>> \o <<b>>) \o (<<low>> \o <<flush>> \o e)
  BY <1>1, <1>2, <1>4 DEF recover
<1>6. /\ t \in Seq(Transfers) /\ Len(t) = 6
      /\ t[1] = a /\ t[2] = b /\ t[3] = low /\ t[4] = flush /\ t[5] = e[1] /\ t[6] = e[2]
  <2> DEFINE s == (<<a>> \o <<b>>) \o (<<low>> \o <<flush>>)
  <2>1. s \in Seq(Transfers) /\ Len(s) = 4 /\ s[1] = a /\ s[2] = b /\ s[3] = low /\ s[4] = flush
    OBVIOUS
  <2>2. t = s \o e
    <3>1. (<<a>> \o <<b>>) \o ((<<low>> \o <<flush>>) \o e) = ((<<a>> \o <<b>>) \o (<<low>> \o <<flush>>)) \o e
      <4>1. <<a>> \o <<b>> \in Seq(Transfers) /\ <<low>> \o <<flush>> \in Seq(Transfers)
        OBVIOUS
      <4> QED BY <4>1, ConcatAssociative
    <3> QED BY <1>5, <3>1
  <2> HIDE DEF s, t
  <2>3. /\ s \o e \in Seq(Transfers) /\ Len(s \o e) = Len(s) + Len(e)
        /\ \A i \in 1 .. Len(s) : (s \o e)[i] = s[i]
        /\ \A i \in 1 .. Len(e) : (s \o e)[Len(s) + i] = e[i]
    <3>1. s \in Seq(Transfers)
      BY <2>1
    <3> QED BY <3>1, Joined
  <2>4. t[4 + 1] = e[1] /\ t[4 + 2] = e[2]
    BY <1>2, <2>1, <2>2, <2>3
  <2> QED BY <1>2, <2>1, <2>2, <2>3, <2>4
<1> HIDE DEF t
<1>7. DOMAIN t = 1 .. 6
  BY <1>6, LenProperties
<1>8. \/ /\ t[1].op = "ce" /\ t[1].reg = "CE" /\ t[1].val = FALSE /\ t[2].op = "write" /\ t[2].reg = "CONFIG"
      \/ /\ t[1].op = "write" /\ t[1].reg = "CONFIG" /\ Hears(t[1].val)
         /\ t[2].op = "ce" /\ t[2].reg = "CE" /\ t[2].val = TRUE
  BY <1>1, <1>6 DEF Away, CeLow, CeHigh, Step
<1>9. t[3].op = "ce" /\ t[3].reg = "CE" /\ t[3].val = FALSE /\ t[4].op = "flush" /\ t[4].reg = "TX"
  BY <1>3, <1>6
<1>10. /\ n = "sender" => /\ t[5].op = "ce" /\ t[5].reg = "CE" /\ t[5].val = FALSE
                          /\ t[6].op = "write" /\ t[6].reg = "CONFIG" /\ t[6].val = Mode(n)
       /\ n # "sender" => /\ t[5].op = "write" /\ t[5].reg = "CONFIG" /\ t[5].val = Mode(n)
                          /\ t[6].op = "ce" /\ t[6].reg = "CE" /\ t[6].val = TRUE
  BY <1>2, <1>6 DEF Entered, Writing, CeLow, CeHigh, Step
<1>11. \A i \in DOMAIN t : t[i].reg \in {"CONFIG", "CE", "TX"} /\ t[i].op # "pulse"
  BY <1>7, <1>8, <1>9, <1>10
<1>12. Moded(n, t, r) /\ Listening(n, t, c)
  <2>1. CASE n = "sender"
    <3>1. 6 \in DOMAIN t /\ \A j \in DOMAIN t : j > 6 => t[j].reg # "CONFIG"
      BY <1>7
    <3> QED BY <1>10, <2>1, <3>1 DEF Moded, Listening, Settled
  <2>2. CASE n # "sender"
    <3>1. 5 \in DOMAIN t /\ \A j \in DOMAIN t : j > 5 => t[j].reg # "CONFIG"
      BY <1>7, <1>10, <2>2
    <3>2. 6 \in DOMAIN t /\ \A j \in DOMAIN t : j > 6 => t[j].reg # "CE"
      BY <1>7
    <3>3. Settled(t, "CONFIG", Mode(n), r.CONFIG)
      BY <1>10, <2>2, <3>1 DEF Settled
    <3>4. Settled(t, "CE", TRUE, c)
      BY <1>10, <2>2, <3>2 DEF Settled
    <3> QED BY <3>3, <3>4 DEF Moded, Listening
  <2> QED BY <2>1, <2>2
<1>13. LowFirst(t, c)
  <2> SUFFICES ASSUME NEW i \in DOMAIN t, t[i].reg = "CONFIG", Sends(t[i].val)
               PROVE  i > 1 /\ t[i - 1].op = "ce" /\ t[i - 1].val = FALSE
    BY DEF LowFirst
  <2>1. i \in {1, 2, 5, 6}
    BY <1>7, <1>9
  <2>2. CASE i \in {1, 2}
    BY <1>8, <2>2 DEF Sends, Hears
  <2>3. CASE i \in {5, 6}
    BY <1>10, <2>3 DEF Sends, Mode
  <2> QED BY <2>1, <2>2, <2>3
<1>14. HearsFirst(t, r)
  <2> SUFFICES ASSUME NEW i \in DOMAIN t, t[i].op = "ce", t[i].val = TRUE
               PROVE  i > 1 /\ t[i - 1].reg = "CONFIG" /\ Hears(t[i - 1].val)
    BY DEF HearsFirst
  <2>1. i \in {1, 2, 5, 6}
    BY <1>7, <1>9
  <2>2. CASE i \in {1, 2}
    BY <1>8, <2>2
  <2>3. CASE i \in {5, 6}
    BY <1>10, <2>3 DEF Hears, Mode
  <2> QED BY <2>1, <2>2, <2>3
<1>15. PulsesEnd(t)
  BY <1>11 DEF PulsesEnd
<1>16. Registered(t, r) /\ Untouched(t, r) /\ Sized(t, r) /\ Featured(n, t, r, open) /\ Quiet(n, t, r, c)
  BY <1>6, <1>11, StationKeeps
<1> QED BY <1>6, <1>12, <1>13, <1>14, <1>15, <1>16 DEF StationInv, t

\* The invariant of a station whose firmware stays, in the next state.
LEMMA StationNext ==
  ASSUME NEW n \in Stations, firmware' = firmware, StationInv(n, spi'[n], radios'[n], ce'[n], unlocked')
  PROVE  StationInv(n, spi[n], radios[n], ce[n], unlocked)'
<1>1. Goal' = Goal
  BY DEF Goal, Address
<1>2. SetUpRadio(n)' = SetUpRadio(n)
  BY DEF SetUpRadio, Configure
<1>3. Registered(spi[n], radios[n])' /\ Moded(n, spi[n], radios[n])' /\ Listening(n, spi[n], ce[n])'
  BY <1>1 DEF StationInv, Registered
<1>4. Untouched(spi[n], radios[n])' /\ Sized(spi[n], radios[n])' /\ Featured(n, spi[n], radios[n], unlocked)'
  BY DEF StationInv, Untouched, Touched, Sized, Featured
<1>5. LowFirst(spi[n], ce[n])' /\ HearsFirst(spi[n], radios[n])' /\ PulsesEnd(spi[n])'
  BY DEF StationInv
<1>6. Quiet(n, spi[n], radios[n], ce[n])'
  BY <1>2 DEF StationInv, Quiet
<1> QED BY <1>3, <1>4, <1>5, <1>6 DEF StationInv

\* A station nobody touches.
Same(m) ==
  /\ spi'[m] = spi[m] /\ radios'[m] = radios[m] /\ ce'[m] = ce[m]
  /\ m \in unlocked' <=> m \in unlocked

\* Nobody touches it: it stands.
LEMMA StationStays ==
  ASSUME NEW m \in Stations, Same(m), StationInv(m, spi[m], radios[m], ce[m], unlocked)
  PROVE  StationInv(m, spi'[m], radios'[m], ce'[m], unlocked')
<1>1. Featured(m, spi'[m], radios'[m], unlocked')
  BY DEF StationInv, Same, Featured, ToReadBack, ToActivate, ToFeature, ToConfirm, ToSize, Enabled
<1> QED BY <1>1 DEF StationInv, Same

\* Its node makes the first transaction.
LEMMA StationMoves ==
  ASSUME SetupInv, NEW n \in Stations, spi[n] # <<>>, spi'[n] = Tail(spi[n]),
         Effect(n, spi[n], radios[n], ce[n], unlocked, radios'[n], ce'[n], unlocked')
  PROVE  StationInv(n, spi'[n], radios'[n], ce'[n], unlocked')
<1>1. SetupTypeOK /\ spi[n] \in Seq(Transfers) /\ ce[n] \in BOOLEAN
  BY DEF SetupInv, SetupTypeOK
<1>2. StationInv(n, spi[n], radios[n], ce[n], unlocked)
  BY DEF SetupInv
<1>3. /\ Registered(Tail(spi[n]), radios'[n]) /\ Moded(n, Tail(spi[n]), radios'[n])
      /\ Listening(n, Tail(spi[n]), ce'[n]) /\ Sized(Tail(spi[n]), radios'[n]) /\ Untouched(Tail(spi[n]), radios'[n])
  BY <1>1, <1>2, StationSettles DEF StationInv
<1>4. Featured(n, Tail(spi[n]), radios'[n], unlocked')
  BY <1>1, <1>2, StationFeatures DEF StationInv
<1>5. /\ LowFirst(Tail(spi[n]), ce'[n]) /\ HearsFirst(Tail(spi[n]), radios'[n]) /\ PulsesEnd(Tail(spi[n]))
      /\ Quiet(n, Tail(spi[n]), radios'[n], ce'[n])
  BY <1>1, <1>2, StationEdges DEF StationInv
<1> QED BY <1>3, <1>4, <1>5 DEF StationInv

\* A register written.
LEMMA StoredIs ==
  ASSUME SetupTypeOK, NEW n \in Stations, NEW reg \in DOMAIN RadioValues, NEW val \in RadioValues[reg]
  PROVE  LET s == Stored(n, reg, val) IN
         /\ DOMAIN s = Stations
         /\ \A m \in Stations : DOMAIN s[m] = DOMAIN RadioValues /\ \A g \in DOMAIN RadioValues : s[m][g] \in RadioValues[g]
         /\ \A m \in Stations : m # n => s[m] = radios[m]
         /\ \A g \in DOMAIN PowerOn : reg # g => s[n][g] = radios[n][g]
         /\ (reg \in {"FEATURE", "DYNPD"} => n \in unlocked) => s[n][reg] = val
<1>1. DOMAIN PowerOn = DOMAIN RadioValues
  BY DEF PowerOn, RadioValues
<1>2. CASE reg \in {"FEATURE", "DYNPD"} /\ n \notin unlocked
  BY <1>2 DEF Stored, SetupTypeOK
<1>3. CASE ~(reg \in {"FEATURE", "DYNPD"} /\ n \notin unlocked)
  <2> DEFINE s == [radios EXCEPT ![n] = [radios[n] EXCEPT ![reg] = val]]
  <2>1. Stored(n, reg, val) = s
    BY <1>3 DEF Stored
  <2>2. DOMAIN radios = Stations /\ \A m \in Stations : DOMAIN radios[m] = DOMAIN RadioValues
    BY DEF SetupTypeOK
  <2>3. \A m \in Stations : \A g \in DOMAIN RadioValues : radios[m][g] \in RadioValues[g]
    BY DEF SetupTypeOK
  <2>4. /\ DOMAIN s = Stations /\ \A m \in Stations : m # n => s[m] = radios[m]
        /\ s[n] = [radios[n] EXCEPT ![reg] = val]
    BY <2>2
  <2>5. /\ DOMAIN s[n] = DOMAIN RadioValues /\ s[n][reg] = val
        /\ \A g \in DOMAIN RadioValues : reg # g => s[n][g] = radios[n][g]
    BY <2>2, <2>4
  <2> HIDE DEF s
  <2> QED BY <1>1, <2>1, <2>2, <2>3, <2>4, <2>5
<1> QED BY <1>2, <1>3

\* A write fits its register.
LEMMA WriteType ==
  ASSUME NEW s \in Transfers, s.op = "write"
  PROVE  s.reg \in DOMAIN RadioValues /\ s.val \in RadioValues[s.reg]
<1>1. 0 \in 0 .. 5 /\ Pipe0 \in SUBSET (0 .. 5)
  BY DEF Pipe0
<1>2. \/ s.reg \in {"RF_CH", "SETUP_AW", "SETUP_RETR", "RX_PW_P0"} /\ s.val \in Nat
      \/ s.reg \in {"TX_ADDR", "RX_ADDR_P0"} /\ s.val \in RadioAddresses
      \/ s.reg \in {"EN_AA", "EN_RXADDR", "DYNPD"} /\ s.val \in SUBSET (0 .. 5)
      \/ s.reg = "RF_SETUP" /\ s.val \in {"1MBPS"} \X Nat
      \/ s.reg = "CONFIG" /\ s.val \in SUBSET {"PWR_UP", "PRIM_RX"}
  BY <1>1 DEF Transfers, RadioAddresses
<1>3. /\ \A g \in {"RF_CH", "SETUP_AW", "SETUP_RETR", "RX_PW_P0"} : g \in DOMAIN RadioValues /\ RadioValues[g] = Nat
      /\ \A g \in {"TX_ADDR", "RX_ADDR_P0"} : g \in DOMAIN RadioValues /\ RadioValues[g] = RadioAddresses
      /\ \A g \in {"EN_AA", "EN_RXADDR", "DYNPD"} : g \in DOMAIN RadioValues /\ RadioValues[g] = SUBSET (0 .. 5)
      /\ "RF_SETUP" \in DOMAIN RadioValues /\ RadioValues["RF_SETUP"] = {"1MBPS", "2MBPS"} \X Nat
      /\ "CONFIG" \in DOMAIN RadioValues /\ RadioValues["CONFIG"] = SUBSET {"PWR_UP", "PRIM_RX"}
  BY DEF RadioValues
<1>4. {"1MBPS"} \X Nat \subseteq {"1MBPS", "2MBPS"} \X Nat
  OBVIOUS
<1> QED BY <1>2, <1>3, <1>4

Others(n) == \A m \in Stations : m # n => Same(m)
TypedNext ==
  /\ plus \subseteq unlocked' /\ unlocked' \subseteq Stations /\ loaded' \subseteq Stations
  /\ ce' \in [Stations -> BOOLEAN] /\ DOMAIN radios' = Stations
  /\ \A m \in Stations : DOMAIN radios'[m] = DOMAIN RadioValues /\ \A g \in DOMAIN RadioValues : radios'[m][g] \in RadioValues[g]
  /\ original' \in [Stations -> RadioAddresses] /\ spi' \in [Stations -> Seq(Transfers)]

\* A step of one node, whatever it does to its own station.
LEMMA StepHolds ==
  ASSUME SetupInv, NEW n \in Stations, firmware' = firmware, plus' = plus, restarts' \in Nat, TypedNext, Others(n),
         StationInv(n, spi'[n], radios'[n], ce'[n], unlocked')
  PROVE  SetupInv'
<1>1. SetupTypeOK' /\ (plus \subseteq unlocked)'
  BY DEF TypedNext, SetupInv, SetupTypeOK
<1>2. ASSUME NEW m \in Stations
      PROVE  StationInv(m, spi[m], radios[m], ce[m], unlocked)'
  <2>1. CASE m = n
    BY <2>1, StationNext
  <2>2. CASE m # n
    <3>1. Same(m) /\ StationInv(m, spi[m], radios[m], ce[m], unlocked)
      BY <2>2 DEF Others, SetupInv
    <3>2. StationInv(m, spi'[m], radios'[m], ce'[m], unlocked')
      BY <3>1, StationStays
    <3> QED BY <3>2, StationNext
  <2> QED BY <2>1, <2>2
<1> QED BY <1>1, <1>2 DEF SetupInv

\* The first transaction is taken off.
LEMMA SentIs ==
  ASSUME SetupTypeOK, NEW n \in Stations, spi[n] # <<>>, Sent(n)
  PROVE  /\ spi'[n] = Tail(spi[n]) /\ spi' \in [Stations -> Seq(Transfers)]
         /\ \A m \in Stations : m # n => spi'[m] = spi[m]
         /\ Current(n) = spi[n][1] /\ Current(n) \in Transfers
<1>1. spi \in [Stations -> Seq(Transfers)] /\ spi[n] \in Seq(Transfers)
  BY DEF SetupTypeOK
<1>2. Tail(spi[n]) \in Seq(Transfers) /\ Head(spi[n]) = spi[n][1] /\ Head(spi[n]) \in Transfers
  BY <1>1, HeadTailProperties
<1>3. spi' = [spi EXCEPT ![n] = Tail(spi[n])]
  BY DEF Sent
<1> QED BY <1>1, <1>2, <1>3 DEF Current

\* A transaction with its effect.
LEMMA MoveHolds ==
  ASSUME SetupInv, NEW n \in Stations, spi[n] # <<>>, UNCHANGED <<firmware, plus, restarts>>,
         spi'[n] = Tail(spi[n]), TypedNext, Others(n),
         Effect(n, spi[n], radios[n], ce[n], unlocked, radios'[n], ce'[n], unlocked')
  PROVE  SetupInv'
<1>1. StationInv(n, spi'[n], radios'[n], ce'[n], unlocked')
  BY StationMoves
<1>2. restarts' \in Nat
  BY DEF SetupInv, SetupTypeOK
<1> QED BY <1>1, <1>2, StepHolds

\* A transaction that writes one register, with the value val.
LEMMA StoreHolds ==
  ASSUME SetupInv, NEW n \in Stations, spi[n] # <<>>, Sent(n), UNCHANGED <<firmware, plus, restarts>>,
         NEW reg \in DOMAIN RadioValues, NEW val \in RadioValues[reg], radios' = Stored(n, reg, val),
         UNCHANGED <<unlocked, ce, loaded, original>>,
         Current(n).reg = reg, Current(n).op \notin {"readback", "confirm", "activate"}, reg # "CE",
         Current(n).op = "write" => val = Current(n).val,
         Current(n).op = "feature" => reg = "FEATURE" /\ (n \in unlocked => val = radios[n].FEATURE \cup FeatureBits)
  PROVE  SetupInv'
<1> DEFINE s == Stored(n, reg, val)
<1>0. SetupTypeOK /\ plus \subseteq unlocked
  BY DEF SetupInv
<1>1. /\ DOMAIN s = Stations
      /\ \A m \in Stations : DOMAIN s[m] = DOMAIN RadioValues /\ \A g \in DOMAIN RadioValues : s[m][g] \in RadioValues[g]
      /\ \A m \in Stations : m # n => s[m] = radios[m]
      /\ \A g \in DOMAIN PowerOn : reg # g => s[n][g] = radios[n][g]
      /\ (reg \in {"FEATURE", "DYNPD"} => n \in unlocked) => s[n][reg] = val
  BY <1>0, StoredIs
<1>2. radios' = s
  OBVIOUS
<1> HIDE DEF s
<1>3. /\ spi'[n] = Tail(spi[n]) /\ spi' \in [Stations -> Seq(Transfers)]
      /\ \A m \in Stations : m # n => spi'[m] = spi[m]
      /\ Current(n) = spi[n][1] /\ Current(n) \in Transfers
  BY <1>0, SentIs
<1>4. TypedNext
  BY <1>0, <1>1, <1>2, <1>3 DEF TypedNext, SetupTypeOK
<1>5. Others(n)
  BY <1>1, <1>2, <1>3 DEF Others, Same
<1>6. Effect(n, spi[n], radios[n], ce[n], unlocked, radios'[n], ce'[n], unlocked')
  BY <1>1, <1>2, <1>3 DEF Effect
<1> QED BY <1>3, <1>4, <1>5, <1>6, MoveHolds

\* A transaction that writes no register and does not move CE.
LEMMA RestHolds ==
  ASSUME SetupInv, NEW n \in Stations, spi[n] # <<>>, Sent(n), UNCHANGED <<firmware, plus, restarts>>,
         UNCHANGED <<radios, unlocked, ce>>, loaded' \subseteq Stations, original' \in [Stations -> RadioAddresses],
         Current(n).op \in {"save", "flush", "load"}
  PROVE  SetupInv'
<1>0. SetupTypeOK /\ plus \subseteq unlocked
  BY DEF SetupInv
<1>3. /\ spi'[n] = Tail(spi[n]) /\ spi' \in [Stations -> Seq(Transfers)]
      /\ \A m \in Stations : m # n => spi'[m] = spi[m]
      /\ Current(n) = spi[n][1] /\ Current(n) \in Transfers
  BY <1>0, SentIs
<1>4. TypedNext
  BY <1>0, <1>3 DEF TypedNext, SetupTypeOK
<1>5. Others(n)
  BY <1>3 DEF Others, Same
<1>6. Effect(n, spi[n], radios[n], ce[n], unlocked, radios'[n], ce'[n], unlocked')
  BY <1>3, TransferType DEF Effect
<1> QED BY <1>3, <1>4, <1>5, <1>6, MoveHolds

\* An edge of CE.
LEMMA PinHolds ==
  ASSUME SetupInv, NEW n \in Stations, spi[n] # <<>>, Sent(n), UNCHANGED <<firmware, plus, restarts>>,
         UNCHANGED <<radios, unlocked, loaded, original>>, ce' = [ce EXCEPT ![n] = Current(n).val],
         Current(n).op \in {"ce", "pulse"}
  PROVE  SetupInv'
<1>0. SetupTypeOK /\ plus \subseteq unlocked /\ ce \in [Stations -> BOOLEAN]
  BY DEF SetupInv, SetupTypeOK
<1>3. /\ spi'[n] = Tail(spi[n]) /\ spi' \in [Stations -> Seq(Transfers)]
      /\ \A m \in Stations : m # n => spi'[m] = spi[m]
      /\ Current(n) = spi[n][1] /\ Current(n) \in Transfers
  BY <1>0, SentIs
<1>4. Current(n).reg = "CE" /\ Current(n).val \in BOOLEAN
  BY <1>3, TransferType
<1>5. ce' \in [Stations -> BOOLEAN] /\ ce'[n] = Current(n).val /\ \A m \in Stations : m # n => ce'[m] = ce[m]
  BY <1>0, <1>4
<1>6. TypedNext
  BY <1>0, <1>3, <1>5 DEF TypedNext, SetupTypeOK
<1>7. Others(n)
  BY <1>3, <1>5 DEF Others, Same
<1>8. Effect(n, spi[n], radios[n], ce[n], unlocked, radios'[n], ce'[n], unlocked')
  BY <1>3, <1>4, <1>5 DEF Effect
<1> QED BY <1>3, <1>6, <1>7, <1>8, MoveHolds

\* The readback, which may send ACTIVATE.
LEMMA ReadbackHolds ==
  ASSUME SetupInv, NEW n \in Stations, Readback(n), UNCHANGED <<firmware, plus, restarts>>
  PROVE  SetupInv'
<1> DEFINE t == spi[n]
<1>0. /\ SetupTypeOK /\ plus \subseteq unlocked /\ spi \in [Stations -> Seq(Transfers)] /\ t \in Seq(Transfers)
      /\ t # <<>> /\ Current(n).op = "readback" /\ UNCHANGED <<radios, unlocked, ce, loaded, original>>
  BY DEF SetupInv, SetupTypeOK, Readback, At, radio
<1>1. Current(n) = t[1] /\ Current(n) \in Transfers /\ Tail(t) \in Seq(Transfers)
  BY <1>0, HeadTailProperties DEF Current
<1>2. Current(n).val = FeatureBits /\ Current(n).reg = "FEATURE"
  BY <1>0, <1>1, TransferType
<1>3. FeatureBits \subseteq Reading(n, "FEATURE") <=> n \in unlocked /\ FeatureBits \subseteq radios[n].FEATURE
  BY DEF Reading, FeatureBits
<1>4. StationInv(n, t, radios[n], ce[n], unlocked)
  BY DEF SetupInv
<1>5. CASE FeatureBits \subseteq Reading(n, "FEATURE")
  <2>1. Sent(n)
    BY <1>2, <1>5 DEF Readback, Sent
  <2>2. /\ spi'[n] = Tail(spi[n]) /\ spi' \in [Stations -> Seq(Transfers)]
        /\ \A m \in Stations : m # n => spi'[m] = spi[m]
    BY <1>0, <2>1, SentIs
  <2>3. TypedNext
    BY <1>0, <2>2 DEF TypedNext, SetupTypeOK
  <2>4. Others(n)
    BY <1>0, <2>2 DEF Others, Same
  <2>5. Effect(n, spi[n], radios[n], ce[n], unlocked, radios'[n], ce'[n], unlocked')
    BY <1>0, <1>1, <1>2, <1>3, <1>5 DEF Effect
  <2> QED BY <1>0, <2>2, <2>3, <2>4, <2>5, MoveHolds
<1>6. CASE ~(FeatureBits \subseteq Reading(n, "FEATURE"))
  <2> DEFINE u == Activate \o Tail(t)
  <2>1. u \in Seq(Transfers) /\ StationInv(n, u, radios[n], ce[n], unlocked)
    BY <1>0, <1>1, <1>3, <1>4, <1>6, StationActivates
  <2>2. spi' = [spi EXCEPT ![n] = u]
    BY <1>2, <1>6 DEF Readback
  <2> HIDE DEF u
  <2>3. spi'[n] = u /\ spi' \in [Stations -> Seq(Transfers)] /\ \A m \in Stations : m # n => spi'[m] = spi[m]
    BY <1>0, <2>1, <2>2
  <2>4. TypedNext
    BY <1>0, <2>3 DEF TypedNext, SetupTypeOK
  <2>5. Others(n)
    BY <1>0, <2>3 DEF Others, Same
  <2>6. StationInv(n, spi'[n], radios'[n], ce'[n], unlocked') /\ restarts' \in Nat
    BY <1>0, <2>1, <2>3 DEF SetupTypeOK
  <2> QED BY <2>4, <2>5, <2>6, StepHolds
<1> QED BY <1>5, <1>6

\* The readback behind ACTIVATE finds the features.
LEMMA ConfirmHolds ==
  ASSUME SetupInv, NEW n \in Stations, Confirm(n), UNCHANGED <<firmware, plus, restarts>>
  PROVE  SetupInv'
<1> DEFINE t == spi[n]
<1>0. /\ SetupTypeOK /\ plus \subseteq unlocked /\ spi \in [Stations -> Seq(Transfers)] /\ t \in Seq(Transfers)
      /\ t # <<>> /\ Current(n).op = "confirm" /\ UNCHANGED <<radios, unlocked, ce, loaded, original>>
  BY DEF SetupInv, SetupTypeOK, Confirm, At, radio
<1>1. Current(n) = t[1] /\ Current(n) \in Transfers /\ DOMAIN t = 1 .. Len(t) /\ 1 \in DOMAIN t
  BY <1>0, HeadTailProperties, TailIs DEF Current
<1>2. Current(n).val = FeatureBits /\ Current(n).reg = "FEATURE"
  BY <1>0, <1>1, TransferType
<1>3. n \in unlocked /\ FeatureBits \subseteq radios[n].FEATURE
  <2>1. StationInv(n, t, radios[n], ce[n], unlocked)
    BY DEF SetupInv
  <2>2. firmware = "ack_payload"
    <3>1. "FEATURE" \notin Touched
      BY <1>1, <1>2, <2>1 DEF StationInv, Untouched
    <3> QED BY <3>1 DEF Touched
  <2>3. ~ToEnable(t) /\ ~Enabled(n, t, radios[n], unlocked)
    BY <1>0, <1>1, <1>2 DEF ToEnable, Enabled, Is, NoneBut
  <2> QED BY <1>0, <1>1, <2>1, <2>2, <2>3
          DEF StationInv, Featured, ToReadBack, ToActivate, ToFeature, ToConfirm, ToSize, Is
<1>4. Sent(n)
  BY <1>2, <1>3 DEF Confirm, Sent, Reading
<1>5. /\ spi'[n] = Tail(spi[n]) /\ spi' \in [Stations -> Seq(Transfers)]
      /\ \A m \in Stations : m # n => spi'[m] = spi[m]
  BY <1>0, <1>4, SentIs
<1>6. TypedNext
  BY <1>0, <1>5 DEF TypedNext, SetupTypeOK
<1>7. Others(n)
  BY <1>0, <1>5 DEF Others, Same
<1>8. Effect(n, spi[n], radios[n], ce[n], unlocked, radios'[n], ce'[n], unlocked')
  BY <1>0, <1>1, <1>2, <1>3 DEF Effect
<1> QED BY <1>0, <1>5, <1>6, <1>7, <1>8, MoveHolds

\* ACTIVATE is only sent to a locked radio.
LEMMA ActivateHolds ==
  ASSUME SetupInv, NEW n \in Stations, ActivateRadio(n), UNCHANGED <<firmware, plus, restarts>>
  PROVE  SetupInv'
<1>0. /\ SetupTypeOK /\ plus \subseteq unlocked /\ unlocked \subseteq Stations
      /\ spi[n] # <<>> /\ Current(n).op = "activate" /\ UNCHANGED <<radios, ce, loaded, original>> /\ Sent(n)
  BY DEF SetupInv, SetupTypeOK, ActivateRadio, At
<1>1. /\ spi'[n] = Tail(spi[n]) /\ spi' \in [Stations -> Seq(Transfers)]
      /\ \A m \in Stations : m # n => spi'[m] = spi[m]
      /\ Current(n) = spi[n][1] /\ Current(n) \in Transfers
  BY <1>0, SentIs
<1>2. /\ plus \subseteq unlocked' /\ unlocked' \subseteq Stations /\ (n \notin unlocked => n \in unlocked')
      /\ \A m \in Stations : m # n => (m \in unlocked' <=> m \in unlocked)
  BY <1>0 DEF ActivateRadio
<1>3. TypedNext
  BY <1>0, <1>1, <1>2 DEF TypedNext, SetupTypeOK
<1>4. Others(n)
  BY <1>0, <1>1, <1>2 DEF Others, Same
<1>5. Effect(n, spi[n], radios[n], ce[n], unlocked, radios'[n], ce'[n], unlocked')
  BY <1>0, <1>1, <1>2, TransferType DEF Effect
<1> QED BY <1>0, <1>1, <1>3, <1>4, <1>5, MoveHolds

\* Every transaction keeps the invariant.
LEMMA TransactionHolds ==
  ASSUME SetupInv, NEW n \in Stations, Transaction(n)
  PROVE  SetupInv'
<1>1. UNCHANGED <<firmware, plus, restarts>>
  BY DEF Transaction
<1>2. /\ SetupTypeOK /\ loaded \subseteq Stations /\ original \in [Stations -> RadioAddresses]
      /\ \A g \in DOMAIN RadioValues : radios[n][g] \in RadioValues[g]
  BY DEF SetupInv, SetupTypeOK
<1>3. spi[n] # <<>> => Current(n) \in Transfers
  BY <1>2, HeadTailProperties DEF SetupTypeOK, Current
<1>4. "FEATURE" \in DOMAIN RadioValues /\ RadioValues["FEATURE"] = SUBSET FeatureBits
      /\ "RX_ADDR_P0" \in DOMAIN RadioValues /\ RadioValues["RX_ADDR_P0"] = RadioAddresses
  BY DEF RadioValues
<1>5. CASE Write(n)
  <2>1. Current(n).reg \in DOMAIN RadioValues /\ Current(n).val \in RadioValues[Current(n).reg] /\ Current(n).op = "write"
    BY <1>3, <1>5, WriteType DEF Write, At
  <2>2. Current(n).reg # "CE"
    BY <2>1 DEF RadioValues
  <2>3. /\ spi[n] # <<>> /\ Sent(n) /\ radios' = Stored(n, Current(n).reg, Current(n).val)
        /\ UNCHANGED <<unlocked, ce, loaded, original>>
    BY <1>5 DEF Write, At
  <2> QED BY <1>1, <2>1, <2>2, <2>3, StoreHolds
<1>6. CASE Pin(n)
  BY <1>1, <1>6, PinHolds DEF Pin, At
<1>7. CASE Pulse(n)
  <2>1. Current(n).val = TRUE
    BY <1>3, <1>7, TransferType DEF Pulse, At
  <2> QED BY <1>1, <1>7, <2>1, PinHolds DEF Pulse, At
<1>8. CASE Save(n)
  <2>1. original' \in [Stations -> RadioAddresses]
    <3>1. radios[n].RX_ADDR_P0 \in RadioAddresses
      BY <1>2, <1>4
    <3> QED BY <1>2, <1>8, <3>1 DEF Save
  <2> QED BY <1>1, <1>2, <1>8, <2>1, RestHolds DEF Save, At, radio
<1>9. CASE Restore(n)
  <2>1. original[n] \in RadioValues["RX_ADDR_P0"] /\ Current(n).reg = "RX_ADDR_P0" /\ Current(n).op = "restore"
    BY <1>2, <1>3, <1>4, <1>9, TransferType DEF Restore, At
  <2> QED BY <1>1, <1>4, <1>9, <2>1, StoreHolds DEF Restore, At
<1>10. CASE Feature(n)
  <2>1. Current(n).val = FeatureBits /\ Current(n).reg = "FEATURE" /\ Current(n).op = "feature"
    BY <1>3, <1>10, TransferType DEF Feature, At
  <2>2. Reading(n, "FEATURE") \cup Current(n).val \in RadioValues["FEATURE"]
    <3>1. radios[n]["FEATURE"] \subseteq FeatureBits
      BY <1>2, <1>4
    <3> QED BY <1>4, <2>1, <3>1 DEF Reading
  <2>3. n \in unlocked => Reading(n, "FEATURE") \cup Current(n).val = radios[n].FEATURE \cup FeatureBits
    BY <2>1 DEF Reading
  <2> QED BY <1>1, <1>4, <1>10, <2>1, <2>2, <2>3, StoreHolds DEF Feature, At
<1>11. CASE Readback(n)
  BY <1>1, <1>11, ReadbackHolds
<1>12. CASE ActivateRadio(n)
  BY <1>1, <1>12, ActivateHolds
<1>13. CASE Fifo(n)
  BY <1>1, <1>2, <1>13, RestHolds DEF Fifo, At
<1>14. CASE Confirm(n)
  BY <1>1, <1>14, ConfirmHolds
<1> QED BY <1>5, <1>6, <1>7, <1>8, <1>9, <1>10, <1>11, <1>12, <1>13, <1>14 DEF Transaction

\* A call of the driver begins.
LEMMA AskHolds ==
  ASSUME SetupInv, NEW n \in Stations, NEW steps \in Seq(Transfers), Ask(n, steps),
         StationInv(n, steps, radios[n], ce[n], unlocked)
  PROVE  SetupInv'
<1>0. SetupTypeOK /\ plus \subseteq unlocked /\ spi \in [Stations -> Seq(Transfers)]
  BY DEF SetupInv, SetupTypeOK
<1>1. /\ spi' = [spi EXCEPT ![n] = steps]
      /\ UNCHANGED <<firmware, plus, radios, unlocked, ce, loaded, original, restarts>>
  BY DEF Ask, radio
<1>2. spi'[n] = steps /\ spi' \in [Stations -> Seq(Transfers)] /\ \A m \in Stations : m # n => spi'[m] = spi[m]
  BY <1>0, <1>1
<1>3. TypedNext
  BY <1>0, <1>1, <1>2 DEF TypedNext, SetupTypeOK
<1>4. Others(n)
  BY <1>1, <1>2 DEF Others, Same
<1>5. StationInv(n, spi'[n], radios'[n], ce'[n], unlocked') /\ restarts' \in Nat
  BY <1>0, <1>1, <1>2 DEF SetupTypeOK
<1> QED BY <1>1, <1>3, <1>4, <1>5, StepHolds

\* It begins at rest.
LEMMA AskedIdle ==
  ASSUME SetupInv, NEW n \in Stations, spi[n] = <<>>
  PROVE  SetupTypeOK /\ StationInv(n, <<>>, radios[n], ce[n], unlocked)
  BY DEF SetupInv

\* A round keeps the invariant.
LEMMA TransmitHolds ==
  ASSUME SetupInv, NEW n \in Stations, Transmit(n)
  PROVE  SetupInv'
<1>1. spi[n] = <<>>
  BY DEF Transmit, Ask, Ready
<1>2. SetupTypeOK /\ StationInv(n, <<>>, radios[n], ce[n], unlocked)
  BY <1>1, AskedIdle
<1>3. CASE PoweredUp(n, "tx") /\ Ask(n, flush_tx \o write_payload \o pulse_ce)
  <2>1. Sends(radios[n].CONFIG)
    BY <1>3 DEF PoweredUp, Sends
  <2>2. /\ flush_tx \o write_payload \o pulse_ce \in Seq(Transfers)
        /\ StationInv(n, flush_tx \o write_payload \o pulse_ce, radios[n], ce[n], unlocked)
    BY <1>2, <2>1, StationSends
  <2> QED BY <1>3, <2>2, AskHolds
<1>4. CASE PoweredUp(n, "rx") /\ Ask(n, write_payload)
  <2>1. write_payload \in Seq(Transfers) /\ StationInv(n, write_payload, radios[n], ce[n], unlocked)
    BY <1>2, StationLoads
  <2> QED BY <1>4, <2>1, AskHolds
<1> QED BY <1>3, <1>4 DEF Transmit

\* A mode switch keeps it.
LEMMA SwitchHolds ==
  ASSUME SetupInv, NEW n \in Stations, SwitchMode(n)
  PROVE  SetupInv'
<1>1. PICK away \in {power_down, enter_standby, enter_rx, enter_tx} : Ask(n, away \o recover(Enter(n)))
  BY DEF SwitchMode
<1>2. spi[n] = <<>>
  BY <1>1 DEF Ask, Ready
<1>3. SetupTypeOK /\ StationInv(n, <<>>, radios[n], ce[n], unlocked)
  BY <1>2, AskedIdle
<1>4. /\ away \o recover(Enter(n)) \in Seq(Transfers)
      /\ StationInv(n, away \o recover(Enter(n)), radios[n], ce[n], unlocked)
  BY <1>3, StationSwitches
<1> QED BY <1>1, <1>4, AskHolds

\* A reset of a microcontroller keeps it, whatever it cuts.
LEMMA RestartHolds ==
  ASSUME SetupInv, NEW n \in Stations, Restart(n)
  PROVE  SetupInv'
<1>0. /\ SetupTypeOK /\ plus \subseteq unlocked /\ spi \in [Stations -> Seq(Transfers)]
      /\ ce \in [Stations -> BOOLEAN] /\ restarts \in Nat
      /\ \A g \in Touched : radios[n][g] = PowerOn[g]
  BY DEF SetupInv, SetupTypeOK, StationInv, Untouched
<1>1. /\ spi' = [spi EXCEPT ![n] = SetUpRadio(n)] /\ restarts' = restarts + 1
      /\ UNCHANGED <<firmware, plus, unlocked, loaded, original>>
  BY DEF Restart
<1>2. PICK level \in BOOLEAN : ce' = [ce EXCEPT ![n] = level]
  BY DEF Restart
<1>3. SetUpRadio(n) \in Seq(Transfers)
  BY <1>0, SetUpIs
<1>4. spi'[n] = SetUpRadio(n) /\ spi' \in [Stations -> Seq(Transfers)] /\ \A m \in Stations : m # n => spi'[m] = spi[m]
  BY <1>0, <1>1, <1>3
<1>5. ce' \in [Stations -> BOOLEAN] /\ \A m \in Stations : m # n => ce'[m] = ce[m]
  BY <1>0, <1>2
<1>6. /\ DOMAIN radios' = Stations
      /\ \A m \in Stations : DOMAIN radios'[m] = DOMAIN RadioValues /\ \A g \in DOMAIN RadioValues : radios'[m][g] \in RadioValues[g]
      /\ \A m \in Stations : m # n => radios'[m] = radios[m]
      /\ \A g \in Touched : radios'[n][g] = PowerOn[g]
  <2>1. CASE UNCHANGED radios
    BY <1>0, <2>1 DEF SetupTypeOK
  <2>2. CASE Current(n).reg \in {"RX_ADDR_P0", "TX_ADDR"} /\ radios' = Stored(n, Current(n).reg, "torn")
    <3> DEFINE reg == Current(n).reg
               s == Stored(n, reg, "torn")
    <3>1. reg \in DOMAIN RadioValues /\ "torn" \in RadioValues[reg]
      BY <2>2 DEF RadioValues, RadioAddresses
    <3>2. /\ DOMAIN s = Stations
          /\ \A m \in Stations : DOMAIN s[m] = DOMAIN RadioValues /\ \A g \in DOMAIN RadioValues : s[m][g] \in RadioValues[g]
          /\ \A m \in Stations : m # n => s[m] = radios[m]
          /\ \A g \in DOMAIN PowerOn : reg # g => s[n][g] = radios[n][g]
      BY <1>0, <3>1, StoredIs
    <3>3. \A g \in Touched : g \in DOMAIN PowerOn /\ reg # g
      BY <2>2 DEF Touched, PowerOn
    <3>4. radios' = s
      BY <2>2
    <3> HIDE DEF s, reg
    <3> QED BY <1>0, <3>2, <3>3, <3>4
  <2> QED BY <2>1, <2>2 DEF Restart
<1>7. TypedNext
  BY <1>0, <1>1, <1>4, <1>5, <1>6 DEF TypedNext, SetupTypeOK
<1>8. Others(n)
  BY <1>1, <1>4, <1>5, <1>6 DEF Others, Same
<1>9. StationInv(n, spi'[n], radios'[n], ce'[n], unlocked')
  BY <1>0, <1>4, <1>6, StationStarts
<1> QED BY <1>0, <1>1, <1>7, <1>8, <1>9, StepHolds

\* The radios are switched on.
LEMMA SetupStarts == SetupInit => SetupInv
<1> SUFFICES ASSUME SetupInit
             PROVE  SetupInv
  OBVIOUS
<1>0. /\ firmware \in {"ack_payload", "fixed_ping", "fixed_code"} /\ plus \subseteq Stations /\ unlocked = plus /\ loaded = {}
      /\ radios = [n \in Stations |-> PowerOn] /\ ce \in [Stations -> BOOLEAN]
      /\ spi = [n \in Stations |-> SetUpRadio(n)] /\ original = [n \in Stations |-> "default"] /\ restarts = 0
  BY DEF SetupInit
<1>1. \A n \in Stations : SetUpRadio(n) \in Seq(Transfers)
  BY <1>0, AckPayloadIs, FixedIs
<1>2. DOMAIN PowerOn = DOMAIN RadioValues /\ \A g \in DOMAIN RadioValues : PowerOn[g] \in RadioValues[g]
  <2>1. 0 .. 1 \subseteq 0 .. 5 /\ <<"2MBPS", 3>> \in {"1MBPS", "2MBPS"} \X Nat
    OBVIOUS
  <2>2. DOMAIN PowerOn = DOMAIN RadioValues
    BY DEF PowerOn, RadioValues
  <2>3. /\ PowerOn.CONFIG \in RadioValues.CONFIG /\ PowerOn.EN_AA \in RadioValues.EN_AA /\ PowerOn.EN_RXADDR \in RadioValues.EN_RXADDR
        /\ PowerOn.SETUP_AW \in RadioValues.SETUP_AW /\ PowerOn.SETUP_RETR \in RadioValues.SETUP_RETR
        /\ PowerOn.RF_CH \in RadioValues.RF_CH /\ PowerOn.RF_SETUP \in RadioValues.RF_SETUP
        /\ PowerOn.RX_ADDR_P0 \in RadioValues.RX_ADDR_P0 /\ PowerOn.TX_ADDR \in RadioValues.TX_ADDR
        /\ PowerOn.RX_PW_P0 \in RadioValues.RX_PW_P0 /\ PowerOn.DYNPD \in RadioValues.DYNPD
        /\ PowerOn.FEATURE \in RadioValues.FEATURE
    BY <2>1 DEF PowerOn, RadioValues, RadioAddresses
  <2>4. \A g \in DOMAIN RadioValues : g \in {"CONFIG", "EN_AA", "EN_RXADDR", "SETUP_AW", "SETUP_RETR", "RF_CH", "RF_SETUP",
                                        "RX_ADDR_P0", "TX_ADDR", "RX_PW_P0", "DYNPD", "FEATURE"}
    BY DEF RadioValues
  <2> QED BY <2>2, <2>3, <2>4
<1>3. SetupTypeOK
  BY <1>0, <1>1, <1>2 DEF SetupTypeOK, RadioAddresses
<1>4. ASSUME NEW n \in Stations
      PROVE  StationInv(n, spi[n], radios[n], ce[n], unlocked)
  <2>1. spi[n] = SetUpRadio(n) /\ \A g \in Touched : radios[n][g] = PowerOn[g]
    BY <1>0
  <2> QED BY <1>3, <2>1, StationStarts
<1> QED BY <1>0, <1>3, <1>4 DEF SetupInv

\* The inductive invariant.
LEMMA SetupHolds == SetupSpec => []SetupInv
<1>1. SetupInv /\ [SetupNext]_setupVars => SetupInv'
  <2> SUFFICES ASSUME SetupInv, [SetupNext]_setupVars
               PROVE  SetupInv'
    OBVIOUS
  <2>1. CASE UNCHANGED setupVars
    <3>1. /\ UNCHANGED <<firmware, plus, radios, unlocked, ce, loaded, spi, original, restarts>>
      BY <2>1 DEF setupVars, radio
    <3>2. SetupTypeOK' /\ (plus \subseteq unlocked)'
      BY <3>1 DEF SetupInv, SetupTypeOK
    <3>3. ASSUME NEW n \in Stations
          PROVE  StationInv(n, spi[n], radios[n], ce[n], unlocked)'
      <4>1. StationInv(n, spi'[n], radios'[n], ce'[n], unlocked')
        BY <3>1 DEF SetupInv
      <4> QED BY <3>1, <4>1, StationNext
    <3> QED BY <3>2, <3>3 DEF SetupInv
  <2>2. ASSUME NEW n \in Stations, Transaction(n) \/ Transmit(n) \/ SwitchMode(n) \/ Restart(n)
        PROVE  SetupInv'
    BY <2>2, TransactionHolds, TransmitHolds, SwitchHolds, RestartHolds
  <2> QED BY <2>1, <2>2 DEF SetupNext
<1> QED BY <1>1, SetupStarts, PTL DEF SetupSpec

\* Two stations at rest hear each other.
LEMMA RestingRadiosHear == SetupInv => PeersHear
<1> SUFFICES ASSUME SetupInv, spi["sender"] = <<>>, spi["receiver"] = <<>>
             PROVE  /\ SameRadio("sender", "receiver") /\ SameSize("sender", "receiver")
                    /\ PoweredUp("sender", "tx") /\ PoweredUp("receiver", "rx") /\ ce["receiver"] = TRUE
                    /\ firmware = "ack_payload" => \A n \in Stations : FeatureBits \subseteq radios[n].FEATURE
  BY DEF PeersHear, Ready, SetupInv, SetupTypeOK
<1>1. \A n \in Stations : Rested(n, radios[n], ce[n], unlocked)
  <2>1. \A n \in Stations : spi[n] = <<>>
    BY DEF Stations
  <2>2. ASSUME NEW n \in Stations
        PROVE  Rested(n, radios[n], ce[n], unlocked)
    BY <2>1, AskedIdle, StationRests
  <2> QED BY <2>2
<1>2. "sender" \in Stations /\ "receiver" \in Stations
  BY DEF Stations
<1>3. \A n \in Stations :
        /\ radios[n].RF_CH = Channel /\ radios[n].SETUP_AW = Width - 2 /\ radios[n].RF_SETUP = <<"1MBPS", Power>>
        /\ radios[n].TX_ADDR = Address /\ radios[n].RX_ADDR_P0 = Address
        /\ radios[n].EN_AA = {0} /\ radios[n].EN_RXADDR = {0}
  BY <1>1 DEF Rested, Goal, Pipe0
<1>4. SameRadio("sender", "receiver")
  BY <1>2, <1>3 DEF SameRadio
<1>5. SameSize("sender", "receiver")
  <2>1. CASE firmware = "ack_payload"
    <3>1. \A n \in Stations : Dynamic(n)
      BY <1>1, <2>1 DEF Rested, Dynamic, FeatureBits, Pipe0
    <3> QED BY <1>2, <3>1 DEF SameSize
  <2>2. CASE firmware # "ack_payload"
    <3>1. \A n \in Stations : ~Dynamic(n) /\ radios[n].RX_PW_P0 = 32
      BY <1>1, <2>2 DEF Rested, Touched, Dynamic, PowerOn
    <3> QED BY <1>2, <3>1 DEF SameSize
  <2> QED BY <2>1, <2>2
<1>6. PoweredUp("sender", "tx") /\ PoweredUp("receiver", "rx") /\ ce["receiver"] = TRUE
  BY <1>1, <1>2 DEF Rested, Mode, PoweredUp
<1>7. firmware = "ack_payload" => \A n \in Stations : FeatureBits \subseteq radios[n].FEATURE
  BY <1>1 DEF Rested
<1> QED BY <1>4, <1>5, <1>6, <1>7

\* None transmits but on a pulse.
LEMMA RadiosSendOnPulse == SetupInv => SendsOnPulse
<1> SUFFICES ASSUME SetupInv, NEW n \in Stations, OnAir(n)
             PROVE  InSetUp(n) \/ spi[n] = CeLow
  BY DEF SendsOnPulse
<1>1. ce[n] = TRUE /\ Sends(radios[n].CONFIG)
  BY DEF OnAir, PoweredUp, Sends, SetupInv, SetupTypeOK
<1>2. Quiet(n, spi[n], radios[n], ce[n])
  BY DEF SetupInv, StationInv
<1> QED BY <1>1, <1>2 DEF Quiet, InSetUp

\* LinkTypeOK of the setup: every register of a radio holds what it can hold.
THEOREM SetupTypeCorrect == SetupSpec => []SetupTypeOK
<1>1. SetupInv => SetupTypeOK
  BY DEF SetupInv
<1> QED BY <1>1, SetupHolds, PTL

\* For every channel, address width and power and any number of resets: two nodes that have
\* set themselves up hear each other, and a radio transmits on a pulse of its node only.
THEOREM RadiosStaySetUp == SetupSpec => []RadiosAreSetUp
<1>1. SetupInv => RadiosAreSetUp
  BY RestingRadiosHear, RadiosSendOnPulse DEF RadiosAreSetUp
<1> QED BY <1>1, SetupHolds, PTL
=============================================================================
