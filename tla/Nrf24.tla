-------------------------------- MODULE Nrf24 --------------------------------
(***************************************************************************)
(* Two nRF24L01+ radios under drivers/drv_nrf24l01.c: a PTX that runs the    *)
(* loop of examples/platformio/nrf24_ack_payload, and a PRX that reads       *)
(* packets and preloads acknowledgement payloads as docs/21 asks for.        *)
(*                                                                         *)
(* One step is one SPI transaction, and the chips and the air work between   *)
(* any two of them; commands that find the chip at rest are one step.  A     *)
(* packet keeps its number and whether its width suits the reader.           *)
(* The chips are what the driver and its tests rely on: FIFOs of Depth, a PRX *)
(* that stores a packet once and acknowledges it again when it is repeated,   *)
(* and an RX_DR flag that may lag behind the FIFO, but not past the next      *)
(* clear_irq (tests/host/test_drv_nrf24l01_core.c:278-303, 385-408).          *)
(***************************************************************************)
EXTENDS Naturals, Sequences

CONSTANTS
  Depth,       \* payloads a FIFO of the chip holds (3)
  MaxRetries,  \* retransmissions of a packet (10)
  MaxPackets   \* bound: packets the PTX sends

ASSUME RadioAssumption == Depth \in Nat \ {0} /\ {MaxRetries, MaxPackets} \subseteq Nat

VARIABLES
  ptx,      \* the sending program: pc, packet sent last, STATUS it read, result
  ptxChip,  \* its chip: tx and rx FIFO, IRQ flags, RX_DR on its way, attempts
  prx,      \* the receiving program: pc, STATUS it read, packet it read last
  prxChip   \* its chip: FIFOs, flags, last packet taken, the reply it got (or none)

radioVars == <<ptx, ptxChip, prx, prxChip>>

Flags == {"RX_DR", "TX_DS", "MAX_RT"}
Item == [n : 0 .. MaxPackets, fits : BOOLEAN]

PtxStates ==
  [pc : {"idle", "poll", "complete", "width", "read", "clear"},
   n : 0 .. MaxPackets, stat : SUBSET Flags,
   result : {"none", "TIMEOUT", "MAX_RT", "ACK_EMPTY", "INVALID", "ACK_OK"},
   heard : 0 .. MaxPackets]
PtxChips ==
  [tx : Seq(Item), rx : Seq(Item), irq : SUBSET Flags, late : BOOLEAN,
   tries : 0 .. MaxRetries + 1]
PrxStates ==
  [pc : {"status", "fifo", "width", "read", "clear", "full", "ack", "start"},
   stat : SUBSET Flags, n : 0 .. MaxPackets, ok : BOOLEAN]
PrxChips ==
  [rx : Seq(Item), irq : SUBSET Flags, late : BOOLEAN, ack : Seq(Item),
   taken : 0 .. MaxPackets, reply : Seq(Item)]

RadioTypeOK ==
  /\ ptx \in PtxStates /\ ptxChip \in PtxChips
  /\ Len(ptxChip.tx) <= Depth /\ Len(ptxChip.rx) <= Depth
  /\ prx \in PrxStates /\ prxChip \in PrxChips
  /\ Len(prxChip.rx) <= Depth /\ Len(prxChip.ack) <= Depth /\ Len(prxChip.reply) <= 1

RadioInit ==
  /\ ptx = [pc |-> "idle", n |-> 0, stat |-> {}, result |-> "none", heard |-> 0]
  /\ ptxChip = [tx |-> <<>>, rx |-> <<>>, irq |-> {}, late |-> FALSE, tries |-> 0]
  /\ prx = [pc |-> "start", stat |-> {}, n |-> 0, ok |-> FALSE]
  /\ prxChip = [rx |-> <<>>, irq |-> {}, late |-> FALSE, ack |-> <<>>,
                taken |-> 0, reply |-> <<>>]

-----------------------------------------------------------------------------
(* The air.  An attempt of the PTX chip fails on the way, reaches the PRX     *)
(* without its acknowledgement coming back, or succeeds.                     *)

Sending == ptxChip.tx # <<>> /\ "MAX_RT" \notin ptxChip.irq

\* What the PRX chip becomes when it hears the packet at the head of the PTX FIFO.
Heard ==
  LET p == Head(ptxChip.tx) IN
  IF p.n = prxChip.taken THEN prxChip
  ELSE [prxChip EXCEPT !.rx = Append(@, p), !.late = TRUE, !.taken = p.n,
                       !.reply = IF prxChip.ack = <<>> THEN <<>> ELSE <<Head(prxChip.ack)>>,
                       !.ack = SubSeq(@, 2, Len(@))]

CanHear == Head(ptxChip.tx).n = prxChip.taken \/ Len(prxChip.rx) < Depth

Unanswered ==
  ptxChip' = [ptxChip EXCEPT !.tries = @ + 1,
                !.irq = IF ptxChip.tries = MaxRetries THEN @ \cup {"MAX_RT"} ELSE @]

PacketLost ==
  /\ Sending
  /\ Unanswered
  /\ UNCHANGED <<ptx, prx, prxChip>>

AckLost ==
  /\ Sending /\ CanHear
  /\ Unanswered
  /\ prxChip' = Heard
  /\ UNCHANGED <<ptx, prx>>

Acknowledged ==
  /\ Sending /\ CanHear
  /\ prxChip' = Heard
  /\ ptxChip' = [ptxChip EXCEPT !.tx = Tail(@), !.irq = @ \cup {"TX_DS"},
                                !.rx = @ \o Heard.reply,
                                !.late = @ \/ Heard.reply # <<>>]
  /\ UNCHANGED <<ptx, prx>>

RaisePtx ==
  /\ ptxChip.late
  /\ ptxChip' = [ptxChip EXCEPT !.late = FALSE, !.irq = @ \cup {"RX_DR"}]
  /\ UNCHANGED <<ptx, prx, prxChip>>

RaisePrx ==
  /\ prxChip.late
  /\ prxChip' = [prxChip EXCEPT !.late = FALSE, !.irq = @ \cup {"RX_DR"}]
  /\ UNCHANGED <<ptx, ptxChip, prx>>

-----------------------------------------------------------------------------
(* The sending program. *)

PtxAt(place) == ptx.pc = place /\ UNCHANGED <<prx, prxChip>>

\* flush_tx, flush_rx, clear_irq, write_payload, pulse_ce
SendPacket(fits) ==
  /\ PtxAt("idle")
  /\ ptx.n < MaxPackets /\ ~ptxChip.late
  /\ ptx' = [ptx EXCEPT !.pc = "poll", !.n = @ + 1, !.stat = {}]
  /\ ptxChip' = [tx |-> <<[n |-> ptx.n + 1, fits |-> fits]>>, rx |-> <<>>, irq |-> {},
                 late |-> FALSE, tries |-> 0]

PollStatus ==
  /\ PtxAt("poll")
  /\ ptxChip.irq \cap {"TX_DS", "MAX_RT"} # {}
  /\ ptx' = [ptx EXCEPT !.pc = "complete", !.stat = ptxChip.irq]
  /\ UNCHANGED ptxChip

\* Seeded bug: the wait has no limit.
TimeoutNever == FALSE /\ UNCHANGED radioVars

\* The wait limit runs out: drv_nrf24l01_recover.
Timeout ==
  /\ PtxAt("poll")
  /\ ptxChip.irq \cap {"TX_DS", "MAX_RT"} = {} /\ ~ptxChip.late
  /\ ptx' = [ptx EXCEPT !.pc = "idle", !.result = "TIMEOUT"]
  /\ ptxChip' = [tx |-> <<>>, rx |-> <<>>, irq |-> {}, late |-> FALSE, tries |-> 0]

(* drv_nrf24l01_complete_tx *)

CompleteMaxRt ==
  /\ PtxAt("complete")
  /\ "MAX_RT" \in ptx.stat
  /\ ptx' = [ptx EXCEPT !.pc = "clear", !.stat = {"MAX_RT"}, !.result = "MAX_RT"]
  /\ ptxChip' = [ptxChip EXCEPT !.tx = <<>>]

\* Seeded bug: the RX_DR flag alone decides.
CompleteDoneFlagOnly ==
  /\ PtxAt("complete")
  /\ "MAX_RT" \notin ptx.stat
  /\ ptx' = IF "RX_DR" \in ptx.stat
            THEN [ptx EXCEPT !.pc = "width"]
            ELSE [ptx EXCEPT !.pc = "clear", !.result = "ACK_EMPTY"]
  /\ UNCHANGED ptxChip

\* The FIFO is looked at when STATUS shows no RX_DR.
CompleteDone ==
  /\ PtxAt("complete")
  /\ "MAX_RT" \notin ptx.stat
  /\ ptx' = IF "RX_DR" \in ptx.stat \/ ptxChip.rx # <<>>
            THEN [ptx EXCEPT !.pc = "width"]
            ELSE [ptx EXCEPT !.pc = "clear", !.result = "ACK_EMPTY"]
  /\ UNCHANGED ptxChip

AckWidth ==
  /\ PtxAt("width")
  /\ ptxChip.rx # <<>>
  /\ IF Head(ptxChip.rx).fits
     THEN ptx' = [ptx EXCEPT !.pc = "read"] /\ UNCHANGED ptxChip
     ELSE /\ ptx' = [ptx EXCEPT !.pc = "clear", !.stat = @ \cup {"RX_DR"}, !.result = "INVALID"]
          /\ ptxChip' = [ptxChip EXCEPT !.rx = <<>>]

AckRead ==
  /\ PtxAt("read")
  /\ ptx' = [ptx EXCEPT !.pc = "clear", !.stat = @ \cup {"RX_DR"}, !.result = "ACK_OK",
                        !.heard = Head(ptxChip.rx).n]
  /\ ptxChip' = [ptxChip EXCEPT !.rx = Tail(@)]

PtxClear ==
  /\ PtxAt("clear")
  /\ ~ptxChip.late
  /\ ptx' = [ptx EXCEPT !.pc = "idle"]
  /\ ptxChip' = [ptxChip EXCEPT !.irq = @ \ ptx.stat]

-----------------------------------------------------------------------------
(* The receiving program: drv_nrf24l01_read_rx_packet. *)

PrxAt(place) == prx.pc = place /\ UNCHANGED <<ptx, ptxChip>>

Go(place) == prx' = [prx EXCEPT !.pc = place]

ReadStatus ==
  /\ PrxAt("status")
  /\ prx' = [prx EXCEPT !.pc = IF "RX_DR" \in prxChip.irq THEN "width" ELSE "fifo",
                        !.stat = prxChip.irq, !.ok = FALSE]
  /\ UNCHANGED prxChip

\* Seeded bugs: no flag, no packet; the flag is not added to those to clear.
ReadFifoStatusNever ==
  /\ PrxAt("fifo")
  /\ Go("status")
  /\ UNCHANGED prxChip

ReadFifoStatus ==
  /\ PrxAt("fifo")
  /\ prx' = IF prxChip.rx = <<>> THEN [prx EXCEPT !.pc = "status"]
            ELSE [prx EXCEPT !.pc = "width", !.stat = @ \cup {"RX_DR"}]
  /\ UNCHANGED prxChip

PacketWidth ==
  /\ PrxAt("width")
  /\ prxChip.rx # <<>>
  /\ IF Head(prxChip.rx).fits
     THEN Go("read") /\ UNCHANGED prxChip
     ELSE Go("clear") /\ prxChip' = [prxChip EXCEPT !.rx = <<>>]

PacketRead ==
  /\ PrxAt("read")
  /\ prx' = [prx EXCEPT !.pc = "clear", !.n = Head(prxChip.rx).n, !.ok = TRUE]
  /\ prxChip' = [prxChip EXCEPT !.rx = Tail(@)]

PrxClear ==
  /\ PrxAt("clear")
  /\ ~prxChip.late
  /\ Go(IF prx.ok THEN "full" ELSE "status")
  /\ prxChip' = [prxChip EXCEPT !.irq = @ \ prx.stat]

(* drv_nrf24l01_preload_ack_payload *)

\* Without replacing: a full FIFO answers BUSY and the reply is dropped.
PreloadCheck ==
  /\ PrxAt("full")
  /\ Go(IF Len(prxChip.ack) = Depth THEN "status" ELSE "ack")
  /\ UNCHANGED prxChip

PreloadWrite(fits) ==
  /\ PrxAt("ack")
  /\ Go("status")
  /\ prxChip' = [prxChip EXCEPT !.ack = Append(@, [n |-> prx.n, fits |-> fits])]

\* Power up, or the program decides to start over: recover, then a preload that
\* replaces what is pending.
Recover ==
  /\ prx.pc = "status" /\ UNCHANGED <<ptx, ptxChip>>
  /\ ~prxChip.late
  /\ Go("start")
  /\ prxChip' = [prxChip EXCEPT !.rx = <<>>, !.ack = <<>>, !.irq = {}]

PreloadFlush ==
  /\ PrxAt("start")
  /\ Go("ack")
  /\ prxChip' = [prxChip EXCEPT !.ack = <<>>]

-----------------------------------------------------------------------------
Ptx ==
  \/ \E fits \in BOOLEAN : SendPacket(fits)
  \/ PollStatus \/ Timeout
  \/ CompleteMaxRt \/ CompleteDone \/ AckWidth \/ AckRead \/ PtxClear

PrxStep ==
  \/ ReadStatus \/ ReadFifoStatus \/ PacketWidth \/ PacketRead \/ PrxClear
  \/ PreloadCheck \/ PreloadFlush
  \/ \E fits \in BOOLEAN : PreloadWrite(fits)

Air == PacketLost \/ AckLost \/ Acknowledged \/ RaisePtx \/ RaisePrx

RadioNext == Ptx \/ PrxStep \/ Recover \/ Air

RadioSpec == RadioInit /\ [][RadioNext]_radioVars

\* The two programs go on and a flag lags for a while only.  Nothing is assumed of
\* the air, nor that the chip ever ends what it was told to send.
RadioFairSpec ==
  RadioSpec /\ WF_radioVars(PrxStep) /\ WF_radioVars(Ptx) /\ WF_radioVars(RaisePtx) /\ WF_radioVars(RaisePrx)

-----------------------------------------------------------------------------
(* Properties. *)

\* R_RX_PL_WID and R_RX_PAYLOAD are sent only to a FIFO that holds a packet, on both
\* sides: a flag that was set again between reading STATUS and clearing it never
\* makes the driver read a FIFO that is empty (drv_nrf24l01.c:694-714, 733-750).
ReadsFindAPacket ==
  /\ ptx.pc \in {"width", "read"} => ptxChip.rx # <<>>
  /\ prx.pc \in {"width", "read"} => prxChip.rx # <<>>

\* A sender that is told its packet was acknowledged can rely on it: the receiver's
\* chip has taken that very packet (drv_nrf24l01.c:684-692).
DoneMeansTaken ==
  ptx.pc = "idle" /\ ptx.result \in {"ACK_EMPTY", "INVALID", "ACK_OK"}
    => prxChip.taken = ptx.n

\* What the sender learns of the acknowledgement payload is what the receiver's chip
\* attached to this very packet: the payload itself, none, or one of a wrong width;
\* nothing of an earlier round that timed out, and nothing missed for a flag that
\* lags (docs/21, ACK Payload).
AckReportIsTrue ==
  ptx.pc = "idle" =>
    /\ ptx.result = "ACK_OK" => prxChip.reply = <<[n |-> ptx.heard, fits |-> TRUE]>>
    /\ ptx.result = "ACK_EMPTY" => prxChip.reply = <<>>
    /\ ptx.result = "INVALID" => prxChip.reply # <<>> /\ ~prxChip.reply[1].fits

\* What the driver fetches is there, and what it reports of a round is so.
ReportsAreTrue == ReadsFindAPacket /\ DoneMeansTaken /\ AckReportIsTrue

\* No packet stays in the FIFO of the receiver, although clear_irq may wipe the flag
\* of a packet that arrived while another was read (drv_nrf24l01.c:733-750).
PacketsAreFetched ==
  \A n \in 1 .. MaxPackets :
    (\E i \in DOMAIN prxChip.rx : prxChip.rx[i].n = n)
      ~> (\A i \in DOMAIN prxChip.rx : prxChip.rx[i].n # n)

\* Every round of the sender ends, with a chip that has stopped answering too (the
\* wait limit of the example, main.c:49-58).
RoundsEnd == []<>(ptx.pc = "idle")
=============================================================================
