------------------------------- MODULE OtaNode -------------------------------
(***************************************************************************)
(* The receiver of OtaFrame inside the firmware that polls a UART: UART1     *)
(* bootloader, RS485 bootloader and UART3 pass-through.  The UART holds one  *)
(* byte; while a node executes a command and sends its STATUS nobody takes   *)
(* it, and a host that repeats too early loses the bytes that follow.  On    *)
(* the RS485 bus the node is deaf while it sends, and whoever else sends      *)
(* spoils the STATUS.  Otherwise the loop takes a byte before the next comes. *)
(* The two bootloaders reset themselves after the STATUS of a COMMIT that     *)
(* succeeded, whether it was sent or not; the pass-through never does.        *)
(***************************************************************************)
EXTENDS OtaFrame

CONSTANT StatusBytes \* bytes of a STATUS frame

ASSUME NodeAssumption == StatusBytes \in Nat \ {0}

VARIABLES
  firmware, \* "uart1", "rs485" or "uart3"
  uart,     \* receive buffer and flag, and whether it was filled behind the node's back
  node,     \* what the node does: polls, is between two accesses, executes, sends
  held,     \* the byte read, while its flag is still set
  status    \* the STATUS: sequence, bytes still to send, spoilt by others, resets after it

polling == <<firmware, uart, node, held, status>>
frameVars == <<rx, lastSeq, host, wire, answer, executed, up, noise>>
nodeVars == <<frameVars, polling>>

Firmwares == {"uart1", "rs485", "uart3"}
NoStatus == [seq |-> 0, left |-> 0, spoilt |-> FALSE, resets |-> FALSE]
Fresh == [sbuf |-> 0, ri |-> FALSE, late |-> FALSE]

NodeInit ==
  /\ Init
  /\ firmware \in Firmwares
  /\ uart = Fresh
  /\ node = "polls" /\ held = 0 /\ status = NoStatus

Busy == node \in {"executes", "sends"}
Deaf == firmware = "rs485" /\ node = "sends"

-----------------------------------------------------------------------------
(* The UART. *)

\* A byte that finds the flag set is lost; see Rs485Uart.
ByteReceived(b) ==
  uart' = CASE Deaf \/ ~up -> uart
            [] ~Deaf /\ up /\ uart.ri -> [uart EXCEPT !.late = Busy]
            [] OTHER -> [sbuf |-> b, ri |-> TRUE, late |-> Busy]

Arrives ==
  /\ wire # <<>>
  /\ Busy \/ uart.late \/ (node = "polls" /\ ~uart.ri)
  /\ ByteReceived(Head(wire))
  /\ wire' = Tail(wire)
  /\ status' = [status EXCEPT !.spoilt = @ \/ Deaf]
  /\ UNCHANGED <<rx, lastSeq, host, answer, executed, up, noise, firmware, node, held>>

-----------------------------------------------------------------------------
(* The node. *)

\* What a complete frame leads to; UART3 passes nothing on and answers at once.
Leads(result) ==
  CASE result = "OK" /\ firmware # "uart3" -> "executes"
    [] result = "OK" /\ firmware = "uart3" -> "sends"
    [] result = "DUPLICATE" -> "sends"
    [] OTHER -> "polls"

\* boot_process_complete_frame up to the execution, of which it is known whether it will
\* be that of a COMMIT that succeeds.
process_frame(frame) ==
  LET result == Parse(frame, lastSeq)
      commits == result = "OK" /\ firmware # "uart3" /\ frame \in CommitFrames IN
  /\ lastSeq' = IF result = "OK" THEN frame[4] ELSE lastSeq
  /\ executed' = IF result = "OK" THEN Append(executed, frame) ELSE executed
  /\ node' = Leads(result)
  /\ IF Leads(result) = "polls" THEN UNCHANGED status
     ELSE \E resets \in {FALSE, commits} :
            status' = [seq |-> frame[4], left |-> StatusBytes, spoilt |-> FALSE, resets |-> resets]

feed_byte(b) ==
  IF Complete(Fed(b)) THEN rx' = Empty /\ process_frame(Fed(b).frame)
  ELSE rx' = Fed(b) /\ node' = "polls" /\ UNCHANGED <<lastSeq, executed, status>>

Polled == UNCHANGED <<host, wire, answer, up, noise, firmware>>

\* stc8h_uart_readable, then stc8h_uart_getc of UART1: the flag first, ...
ClearFlag ==
  /\ firmware = "uart1" /\ node = "polls" /\ uart.ri
  /\ node' = "takes" /\ uart' = [uart EXCEPT !.ri = FALSE]
  /\ UNCHANGED <<rx, lastSeq, executed, held, status>> /\ Polled

\* ... then the byte.
ReadByte ==
  /\ firmware = "uart1" /\ node = "takes"
  /\ feed_byte(uart.sbuf) /\ uart' = [uart EXCEPT !.late = FALSE]
  /\ UNCHANGED held /\ Polled

\* UART2 and UART3 read the byte first ...
ReadFirst ==
  /\ firmware # "uart1" /\ node = "polls" /\ uart.ri
  /\ node' = "takes" /\ held' = uart.sbuf
  /\ UNCHANGED <<rx, lastSeq, executed, uart, status>> /\ Polled

\* ... and clear the flag afterwards.
ClearLast ==
  /\ firmware # "uart1" /\ node = "takes"
  /\ feed_byte(held) /\ uart' = [uart EXCEPT !.ri = FALSE, !.late = FALSE]
  /\ UNCHANGED held /\ Polled

ExecutionEnds ==
  /\ node = "executes" /\ node' = "sends"
  /\ UNCHANGED <<frameVars, firmware, uart, held, status>>

\* The registers of the UART are lost as well.
Restart ==
  /\ software_reset
  /\ uart' = Fresh /\ node' = "polls" /\ held' = 0 /\ status' = NoStatus

\* What boot_send_status returns is ignored.
StatusEnds ==
  IF status.resets THEN Restart
  ELSE /\ node' = "polls" /\ status' = [status EXCEPT !.left = 0]
       /\ UNCHANGED <<rx, lastSeq, up, uart, held>>

\* stc8h_uart_putc: one byte of the STATUS has left, ...
putc ==
  /\ node = "sends" /\ status.left > 1
  /\ status' = [status EXCEPT !.left = @ - 1]
  /\ UNCHANGED <<frameVars, firmware, uart, node, held>>

\* ... or the last: it waits for TI, so that a reset does not cut it off.
PutcLast ==
  /\ node = "sends" /\ status.left = 1
  /\ answer' = IF status.spoilt THEN answer ELSE status.seq
  /\ StatusEnds
  /\ UNCHANGED <<host, wire, executed, noise, firmware>>

\* stc8h_uart_putc_bounded runs out: drv_rs485_uart_write ends, the node does not mind.
PutcTimesOut ==
  /\ firmware = "rs485" /\ node = "sends"
  /\ GoesWrong
  /\ StatusEnds
  /\ UNCHANGED <<host, wire, answer, executed, firmware>>

Poll == ClearFlag \/ ReadByte \/ ReadFirst \/ ClearLast \/ ExecutionEnds \/ putc \/ PutcLast

-----------------------------------------------------------------------------
(* The host and the line. *)

Quiet == node = "polls" /\ ~uart.ri

SendPatiently == Quiet /\ SendFrame /\ UNCHANGED polling

\* Its time-out was too short.
SendEarly ==
  /\ ~Quiet /\ GoesWrong
  /\ wire = <<>> /\ answer # host.seq
  /\ wire' = Current
  /\ UNCHANGED <<rx, lastSeq, host, answer, executed, up, polling>>

HostHears == HearAnswer /\ UNCHANGED polling
BeginAgain == StartOver /\ Restart /\ UNCHANGED firmware
OthersTalk(frame) == Quiet /\ SendToOther(frame) /\ UNCHANGED polling
LineFails == (LoseByte \/ LoseAnswer) /\ UNCHANGED polling

NodeNext ==
  \/ Arrives \/ Poll \/ PutcTimesOut
  \/ SendPatiently \/ SendEarly \/ HostHears \/ BeginAgain \/ LineFails
  \/ \E frame \in Buildable : OthersTalk(frame)

NodeSpec == NodeInit /\ [][NodeNext]_nodeVars

\* The node runs and bytes arrive; the host sends again and again when the node is quiet.
FairNodeSpec ==
  /\ NodeSpec /\ WF_nodeVars(Arrives) /\ WF_nodeVars(Poll)
  /\ SF_nodeVars(SendPatiently) /\ SF_nodeVars(HostHears)
=============================================================================
