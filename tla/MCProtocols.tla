----------------------------- MODULE MCProtocols -----------------------------
(***************************************************************************)
(* The two protocols in one run.  OtaFrame and OtaNode have small bytes: 0    *)
(* and 1 are addresses, 3 and 4 the start marks; the line does what it likes *)
(* to a receiver that is always ready, or little to one that is not.  RfLink *)
(* is between two named nodes.  A behaviour is one of one of the three.      *)
(***************************************************************************)
EXTENDS OtaNode, RfLink
LOCAL Ext == INSTANCE SequencesExt

CONSTANTS
  a, b,
  NodeNoise \* bound: what goes wrong on the line of a node that polls

VARIABLE part \* which of the three

\* A payload that holds one of the marks only.
HalfStart == {<<>>, <<3, 1>>}

\* COMMIT carries none.
EmptyPayload == {<<>>}

\* The bytes as one number, different from that of other bytes and from a byte.
BytesAsNumber(bytes) ==
  LET Base == 1 + CHOOSE x \in Bytes : \A y \in Bytes : y <= x
  IN  Ext!FoldLeft(LAMBDA crc, x : crc * Base + x, 1, bytes)

all == <<part, nodeVars, linkVars>>

OfFrame(action) == part = "frame" /\ action /\ UNCHANGED <<part, polling, linkVars>>
OfNode(action) ==
  part = "node" /\ action /\ noise' <= NodeNoise /\ UNCHANGED <<part, linkVars>>
OfLink(action) == part = "link" /\ action /\ UNCHANGED <<part, nodeVars>>

\* The nodes of the link have no loader.
NoLoader ==
  /\ up = FALSE
  /\ rx = Empty /\ lastSeq = 0 /\ wire = <<>> /\ answer = SeqCount /\ executed = <<>> /\ noise = 0
  /\ host = [seq |-> 0, payload |-> <<>>]
  /\ uart = Fresh /\ node = "polls" /\ held = 0 /\ status = NoStatus /\ firmware = "uart1"

MCInit ==
  /\ LinkInit
  /\ \/ part = "frame" /\ NodeInit /\ firmware = "uart1"
     \/ part = "node" /\ NodeInit
     \/ part = "link" /\ NoLoader

MCNext == OfFrame(Next) \/ OfNode(NodeNext) \/ OfLink(LinkNext)

\* The fairness of OtaFrame, of OtaNode and of RfLink.
MCSpec ==
  /\ MCInit /\ [][MCNext]_all
  /\ WF_all(OfFrame(Deliver)) /\ SF_all(OfFrame(SendFrame)) /\ SF_all(OfFrame(HearAnswer))
  /\ WF_all(OfNode(Arrives)) /\ WF_all(OfNode(Poll))
  /\ SF_all(OfNode(SendPatiently)) /\ SF_all(OfNode(HostHears))
  /\ \A n \in Nodes : WF_all(OfLink(\E e \in Elapsed \ {0} : Tick(n, e)))
  /\ WF_all(OfLink(\E p \in air : p.src \in dead /\ Lose(p)))
=============================================================================
