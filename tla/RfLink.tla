-------------------------------- MODULE RfLink --------------------------------
(***************************************************************************)
(* The packet link of protocols/proto_rf_link.c between two nodes, with the *)
(* default switches of its header (state, seq_rx and ack_pending tracked).   *)
(*                                                                         *)
(* A call builds or parses one packet; the application decides when to make *)
(* it and hands packets to a radio, here a set of packets that may be lost  *)
(* or received again.  A packet that fails the checks of magic, version,    *)
(* ids or length is as good as lost; no function sends one of another type, *)
(* and HEARTBEAT goes the way of STATUS.  Left out because no code reads    *)
(* them: heartbeat_ms, and seq_rx with the ack_seq field it is sent in.     *)
(***************************************************************************)
EXTENDS Naturals, FiniteSets

CONSTANTS
  Nodes,        \* the two nodes
  SeqMod,       \* values of the sequence number (2^8)
  TimeMod,      \* values of timeout_ms (2^16)
  LostTimeout,  \* PROTO_RF_LINK_LOST_TIMEOUT_MS
  Elapsed,      \* what the application passes to tick
  MaxAir        \* bound: packets on the air

\* The second conjunct is what the 16-bit addition of tick needs.
ASSUME LinkAssumption ==
  /\ Cardinality(Nodes) = 2 /\ SeqMod \in Nat \ {0} /\ TimeMod \in Nat \ {0} /\ MaxAir \in Nat
  /\ LostTimeout \in Nat \ {0} /\ Elapsed \subseteq Nat
  /\ \A e \in Elapsed : LostTimeout - 1 + e < TimeMod

VARIABLES
  link,     \* proto_rf_link_t of each node
  air,      \* packets sent and not yet gone
  dead,     \* nodes that have stopped for good
  silence   \* history: time ticked since the node accepted a packet, up to LostTimeout

linkVars == <<link, air, dead, silence>>

\* HEARTBEAT is sent and polled as STATUS is.
Types == {"HELLO", "DATA", "STATUS"}
Required == {"HELLO", "DATA"}

Packet == [src : Nodes, type : Types, seq : 0 .. SeqMod - 1]

Peer(n) == CHOOSE m \in Nodes : m # n

LinkTypeOK ==
  /\ link \in [Nodes -> [state : {"IDLE", "CONNECTING", "CONNECTED", "LOST"},
                         seq_tx : 0 .. SeqMod - 1, ack_pending : BOOLEAN,
                         timeout : 0 .. TimeMod - 1]]
  /\ air \subseteq Packet /\ Cardinality(air) <= MaxAir
  /\ dead \subseteq Nodes
  /\ silence \in [Nodes -> 0 .. LostTimeout]

IdleLink == [state |-> "IDLE", seq_tx |-> 0, ack_pending |-> FALSE, timeout |-> 0]

LinkInit ==
  /\ link = [n \in Nodes |-> IdleLink]
  /\ air = {} /\ dead = {}
  /\ silence = [n \in Nodes |-> 0]

-----------------------------------------------------------------------------
\* proto_rf_link_init and proto_rf_link_reset; what was sent stays on the air.
Reset(n) ==
  /\ n \notin dead
  /\ link' = [link EXCEPT ![n] = IdleLink]
  /\ silence' = [silence EXCEPT ![n] = 0]
  /\ UNCHANGED <<air, dead>>

NextTx(n) == (link[n].seq_tx + 1) % SeqMod

\* proto_rf_link_connect and the send functions.
Send(n, type) ==
  /\ n \notin dead
  /\ Cardinality(air) < MaxAir
  /\ air' = air \cup {[src |-> n, type |-> type, seq |-> link[n].seq_tx]}
  /\ link' = [link EXCEPT ![n].seq_tx = NextTx(n),
                          ![n].state = IF type = "HELLO" THEN "CONNECTING" ELSE @,
                          ![n].ack_pending = @ \/ type \in Required]
  /\ UNCHANGED <<dead, silence>>

\* Seeded bug: timeout_ms is not reset.
AcceptKeepsTimeout(n, p) ==
  link' = [link EXCEPT ![n].ack_pending = FALSE, ![n].state = "CONNECTED"]

\* What poll and poll_data_fixed do to the link with a packet of the peer.
Accept(n, p) ==
  link' = [link EXCEPT ![n].ack_pending = FALSE, ![n].timeout = 0, ![n].state = "CONNECTED"]

\* The packet is read from the radio, which may deliver it once more.
PollPacket(n, p) ==
  /\ n \notin dead
  /\ p.src # n
  /\ Accept(n, p)
  /\ air' \in {air, air \ {p}}
  /\ silence' = [silence EXCEPT ![n] = 0]
  /\ UNCHANGED dead

\* poll_data_fixed refuses everything that is not DATA and leaves the link alone.
PollOtherThanData(n, p) ==
  /\ n \notin dead
  /\ p.src # n /\ p.type # "DATA"
  /\ air' = air \ {p}
  /\ UNCHANGED <<link, dead, silence>>

\* Seeded bugs: the time limit is compared before the time is added, or the
\* comparison looks for the exact limit.
ExpiredLate(n, elapsed) == link[n].timeout >= LostTimeout
ExpiredExactly(n, elapsed) == (link[n].timeout + elapsed) % TimeMod = LostTimeout

Expired(n, elapsed) == (link[n].timeout + elapsed) % TimeMod >= LostTimeout

Tick(n, elapsed) ==
  /\ n \notin dead
  /\ link[n].state = "CONNECTED"
  /\ link' = [link EXCEPT ![n].timeout = (@ + elapsed) % TimeMod,
                          ![n].state = IF Expired(n, elapsed) THEN "LOST" ELSE @]
  /\ silence' = [silence EXCEPT ![n] = IF @ + elapsed < LostTimeout THEN @ + elapsed
                                        ELSE LostTimeout]
  /\ UNCHANGED <<air, dead>>

Lose(p) ==
  /\ air' = air \ {p}
  /\ UNCHANGED <<link, dead, silence>>

\* A node loses its power and does not come back.
Die(n) ==
  /\ dead = {}
  /\ dead' = {n}
  /\ UNCHANGED <<link, air, silence>>

-----------------------------------------------------------------------------
LinkNext ==
  \/ \E n \in Nodes : Reset(n) \/ Die(n)
  \/ \E n \in Nodes, type \in Types : Send(n, type)
  \/ \E n \in Nodes, p \in air : PollPacket(n, p) \/ PollOtherThanData(n, p)
  \/ \E n \in Nodes, e \in Elapsed : Tick(n, e)
  \/ \E p \in air : Lose(p)

LinkSpec == LinkInit /\ [][LinkNext]_linkVars

\* The application calls tick again and again with some time, and the packets of
\* a dead node do not come back for ever.
LinkFairSpec ==
  /\ LinkSpec
  /\ \A n \in Nodes : WF_linkVars(\E e \in Elapsed \ {0} : Tick(n, e))
  /\ WF_linkVars(\E p \in air : p.src \in dead /\ Lose(p))

-----------------------------------------------------------------------------
(* Properties. *)

\* A node that believes to be connected has accepted a packet of its peer within
\* the last LostTimeout of ticked time: no reset, reconnection or repeated packet
\* in between hides a silence (proto_rf_link.c:163-181).
ConnectedMeansHeard ==
  \A n \in Nodes : link[n].state = "CONNECTED" => silence[n] < LostTimeout

\* A node declares the link lost only after a silence of LostTimeout.
LostIsDeserved ==
  [][\A n \in Nodes : link[n].state # "LOST" /\ link[n].state' = "LOST"
       => silence'[n] >= LostTimeout]_linkVars

\* When a node has died its peer sooner or later takes the link as not connected
\* for good, late packets of the dead node included.
DeadPeerIsNoticed ==
  \A n \in Nodes : Peer(n) \in dead ~> [](link[n].state # "CONNECTED")
=============================================================================
