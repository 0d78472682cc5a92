---------------------------- MODULE CounterSizes ----------------------------
(* The parameters of CounterRead: a counter of two bytes and how it moves.   *)
EXTENDS Naturals

CONSTANTS
  LowSize,   \* values of the low byte
  HighSize,  \* values of the high byte
  Moves,     \* the directions in which the counter can move
  Slack      \* changes of the high byte between two reads of it, at most

ASSUME CounterAssumption ==
  /\ LowSize \in Nat \ {0} /\ HighSize \in Nat \ {0, 1}
  /\ Moves \subseteq {"up", "down"}
  /\ Slack \in Nat /\ Slack < HighSize
=============================================================================
