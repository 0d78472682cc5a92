---------------------------- MODULE ParamRegister ----------------------------
(***************************************************************************)
(* What the parameter store promises to its callers: one register that a   *)
(* write replaces in a single instant.  A call that answers ok has replaced *)
(* the value; one that answers error, or that a power cut interrupts, has   *)
(* replaced it or has not, and nothing in between can be observed.  The      *)
(* promise holds until the register breaks.                                  *)
(***************************************************************************)
CONSTANTS Value, None

VARIABLES
  reg,      \* the value a reader finds
  pending,  \* the value of the write in progress, None when there is none
  status,   \* answer of the last call: "none", "busy", "ok" or "error"
  broken    \* nothing is promised any more

vars == <<reg, pending, status, broken>>

Init == reg \in Value \cup {None} /\ pending = None /\ status = "none" /\ broken = FALSE

Start(v) ==
  /\ pending = None
  /\ pending' = v /\ status' = "busy" /\ UNCHANGED reg

\* A call that fails before it writes anything.
Refuse ==
  /\ pending = None
  /\ status' = "error" /\ UNCHANGED <<reg, pending>>

Install ==
  /\ pending # None
  /\ reg' = pending /\ UNCHANGED <<pending, status>>

Succeed ==
  /\ pending # None /\ reg = pending
  /\ pending' = None /\ status' = "ok" /\ UNCHANGED reg

Fail ==
  /\ pending # None
  /\ pending' = None /\ status' = "error" /\ UNCHANGED reg

PowerCut == pending' = None /\ status' = "none" /\ UNCHANGED reg

Write == (\E v \in Value : Start(v)) \/ Refuse \/ Install \/ Succeed \/ Fail \/ PowerCut

Next == (Write /\ UNCHANGED broken) \/ broken'

Spec == Init /\ [][Next]_vars
=============================================================================
