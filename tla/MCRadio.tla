------------------------------ MODULE MCRadio ------------------------------
(***************************************************************************)
(* The radio driver in one run: Nrf24 with its two radios, Nrf24Setup with   *)
(* two more.  They share no state; a behaviour is one of one of them.        *)
(***************************************************************************)
EXTENDS Nrf24, Nrf24Setup

VARIABLE part \* what the behaviour is about

all == <<part, radioVars, setupVars>>

MCInit ==
  /\ part \in {"driver", "setup"}
  /\ RadioInit /\ SetupInit
  /\ part # "setup" => firmware = "fixed_ping" /\ plus = {} /\ ce = [n \in Stations |-> FALSE]

OfDriver(action) == part = "driver" /\ action /\ UNCHANGED <<part, setupVars>>

MCNext ==
  \/ OfDriver(RadioNext)
  \/ part = "setup" /\ SetupNext /\ UNCHANGED <<part, radioVars>>

\* Fairness is that of RadioFairSpec; Nrf24Setup needs none.
MCSpec ==
  /\ MCInit /\ [][MCNext]_all
  /\ WF_all(OfDriver(PrxStep)) /\ WF_all(OfDriver(Ptx))
  /\ WF_all(OfDriver(RaisePtx)) /\ WF_all(OfDriver(RaisePrx))
=============================================================================
