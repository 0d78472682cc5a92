------------------------------ MODULE MCInputs ------------------------------
(***************************************************************************)
(* The inputs of the library in one run: Ec11 on a shaft of a few turns,     *)
(* Button, IrPulse and IrSleep with frames of four bits, and CounterRead with *)
(* the quadrature counter, which turns both ways (Timer0, which only counts   *)
(* up, does less).  They share no state; a behaviour is one of one of them.  *)
(***************************************************************************)
EXTENDS Ec11, CounterRead, Button, IrPulse, IrSleep

CONSTANTS Range, MaxSum

VARIABLE part \* the input the behaviour is about

MCShaft == -Range .. Range
MCSums == -MaxSum .. MaxSum
QeiMoves == {"up", "down"}

all == <<part, vars, buttonVars, pulseVars, readVars, sleepVars>>

MCInit ==
  /\ part \in {"shaft", "button", "remote", "counter", "sleeper"}
  /\ Init /\ ButtonInit /\ PulseInit /\ ReadInit /\ SleepInit
  /\ part # "shaft" => pos = 0
  /\ part # "button" => polls /\ button.debounce_ms = 0 /\ button.long_press_ms = 0

Sleeper(action) ==
  part = "sleeper" /\ action /\ UNCHANGED <<part, vars, buttonVars, pulseVars, readVars>>

MCNext ==
  \/ /\ UNCHANGED <<part, sleepVars>>
     /\ \/ part = "shaft" /\ Next /\ UNCHANGED <<buttonVars, pulseVars, readVars>>
        \/ part = "button" /\ ButtonNext /\ UNCHANGED <<vars, pulseVars, readVars>>
        \/ part = "remote" /\ PulseNext /\ UNCHANGED <<vars, buttonVars, readVars>>
        \/ part = "counter" /\ ReadNext /\ UNCHANGED <<vars, buttonVars, pulseVars>>
  \/ Sleeper(SleepNext)

\* Fairness is that of IrSleep; the others need none.
MCSpec ==
  /\ MCInit /\ [][MCNext]_all
  /\ WF_all(Sleeper(Main)) /\ WF_all(Sleeper(Edge)) /\ WF_all(Sleeper(Tick))

\* Silence leads to sleep, see IrSleep.
SilenceLeadsToSleep == part = "sleeper" => SleepFollowsSilence
=============================================================================
