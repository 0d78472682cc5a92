--------------------------------- MODULE Pwm ---------------------------------
(***************************************************************************)
(* One group of the PWM (hal/stc8h_pwm.c): channels with duties of their     *)
(* own on one counter, whose period and prescaler they share.  The timer     *)
(* takes new values over at an update, the end of a period or UG.  Calls     *)
(* with a channel or group the firmware lacks change nothing; the registers  *)
(* are open, see Registers; the choice of the pin is left out.               *)
(***************************************************************************)
EXTENDS Naturals, FiniteSets

CONSTANTS
  Channels,   \* those of the group that are used
  Periods,    \* values asked for, 0 too
  Prescalers,
  Duties

Timer == 5

VARIABLES
  preload, \* what was written: ARR, PSC, CCR of each channel
  active,  \* what the counter works with
  period,  \* stc8h_pwm_period_a
  prescaler,
  eno,     \* channels whose output is enabled
  ccer,    \* channels whose compare output is on
  mode,    \* channels in PWM mode 1 with preload
  ctl,     \* bits CEN, ARPE and MOE that are set
  last     \* history: channel of the last call, 0 for one of the group, Timer

pwmVars == <<preload, active, period, prescaler, eno, ccer, mode, ctl, last>>

Values == [ARR : Periods \cup {0}, PSC : Prescalers \cup {0}, CCR : [Channels -> Duties \cup Periods \cup {0}]]

PwmTypeOK ==
  /\ preload \in Values /\ active \in Values
  /\ period \in Periods \cup {0} /\ prescaler \in Prescalers \cup {0}
  /\ eno \subseteq Channels /\ ccer \subseteq Channels /\ mode \subseteq Channels
  /\ ctl \subseteq {"CEN", "ARPE", "MOE"}
  /\ last \in Channels \cup {0, Timer}

PwmInit ==
  /\ preload = [ARR |-> 0, PSC |-> 0, CCR |-> [c \in Channels |-> 0]] /\ active = preload
  /\ period = 0 /\ prescaler = 0
  /\ eno = {} /\ ccer = {} /\ mode = {} /\ ctl = {} /\ last = 0

-----------------------------------------------------------------------------
\* The end of a period, or UG.  What has no preload is active as soon as it is written.
Update(written) == active' = written
Written(written) ==
  active' = [active EXCEPT !.ARR = IF "ARPE" \in ctl THEN @ ELSE written.ARR,
                           !.CCR = [c \in Channels |-> IF c \in mode THEN @[c] ELSE written.CCR[c]]]

EndOfPeriod ==
  /\ "CEN" \in ctl /\ Update(preload) /\ last' = Timer
  /\ UNCHANGED <<preload, period, prescaler, eno, ccer, mode, ctl>>

group_running == eno # {}

\* Seeded bug: the prescaler is written without a look at the other channels.
SetPrescalerAlways(value) ==
  /\ last' = 0 /\ UNCHANGED <<period, eno, ccer, mode, ctl>>
  /\ prescaler' = value
  /\ preload' = [preload EXCEPT !.PSC = value] /\ Update(preload')

set_prescaler(value) ==
  /\ last' = 0 /\ UNCHANGED <<period, eno, ccer, mode, ctl>>
  /\ IF group_running THEN UNCHANGED <<preload, active, prescaler>>
     ELSE /\ prescaler' = value
          /\ preload' = [preload EXCEPT !.PSC = value] /\ Update(preload')

set_period(value) ==
  /\ last' = 0 /\ UNCHANGED <<prescaler, eno, ccer, mode>>
  /\ IF value = 0 \/ group_running THEN UNCHANGED <<preload, active, period, ctl>>
     ELSE /\ period' = value
          /\ preload' = [preload EXCEPT !.ARR = value] /\ Update(preload')
          /\ ctl' = (ctl \ {"CEN"}) \cup {"MOE", "ARPE"}

set_mode(c) == mode' = mode \cup {c} /\ ccer' = ccer \ {c}

AtMost(duty, limit) == IF duty > limit THEN limit ELSE duty

\* Two bytes, taken over together.
write_duty(c, duty) == preload' = [preload EXCEPT !.CCR[c] = AtMost(duty, period)]

set_duty(c, duty) ==
  /\ last' = c
  /\ write_duty(c, duty) /\ Written(preload')
  /\ UNCHANGED <<period, prescaler, eno, ccer, mode, ctl>>

\* The mode is set before the duty is written: preload holds for it already.
init_channel(c) ==
  /\ last' = c
  /\ set_mode(c)
  /\ write_duty(c, 0)
  /\ UNCHANGED <<active, period, prescaler, eno, ctl>>

enable(c) ==
  /\ last' = c
  /\ eno' = eno \cup {c} /\ ccer' = ccer \cup {c} /\ ctl' = ctl \cup {"CEN"}
  /\ UNCHANGED <<preload, active, period, prescaler, mode>>

disable(c) ==
  /\ last' = c
  /\ eno' = eno \ {c} /\ ccer' = ccer \ {c}
  /\ ctl' = IF eno' = {} THEN ctl \ {"CEN"} ELSE ctl
  /\ UNCHANGED <<preload, active, period, prescaler, mode>>

PwmNext ==
  \/ EndOfPeriod
  \/ \E value \in Prescalers : set_prescaler(value)
  \/ \E value \in Periods : set_period(value)
  \/ \E c \in Channels :
       init_channel(c) \/ enable(c) \/ disable(c) \/ \E duty \in Duties : set_duty(c, duty)

PwmSpec == PwmInit /\ [][PwmNext]_pwmVars

-----------------------------------------------------------------------------
(* Properties. *)

\* A channel that puts a wave on its pin, set up before it was enabled.
Driven(c) == c \in eno \cap ccer \cap mode /\ {"CEN", "MOE"} \subseteq ctl

\* The channels share a counter, registers and the tracked period (docs/20:29).  While one
\* puts out its wave, nothing done for the others ends it, its frequency stays, and its
\* duty changes at the end of a period only: there is no stray pulse.
WaveIsKept ==
  [][\A c \in Channels : Driven(c) =>
       /\ last' # c => Driven(c)'
       /\ Driven(c)' => /\ active'.ARR = active.ARR /\ active'.PSC = active.PSC
                        /\ last' # Timer => active'.CCR[c] = active.CCR[c]]_pwmVars

\* The counter runs for those who drive a pin and for no one else, with the period and
\* prescaler the program was told were accepted.
CounterServesOutputs ==
  /\ "CEN" \in ctl <=> eno # {}
  /\ active.PSC = prescaler /\ ("ARPE" \in ctl => active.ARR = period)

\* Both: what is done for one channel leaves the others their wave.
ChannelsShareTheCounter == WaveIsKept /\ []CounterServesOutputs
=============================================================================
