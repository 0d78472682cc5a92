---------------------------- MODULE MCPeripherals ----------------------------
(***************************************************************************)
(* Peripherals and the buses of the modules on them, in one run: Rs485Uart,  *)
(* Registers, Pwm, Eeprom, TwoWire and Lcd1602.  They share no state; a       *)
(* behaviour is one of one of them.                                         *)
(***************************************************************************)
EXTENDS Rs485Uart, Registers, Pwm, Eeprom, TwoWire, Lcd1602

VARIABLE part \* what the behaviour is about

MCPayloads == {<<>>, <<<<1, 0, 1>>>>, <<<<0, 1, 0>>, <<1, 1, 0>>>>}
MCChars == {<<0, 1>>, <<4, 2>>}

all == <<part, vars, registersVars, pwmVars, eepromVars, wireVars, lcdVars>>

MCInit ==
  /\ part \in {"uart", "registers", "pwm", "eeprom", "wire", "display"}
  /\ Init
  /\ RegistersInit /\ (part # "registers" => used = {"WDT"})
  /\ LcdInit /\ (part # "display" => lcd.four /\ lcd.half = <<>> /\ lines = [nibble |-> 0, rs |-> 0, en |-> 0])
  /\ EepromInit /\ (part # "eeprom" => cells = [a \in 0 .. Allocated - 1 |-> Bits])
  /\ WireInit /\ (part # "wire" => chip = "i2c")
  /\ PwmInit

OfUart(action) ==
  part = "uart" /\ action /\ UNCHANGED <<part, registersVars, pwmVars, eepromVars, wireVars, lcdVars>>

MCNext ==
  \/ OfUart(Next)
  \/ /\ UNCHANGED <<part, vars>>
     /\ \/ part = "registers" /\ RegistersNext /\ UNCHANGED <<pwmVars, eepromVars, wireVars, lcdVars>>
        \/ part = "pwm" /\ PwmNext /\ UNCHANGED <<registersVars, eepromVars, wireVars, lcdVars>>
        \/ part = "eeprom" /\ EepromNext /\ UNCHANGED <<registersVars, pwmVars, wireVars, lcdVars>>
        \/ part = "wire" /\ WireNext /\ UNCHANGED <<registersVars, pwmVars, eepromVars, lcdVars>>
        \/ part = "display" /\ LcdNext /\ UNCHANGED <<registersVars, pwmVars, eepromVars, wireVars>>

\* Fairness is that of FairSpec of Rs485Uart; the others need none.
MCSpec ==
  /\ MCInit /\ [][MCNext]_all
  /\ SF_all(OfUart(Main)) /\ WF_all(OfUart(Interrupt)) /\ WF_all(OfUart(StopBitEnds))
=============================================================================
