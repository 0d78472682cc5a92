------------------------------ MODULE Registers ------------------------------
(***************************************************************************)
(* Special function registers that several drivers of the HAL share, and    *)
(* the functions that set the drivers up and switch them (hal/stc8h_uart.c,  *)
(* _timer.c, _gpio*.c, _spi.c, _adc.c, _exti*.c, _qei.c, _wdt.c and          *)
(* core/stc8h_delay_timer0.c).  A register is the set of its bits that are    *)
(* one; a function is the sequence of accesses it makes.  Extended registers *)
(* take a write only while EAXFR of P_SW2 is set.  Pin groups are those of    *)
(* the defaults; one program uses a few of the peripherals.                 *)
(***************************************************************************)
EXTENDS Naturals, Sequences, FiniteSets

CONSTANT MaxUsed \* bound: peripherals of one program

VARIABLES
  used, \* peripherals of the program
  role, \* what its Timer0 is for: one role per firmware
  line, \* the pin it uses as plain input or output, <<port, pin>>
  regs, \* the registers
  up,   \* peripherals that are set up
  on,   \* interrupts the program has enabled, and TR0 while Timer0 is to run
  pin   \* what the program has last asked of its pin

registersVars == <<used, role, line, regs, up, on, pin>>
fixed == <<used, role, line>>

Peripherals ==
  {"UART1", "UART2", "UART3", "TIMER0", "SPI", "ADC", "INT0", "INT1", "INT2", "QEI", "WDT", "PIN"}
Lines == {<<0, 2>>, <<1, 2>>, <<3, 2>>}

-----------------------------------------------------------------------------
(* Registers and accesses. *)

SFRs == {"AUXR", "TMOD", "TCON", "IE", "IE2", "INTCLKO", "AUXINTIF", "P_SW1", "P_SW2",
         "SCON", "S2CON", "S3CON", "T4T3M", "SPCTL", "ADC_CONTR", "WDT_CONTR"}
Extended == {"ADCTIM", "PWMB", "PU", "IE_P"}
PortRegs == {"P", "M0", "M1", "PU", "IE_P"}
Names == {<<name, 0>> : name \in SFRs \cup {"ADCTIM", "PWMB"}} \cup PortRegs \X {0, 1, 3}

\* After a reset timer 2 is the clock of UART1, ports are inputs, P3.0 and P3.1 are not.
AtReset ==
  [name \in Names |->
     CASE name = <<"AUXR", 0>> -> {"S1ST2"}
       [] name[1] = "M1" -> IF name[2] = 3 THEN 2 .. 7 ELSE 0 .. 7
       [] name[1] \in {"P", "IE_P"} -> 0 .. 7
       [] OTHER -> {}]

\* Bits cleared and bits set by one access, the others kept.
Port(name, port, clear, put) == <<[at |-> <<name, port>>, clear |-> clear, put |-> put]>>
Merge(name, clear, put) == Port(name, 0, clear, put)
Set(name, bits) == Merge(name, {}, bits)
Clear(name, bits) == Merge(name, bits, {})
Everything ==
  {"S1ST2", "T0_1T", "T1_1T", "T2R", "T2_CT", "T2X12", "T3R", "T3_CT", "T3X12", "T3CLKO",
   "MODE", "ST3", "REN", "TI", "RI", "ON", "SLOW", "FLAG", "IDLE", "T0", "T1", "CEN", "INPUTS"}
Assign(name, bits) == Merge(name, Everything, bits)

Access(r, a) ==
  IF a.at[1] \in Extended /\ "EAXFR" \notin r[<<"P_SW2", 0>>] THEN r
  ELSE [r EXCEPT ![a.at] = (@ \ a.clear) \cup a.put]
\* The registers after the first i accesses, and after all of them.
After(accesses) ==
  LET file[i \in 0 .. Len(accesses)] == IF i = 0 THEN regs ELSE Access(file[i - 1], accesses[i])
  IN  file[Len(accesses)]

-----------------------------------------------------------------------------
(* The functions. *)

OpenXfr == Set("P_SW2", {"EAXFR"})
configure_quasi(port, pins) ==
  Port("M0", port, pins, {}) \o Port("M1", port, pins, {}) \o Port("P", port, {}, pins)

\* Seeded bug: TMOD is written whole.
Uart1InitWhole ==
  Clear("TCON", {"TR1"}) \o Assign("SCON", {"MODE", "REN"}) \o Clear("AUXR", {"S1ST2"})
    \o Set("AUXR", {"T1_1T"}) \o Assign("TMOD", {}) \o Clear("IE", {"ET1"})
    \o Clear("INTCLKO", {"T1CLKO"}) \o Clear("P_SW1", {"UART1"})
    \o configure_quasi(3, {0, 1}) \o Set("TCON", {"TR1"}) \o Clear("SCON", {"TI", "RI"})

uart1_init ==
  Clear("TCON", {"TR1"}) \o Assign("SCON", {"MODE", "REN"}) \o Clear("AUXR", {"S1ST2"})
    \o Set("AUXR", {"T1_1T"}) \o Clear("TMOD", {"T1"}) \o Clear("IE", {"ET1"})
    \o Clear("INTCLKO", {"T1CLKO"}) \o Clear("P_SW1", {"UART1"})
    \o configure_quasi(3, {0, 1}) \o Set("TCON", {"TR1"}) \o Clear("SCON", {"TI", "RI"})

uart2_init ==
  Clear("P_SW2", {"UART2"}) \o configure_quasi(1, {0, 1}) \o Assign("S2CON", {"REN"})
    \o Clear("AUXR", {"T2R", "T2_CT", "T2X12"})
    \o Merge("AUXR", {"T2_CT"}, {"T2X12", "T2R"}) \o Clear("S2CON", {"TI", "RI"})

uart3_init ==
  Clear("P_SW2", {"UART3"}) \o configure_quasi(0, {0, 1}) \o Assign("S3CON", {"ST3", "REN"})
    \o Clear("T4T3M", {"T3R", "T3_CT", "T3X12", "T3CLKO"})
    \o Set("T4T3M", {"T3X12", "T3R"}) \o Clear("S3CON", {"TI", "RI"})

timer0_stopped == Clear("TCON", {"TR0"}) \o Clear("IE", {"ET0"})
init_1ms == timer0_stopped \o Clear("TMOD", {"T0"}) \o Clear("AUXR", {"T0_1T"})
              \o Clear("INTCLKO", {"T0CLKO"})
init_free_run_12t == timer0_stopped \o Merge("TMOD", {"T0"}, {"T0"}) \o Clear("AUXR", {"T0_1T"})
                       \o Clear("INTCLKO", {"T0CLKO"})
delay_timer0_1t_init == timer0_stopped \o Merge("TMOD", {"T0"}, {"T0"}) \o Set("AUXR", {"T0_1T"})
                          \o Clear("INTCLKO", {"T0CLKO"})

spi_init ==
  Clear("P_SW1", {"SPI"}) \o Port("M0", 1, 3 .. 5, {}) \o Port("M1", 1, 3 .. 5, {})
    \o Port("P", 1, {}, {4}) \o OpenXfr \o Port("IE_P", 1, {}, {4}) \o Assign("SPCTL", {"ON"})

adc_init ==
  OpenXfr \o Assign("ADCTIM", {"SLOW"}) \o Clear("P_SW2", {"EAXFR"}) \o Assign("ADC_CONTR", {"ON"})

qei_init == OpenXfr \o Assign("PWMB", {"MODE", "INPUTS", "CEN"})
qei_stop == OpenXfr \o Clear("PWMB", {"CEN", "MODE", "INPUTS"})

wdt_enable == Assign("WDT_CONTR", {"ON"})

\* INT0 and INT1 have bits of their own, INT2 (and INT3, INT4 alike) one of INTCLKO.
LineOff(p) == IF p = "INT2" THEN Clear("INTCLKO", {p}) ELSE Clear("IE", {p})
exti_configure(p, falling) ==
  IF p = "INT2" THEN IF falling THEN LineOff(p) \o Clear("AUXINTIF", {p}) ELSE <<>>
  ELSE LineOff(p) \o Merge("TCON", {p}, IF falling THEN {p} ELSE {})

-----------------------------------------------------------------------------
(* The program: sets its peripherals up, again too, and switches them. *)

Modes == {"QUASI", "PUSH_PULL", "INPUT_ONLY", "OPEN_DRAIN"}

\* INT1 reports both edges, the others falling ones.
InitOf(p) ==
  CASE p = "UART1" -> uart1_init [] p = "UART2" -> uart2_init [] p = "UART3" -> uart3_init
    [] p = "TIMER0" /\ role = "1ms" -> init_1ms
    [] p = "TIMER0" /\ role = "free" -> init_free_run_12t
    [] p = "TIMER0" /\ role = "delay" -> delay_timer0_1t_init
    [] p = "SPI" -> spi_init [] p = "ADC" -> adc_init [] p = "QEI" -> qei_init
    [] p = "WDT" -> wdt_enable
    [] p \in {"INT0", "INT1", "INT2"} -> exti_configure(p, p # "INT1")
    [] OTHER -> <<>>

SwitchedOff(p) == IF p = "TIMER0" THEN {"TR0", "ET0"} ELSE {p}

SetUp(p) ==
  /\ p \in used
  /\ regs' = After(InitOf(p))
  /\ up' = up \cup {p} /\ on' = on \ SwitchedOff(p)
  /\ UNCHANGED <<fixed, pin>>

\* stc8h_uart_interrupt_enable and _disable, by the peripheral.
InterruptOf == [UART1 |-> {"ES"}, UART2 |-> {"ES2"}, UART3 |-> {"ES3"}, TIMER0 |-> {"ET0"},
                INT0 |-> {"INT0"}, INT1 |-> {"INT1"}, INT2 |-> {"INT2"}]
EnableIn(p) == CASE p = "INT2" -> "INTCLKO" [] p \in {"UART2", "UART3"} -> "IE2" [] OTHER -> "IE"

interrupt_enable(p) ==
  /\ p \in up \cap DOMAIN InterruptOf
  /\ regs' = After(Set(EnableIn(p), InterruptOf[p])) /\ on' = on \cup InterruptOf[p]
  /\ UNCHANGED <<fixed, up, pin>>

interrupt_disable(p) ==
  /\ p \in up \cap DOMAIN InterruptOf
  /\ regs' = After(Clear(EnableIn(p), InterruptOf[p])) /\ on' = on \ InterruptOf[p]
  /\ UNCHANGED <<fixed, up, pin>>

\* The delay starts and stops the timer on its own.
timer_start ==
  /\ "TIMER0" \in up /\ role # "delay"
  /\ regs' = After(Set("TCON", {"TR0"})) /\ on' = on \cup {"TR0"}
  /\ UNCHANGED <<fixed, up, pin>>

timer_stop ==
  /\ "TIMER0" \in up
  /\ regs' = After(Clear("TCON", {"TR0"})) /\ on' = on \ {"TR0"}
  /\ UNCHANGED <<fixed, up, pin>>

delay_timer0_1t_wait ==
  /\ "TIMER0" \in up /\ role = "delay"
  /\ regs' = After(Clear("TCON", {"TR0"}) \o Set("TCON", {"TR0"}) \o Clear("TCON", {"TR0"}))
  /\ UNCHANGED <<fixed, up, on, pin>>

\* TR0 is taken away and given back as it was.
timer0_reset ==
  /\ "TIMER0" \in up
  /\ regs' = After(Clear("TCON", {"TR0"})
                     \o Set("TCON", regs[<<"TCON", 0>>] \cap {"TR0"}))
  /\ UNCHANGED <<fixed, up, on, pin>>

QeiStop ==
  /\ "QEI" \in up
  /\ regs' = After(qei_stop) /\ up' = up \ {"QEI"}
  /\ UNCHANGED <<fixed, on, pin>>

wdt_feed ==
  /\ "WDT" \in up
  /\ regs' = After(Set("WDT_CONTR", {"CLEAR"}))
  /\ UNCHANGED <<fixed, up, on, pin>>

\* Pins whose level others decide: RXD, MISO, INT0, INT1, INT2, and the program's own.
Wired == [UART1 |-> <<3, 0>>, UART2 |-> <<1, 0>>, UART3 |-> <<0, 0>>, SPI |-> <<1, 4>>,
          INT0 |-> <<3, 2>>, INT1 |-> <<3, 3>>, INT2 |-> <<3, 6>>]
Inputs(port) ==
  {b \in 0 .. 7 : <<port, b>> = line \/ \E p \in used \cap DOMAIN Wired : Wired[p] = <<port, b>>}

\* stc8h_gpio_read_port reads the pins, not the latches: a pin may be held low unless it is
\* push-pull and enabled, and a high-impedance one has any level.  (TXD idles high; the
\* latches of the other outputs of a peripheral are nobody's concern.)
read_port(port) ==
  LET Reg(name) == regs[<<name, port>>]
      yields == {b \in Inputs(port) : b \notin Reg("M0") \/ b \in Reg("M1") \/ b \notin Reg("IE_P")}
      floats == {b \in yields : b \in Reg("M1") /\ b \notin Reg("M0")}
  IN  {(Reg("P") \ yields) \cup high : high \in SUBSET ((yields \cap Reg("P")) \cup floats)}
write_port(port, value) == regs' = [regs EXCEPT ![<<"P", port>>] = value]

PinCall(asked) == "PIN" \in used /\ pin' = asked /\ up' = up \cup {"PIN"} /\ UNCHANGED <<fixed, on>>

gpio_write(value) ==
  /\ PinCall([pin EXCEPT !.level = value])
  /\ \E p \in read_port(line[1]) :
       write_port(line[1], IF value THEN p \cup {line[2]} ELSE p \ {line[2]})

\* The opposite of the level of the pin, which need not be that of its latch.
gpio_toggle ==
  \E p \in read_port(line[1]) :
    /\ PinCall([pin EXCEPT !.level = line[2] \notin p])
    /\ write_port(line[1], IF line[2] \in p THEN p \ {line[2]} ELSE p \cup {line[2]})

gpio_set_mode(mode) ==
  /\ PinCall([pin EXCEPT !.mode = mode])
  /\ LET Bit(name, ones) == IF mode \in ones THEN Port(name, line[1], {}, {line[2]})
                                              ELSE Port(name, line[1], {line[2]}, {})
     IN  regs' = After(Bit("M0", {"PUSH_PULL", "OPEN_DRAIN"}) \o Bit("M1", {"INPUT_ONLY", "OPEN_DRAIN"}))

\* Port 0 has no such call: an error, after P_SW2 was written.
apply_mask(name, enable) ==
  IF line[1] \notin {1, 3} THEN OpenXfr
  ELSE OpenXfr \o Port(name, line[1], {line[2]}, IF enable THEN {line[2]} ELSE {})

gpio_set_pullup_mask(enable) ==
  /\ PinCall([pin EXCEPT !.pull = enable /\ line[1] # 0])
  /\ regs' = After(apply_mask("PU", enable))

gpio_set_input_enable_mask(enable) ==
  /\ PinCall([pin EXCEPT !.input = enable \/ line[1] = 0])
  /\ regs' = After(apply_mask("IE_P", enable))

GpioCall ==
  \/ gpio_toggle \/ \E mode \in Modes : gpio_set_mode(mode)
  \/ \E b \in BOOLEAN : gpio_write(b) \/ gpio_set_pullup_mask(b) \/ gpio_set_input_enable_mask(b)

RegistersInit ==
  /\ used \in {u \in SUBSET Peripherals : Cardinality(u) \in 1 .. MaxUsed}
  /\ role \in {"1ms", "free", "delay"} /\ ("TIMER0" \notin used => role = "1ms")
  /\ line \in Lines /\ ("PIN" \notin used => line = <<0, 2>>)
  /\ regs = AtReset /\ up = {} /\ on = {}
  /\ pin = [mode |-> "INPUT_ONLY", level |-> TRUE, pull |-> FALSE, input |-> TRUE]

RegistersNext ==
  \/ \E p \in Peripherals \ {"PIN"} : SetUp(p) \/ interrupt_enable(p) \/ interrupt_disable(p)
  \/ timer_start \/ timer_stop \/ timer0_reset \/ delay_timer0_1t_wait
  \/ QeiStop \/ wdt_feed \/ GpioCall

RegistersSpec == RegistersInit /\ [][RegistersNext]_registersVars

-----------------------------------------------------------------------------
(* Properties. *)

Has(name, bits) == bits \subseteq regs[<<name, 0>>]
Lacks(name, bits) == bits \cap regs[<<name, 0>>] = {}
Quasi(port, pins) == pins \cap (regs[<<"M0", port>>] \cup regs[<<"M1", port>>]) = {}

\* The latch of an input: gpio_write and gpio_toggle on its port may take it away, as
\* MisoStaysReleased shows, nothing else.
Released(p) ==
  \/ Wired[p][2] \in regs[<<"P", Wired[p][1]>>]
  \/ "PIN" \in up /\ line[1] = Wired[p][1]

\* What a peripheral needs to work as its init function promises.
Works(p) ==
  CASE p = "UART1" ->
         /\ Has("SCON", {"MODE", "REN"}) /\ Has("TCON", {"TR1"}) /\ Has("AUXR", {"T1_1T"})
         /\ Lacks("AUXR", {"S1ST2"}) /\ Lacks("TMOD", {"T1"}) /\ Lacks("P_SW1", {"UART1"})
         /\ Quasi(3, {0, 1}) /\ 1 \in regs[<<"P", 3>>] /\ Released(p)
    [] p = "UART2" ->
         /\ Has("S2CON", {"REN"}) /\ Has("AUXR", {"T2R", "T2X12"}) /\ Lacks("AUXR", {"T2_CT"})
         /\ Lacks("P_SW2", {"UART2"}) /\ Quasi(1, {0, 1}) /\ 1 \in regs[<<"P", 1>>]
         /\ Released(p)
    [] p = "UART3" ->
         /\ Has("S3CON", {"ST3", "REN"}) /\ Has("T4T3M", {"T3R", "T3X12"})
         /\ Lacks("P_SW2", {"UART3"}) /\ Quasi(0, {0, 1}) /\ 1 \in regs[<<"P", 0>>]
         /\ Released(p)
    [] p = "TIMER0" ->
         /\ "T0" \in regs[<<"TMOD", 0>>] <=> role # "1ms"
         /\ "T0_1T" \in regs[<<"AUXR", 0>>] <=> role = "delay"
    [] p = "SPI" ->
         /\ Has("SPCTL", {"ON"}) /\ Lacks("P_SW1", {"SPI"}) /\ Quasi(1, 3 .. 5)
         /\ 4 \in regs[<<"IE_P", 1>>] /\ Released(p)
    [] p = "ADC" -> Has("ADCTIM", {"SLOW"}) /\ Has("ADC_CONTR", {"ON"})
    [] p \in {"INT0", "INT1"} -> p \in regs[<<"TCON", 0>>] <=> p = "INT0"
    [] p = "QEI" -> Has("PWMB", {"MODE", "INPUTS", "CEN"})
    [] p = "WDT" -> Has("WDT_CONTR", {"ON"})
    [] p = "PIN" ->
         /\ line[2] \in regs[<<"P", line[1]>>] <=> pin.level
         /\ line[2] \in regs[<<"M0", line[1]>>] <=> pin.mode \in {"PUSH_PULL", "OPEN_DRAIN"}
         /\ line[2] \in regs[<<"M1", line[1]>>] <=> pin.mode \in {"INPUT_ONLY", "OPEN_DRAIN"}
         /\ line[2] \in regs[<<"PU", line[1]>>] <=> pin.pull
         /\ line[2] \in regs[<<"IE_P", line[1]>>] <=> pin.input
    [] OTHER -> TRUE

Enables == regs[<<"IE", 0>>] \cup regs[<<"IE2", 0>>] \cup (regs[<<"TCON", 0>>] \cap {"TR0"})
             \cup (regs[<<"INTCLKO", 0>>] \cap {"INT2"})

\* Functions of one driver write registers of the others (AUXR, TMOD, INTCLKO, the
\* ports, P_SW2 whose EAXFR adc_init closes again): in whatever order a program sets its
\* peripherals up and switches them, each keeps what it was set up with, the latches of its
\* pins included unless the program drives a pin of the same port, and exactly the
\* interrupts it has enabled, and Timer0, are on.
KeepsSetup == (\A p \in up : Works(p)) /\ Enables = on

\* The SPI driver releases the latch of MISO (docs/06_MODULES.md:66), without which the
\* pin cannot be read (docs/10_REFERENCES.md:80).
MisoStaysReleased == "SPI" \in up => 4 \in regs[<<"P", 1>>]
=============================================================================
