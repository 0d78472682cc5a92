----------------------------- MODULE Nrf24Setup -----------------------------
(***************************************************************************)
(* Setting up two nRF24L01 radios and switching their modes                 *)
(* (drivers/drv_nrf24l01.c).  A function of the driver is the sequence of    *)
(* SPI transactions and CE edges it makes; a node carries out its next one   *)
(* per step.  The microcontroller may be reset between any two of them, or   *)
(* within one, while the radio keeps its power and its registers.            *)
(***************************************************************************)
EXTENDS Sequences, Integers

CONSTANTS
  Channel, Width, Power, \* what both applications ask for
  MaxRestarts            \* bound: resets of a microcontroller

\* What the setters accept (drv_nrf24l01.c:348-453).
ASSUME SetupAssumption ==
  Channel \in 0 .. 125 /\ Width \in 3 .. 5 /\ Power \in 0 .. 3 /\ MaxRestarts \in Nat

VARIABLES
  firmware, \* which example both nodes run
  plus,     \* nodes whose radio is an nRF24L01+
  radios,   \* the registers of the radios
  unlocked, \* radios whose FEATURE and DYNPD can be written
  ce,       \* level of the CE pins
  loaded,   \* radios with a payload in the TX FIFO
  spi,      \* transactions the function in progress still has to make
  original, \* check_present: the address that was read
  restarts

radio == <<radios, unlocked, ce, loaded>>
setupVars == <<firmware, plus, radio, spi, original, restarts>>

Stations == {"sender", "receiver"}
Pipe0 == {0}
FeatureBits == {"EN_DPL", "EN_ACK_PAY"}

\* Values after power-up, of the registers the driver writes.
PowerOn ==
  [CONFIG |-> {}, EN_AA |-> 0 .. 5, EN_RXADDR |-> 0 .. 1, SETUP_AW |-> 3, SETUP_RETR |-> 3,
   RF_CH |-> 2, RF_SETUP |-> <<"2MBPS", 3>>, RX_ADDR_P0 |-> "default", TX_ADDR |-> "default",
   RX_PW_P0 |-> 0, DYNPD |-> {}, FEATURE |-> {}]

-----------------------------------------------------------------------------
(* The driver. *)

Step(op, reg, val) == <<[op |-> op, reg |-> reg, val |-> val]>>
WriteReg(reg, val) == Step("write", reg, val)
CeLow  == Step("ce", "CE", FALSE)
CeHigh == Step("ce", "CE", TRUE)

Guarded(condition, steps) == IF condition THEN steps ELSE <<>>

init_pins == CeLow
set_channel(channel) == Guarded(channel <= 125, WriteReg("RF_CH", channel))
set_address_width(width) == Guarded(width \in 3 .. 5, WriteReg("SETUP_AW", width - 2))
set_tx_address(addr, len) == Guarded(len \in 3 .. 5, WriteReg("TX_ADDR", addr))
set_rx_address(addr, len) == Guarded(len \in 3 .. 5, WriteReg("RX_ADDR_P0", addr))
set_payload_size(len) == Guarded(len <= 32, WriteReg("RX_PW_P0", len))
config_pipe0_fixed_code(addr) ==
  WriteReg("SETUP_AW", Width - 2) \o WriteReg("TX_ADDR", addr)
    \o WriteReg("RX_ADDR_P0", addr) \o WriteReg("RX_PW_P0", 32)
set_rate_power(rate, power) == Guarded(power <= 3, WriteReg("RF_SETUP", <<rate, power>>))
set_auto_retransmit(delay, count) ==
  Guarded(delay <= 15 /\ count <= 15, WriteReg("SETUP_RETR", delay * 16 + count))
set_auto_ack(mask) == WriteReg("EN_AA", mask)
set_rx_pipes(mask) == WriteReg("EN_RXADDR", mask)

check_present ==
  Step("save", "RX_ADDR_P0", 0) \o WriteReg("RX_ADDR_P0", "pattern")
    \o Step("restore", "RX_ADDR_P0", 0)

\* The readback decides whether ACTIVATE is needed, a second one whether it helped; see
\* Transaction.
EnableFeatureBits == Step("feature", "FEATURE", FeatureBits) \o Step("readback", "FEATURE", FeatureBits)
Activate ==
  Step("activate", "FEATURE", 0) \o Step("feature", "FEATURE", FeatureBits)
    \o Step("confirm", "FEATURE", FeatureBits)

\* Seeded bug: ACTIVATE is sent first, whatever the radio.
EnableAckPayloadActivating(mask) == Activate \o WriteReg("DYNPD", mask)

enable_ack_payload(mask) == EnableFeatureBits \o WriteReg("DYNPD", mask)

power_down    == CeLow \o WriteReg("CONFIG", {})
enter_standby == CeLow \o WriteReg("CONFIG", {"PWR_UP"})
enter_rx      == WriteReg("CONFIG", {"PWR_UP", "PRIM_RX"}) \o CeHigh

enter_tx      == CeLow \o WriteReg("CONFIG", {"PWR_UP"})
flush_tx      == Step("flush", "TX", 0)
write_payload == Step("load", "TX", 0)
pulse_ce      == Step("pulse", "CE", TRUE) \o CeLow
recover(enter) == CeLow \o flush_tx \o enter

-----------------------------------------------------------------------------
(* The applications: nrf24_ack_payload and nrf24_fixed_ping, set up alike at both ends. *)

configure_radio ==
  set_channel(Channel) \o set_address_width(Width)
    \o set_tx_address("STACK", Width) \o set_rx_address("STACK", Width)
    \o set_rx_pipes(Pipe0) \o set_auto_ack(Pipe0) \o set_auto_retransmit(3, 10)
    \o set_rate_power("1MBPS", Power) \o enable_ack_payload(Pipe0)

configure_ping ==
  check_present \o set_channel(Channel) \o set_address_width(Width)
    \o set_tx_address("STC01", Width) \o set_rx_address("STC01", Width)
    \o set_payload_size(32) \o set_rx_pipes(Pipe0) \o set_auto_ack(Pipe0)
    \o set_auto_retransmit(3, 10) \o set_rate_power("1MBPS", Power)

\* nrf24_fixed_ping with the address kept in code memory (docs/05:290).
configure_ping_code ==
  check_present \o set_channel(Channel) \o config_pipe0_fixed_code("STC01")
    \o set_rx_pipes(Pipe0) \o set_auto_ack(Pipe0)
    \o set_auto_retransmit(3, 10) \o set_rate_power("1MBPS", Power)

Configure ==
  CASE firmware = "ack_payload" -> configure_radio
    [] firmware = "fixed_ping" -> configure_ping
    [] firmware = "fixed_code" -> configure_ping_code

Enter(n) == IF n = "sender" THEN enter_tx ELSE enter_rx
SetUpRadio(n) == init_pins \o Configure \o Enter(n)

\* What a function of the driver is made of.
Transfers ==
  [op : {"write"}, reg : {"RF_CH", "SETUP_AW", "SETUP_RETR", "RX_PW_P0"}, val : Nat]
    \cup [op : {"write"}, reg : {"TX_ADDR", "RX_ADDR_P0"}, val : {"STACK", "STC01", "pattern"}]
    \cup [op : {"write"}, reg : {"EN_AA", "EN_RXADDR", "DYNPD"}, val : {Pipe0}]
    \cup [op : {"write"}, reg : {"RF_SETUP"}, val : {"1MBPS"} \X Nat]
    \cup [op : {"write"}, reg : {"CONFIG"}, val : SUBSET {"PWR_UP", "PRIM_RX"}]
    \cup [op : {"ce"}, reg : {"CE"}, val : BOOLEAN]
    \cup [op : {"pulse"}, reg : {"CE"}, val : {TRUE}]
    \cup [op : {"save", "restore"}, reg : {"RX_ADDR_P0"}, val : {0}]
    \cup [op : {"feature", "readback", "confirm"}, reg : {"FEATURE"}, val : {FeatureBits}]
    \cup [op : {"activate"}, reg : {"FEATURE"}, val : {0}]
    \cup [op : {"flush", "load"}, reg : {"TX"}, val : {0}]

\* What the registers can hold.
RadioAddresses == {"default", "pattern", "STACK", "STC01", "torn"}
RadioValues ==
  [CONFIG |-> SUBSET {"PWR_UP", "PRIM_RX"}, EN_AA |-> SUBSET (0 .. 5), EN_RXADDR |-> SUBSET (0 .. 5),
   SETUP_AW |-> Nat, SETUP_RETR |-> Nat, RF_CH |-> Nat, RF_SETUP |-> {"1MBPS", "2MBPS"} \X Nat,
   RX_ADDR_P0 |-> RadioAddresses, TX_ADDR |-> RadioAddresses, RX_PW_P0 |-> Nat,
   DYNPD |-> SUBSET (0 .. 5), FEATURE |-> SUBSET FeatureBits]

SetupTypeOK ==
  /\ firmware \in {"ack_payload", "fixed_ping", "fixed_code"}
  /\ plus \subseteq Stations /\ unlocked \subseteq Stations /\ loaded \subseteq Stations
  /\ ce \in [Stations -> BOOLEAN] /\ restarts \in Nat
  /\ DOMAIN radios = Stations
  /\ \A n \in Stations : /\ DOMAIN radios[n] = DOMAIN RadioValues
                         /\ \A g \in DOMAIN RadioValues : radios[n][g] \in RadioValues[g]
  /\ original \in [Stations -> RadioAddresses]
  /\ spi \in [Stations -> Seq(Transfers)]

SetupInit ==
  /\ firmware \in {"ack_payload", "fixed_ping", "fixed_code"}
  /\ plus \in SUBSET Stations
  /\ radios = [n \in Stations |-> PowerOn]
  /\ unlocked = plus
  /\ ce \in [Stations -> BOOLEAN]
  /\ loaded = {}
  /\ spi = [n \in Stations |-> SetUpRadio(n)]
  /\ original = [n \in Stations |-> "default"]
  /\ restarts = 0

-----------------------------------------------------------------------------
(* One transaction. *)

\* What a register holds once val was written: without ACTIVATE an nRF24L01 keeps
\* FEATURE and DYNPD as they are.
Stored(n, reg, val) ==
  IF reg \in {"FEATURE", "DYNPD"} /\ n \notin unlocked THEN radios
  ELSE [radios EXCEPT ![n][reg] = val]

PoweredUp(n, mode) == "PWR_UP" \in radios[n].CONFIG /\ (mode = "rx" <=> "PRIM_RX" \in radios[n].CONFIG)
OnAir(n) == ce[n] /\ n \in loaded /\ PoweredUp(n, "tx")

Reading(n, reg) == IF n \in unlocked THEN radios[n][reg] ELSE {}

Current(n) == Head(spi[n])
At(n, op) == spi[n] # <<>> /\ Current(n).op = op
Sent(n) == spi' = [spi EXCEPT ![n] = Tail(@)]

Write(n) ==
  /\ At(n, "write") /\ Sent(n)
  /\ radios' = Stored(n, Current(n).reg, Current(n).val)
  /\ UNCHANGED <<unlocked, ce, loaded, original>>

Pin(n) ==
  /\ At(n, "ce") /\ Sent(n)
  /\ ce' = [ce EXCEPT ![n] = Current(n).val]
  /\ UNCHANGED <<radios, unlocked, loaded, original>>

\* The payload is sent while CE is high; the FIFO is flushed before the next one.
Pulse(n) ==
  /\ At(n, "pulse") /\ Sent(n)
  /\ ce' = [ce EXCEPT ![n] = TRUE]
  /\ UNCHANGED <<radios, unlocked, loaded, original>>

Save(n) ==
  /\ At(n, "save") /\ Sent(n)
  /\ original' = [original EXCEPT ![n] = radios[n].RX_ADDR_P0]
  /\ UNCHANGED radio

Restore(n) ==
  /\ At(n, "restore") /\ Sent(n)
  /\ radios' = Stored(n, "RX_ADDR_P0", original[n])
  /\ UNCHANGED <<unlocked, ce, loaded, original>>

\* Read, or with the bits, write: nobody else writes FEATURE.
Feature(n) ==
  /\ At(n, "feature") /\ Sent(n)
  /\ radios' = Stored(n, "FEATURE", Reading(n, "FEATURE") \cup Current(n).val)
  /\ UNCHANGED <<unlocked, ce, loaded, original>>

Readback(n) ==
  /\ At(n, "readback")
  /\ spi' = [spi EXCEPT ![n] = IF Current(n).val \subseteq Reading(n, "FEATURE")
                                 THEN Tail(@) ELSE Activate \o Tail(@)]
  /\ UNCHANGED <<radio, original>>

\* Features that still do not read back are an error, which the application does not look
\* at: enable_ack_payload returns without writing DYNPD.
Confirm(n) ==
  /\ At(n, "confirm")
  /\ spi' = [spi EXCEPT ![n] = IF Current(n).val \subseteq Reading(n, "FEATURE")
                                 THEN Tail(@) ELSE Tail(Tail(@))]
  /\ UNCHANGED <<radio, original>>

\* ACTIVATE locks and unlocks an nRF24L01 by turns; an nRF24L01+ ignores it.
ActivateRadio(n) ==
  /\ At(n, "activate") /\ Sent(n)
  /\ unlocked' = IF n \in plus THEN unlocked
                 ELSE IF n \in unlocked THEN unlocked \ {n} ELSE unlocked \cup {n}
  /\ UNCHANGED <<radios, ce, loaded, original>>

Fifo(n) ==
  /\ \/ At(n, "flush") /\ loaded' = loaded \ {n}
     \/ At(n, "load") /\ loaded' = loaded \cup {n}
  /\ Sent(n)
  /\ UNCHANGED <<radios, unlocked, ce, original>>

Transaction(n) ==
  /\ \/ Write(n) \/ Pin(n) \/ Pulse(n) \/ Save(n) \/ Restore(n)
     \/ Feature(n) \/ Readback(n) \/ Confirm(n) \/ ActivateRadio(n) \/ Fifo(n)
  /\ UNCHANGED <<firmware, plus, restarts>>

-----------------------------------------------------------------------------
Ready(n) == spi[n] = <<>>

Ask(n, steps) ==
  /\ Ready(n)
  /\ spi' = [spi EXCEPT ![n] = steps]
  /\ UNCHANGED <<firmware, plus, radio, original, restarts>>

\* A round of the sender, or an ACK payload of the receiver.
Transmit(n) ==
  \/ PoweredUp(n, "tx") /\ Ask(n, flush_tx \o write_payload \o pulse_ce)
  \/ PoweredUp(n, "rx") /\ Ask(n, write_payload)

\* The application saves power, swaps the roles for a while or starts over, and comes back.
SwitchMode(n) ==
  \E away \in {power_down, enter_standby, enter_rx, enter_tx} :
    Ask(n, away \o recover(Enter(n)))

\* A reset of the microcontroller.  The write in progress may be cut: nothing or all of
\* it was taken, of an address perhaps a part.  The pin of CE floats.
Restart(n) ==
  /\ restarts < MaxRestarts /\ restarts' = restarts + 1
  /\ spi' = [spi EXCEPT ![n] = SetUpRadio(n)]
  /\ \/ UNCHANGED radios
     \/ /\ (At(n, "write") \/ At(n, "restore")) /\ Current(n).reg \in {"RX_ADDR_P0", "TX_ADDR"}
        /\ radios' = Stored(n, Current(n).reg, "torn")
  /\ \E level \in BOOLEAN : ce' = [ce EXCEPT ![n] = level]
  /\ UNCHANGED <<firmware, plus, unlocked, loaded, original>>

SetupNext == \E n \in Stations : Transaction(n) \/ Transmit(n) \/ SwitchMode(n) \/ Restart(n)

SetupSpec == SetupInit /\ [][SetupNext]_setupVars
-----------------------------------------------------------------------------
(* Properties. *)

Dynamic(n) ==
  n \in unlocked /\ "EN_DPL" \in radios[n].FEATURE /\ 0 \in radios[n].DYNPD
\* Payloads arrive whole: their size is sent along, or both ends have agreed on it.
SameSize(s, r) == IF Dynamic(s) THEN Dynamic(r) ELSE ~Dynamic(r) /\ radios[r].RX_PW_P0 = 32

SameRadio(s, r) ==
  /\ radios[s].RF_CH = radios[r].RF_CH /\ radios[s].SETUP_AW = radios[r].SETUP_AW
  /\ radios[s].RF_SETUP[1] = radios[r].RF_SETUP[1]
  /\ radios[s].TX_ADDR = radios[r].RX_ADDR_P0 /\ radios[s].TX_ADDR = radios[s].RX_ADDR_P0
  /\ \A n \in {s, r} : 0 \in radios[n].EN_AA \cap radios[n].EN_RXADDR

\* Whatever resets and probes went before, and whichever radios are fitted, two nodes
\* that have set themselves up hear each other: the receiver listens, on the channel,
\* rate, address and size the sender uses, and the acknowledgement finds the sender's
\* pipe 0; with ACK payloads if the firmware asked for them (docs/21).
PeersHear ==
  Ready("sender") /\ Ready("receiver") =>
    /\ SameRadio("sender", "receiver") /\ SameSize("sender", "receiver")
    /\ PoweredUp("sender", "tx") /\ PoweredUp("receiver", "rx") /\ ce["receiver"]
    /\ firmware = "ack_payload" => \A n \in Stations : FeatureBits \subseteq radios[n].FEATURE

\* A radio transmits while its node pulses CE and at no other time: no mode switch puts a
\* payload on the air that waits in the FIFO, an ACK payload of a receiver for one.
\* Only between a reset and init_pins the level of CE is nobody's.
InSetUp(n) == spi[n] = SetUpRadio(n)
SendsOnPulse ==
  \A n \in Stations : OnAir(n) => InSetUp(n) \/ spi[n] = CeLow

\* Both: radios that were set up hear each other, and transmit on a pulse only.
RadiosAreSetUp == PeersHear /\ SendsOnPulse
=============================================================================
