------------------------------- MODULE Lcd1602 -------------------------------
(***************************************************************************)
(* The LCD1602 behind an I2C expander (drivers/drv_lcd1602.c).  Bytes go out *)
(* as two nibbles, a nibble with the falling edge of EN, and nothing tells   *)
(* the display which half it gets; writes of the expander may fail unseen,   *)
(* and the microcontroller may be reset while the display stays powered.     *)
(***************************************************************************)
EXTENDS Naturals, Sequences

CONSTANTS
  Chars,    \* characters, as two nibbles
  Columns,  \* of a line in the display's memory (40)
  MaxFaults \* bound: resets and lost writes

Nibbles == 0 .. 15

\* A place has six bits of the address in set_cursor (drv_lcd1602.c:127-134).
ASSUME LcdAssumption ==
  Chars \subseteq Nibbles \X Nibbles /\ Columns \in 1 .. 64 /\ MaxFaults \in Nat

VARIABLES
  lines, \* what the expander puts out: nibble, RS, EN
  lcd,   \* the display: interface, first half, memory, cursor, on, busy
  writes,  \* raw writes and delays the call in progress still has to make
  want,  \* what the program has asked for since init: memory and cursor
  clean, \* no write was lost since init was called
  faults

lcdVars == <<lines, lcd, writes, want, clean, faults>>

Positions == {0, 1} \X (0 .. Columns - 1)
Blank == [p \in Positions |-> <<2, 0>>]
Home == <<0, 0>>

-----------------------------------------------------------------------------
(* The driver. *)

write_raw(nibble, rs, en) == <<[do |-> "raw", nibble |-> nibble, rs |-> rs, en |-> en]>>
Pause(time) == <<[do |-> "delay", time |-> time]>>
Short == 1
Long == 2

pulse(nibble, rs) == write_raw(nibble, rs, 1) \o write_raw(nibble, rs, 0) \o Pause(Short)
write_nibble(nibble, rs) == pulse(nibble % 16, rs)
write_byte(byte, rs) == write_nibble(byte[1], rs) \o write_nibble(byte[2], rs)

command(byte) ==
  write_byte(byte, 0) \o (IF byte \in {<<0, 1>>, <<0, 2>>} THEN Pause(Long) ELSE <<>>)

\* Seeded bug: one nibble less to get the display out of any state.
LcdInitShort ==
  Pause(Long) \o write_nibble(3, 0) \o Pause(Long) \o write_nibble(3, 0) \o write_nibble(2, 0)
    \o command(<<2, 8>>) \o command(<<0, 8>>) \o command(<<0, 1>>)
    \o command(<<0, 6>>) \o command(<<0, 12>>)

lcd_init ==
  Pause(Long) \o write_nibble(3, 0) \o Pause(Long) \o write_nibble(3, 0) \o Pause(Short)
    \o write_nibble(3, 0) \o write_nibble(2, 0)
    \o command(<<2, 8>>) \o command(<<0, 8>>) \o command(<<0, 1>>)
    \o command(<<0, 6>>) \o command(<<0, 12>>)

lcd_clear == command(<<0, 1>>)
set_cursor(row, col) == command(<<8 + (IF row = 0 THEN 0 ELSE 4) + col \div 16, col % 16>>)
putc(ch) == write_byte(ch, 1)
\* Texts of two characters: the loop of drv_lcd1602_write_string does nothing between them.
write_string(a, b) == putc(a) \o putc(b)

-----------------------------------------------------------------------------
(* The display. *)

NextPlace(p) == IF p[2] + 1 < Columns THEN <<p[1], p[2] + 1>> ELSE <<1 - p[1], 0>>
PlaceOf(byte) ==
  LET col == 16 * (byte[1] % 4) + byte[2] IN <<(byte[1] \div 4) % 2, col % Columns>>

\* A byte taken as data or as a command.
Taken(d, byte, rs) ==
  CASE rs = 1 -> [d EXCEPT !.memory[d.cursor] = byte, !.cursor = NextPlace(@), !.busy = Short]
    [] rs = 0 /\ byte = <<0, 1>> -> [d EXCEPT !.memory = Blank, !.cursor = Home, !.busy = Long]
    [] rs = 0 /\ byte \in {<<0, 2>>, <<0, 3>>} -> [d EXCEPT !.cursor = Home, !.busy = Long]
    [] rs = 0 /\ byte[1] = 0 /\ byte[2] \in 8 .. 15 -> [d EXCEPT !.on = byte[2] \in 12 .. 15, !.busy = Short]
    [] rs = 0 /\ byte[1] \in {2, 3} -> [d EXCEPT !.four = byte[1] = 2, !.busy = Short]
    [] rs = 0 /\ byte[1] >= 8 -> [d EXCEPT !.cursor = PlaceOf(byte), !.busy = Short]
    [] OTHER -> [d EXCEPT !.busy = Short]

\* A falling edge of EN; a busy display takes nothing.
Latched(d, nibble, rs) ==
  CASE d.busy # 0 -> d
    [] d.busy = 0 /\ ~d.four -> Taken(d, <<nibble, 0>>, rs)
    [] d.busy = 0 /\ d.four /\ d.half = <<>> -> [d EXCEPT !.half = <<nibble>>]
    [] OTHER -> Taken([d EXCEPT !.half = <<>>], <<d.half[1], nibble>>, rs)

-----------------------------------------------------------------------------
Due == Head(writes)
NextWrite == writes' = Tail(writes)

Raw ==
  /\ writes # <<>> /\ Due.do = "raw" /\ NextWrite
  /\ lines' = [nibble |-> Due.nibble, rs |-> Due.rs, en |-> Due.en]
  /\ lcd' = IF lines.en = 1 /\ Due.en = 0 THEN Latched(lcd, lines.nibble, lines.rs) ELSE lcd
  /\ UNCHANGED <<want, clean, faults>>

\* The status of the I2C write is not looked at.
RawIsLost ==
  /\ writes # <<>> /\ Due.do = "raw" /\ NextWrite
  /\ faults < MaxFaults /\ faults' = faults + 1 /\ clean' = FALSE
  /\ UNCHANGED <<lines, lcd, want>>

Waits ==
  /\ writes # <<>> /\ Due.do = "delay" /\ NextWrite
  /\ lcd' = [lcd EXCEPT !.busy = IF Due.time >= @ THEN 0 ELSE @]
  /\ UNCHANGED <<lines, want, clean, faults>>

Asks(steps, wanted) ==
  /\ writes = <<>> /\ writes' = steps /\ want' = wanted
  /\ UNCHANGED <<lines, lcd, clean, faults>>

Typed(w, ch) == [w EXCEPT !.memory[w.cursor] = ch, !.cursor = NextPlace(@)]

\* What goes over the bus, and what the display can be.
Writes ==
  [do : {"raw"}, nibble : Nibbles, rs : {0, 1}, en : {0, 1}] \cup [do : {"delay"}, time : {Short, Long}]
Displays ==
  [four : BOOLEAN, half : {<<>>} \cup {<<n>> : n \in Nibbles}, memory : [Positions -> Nibbles \X Nibbles],
   cursor : Positions, on : BOOLEAN, busy : {0, Short, Long}]

LcdTypeOK ==
  /\ lines \in [nibble : Nibbles, rs : {0, 1}, en : {0, 1}]
  /\ lcd \in Displays /\ (lcd.half # <<>> => lcd.four)
  /\ writes \in Seq(Writes) /\ clean \in BOOLEAN /\ faults \in Nat
  /\ want \in [memory : [Positions -> Nibbles \X Nibbles], cursor : Positions]

LcdUse ==
  \/ Asks(lcd_clear, [memory |-> Blank, cursor |-> Home])
  \/ \E p \in Positions : Asks(set_cursor(p[1], p[2]), [want EXCEPT !.cursor = p])
  \/ \E ch \in Chars : Asks(putc(ch), Typed(want, ch))
  \/ \E a, b \in Chars : Asks(write_string(a, b), Typed(Typed(want, a), b))

\* drv_lcd1602_init, called again or after a reset of the microcontroller.
Starts ==
  /\ writes' = lcd_init
  /\ want' = [memory |-> Blank, cursor |-> Home] /\ clean' = TRUE
  /\ UNCHANGED <<lines, lcd>>
LcdAgain == writes = <<>> /\ Starts /\ UNCHANGED faults
LcdReset == faults < MaxFaults /\ faults' = faults + 1 /\ Starts

\* Powered up, or left in any state by an earlier program.
LcdInit ==
  /\ lines \in [nibble : {0, 3}, rs : {0, 1}, en : {0, 1}]
  /\ lcd \in [four : BOOLEAN, half : {<<>>} \cup {<<n>> : n \in {0, 2, 3, 8}}, memory : {Blank},
              cursor : {Home}, on : {FALSE}, busy : {0}]
  /\ lcd.half # <<>> => lcd.four
  /\ writes = lcd_init
  /\ want = [memory |-> Blank, cursor |-> Home] /\ clean = TRUE /\ faults = 0

LcdNext == Raw \/ RawIsLost \/ Waits \/ LcdUse \/ LcdAgain \/ LcdReset

LcdSpec == LcdInit /\ [][LcdNext]_lcdVars

-----------------------------------------------------------------------------
(* Properties. *)

\* The initialisation finds the border of the bytes whatever half the display was
\* left in, no byte arrives while the display is busy, and from then on it shows what
\* was written: also after a reset in the middle of a byte, or a lost write before
\* init was called again (drv_lcd1602.c:86-125).
ShowsText ==
  writes = <<>> /\ clean =>
    /\ lcd.four /\ lcd.half = <<>> /\ lcd.on /\ lcd.busy = 0
    /\ lcd.memory = want.memory /\ lcd.cursor = want.cursor
=============================================================================
