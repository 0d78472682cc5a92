------------------------------- MODULE Button -------------------------------
(***************************************************************************)
(* The push button of drivers/drv_button.c and the loop that scans it.  The  *)
(* driver keeps one event at a time: a later event replaces one that was not *)
(* fetched.  Times are in scan units; the counters stop at MaxMs instead of  *)
(* 0xFFFF.                                                                  *)
(***************************************************************************)
EXTENDS Naturals

CONSTANTS
  DebounceMs, LongMs, \* the timings an application may set
  Gaps,               \* the times that may pass between two scans
  MaxMs               \* saturation of the counters

ASSUME ButtonAssumption ==
  DebounceMs \subseteq Nat /\ LongMs \subseteq Nat /\ Gaps \subseteq Nat /\ MaxMs \in Nat

VARIABLES
  button,  \* drv_button_t
  polls,   \* the application fetches the event after every scan
  scanned, \* a scan was made since the last fetch
  still,   \* history: how long the contact has not moved, counted to MaxMs
  settled, \* history: the position the contact last held for debounce_ms
  told     \* history: what the application was told last

buttonVars == <<button, polls, scanned, still, settled, told>>

Events == {"NONE", "PRESS", "RELEASE", "SHORT", "LONG"}

ButtonStates ==
  [stable_state : BOOLEAN, last_raw : BOOLEAN, long_reported : BOOLEAN, event : Events,
   debounce_ms : DebounceMs, debounce_count_ms : 0 .. MaxMs,
   press_ms : 0 .. MaxMs, long_press_ms : LongMs]

ButtonTypeOK ==
  /\ button \in ButtonStates /\ still \in 0 .. MaxMs
  /\ {scanned, polls, settled} \subseteq BOOLEAN /\ told \in Events

(* drv_button_init and drv_button_set_timing right after it. *)
ButtonInit ==
  /\ \E d \in DebounceMs, l \in LongMs :
       button = [stable_state |-> FALSE, last_raw |-> FALSE, long_reported |-> FALSE,
                 event |-> "NONE", debounce_ms |-> d, debounce_count_ms |-> 0,
                 press_ms |-> 0, long_press_ms |-> l]
  /\ polls \in BOOLEAN
  /\ scanned = FALSE /\ still = 0 /\ settled = FALSE /\ told = "NONE"

-----------------------------------------------------------------------------

AddButtonMs(value, elapsed) == IF value + elapsed > MaxMs THEN MaxMs ELSE value + elapsed

(* The time of a press; its long press is reported once. *)
PressedAgain(b, elapsed) ==
  LET press == AddButtonMs(b.press_ms, elapsed)
  IN  [b EXCEPT !.press_ms = press, !.event = IF press >= b.long_press_ms THEN "LONG" ELSE @]
Pressed(b, elapsed) ==
  LET press == AddButtonMs(b.press_ms, elapsed)
      long == ~b.long_reported /\ press >= b.long_press_ms
  IN  IF ~b.stable_state THEN b
      ELSE [b EXCEPT !.press_ms = press,
                     !.long_reported = @ \/ long,
                     !.event = IF long THEN "LONG" ELSE @]

DebouncedOnce(b, raw, elapsed) ==
  [b EXCEPT !.last_raw = raw, !.debounce_count_ms = AddButtonMs(@, elapsed)]
(* The debounce counter after a scan of raw: 0 when the contact moved. *)
Debounced(b, raw, elapsed) ==
  [b EXCEPT !.last_raw = raw,
            !.debounce_count_ms = IF raw # b.last_raw THEN 0
                                  ELSE IF @ < b.debounce_ms THEN AddButtonMs(@, elapsed) ELSE @]

(* The stable state changes: the end of a press is short if no long press was *)
(* reported.                                                                *)
Settles(b, raw) ==
  LET late == ~b.long_reported /\ b.press_ms >= b.long_press_ms
  IN  IF raw
      THEN [b EXCEPT !.stable_state = TRUE, !.press_ms = 0, !.long_reported = FALSE, !.event = "PRESS"]
      ELSE [b EXCEPT !.stable_state = FALSE, !.long_reported = @ \/ late,
                     !.event = IF b.long_reported THEN "RELEASE" ELSE IF late THEN "LONG" ELSE "SHORT"]

AfterScan(raw, elapsed) ==
  LET timed == Pressed(button, elapsed)
      next  == Debounced(timed, raw, elapsed)
  IN  IF \/ raw # button.last_raw
         \/ next.debounce_count_ms < next.debounce_ms
         \/ raw = button.stable_state
      THEN next
      ELSE Settles(next, raw)

(* drv_button_scan. *)
ScanButton(raw, elapsed) ==
  /\ polls => ~scanned
  /\ button' = AfterScan(raw, elapsed)
  /\ scanned' = TRUE
  /\ still' = IF raw # button.last_raw THEN 0
              ELSE IF still + elapsed > MaxMs THEN MaxMs ELSE still + elapsed
  /\ settled' = IF raw = button.last_raw /\ still' >= button.debounce_ms THEN raw ELSE settled
  /\ UNCHANGED <<polls, told>>

(* drv_button_get_event. *)
GetEvent ==
  /\ scanned
  /\ told' = IF button.event = "NONE" THEN told ELSE button.event
  /\ button' = [button EXCEPT !.event = "NONE"]
  /\ scanned' = FALSE
  /\ UNCHANGED <<polls, still, settled>>

ButtonNext == GetEvent \/ \E raw \in BOOLEAN, elapsed \in Gaps : ScanButton(raw, elapsed)

ButtonSpec == ButtonInit /\ [][ButtonNext]_buttonVars

-----------------------------------------------------------------------------
(* The stable state is the position the contact last held for the debounce    *)
(* time: bounces do not reach it, and a position that is held does.          *)
BouncesAreFiltered == button.stable_state = settled

(* An event that waits speaks of the button as it is: no fetch, however late, *)
(* reports a long press of a button that has been released, or the release   *)
(* of one that is pressed again.                                            *)
WaitingEventIsCurrent ==
  /\ button.event \in {"PRESS", "LONG"} => button.stable_state
  /\ button.event \in {"SHORT", "RELEASE"} => ~button.stable_state

(* What the button tells is what its contact does, see the two parts.          *)
ButtonIsFollowed == BouncesAreFiltered /\ WaitingEventIsCurrent

(* An application that fetches after every scan is told a press by PRESS,      *)
(* then SHORT or at most one LONG and RELEASE, and never two events in a row *)
(* that do not belong together.                                             *)
EventsTellOneStory ==
  [][polls /\ GetEvent =>
       CASE button.event = "PRESS"   -> told \in {"NONE", "SHORT", "RELEASE"}
         [] button.event = "SHORT"   -> told = "PRESS"
         [] button.event = "LONG"    -> told = "PRESS"
         [] button.event = "RELEASE" -> told \in {"PRESS", "LONG"}
         [] OTHER -> TRUE]_buttonVars
=============================================================================
