----------------------------- MODULE MCOtaDevice -----------------------------
(* OtaDevice with an installed image and a new one, an area of two units. *)
EXTENDS OtaDevice

CONSTANTS old, new

MCContent == [i \in {old, new} |-> IF i = old THEN <<"x">> ELSE <<"y", "x">>]

MCInRange == [i \in {old, new} |-> TRUE]

Factory(valid, pending) ==
  [seq |-> 0, known |-> TRUE, app |-> old, committed |-> TRUE, app_valid |-> valid,
   update_pending |-> pending, boot_attempted |-> FALSE]

MCFactory == {Factory(TRUE, FALSE), Factory(TRUE, TRUE)}

MCChunks == {<<"x">>, <<"y">>, <<"y", "x">>}
=============================================================================
