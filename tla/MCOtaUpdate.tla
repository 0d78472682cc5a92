----------------------------- MODULE MCOtaUpdate -----------------------------
(* OtaUpdate on a fresh chip and on one that waits for an update. *)
EXTENDS OtaUpdate

CONSTANTS old, new

MCContent == [i \in {old, new} |-> IF i = old THEN <<"x">> ELSE <<"y", "x", "y">>]

MCInRange == [i \in {old, new} |-> TRUE]

MCFactory ==
  {[seq |-> 0, known |-> TRUE, app |-> old, committed |-> TRUE, app_valid |-> TRUE,
    update_pending |-> TRUE, boot_attempted |-> FALSE]}

MCChunks == {<<"y", "x">>, <<"x", "y">>, <<"y">>}
=============================================================================
