----------------------------- MODULE MCOtaCore -----------------------------
(* OtaCore on an area of four units in two sectors. *)
EXTENDS OtaCore

CONSTANTS long, short, big

MCContent == [i \in {long, short, big} |->
  CASE i = long  -> <<"x", "ff", "x", "x">>
    [] i = short -> <<"x">>
    [] OTHER     -> <<"x", "x", "x", "x", "x">>]

MCInRange == [i \in {long, short, big} |-> i # big]

MCFactory ==
  {[seq |-> 0, known |-> TRUE, app |-> long, committed |-> TRUE, app_valid |-> TRUE,
    update_pending |-> FALSE, boot_attempted |-> FALSE]}

\* An empty chunk, one unit, two that may cross a sector boundary, others in their
\* place, and one long enough for the 16-bit sum to wrap.
MCChunks == {<<>>, <<"x">>, <<"ff", "x">>, <<"x", "x">>, <<"x", "x", "x", "x", "x">>}
=============================================================================
