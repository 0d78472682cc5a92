----------------------------- MODULE MCOtaParams -----------------------------
(* OtaParams on two images, one of them outside the application area. *)
EXTENDS OtaParams

CONSTANTS good, big

MCInRange == [i \in {good, big} |-> i = good]

Factory(n, pending) ==
  [seq |-> n, known |-> TRUE, app |-> good, committed |-> TRUE,
   app_valid |-> TRUE, update_pending |-> pending, boot_attempted |-> FALSE]

MCFactory == {Factory(0, FALSE), Factory(1, TRUE), Factory(2, FALSE)}
=============================================================================
