------------------------------ MODULE OtaFormat ------------------------------
(***************************************************************************)
(* The OTA parameter record and the decisions taken on it:                 *)
(* protocols/stc8h_ota_format, the pure parts of                           *)
(* hal/stc8h_ota_params_store and of protocols/stc8h_ota.                  *)
(*                                                                         *)
(* A record keeps the fields that some decision reads.  The two magic and  *)
(* version fields are one Boolean (known), the image described by app_base,*)
(* app_size and app_crc32 is one element of Images, and the 31 wire bytes  *)
(* with their CRC16 are the record itself: a slot that is erased, half     *)
(* programmed or worn holds NoRecord, which is what decode answers for it. *)
(***************************************************************************)
EXTENDS Naturals

CONSTANTS
  Images,     \* the application images a record or a manifest may describe
  InRange,    \* InRange[i]: stc8h_ota_validate_app_range accepts image i
  SeqMod,     \* number of values of the sequence field (2^16 in the code)
  NoRecord    \* content of a slot that does not decode

Slots == {"A", "B"}

NoSlot == "none"

Other(s) == IF s = "A" THEN "B" ELSE "A"

Record == [seq : 0 .. SeqMod - 1, known : BOOLEAN, app : Images,
           committed : BOOLEAN, app_valid : BOOLEAN,
           update_pending : BOOLEAN, boot_attempted : BOOLEAN]

ASSUME FormatAssumption ==
  /\ InRange \in [Images -> BOOLEAN]
  /\ SeqMod \in Nat /\ SeqMod >= 2
  /\ NoRecord \notin Record

-----------------------------------------------------------------------------
(* Choosing the current record of the two slots. *)

\* Seeded bug: the older record wins.
OlderWins(a, b) == b.seq < a.seq

Newer(a, b) == b.seq > a.seq

\* The slot stc8h_ota_params_store_load_active selects when every read succeeds,
\* NoSlot when it fails.
Selected(flash) ==
  LET a == flash["A"]
      b == flash["B"]
  IN  IF a # NoRecord /\ b # NoRecord
      THEN IF a.seq = b.seq THEN NoSlot
           ELSE IF Newer(a, b) THEN "B" ELSE "A"
      ELSE IF a # NoRecord THEN "A"
      ELSE IF b # NoRecord THEN "B"
      ELSE NoSlot

Loaded(flash, s) == IF s = NoSlot THEN NoRecord ELSE flash[s]

Active(flash) == Loaded(flash, Selected(flash))

\* The slots as load_active finds them when only the reads of those in ok succeed.
Seen(flash, ok) == [s \in Slots |-> IF s \in ok THEN flash[s] ELSE NoRecord]

\* What load_active may answer: store->read may fail for either slot, and for the
\* second read of the slot selected, which like two failures leaves no record.
Loads(flash) == {Selected(Seen(flash, ok)) : ok \in SUBSET Slots}

\* Seeded bug: the slot in use is rewritten in place.
TargetInPlace(s) == IF s = NoSlot THEN "A" ELSE s

\* The slot stc8h_ota_params_store_write_next erases and rewrites when its own
\* load_active has answered s.
Target(s) == IF s = NoSlot THEN "A" ELSE Other(s)

-----------------------------------------------------------------------------
(* The records the library writes. *)

NextSeq(r) == IF r = NoRecord THEN 1 ELSE (r.seq + 1) % SeqMod

CommitRecord(r, i) ==
  [seq |-> NextSeq(r), known |-> TRUE, app |-> i, committed |-> TRUE,
   app_valid |-> FALSE, update_pending |-> FALSE, boot_attempted |-> FALSE]

AttemptedRecord(r) ==
  [r EXCEPT !.seq = NextSeq(r), !.boot_attempted = TRUE]

ValidRecord(r) ==
  [r EXCEPT !.seq = NextSeq(r), !.app_valid = TRUE,
            !.update_pending = FALSE, !.boot_attempted = FALSE]

-----------------------------------------------------------------------------
\* stc8h_ota_get_boot_action.
BootAction(r) ==
  IF ~r.known \/ ~InRange[r.app] \/ r.update_pending THEN "stay"
  ELSE IF r.app_valid THEN "jump"
  ELSE IF r.committed /\ ~r.boot_attempted THEN "trial"
  ELSE "stay"

=============================================================================
