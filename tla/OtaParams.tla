------------------------------ MODULE OtaParams ------------------------------
(***************************************************************************)
(* The A/B parameter store (hal/stc8h_ota_params_store.c) over its IAP     *)
(* backend (hal/stc8h_iap_ota_params.c), with its three callers: commit,    *)
(* mark_boot_attempted and mark_app_valid.                                  *)
(*                                                                         *)
(* write_next is one call, yet three flash operations that power cuts and   *)
(* failing IAP commands fall between: the phases erase, program and check.  *)
(* Between calls the phase is idle and the other fields of job keep what    *)
(* the last call worked on.                                                 *)
(*                                                                         *)
(* A call reads the slots twice, for the record it builds on and for the    *)
(* slot it writes, and store->read may fail.  A failed read of the record    *)
(* in use makes the call take the other one for it, or none, and the code    *)
(* goes on: such calls are counted in misreads, and what the store promises  *)
(* it promises until the first of them.                                      *)
(***************************************************************************)
EXTENDS OtaFormat

CONSTANTS
  FactoryRecords,  \* records the production tool may have left in slot A
  MaxSeq,          \* bound: no call builds on a record with sequence MaxSeq
  MaxMisreads      \* bound on the calls that a failing read misleads

ASSUME ParamsAssumption ==
  FactoryRecords \subseteq Record /\ MaxSeq \in Nat /\ MaxMisreads \in Nat

VARIABLES
  flash,   \* flash[s]: the record slot s decodes to
  job,     \* the write_next call in progress, or the last one
  status,  \* answer of the last call: "none", "busy", "ok" or "error"
  misreads \* history: calls that took another record for the active one

paramVars == <<flash, job, status, misreads>>

Job == [phase : {"idle", "erase", "program", "check"}, target : Slots,
        rec : Record \cup {NoRecord}, base : Record \cup {NoRecord}]

TypeOK ==
  /\ flash \in [Slots -> Record \cup {NoRecord}]
  /\ job \in Job
  /\ status \in {"none", "busy", "ok", "error"}
  /\ job.phase # "idle" => job.rec \in Record
  /\ misreads \in 0 .. MaxMisreads

Init ==
  /\ \E r \in FactoryRecords \cup {NoRecord} :
       /\ flash = [s \in Slots |-> IF s = "A" THEN r ELSE NoRecord]
       /\ job = [phase |-> "idle", target |-> "A", rec |-> r, base |-> r]
  /\ status = "none" /\ misreads = 0

-----------------------------------------------------------------------------
(* Calls. *)

\* Nothing that the call goes on with depends on a read that failed: it builds on
\* the active record r and rewrites the slot that is not in use.
Exact(r, s) == r = Active(flash) /\ Target(s) = Target(Selected(flash))

CountMisread(misled) ==
  /\ misreads' = IF misled THEN misreads + 1 ELSE misreads
  /\ misreads' <= MaxMisreads

\* write_next, called with rec, which was made from the record r.
WriteNext(r, rec) ==
  \E s \in Loads(flash) :
    /\ job.phase = "idle"
    /\ r # NoRecord => r.seq < MaxSeq
    /\ job' = [phase |-> "erase", target |-> Target(s),
               rec |-> rec, base |-> Active(flash)]
    /\ status' = "busy"
    /\ CountMisread(~Exact(r, s))
    /\ UNCHANGED flash

\* The records load_active may leave with a caller, NoRecord when it fails.
LoadedRecords == {Loaded(flash, s) : s \in Loads(flash)}

\* load_active answers r to the bootloader, which decides on it.
Load(r) ==
  /\ job.phase = "idle"
  /\ r \in LoadedRecords \ {NoRecord}
  /\ CountMisread(r # Active(flash))
  /\ UNCHANGED <<flash, job, status>>

\* The parameter half of stc8h_ota_commit; without a record it numbers its own 1.
Commit(i) == \E r \in LoadedRecords : WriteNext(r, CommitRecord(r, i))

\* mark_boot_attempted and mark_app_valid fail when load_active does.
Refuse ==
  /\ job.phase = "idle"
  /\ NoRecord \in LoadedRecords
  /\ status' = "error"
  /\ UNCHANGED <<flash, job, misreads>>

MarkBootAttempted ==
  \E r \in LoadedRecords \ {NoRecord} : WriteNext(r, AttemptedRecord(r))

MarkAppValid ==
  \E r \in LoadedRecords \ {NoRecord} : WriteNext(r, ValidRecord(r))

-----------------------------------------------------------------------------
(* The flash operations of write_next. *)

Return(answer) ==
  job' = [job EXCEPT !.phase = "idle"] /\ status' = answer /\ UNCHANGED misreads

Continue(next) == job' = [job EXCEPT !.phase = next] /\ UNCHANGED <<status, misreads>>

SetTarget(content) == flash' = [flash EXCEPT ![job.target] = content]

Erase ==
  /\ job.phase = "erase"
  /\ SetTarget(NoRecord)
  /\ Continue("program")

\* IAP reports CMD_FAIL: the sector is untouched or no longer decodes.
EraseFails ==
  /\ job.phase = "erase"
  /\ SetTarget(NoRecord) \/ UNCHANGED flash
  /\ Return("error")

\* The last of the 31 bytes is in place; before it the slot does not decode.
Program ==
  /\ job.phase = "program"
  /\ SetTarget(job.rec)
  /\ Continue("check")

\* Every byte is accepted, but a cell does not hold what was written.
ProgramBadCell ==
  /\ job.phase = "program"
  /\ UNCHANGED flash
  /\ Continue("check")

ProgramFails ==
  /\ job.phase = "program"
  /\ UNCHANGED flash
  /\ Return("error")

\* Seeded bug: the read-back is not compared.
CheckBlind ==
  /\ job.phase = "check"
  /\ Return("ok")
  /\ UNCHANGED flash

\* Read back and compare all bytes with what was encoded.
Check ==
  /\ job.phase = "check"
  /\ Return(IF flash[job.target] = job.rec THEN "ok" ELSE "error")
  /\ UNCHANGED flash

CheckFails ==
  /\ job.phase = "check"
  /\ Return("error")
  /\ UNCHANGED flash

\* Reset or loss of power.  A sector whose erase is cut short keeps its record
\* or loses it; a record cut short while it is programmed does not decode.
PowerCut ==
  /\ \/ job.phase = "erase" /\ SetTarget(NoRecord)
     \/ UNCHANGED flash
  /\ Return("none")

-----------------------------------------------------------------------------
JobStep ==
  \/ Erase \/ EraseFails \/ Program \/ ProgramBadCell \/ ProgramFails
  \/ Check \/ CheckFails

Call ==
  \/ \E i \in Images : Commit(i)
  \/ \E r \in LoadedRecords : Load(r)
  \/ MarkBootAttempted
  \/ MarkAppValid
  \/ Refuse

Next == Call \/ JobStep \/ PowerCut

Spec == Init /\ [][Next]_paramVars

-----------------------------------------------------------------------------
(* Properties. *)

\* No call has been misled by a failing read so far.
Trusted == misreads = 0

\* write_next never exposes an intermediate state: at every instant, in the
\* middle of its flash operations, after a failure and after a power cut,
\* load_active finds the record that was active before the last call or the
\* record that call writes (hal/stc8h_ota_params_store.c:98-137).  This and the
\* properties below hold until a failing read makes a call take another record
\* for the active one; TargetIsNotCurrent shows what happens then.
WriteIsAtomic == Trusted => Active(flash) \in {job.base, job.rec}

\* A call that answered STC8H_OK left its record selected by the next
\* load_active: the two slots are compared by sequence, so the record must be
\* the newer of the two (docs/25 lines 169-171).
AckedIsActive == Trusted /\ status = "ok" => Active(flash) = job.rec

\* Once the store has an active record it always has one, and the active
\* sequence never goes back, whatever fails and whenever power is cut, until a
\* call is misled.
NeverForgets ==
  [][Trusted /\ Active(flash) # NoRecord =>
       /\ Active(flash') # NoRecord
       /\ Active(flash').seq >= Active(flash).seq]_flash

\* The store implements the register of ParamRegister, which is broken once a
\* call has been misled.
Register == INSTANCE ParamRegister WITH
  Value <- Record, None <- NoRecord, reg <- Active(flash),
  pending <- IF job.phase = "idle" THEN NoRecord ELSE job.rec,
  broken <- ~Trusted

RegisterSpec == Register!Spec

\* The page a call erases is not the one with the current record (docs/25:169,
\* "choose the page that is not the current one when a new state is written").
TargetIsNotCurrent == job.phase = "erase" => job.target # Selected(flash)
=============================================================================
