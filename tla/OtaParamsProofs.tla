--------------------------- MODULE OtaParamsProofs ---------------------------
(***************************************************************************)
(* Proofs about the parameter store: for every set of images, every width  *)
(* of the sequence field and every bound.  The types are kept whatever the  *)
(* reads answer; the rest holds until a failing read misleads a call        *)
(* (Trusted), and HarmlessReads says which failures mislead none.           *)
(***************************************************************************)
EXTENDS OtaParams, TLAPS

-----------------------------------------------------------------------------
(* Arithmetic of the sequence field. *)

\* The next sequence is in range and differs from the current one, even when
\* it wraps; below the largest value it is the successor.
LEMMA NextSeqFacts ==
  ASSUME NEW r \in Record \cup {NoRecord}
  PROVE  /\ NextSeq(r) \in 0 .. SeqMod - 1
         /\ r # NoRecord => NextSeq(r) # r.seq
         /\ r # NoRecord /\ r.seq < SeqMod - 1 => NextSeq(r) = r.seq + 1
<1>1. CASE r = NoRecord
  BY <1>1, FormatAssumption DEF NextSeq
<1>2. CASE r # NoRecord
  <2>1. r.seq \in 0 .. SeqMod - 1 /\ NextSeq(r) = (r.seq + 1) % SeqMod
    BY <1>2 DEF NextSeq, Record
  <2>2. CASE r.seq = SeqMod - 1
    <3>1. (r.seq + 1) % SeqMod = SeqMod % SeqMod
      BY <2>2, FormatAssumption
    <3>2. SeqMod % SeqMod = 0
      BY FormatAssumption
    <3> QED BY <2>1, <2>2, <3>1, <3>2, FormatAssumption
  <2>3. CASE r.seq < SeqMod - 1
    <3>1. (r.seq + 1) % SeqMod = r.seq + 1
      BY <2>1, <2>3, FormatAssumption
    <3> QED BY <2>1, <2>3, <3>1, FormatAssumption
  <2> QED BY <2>1, <2>2, <2>3, FormatAssumption
<1> QED BY <1>1, <1>2

-----------------------------------------------------------------------------
(* Which record load_active selects. *)

Flash == [Slots -> Record \cup {NoRecord}]

\* Two slots that decode never carry the same sequence.
Distinct(f) ==
  \A s \in Slots : f[s] # NoRecord /\ f[Other(s)] # NoRecord
                     => f[s].seq # f[Other(s)].seq

\* With one slot unreadable the other one decides.
LEMMA ActiveOfOne ==
  ASSUME NEW f \in Flash, NEW t \in Slots, f[t] = NoRecord
  PROVE  Active(f) = f[Other(t)]
BY DEF Flash, Slots, Other, Active, Loaded, Selected, NoSlot

\* With both readable and distinct, one of the two is selected, and it is the
\* one with the greater sequence.
LEMMA ActiveOfTwo ==
  ASSUME NEW f \in Flash, NEW t \in Slots, Distinct(f)
  PROVE  /\ Active(f) \in {f[t], f[Other(t)]}
         /\ f[t] # NoRecord /\ f[Other(t)] # NoRecord /\ f[t].seq > f[Other(t)].seq
               => Active(f) = f[t]
<1>1. Slots = {"A", "B"} /\ Other("A") = "B" /\ Other("B") = "A"
  BY DEF Slots, Other
<1>2. \A s \in Slots : f[s] # NoRecord => f[s].seq \in 0 .. SeqMod - 1
  BY DEF Flash, Record
<1> QED
  BY <1>1, <1>2, FormatAssumption DEF Distinct, Active, Loaded, Selected, Newer, NoSlot

\* The slot write_next rewrites is not the selected one, when it knows that.
LEMMA TargetIsInactive ==
  ASSUME NEW f \in Flash, Distinct(f)
  PROVE  /\ Target(Selected(f)) \in Slots
         /\ Active(f) = f[Other(Target(Selected(f)))]
<1>1. f["A"] \in Record \cup {NoRecord} /\ f["B"] \in Record \cup {NoRecord}
  BY DEF Flash, Slots
<1>2. Selected(f) = NoSlot => f["A"] = NoRecord /\ f["B"] = NoRecord
  BY DEF Distinct, Selected, NoSlot, Slots, Other
<1>3. Selected(f) \in {"A", "B", NoSlot}
  BY DEF Selected
<1> QED
  BY <1>2, <1>3 DEF Target, Active, Loaded, Other, Slots, NoSlot

LEMMA ActiveType ==
  ASSUME NEW f \in Flash
  PROVE  Active(f) \in Record \cup {NoRecord}
BY DEF Active, Loaded, Selected, NoSlot, Flash, Slots

\* Whichever reads fail, load_active leaves a record of a slot or none.
LEMMA LoadTypes ==
  ASSUME NEW f \in Flash, NEW s \in Loads(f)
  PROVE  Target(s) \in Slots /\ Loaded(f, s) \in Record \cup {NoRecord}
<1>1. s \in {"A", "B", NoSlot}
  BY DEF Loads, Selected
<1> QED BY <1>1 DEF Target, Loaded, Other, Flash, Slots, NoSlot

\* The three records the library writes are records, and carry the next
\* sequence after the record they are computed from.
LEMMA WrittenRecords ==
  ASSUME NEW r \in Record \cup {NoRecord}
  PROVE  /\ \A i \in Images : /\ CommitRecord(r, i) \in Record
                              /\ CommitRecord(r, i).seq = NextSeq(r)
         /\ r # NoRecord => /\ AttemptedRecord(r) \in Record
                            /\ AttemptedRecord(r).seq = NextSeq(r)
                            /\ ValidRecord(r) \in Record
                            /\ ValidRecord(r).seq = NextSeq(r)
<1>1. NextSeq(r) \in 0 .. SeqMod - 1
  BY NextSeqFacts
<1>2. ASSUME NEW i \in Images
      PROVE  CommitRecord(r, i) \in Record /\ CommitRecord(r, i).seq = NextSeq(r)
  BY <1>1 DEF CommitRecord, Record
<1>3. ASSUME r # NoRecord
      PROVE  /\ AttemptedRecord(r) \in Record /\ AttemptedRecord(r).seq = NextSeq(r)
             /\ ValidRecord(r) \in Record /\ ValidRecord(r).seq = NextSeq(r)
  BY <1>1, <1>3 DEF AttemptedRecord, ValidRecord, Record
<1> QED BY <1>2, <1>3

-----------------------------------------------------------------------------
(* The inductive invariant. *)

\* While a call is in progress the slot it does not touch holds the record
\* that was active when it started.
InFlight ==
  job.phase # "idle" =>
    /\ flash[Other(job.target)] = job.base
    /\ job.rec.seq = NextSeq(job.base)
    /\ job.phase = "erase" => Active(flash) = job.base
    /\ job.phase = "program" => flash[job.target] = NoRecord
    /\ job.phase = "check" => flash[job.target] \in {NoRecord, job.rec}

StoreInv ==
  /\ Trusted
  /\ TypeOK
  /\ Distinct(flash)
  /\ InFlight
  /\ WriteIsAtomic

LEMMA StoreInit == Init => StoreInv
<1> SUFFICES ASSUME Init PROVE StoreInv
  OBVIOUS
<1> PICK r \in FactoryRecords \cup {NoRecord} :
      /\ flash = [s \in Slots |-> IF s = "A" THEN r ELSE NoRecord]
      /\ job = [phase |-> "idle", target |-> "A", rec |-> r, base |-> r]
  BY DEF Init
<1>1. r \in Record \cup {NoRecord} /\ status = "none" /\ misreads = 0
  BY ParamsAssumption DEF Init
<1>2. job \in Job
  BY <1>1 DEF Job, Slots
<1>3. flash \in Flash
  BY <1>1 DEF Flash
<1>4. Distinct(flash)
  BY DEF Distinct, Slots, Other
<1>5. Active(flash) = r
  BY <1>3, ActiveOfOne DEF Slots, Other
<1> QED
  BY <1>1, <1>2, <1>3, <1>4, <1>5, ParamsAssumption
     DEF StoreInv, TypeOK, InFlight, WriteIsAtomic, Flash, Trusted

\* What rewriting one slot leaves behind.
LEMMA SlotUpdate ==
  ASSUME NEW f \in Flash, NEW t \in Slots, NEW x \in Record \cup {NoRecord}
  PROVE  /\ [f EXCEPT ![t] = x] \in Flash
         /\ [f EXCEPT ![t] = x][t] = x
         /\ [f EXCEPT ![t] = x][Other(t)] = f[Other(t)]
         /\ Other(t) \in Slots /\ Other(Other(t)) = t
BY DEF Flash, Slots, Other

\* A call that no read misleads builds on the active record and erases the other
\* slot.
LEMMA ExactCall ==
  ASSUME TypeOK, Trusted, Trusted', NEW r, NEW rec, WriteNext(r, rec)
  PROVE  /\ r = Active(flash)
         /\ job.phase = "idle"
         /\ r # NoRecord => r.seq < MaxSeq
         /\ job' = [phase |-> "erase", target |-> Target(Selected(flash)),
                    rec |-> rec, base |-> Active(flash)]
         /\ status' = "busy" /\ misreads' = misreads /\ flash' = flash
BY DEF WriteNext, CountMisread, Exact, Trusted, TypeOK

\* The bootloader loads the active record, and nothing moves.
LEMMA ExactLoad ==
  ASSUME TypeOK, Trusted, Trusted', NEW r, Load(r)
  PROVE  UNCHANGED paramVars /\ r = Active(flash) /\ r \in Record
<1>1. r = Active(flash) /\ misreads' = misreads
  BY DEF Load, CountMisread, Trusted, TypeOK
<1>2. r \in Record
  BY <1>1, ActiveType DEF Load, TypeOK, Flash
<1> QED BY <1>1, <1>2 DEF Load, paramVars

LEMMA WriteNextInv ==
  ASSUME StoreInv, Trusted', NEW r, NEW rec \in Record, rec.seq = NextSeq(r),
         WriteNext(r, rec)
  PROVE  StoreInv'
<1> DEFINE target == Target(Selected(flash))
<1>1. flash \in Flash /\ flash' = flash /\ misreads' = misreads /\ status' = "busy"
      /\ r = Active(flash)
  BY ExactCall DEF StoreInv, TypeOK, Flash
<1>2. job' = [phase |-> "erase", target |-> target, rec |-> rec, base |-> Active(flash)]
  BY ExactCall DEF StoreInv
<1>3. target \in Slots /\ Active(flash) = flash[Other(target)]
  BY <1>1, TargetIsInactive DEF StoreInv
<1>4. Active(flash) \in Record \cup {NoRecord}
  BY <1>1, ActiveType
<1>5. Active(flash)' = Active(flash)
  BY <1>1
<1>6. TypeOK'
  BY <1>1, <1>2, <1>3, <1>4 DEF TypeOK, StoreInv, Job
<1>7. Distinct(flash)'
  BY <1>1 DEF StoreInv
<1>8. InFlight'
  BY <1>1, <1>2, <1>3, <1>5 DEF InFlight
<1>9. WriteIsAtomic'
  BY <1>2, <1>5 DEF WriteIsAtomic
<1> HIDE DEF target
<1> QED BY <1>6, <1>7, <1>8, <1>9 DEF StoreInv

\* Losing the content of the slot a call works on loses nothing else.
LEMMA LoseTarget ==
  ASSUME StoreInv, job.phase # "idle"
  PROVE  LET g == [flash EXCEPT ![job.target] = NoRecord]
         IN  /\ g \in Flash /\ Distinct(g)
             /\ g[job.target] = NoRecord
             /\ g[Other(job.target)] = job.base
             /\ Active(g) = job.base
<1> DEFINE g == [flash EXCEPT ![job.target] = NoRecord]
<1>1. flash \in Flash /\ job.target \in Slots
  BY DEF StoreInv, TypeOK, Job, Flash
<1>2. g \in Flash /\ g[job.target] = NoRecord /\ g[Other(job.target)] = job.base
  BY <1>1, SlotUpdate DEF StoreInv, InFlight
<1>3. Distinct(g)
  BY <1>1, <1>2 DEF Distinct, Slots, Other
<1>4. Active(g) = job.base
  BY <1>1, <1>2, ActiveOfOne
<1> QED BY <1>2, <1>3, <1>4

\* The record of a call, once complete, differs in sequence from its base.
LEMMA InstallTarget ==
  ASSUME StoreInv, job.phase = "program"
  PROVE  LET g == [flash EXCEPT ![job.target] = job.rec]
         IN  /\ g \in Flash /\ Distinct(g)
             /\ g[job.target] = job.rec
             /\ g[Other(job.target)] = job.base
             /\ Active(g) \in {job.base, job.rec}
<1> DEFINE g == [flash EXCEPT ![job.target] = job.rec]
<1>1. /\ flash \in Flash /\ job.target \in Slots
      /\ job.rec \in Record /\ job.base \in Record \cup {NoRecord}
  BY DEF StoreInv, TypeOK, Job, Flash
<1>2. /\ g \in Flash /\ g[job.target] = job.rec /\ g[Other(job.target)] = job.base
      /\ Other(Other(job.target)) = job.target
  BY <1>1, SlotUpdate DEF StoreInv, InFlight
<1>3. job.base # NoRecord => job.rec.seq # job.base.seq
  BY <1>1, NextSeqFacts DEF StoreInv, InFlight
<1>4. Distinct(g)
  BY <1>1, <1>2, <1>3 DEF Distinct, Slots, Other
<1>5. Active(g) \in {job.base, job.rec}
  BY <1>1, <1>2, <1>4, ActiveOfTwo
<1> QED BY <1>2, <1>4, <1>5

\* A step that leaves flash alone and only moves the phase to idle.
LEMMA ReturnInv ==
  ASSUME StoreInv, UNCHANGED flash, NEW answer \in {"none", "ok", "error"}, Return(answer)
  PROVE  StoreInv'
<1>1. /\ job' \in Job /\ job'.phase = "idle"
      /\ job'.rec = job.rec /\ job'.base = job.base
  BY DEF Return, StoreInv, TypeOK, Job
<1>2. Active(flash)' = Active(flash)
  OBVIOUS
<1> QED
  BY <1>1, <1>2 DEF StoreInv, TypeOK, InFlight, WriteIsAtomic, Return, Trusted

\* A step that loses the content of the target slot.
LEMMA LoseInv ==
  ASSUME StoreInv, job.phase # "idle", SetTarget(NoRecord),
         \/ Continue("program")
         \/ \E answer \in {"none", "error"} : Return(answer)
  PROVE  StoreInv' /\ Active(flash)' = job.base
<1>1. /\ flash' \in Flash /\ Distinct(flash')
      /\ flash'[job.target] = NoRecord
      /\ flash'[Other(job.target)] = job.base
      /\ Active(flash') = job.base
  BY LoseTarget DEF SetTarget
<1>2. /\ job' \in Job /\ job'.phase \in {"idle", "program"} /\ job'.target = job.target
      /\ job'.rec = job.rec /\ job'.base = job.base /\ job.rec \in Record
  BY DEF Return, Continue, StoreInv, TypeOK, Job
<1>3. status' \in {"none", "busy", "ok", "error"} /\ misreads' = misreads
  BY DEF Return, Continue, StoreInv, TypeOK
<1>4. TypeOK'
  BY <1>1, <1>2, <1>3 DEF TypeOK, StoreInv, Flash
<1>5. InFlight'
  BY <1>1, <1>2 DEF InFlight, StoreInv
<1> QED BY <1>1, <1>2, <1>3, <1>4, <1>5 DEF StoreInv, WriteIsAtomic, Trusted

\* Loaded records make records to write.
LEMMA LoadedIsRecord ==
  ASSUME TypeOK, NEW r \in LoadedRecords
  PROVE  r \in Record \cup {NoRecord}
BY LoadTypes DEF TypeOK, LoadedRecords, Flash

LEMMA StoreStep == StoreInv /\ Trusted' /\ [Next]_paramVars => StoreInv'
<1> SUFFICES ASSUME StoreInv, Trusted', [Next]_paramVars PROVE StoreInv'
  OBVIOUS
<1> TypeOK
  BY DEF StoreInv
<1> flash \in Flash /\ Active(flash) \in Record \cup {NoRecord}
  BY ActiveType DEF StoreInv, TypeOK, Flash
<1>1. ASSUME NEW i \in Images, Commit(i) PROVE StoreInv'
  BY <1>1, WrittenRecords, WriteNextInv, LoadedIsRecord DEF Commit
<1>2. CASE MarkBootAttempted
  BY <1>2, WrittenRecords, WriteNextInv, LoadedIsRecord DEF MarkBootAttempted
<1>3. CASE MarkAppValid
  BY <1>3, WrittenRecords, WriteNextInv, LoadedIsRecord DEF MarkAppValid
<1>4. CASE Refuse
  BY <1>4 DEF Refuse, StoreInv, TypeOK, InFlight, WriteIsAtomic
<1>14. ASSUME NEW r, Load(r) PROVE StoreInv'
  BY <1>14, ExactLoad DEF paramVars, StoreInv, TypeOK, InFlight, WriteIsAtomic
<1>5. CASE Erase
  BY <1>5, LoseInv DEF Erase
<1>6. CASE EraseFails
  BY <1>6, LoseInv, ReturnInv DEF EraseFails
<1>7. CASE Program
  <2>1. /\ flash' \in Flash /\ Distinct(flash')
        /\ flash'[job.target] = job.rec
        /\ flash'[Other(job.target)] = job.base
        /\ Active(flash') \in {job.base, job.rec}
    BY <1>7, InstallTarget DEF Program, SetTarget
  <2>2. /\ job' \in Job /\ job'.phase = "check" /\ job'.target = job.target
        /\ job'.rec = job.rec /\ job'.base = job.base /\ job.rec \in Record
        /\ status' = status /\ misreads' = misreads
    BY <1>7 DEF Program, Continue, StoreInv, TypeOK, Job
  <2>3. job.rec.seq = NextSeq(job.base)
    BY <1>7 DEF Program, StoreInv, InFlight
  <2> QED
    BY <2>1, <2>2, <2>3 DEF StoreInv, TypeOK, InFlight, WriteIsAtomic, Flash
<1>8. CASE ProgramBadCell
  <2>1. /\ job' \in Job /\ job'.phase = "check" /\ job'.target = job.target
        /\ job'.rec = job.rec /\ job'.base = job.base /\ job.rec \in Record
        /\ status' = status /\ flash' = flash /\ misreads' = misreads
    BY <1>8 DEF ProgramBadCell, Continue, StoreInv, TypeOK, Job
  <2>2. /\ flash[Other(job.target)] = job.base /\ job.rec.seq = NextSeq(job.base)
        /\ flash[job.target] = NoRecord
    BY <1>8 DEF ProgramBadCell, StoreInv, InFlight
  <2> QED
    BY <2>1, <2>2 DEF StoreInv, TypeOK, InFlight, WriteIsAtomic
<1>9. CASE ProgramFails
  BY <1>9, ReturnInv DEF ProgramFails
<1>10. CASE Check
  BY <1>10, ReturnInv DEF Check
<1>11. CASE CheckFails
  BY <1>11, ReturnInv DEF CheckFails
<1>12. CASE PowerCut
  BY <1>12, LoseInv, ReturnInv DEF PowerCut
<1>13. CASE UNCHANGED paramVars
  BY <1>13 DEF paramVars, StoreInv, TypeOK, InFlight, WriteIsAtomic
<1> QED
  BY <1>1, <1>2, <1>3, <1>4, <1>5, <1>6, <1>7, <1>8, <1>9, <1>10, <1>11, <1>12, <1>13, <1>14
     DEF Next, Call, JobStep

-----------------------------------------------------------------------------
(* Theorems. *)

\* A read that fails misleads nobody as long as both reads of the record in use
\* succeed, or the store has none: the record and the page to write come out as
\* if every read had succeeded.
THEOREM HarmlessReads ==
  ASSUME NEW f \in Flash, Distinct(f), NEW ok \in SUBSET Slots,
         Selected(f) # NoSlot => Selected(f) \in ok
  PROVE  Selected(Seen(f, ok)) = Selected(f)
<1>1. Seen(f, ok) = [s \in {"A", "B"} |-> IF s \in ok THEN f[s] ELSE NoRecord]
  BY DEF Seen, Slots
<1>2. Selected(f) = NoSlot => f["A"] = NoRecord /\ f["B"] = NoRecord
  BY DEF Distinct, Selected, NoSlot, Slots, Other
<1> QED BY <1>1, <1>2 DEF Selected, NoSlot

LEMMA MisreadsGrow == TypeOK /\ [Next]_paramVars /\ Trusted' => Trusted
BY DEF TypeOK, Next, Call, Commit, MarkBootAttempted, MarkAppValid, WriteNext, CountMisread,
       Load, Refuse, JobStep, Erase, EraseFails, Program, ProgramBadCell, ProgramFails, Check,
       CheckFails, PowerCut, Return, Continue, paramVars, Trusted

LEMMA TypeStep == TypeOK /\ [Next]_paramVars => TypeOK'
<1> SUFFICES ASSUME TypeOK, [Next]_paramVars PROVE TypeOK'
  OBVIOUS
<1> flash \in Flash /\ Active(flash) \in Record \cup {NoRecord} /\ NoRecord \notin Record
  BY ActiveType, FormatAssumption DEF TypeOK, Flash
<1>1. ASSUME NEW r \in LoadedRecords, NEW rec \in Record, WriteNext(r, rec) PROVE TypeOK'
  <2> PICK s \in Loads(flash) :
        /\ job' = [phase |-> "erase", target |-> Target(s),
                   rec |-> rec, base |-> Active(flash)]
        /\ CountMisread(~Exact(r, s))
    BY <1>1 DEF WriteNext
  <2>1. Target(s) \in Slots
    BY LoadTypes
  <2>2. misreads' \in 0 .. MaxMisreads
    BY ParamsAssumption DEF CountMisread, TypeOK
  <2>3. job' \in Job /\ job'.rec \in Record
    BY <2>1 DEF Job
  <2> QED BY <1>1, <2>2, <2>3 DEF TypeOK, WriteNext
<1>9. ASSUME NEW r \in LoadedRecords, Load(r) PROVE TypeOK'
  <2>1. misreads' \in 0 .. MaxMisreads
    BY <1>9, ParamsAssumption DEF Load, CountMisread, TypeOK
  <2> QED BY <1>9, <2>1 DEF Load, TypeOK
<1>2. CASE Call
  <2>1. CASE Refuse
    BY <2>1 DEF Refuse, TypeOK
  <2> QED
    BY <1>1, <1>2, <1>9, <2>1, WrittenRecords, LoadedIsRecord
       DEF Call, Commit, MarkBootAttempted, MarkAppValid
<1>3. ASSUME NEW x \in Record \cup {NoRecord}, SetTarget(x) PROVE flash' \in Flash
  <2>1. job.target \in Slots /\ flash' = [flash EXCEPT ![job.target] = x]
    BY <1>3 DEF SetTarget, TypeOK, Job
  <2> QED BY <2>1, SlotUpdate
<1>4. ASSUME NEW answer \in {"none", "ok", "error"}, Return(answer)
      PROVE  /\ job' \in Job /\ job'.phase = "idle" /\ misreads' = misreads
             /\ status' \in {"none", "busy", "ok", "error"}
  BY <1>4 DEF Return, TypeOK, Job
<1>5. ASSUME NEW next \in {"program", "check"}, job.phase # "idle", Continue(next)
      PROVE  /\ job' \in Job /\ job'.rec \in Record /\ misreads' = misreads
             /\ status' \in {"none", "busy", "ok", "error"}
  BY <1>5 DEF Continue, TypeOK, Job
<1>6. CASE Erase \/ Program \/ ProgramBadCell
  <2>1. job.phase # "idle" /\ \E next \in {"program", "check"} : Continue(next)
    BY <1>6 DEF Erase, Program, ProgramBadCell
  <2>2. flash' \in Flash
    BY <1>3, <1>6 DEF Erase, Program, ProgramBadCell, TypeOK
  <2> QED BY <1>5, <2>1, <2>2 DEF TypeOK, Flash
<1>7. CASE EraseFails \/ ProgramFails \/ Check \/ CheckFails \/ PowerCut
  <2>1. \E answer \in {"none", "ok", "error"} : Return(answer)
    BY <1>7 DEF EraseFails, ProgramFails, Check, CheckFails, PowerCut
  <2>2. SetTarget(NoRecord) \/ UNCHANGED flash
    BY <1>7 DEF EraseFails, ProgramFails, Check, CheckFails, PowerCut
  <2>3. flash' \in Flash
    BY <1>3, <2>2
  <2> QED BY <1>4, <2>1, <2>3 DEF TypeOK, Flash
<1>8. CASE UNCHANGED paramVars
  BY <1>8 DEF paramVars, TypeOK
<1> QED BY <1>2, <1>6, <1>7, <1>8 DEF Next, JobStep

\* The invariant of every behaviour: of the types alone once a call was misled.
StoreTrust == TypeOK /\ (Trusted => StoreInv)

LEMMA TrustInit == Init => StoreTrust
BY StoreInit DEF StoreTrust, StoreInv

LEMMA TrustStep == StoreTrust /\ [Next]_paramVars => StoreTrust'
BY StoreStep, TypeStep, MisreadsGrow DEF StoreTrust

\* The variables keep their types.
THEOREM TypeCorrect == Spec => []TypeOK
<1>1. StoreTrust => TypeOK
  BY DEF StoreTrust
<1> QED BY <1>1, TrustInit, TrustStep, PTL DEF Spec

\* Whatever fails and whenever the power is cut, and even when the sequence
\* wraps, load_active finds the record from before the last write_next or the
\* record that call writes, never a mixture and never nothing, until a call
\* has taken another record for the active one because a read failed.
THEOREM Atomicity == Spec => []WriteIsAtomic
<1>1. StoreTrust => WriteIsAtomic
  BY DEF StoreTrust, StoreInv, WriteIsAtomic
<1> QED BY <1>1, TrustInit, TrustStep, PTL DEF Spec

-----------------------------------------------------------------------------
(* What holds of the store as long as the sequence does not wrap (NoWrap): an  *)
(* acknowledged write is the active record, the store never goes back, and it  *)
(* implements ParamRegister.                                                  *)

\* The bound stops the calls before the last sequence number is used up.
NoWrap == MaxSeq < SeqMod

\* A call in progress started below the bound; an acknowledged one is active.
OrderInv ==
  /\ StoreInv
  /\ job.phase # "idle" => status = "busy"
  /\ job.phase # "idle" /\ job.base # NoRecord => job.base.seq < MaxSeq
  /\ AckedIsActive

LEMMA RecSeqIsNext ==
  ASSUME NoWrap, OrderInv, job.phase # "idle", job.base # NoRecord
  PROVE  /\ job.base \in Record /\ job.rec \in Record
         /\ job.rec.seq = job.base.seq + 1 /\ job.base.seq \in Nat
<1>1. job.base \in Record /\ job.rec \in Record
  BY DEF OrderInv, StoreInv, TypeOK, Job
<1>2. job.base.seq \in 0 .. SeqMod - 1
  BY <1>1 DEF Record
<1>3. job.rec.seq = NextSeq(job.base)
  BY DEF OrderInv, StoreInv, InFlight
<1>4. job.base.seq < SeqMod - 1
  BY <1>2, FormatAssumption, ParamsAssumption DEF NoWrap, OrderInv
<1> QED BY <1>1, <1>2, <1>3, <1>4, NextSeqFacts

\* A complete record in the target slot is the active one.
LEMMA CompleteIsActive ==
  ASSUME NoWrap, OrderInv, job.phase # "idle",
         NEW f \in Flash, Distinct(f),
         f[job.target] = job.rec, f[Other(job.target)] = job.base
  PROVE  Active(f) = job.rec
<1>1. /\ job.target \in Slots /\ Other(job.target) \in Slots
      /\ Other(Other(job.target)) = job.target /\ job.rec \in Record
  BY DEF OrderInv, StoreInv, TypeOK, Job, Slots, Other
<1>2. CASE job.base = NoRecord
  BY <1>1, <1>2, ActiveOfOne
<1>3. CASE job.base # NoRecord
  <2>1. job.rec.seq > job.base.seq
    BY <1>3, RecSeqIsNext
  <2> QED BY <1>1, <1>3, <2>1, ActiveOfTwo, FormatAssumption
<1> QED BY <1>2, <1>3

LEMMA OrderInit == Init => OrderInv
BY StoreInit DEF OrderInv, Init, AckedIsActive

LEMMA OrderStep == NoWrap /\ OrderInv /\ Trusted' /\ [Next]_paramVars => OrderInv'
<1> SUFFICES ASSUME NoWrap, OrderInv, Trusted', [Next]_paramVars PROVE OrderInv'
  OBVIOUS
<1> StoreInv'
  BY StoreStep DEF OrderInv
<1> job \in Job /\ flash \in Flash /\ Distinct(flash)
  BY DEF OrderInv, StoreInv, TypeOK, Flash
<1>1. ASSUME NEW r, NEW rec, WriteNext(r, rec) PROVE OrderInv'
  <2>1. /\ job'.base = Active(flash) /\ status' = "busy"
        /\ Active(flash) # NoRecord => Active(flash).seq < MaxSeq
    BY <1>1, ExactCall DEF OrderInv, StoreInv
  <2> QED BY <2>1 DEF OrderInv, AckedIsActive
<1>2. CASE Refuse
  BY <1>2 DEF Refuse, OrderInv, AckedIsActive, Trusted
<1>3. ASSUME Continue("program") \/ Continue("check"), job.phase # "idle"
      PROVE  OrderInv'
  <2>1. /\ job'.phase # "idle" /\ job'.base = job.base /\ status' = status
    BY <1>3 DEF Continue, Job
  <2> QED BY <1>3, <2>1 DEF OrderInv, AckedIsActive, StoreInv
<1>4. ASSUME NEW answer \in {"none", "error"}, Return(answer) PROVE OrderInv'
  <2>1. job'.phase = "idle" /\ status' # "ok"
    BY <1>4 DEF Return, Job
  <2> QED BY <2>1 DEF OrderInv, AckedIsActive
<1>5. CASE Check
  <2>1. /\ job'.phase = "idle" /\ job'.rec = job.rec /\ flash' = flash
        /\ status' = IF flash[job.target] = job.rec THEN "ok" ELSE "error"
    BY <1>5 DEF Check, Return, Job
  <2>2. flash[job.target] = job.rec => Active(flash) = job.rec
    BY <1>5, CompleteIsActive DEF Check, OrderInv, StoreInv, InFlight
  <2> QED BY <2>1, <2>2 DEF OrderInv, AckedIsActive
<1>6. CASE UNCHANGED paramVars \/ \E r \in LoadedRecords : Load(r)
  BY <1>6, ExactLoad DEF paramVars, OrderInv, AckedIsActive, StoreInv
<1> QED
  BY <1>1, <1>2, <1>3, <1>4, <1>5, <1>6
     DEF Next, Call, Commit, MarkBootAttempted, MarkAppValid, JobStep, Erase, EraseFails,
         Program, ProgramBadCell, ProgramFails, CheckFails, PowerCut

-----------------------------------------------------------------------------
(* Theorems. *)

OrderTrust == TypeOK /\ (Trusted => OrderInv)

LEMMA OrderTrustInit == Init => OrderTrust
BY OrderInit DEF OrderTrust, OrderInv, StoreInv

LEMMA OrderTrustStep == NoWrap /\ OrderTrust /\ [Next]_paramVars => OrderTrust'
BY OrderStep, TypeStep, MisreadsGrow DEF OrderTrust

\* A write_next that answered STC8H_OK left its record active, for any width of
\* the sequence field, until the sequence wraps or a failing read misleads a call.
THEOREM AckedWritesLast == ASSUME NoWrap PROVE Spec => []AckedIsActive
<1>1. OrderTrust /\ [Next]_paramVars => OrderTrust'
  BY OrderTrustStep
<1>2. OrderTrust => AckedIsActive
  BY DEF OrderTrust, OrderInv, AckedIsActive
<1> QED BY <1>1, <1>2, OrderTrustInit, PTL DEF Spec

\* What each step does to the active record: a job step that is not Program
\* and a power cut keep it, Program installs the record of the call.
LEMMA ActiveAfterStep ==
  ASSUME NoWrap, OrderInv, [Next]_paramVars
  PROVE  \/ Active(flash') = Active(flash)
         \/ Program /\ Active(flash') = job.rec /\ Active(flash) = job.base
<1> StoreInv /\ flash \in Flash
  BY DEF OrderInv, StoreInv, TypeOK, Flash
<1>1. CASE flash' = flash
  BY <1>1
<1>2. CASE Program
  <2>1. /\ flash' \in Flash /\ Distinct(flash')
        /\ flash'[job.target] = job.rec /\ flash'[Other(job.target)] = job.base
    BY <1>2, InstallTarget DEF Program, SetTarget
  <2>2. Active(flash') = job.rec
    BY <1>2, <2>1, CompleteIsActive DEF Program
  <2>3. Active(flash) = job.base
    BY <1>2, ActiveOfOne DEF Program, StoreInv, InFlight, TypeOK, Job
  <2> QED BY <1>2, <2>2, <2>3
<1>3. CASE job.phase = "erase" /\ SetTarget(NoRecord)
  <2>1. Active(flash') = job.base
    BY <1>3, LoseTarget DEF SetTarget
  <2>2. Active(flash) = job.base
    BY <1>3 DEF StoreInv, InFlight
  <2> QED BY <2>1, <2>2
<1> QED
  BY <1>1, <1>2, <1>3
     DEF Next, Call, Commit, MarkBootAttempted, MarkAppValid, WriteNext, Load, Refuse, JobStep,
         Erase, EraseFails, ProgramBadCell, ProgramFails, Check, CheckFails, PowerCut,
         paramVars

\* Until the sequence wraps or a call is misled, an active record is only ever
\* replaced by one with a sequence at least as great, and never lost.
THEOREM ActiveNeverLost == ASSUME NoWrap PROVE Spec => NeverForgets
<1> DEFINE Forward == Trusted /\ Active(flash) # NoRecord =>
                        /\ Active(flash') # NoRecord
                        /\ Active(flash').seq >= Active(flash).seq
<1>1. OrderTrust /\ [Next]_paramVars => OrderTrust'
  BY OrderTrustStep
<1>2. OrderTrust /\ [Next]_paramVars => [Forward]_flash
  <2> SUFFICES ASSUME OrderInv, [Next]_paramVars, Active(flash) # NoRecord
               PROVE  /\ Active(flash') # NoRecord
                      /\ Active(flash').seq >= Active(flash).seq
    BY DEF OrderTrust
  <2> Active(flash) \in Record
    BY ActiveType DEF OrderInv, StoreInv, TypeOK, Flash
  <2>1. CASE Active(flash') = Active(flash)
    BY <2>1, FormatAssumption DEF Record
  <2>2. CASE Program /\ Active(flash') = job.rec /\ Active(flash) = job.base
    BY <2>2, RecSeqIsNext, FormatAssumption DEF Program
  <2> QED BY <2>1, <2>2, ActiveAfterStep
<1> QED BY <1>1, <1>2, OrderTrustInit, PTL DEF Spec, NeverForgets

-----------------------------------------------------------------------------
(* Refinement. *)

LEMMA RegisterInit == Init => Register!Init
<1> SUFFICES ASSUME Init PROVE Register!Init
  OBVIOUS
<1>1. StoreInv
  BY StoreInit
<1>2. Active(flash) \in Record \cup {NoRecord}
  BY <1>1, ActiveType DEF StoreInv, TypeOK, Flash
<1>3. job.phase = "idle" /\ status = "none" /\ Trusted
  BY DEF Init, Trusted
<1> QED BY <1>2, <1>3 DEF Register!Init

LEMMA RegisterStep ==
  ASSUME NoWrap, OrderInv, Trusted', [Next]_paramVars
  PROVE  [Register!Next]_Register!vars
<1> DEFINE pending == IF job.phase = "idle" THEN NoRecord ELSE job.rec
<1> StoreInv /\ job \in Job /\ flash \in Flash
  BY DEF OrderInv, StoreInv, TypeOK, Flash
<1> Active(flash) \in Record \cup {NoRecord} /\ Trusted
  BY ActiveType DEF OrderInv, StoreInv
<1> TypeOK
  BY DEF StoreInv
<1>1. job.phase # "idle" => pending = job.rec /\ job.rec # NoRecord
  BY FormatAssumption DEF StoreInv, TypeOK
<1>2. ASSUME NEW r, NEW rec \in Record, WriteNext(r, rec) PROVE Register!Next
  <2>1. pending = NoRecord /\ pending' = rec /\ status' = "busy" /\ flash' = flash
    BY <1>2 DEF WriteNext
  <2> QED BY <2>1 DEF Register!Next, Register!Write, Register!Start
<1>3. CASE Refuse
  <2>1. pending = NoRecord /\ pending' = NoRecord /\ status' = "error" /\ flash' = flash
    BY <1>3 DEF Refuse
  <2> QED BY <2>1 DEF Register!Next, Register!Write, Register!Refuse
<1>4. CASE Program
  <2>1. pending # NoRecord /\ pending' = pending /\ status' = status
    BY <1>1, <1>4 DEF Program, Continue, Job
  <2>2. Active(flash') = pending
    BY <1>1, <1>4, InstallTarget, CompleteIsActive DEF Program, SetTarget
  <2> QED BY <2>1, <2>2 DEF Register!Next, Register!Write, Register!Install
<1>5. ASSUME job.phase # "idle", Continue("program") \/ Continue("check"),
             Active(flash') = Active(flash)
      PROVE  UNCHANGED Register!vars
  <2>1. pending' = pending /\ status' = status
    BY <1>5 DEF Continue, Job
  <2> QED BY <1>5, <2>1 DEF Register!vars
<1>6. ASSUME job.phase # "idle", Return("error"), Active(flash') = Active(flash)
      PROVE  Register!Next
  <2>1. pending # NoRecord /\ pending' = NoRecord /\ status' = "error"
    BY <1>1, <1>6 DEF Return, Job
  <2> QED BY <1>6, <2>1 DEF Register!Next, Register!Write, Register!Fail
<1>7. CASE Check
  <2>1. CASE flash[job.target] = job.rec
    <3>1. Active(flash) = job.rec
      BY <1>7, <2>1, CompleteIsActive DEF Check, StoreInv, InFlight
    <3>2. pending = job.rec /\ pending # NoRecord
      BY <1>1, <1>7 DEF Check
    <3>3. pending' = NoRecord /\ status' = "ok" /\ flash' = flash
      BY <1>7, <2>1 DEF Check, Return, Job
    <3> QED BY <3>1, <3>2, <3>3 DEF Register!Next, Register!Write, Register!Succeed
  <2>2. CASE flash[job.target] # job.rec
    BY <1>6, <1>7, <2>2 DEF Check
  <2> QED BY <2>1, <2>2
<1>8. CASE PowerCut
  <2>1. Active(flash') = Active(flash)
    BY <1>8, ActiveAfterStep DEF PowerCut, Program
  <2>2. pending' = NoRecord /\ status' = "none"
    BY <1>8 DEF PowerCut, Return, Job
  <2> QED BY <2>1, <2>2 DEF Register!Next, Register!Write, Register!PowerCut
<1>9. CASE Erase \/ ProgramBadCell
  <2>1. Active(flash') = Active(flash)
    BY <1>9, ActiveAfterStep DEF Erase, ProgramBadCell, Program
  <2> QED BY <1>5, <1>9, <2>1 DEF Erase, ProgramBadCell
<1>10. CASE EraseFails \/ ProgramFails \/ CheckFails
  <2>1. job.phase # "idle" /\ Return("error")
    BY <1>10 DEF EraseFails, ProgramFails, CheckFails
  <2>2. Active(flash') = Active(flash)
    <3>1. flash' = flash \/ (job.phase = "erase" /\ SetTarget(NoRecord))
      BY <1>10 DEF EraseFails, ProgramFails, CheckFails
    <3>2. CASE job.phase = "erase" /\ SetTarget(NoRecord)
      BY <3>2, LoseTarget DEF SetTarget, StoreInv, InFlight
    <3> QED BY <3>1, <3>2
  <2> QED BY <1>6, <2>1, <2>2
<1>11. CASE UNCHANGED paramVars \/ \E r \in LoadedRecords : Load(r)
  BY <1>11, ExactLoad DEF paramVars, Register!vars
<1>12. CASE Call
  BY <1>2, <1>3, <1>11, <1>12, WrittenRecords, LoadedIsRecord
     DEF Call, Commit, MarkBootAttempted, MarkAppValid
<1> QED
  BY <1>4, <1>7, <1>8, <1>9, <1>10, <1>11, <1>12 DEF Next, JobStep

\* The store with its A/B slots, its three flash operations per write, its
\* failures and its power cuts implements one atomic register, which breaks when
\* a failing read misleads a call.
THEOREM StoreImplementsRegister == ASSUME NoWrap PROVE Spec => RegisterSpec
<1>1. OrderTrust /\ [Next]_paramVars => OrderTrust'
  BY OrderTrustStep
<1>2. OrderTrust /\ [Next]_paramVars => [Register!Next]_Register!vars
  <2>1. CASE Trusted'
    BY <2>1, RegisterStep, MisreadsGrow DEF OrderTrust
  <2>2. CASE ~Trusted'
    BY <2>2 DEF Register!Next
  <2> QED BY <2>1, <2>2
<1> QED
  BY <1>1, <1>2, OrderTrustInit, RegisterInit, PTL DEF Spec, RegisterSpec, Register!Spec
=============================================================================
