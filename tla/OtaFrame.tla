------------------------------- MODULE OtaFrame -------------------------------
(***************************************************************************)
(* The byte receiver of the OTA bootloaders (boot_feed_byte and               *)
(* boot_process_complete_frame of the UART1 bootloader; the RS485 and the     *)
(* UART3 firmware hold the same code) with the frames of                     *)
(* protocols/proto_ota_frame.c, under a host that repeats a frame until it is *)
(* answered, over a line that loses, changes and invents bytes.              *)
(*                                                                         *)
(* A frame keeps the fields the receiver decides by: start marks, address,    *)
(* sequence, length, payload and checksum.  The checksum is one unit of the   *)
(* wire and perfect: it belongs to one frame, and a buffer is accepted when it *)
(* is a frame some host can build.  Nothing here knows time, as nothing in    *)
(* the receiver does.  A COMMIT that succeeds resets the node once it is       *)
(* answered: the receiver forgets last_seq, and the application may start and *)
(* leave nobody to listen.                                                   *)
(***************************************************************************)
EXTENDS Naturals, Sequences

CONSTANTS
  SOF0, SOF1,   \* the two start marks
  PayloadMax,   \* PROTO_OTA_FRAME_PAYLOAD_MAX
  Payloads,     \* commands of the host and their payloads
  Commits,      \* those of COMMIT
  SeqCount,     \* values of the sequence number (2^16)
  Local, Other, \* the address of this node and of another on the line
  Crc(_),       \* the checksum of some bytes
  MaxNoise      \* bound: bytes that go wrong on the line

Seqs == 0 .. SeqCount - 1
Bytes == Seqs \cup {SOF0, SOF1, Local, Other} \cup 0 .. PayloadMax

ASSUME FrameAssumption ==
  /\ {SOF0, SOF1, PayloadMax, Local, Other, MaxNoise} \subseteq Nat
  /\ SeqCount \in Nat \ {0, 1}
  /\ SOF0 # SOF1 /\ Local # Other
  /\ Commits \subseteq Payloads
  /\ \A p \in Payloads : p \in Seq(Bytes) /\ Len(p) <= PayloadMax

HeaderSize == 5
Overhead == HeaderSize + 1
WireMax == Overhead + PayloadMax

\* proto_ota_frame_build
Build(dst, seq, payload) ==
  LET body == <<SOF0, SOF1, dst, seq, Len(payload)>> \o payload
  IN  Append(body, Crc(body))

Buildable == {Build(d, s, p) : d \in {Local, Other}, s \in Seqs, p \in Payloads}

CommitFrames == {Build(Local, s, p) : s \in Seqs, p \in Commits}

Checksum(frame) == frame[Len(frame)]

ASSUME ChecksumIsPerfect ==
  \A f \in Buildable :
    /\ Checksum(f) \in Nat \ Bytes
    /\ \A g \in Buildable : Checksum(f) = Checksum(g) => f = g

\* last_seq = 0xFFFF.
NoSeq == SeqCount - 1

VARIABLES
  rx,       \* rx_frame up to rx_len, and rx_expected_len
  lastSeq,  \* last_seq
  host,     \* sequence and payload of the frame the host repeats
  wire,     \* what is still to be sent of the frame on the wire
  answer,   \* sequence of the STATUS on its way to the host, or SeqCount
  executed, \* history: frames the node has executed for the host's current one
  up,       \* whether the loader runs and not the application
  noise     \* what has gone wrong

vars == <<rx, lastSeq, host, wire, answer, executed, up, noise>>

Empty == [frame |-> <<>>, expected |-> 0]

TypeOK ==
  /\ rx.frame \in Seq(Nat) /\ Len(rx.frame) < WireMax
  /\ rx.expected \in {0} \cup Overhead .. WireMax
  /\ lastSeq \in Seqs
  /\ host \in [seq : Seqs, payload : Payloads]
  /\ wire \in Seq(Nat)
  /\ answer \in Seqs \cup {SeqCount}
  /\ executed \in Seq(Buildable)
  /\ up \in BOOLEAN
  /\ noise \in 0 .. MaxNoise

Init ==
  /\ rx = Empty /\ lastSeq = NoSeq
  /\ host \in [seq : {0}, payload : Payloads]
  /\ wire = <<>> /\ answer = SeqCount /\ executed = <<>> /\ up = TRUE /\ noise = 0

-----------------------------------------------------------------------------
(* The receiver. *)

LengthAllowed(len) == len <= PayloadMax

\* boot_feed_byte up to the complete frame.
Fed(b) ==
  LET frame == Append(rx.frame, b) IN
  CASE rx.frame = <<>> /\ b # SOF0 -> rx
    [] Len(rx.frame) = 1 /\ b # SOF1 -> Empty
    [] Len(rx.frame) >= WireMax -> Empty
    [] Len(frame) = HeaderSize /\ ~LengthAllowed(b) -> Empty
    [] Len(frame) = HeaderSize /\ LengthAllowed(b) ->
         [frame |-> frame, expected |-> Overhead + b]
    [] OTHER -> [rx EXCEPT !.frame = frame]

Complete(r) == r.expected # 0 /\ Len(r.frame) = r.expected

\* proto_ota_frame_parse
Parse(frame, last) ==
  IF frame \notin Buildable THEN "ERROR"
  ELSE IF frame[3] # Local THEN "IGNORE"
  ELSE IF frame[4] = last THEN "DUPLICATE"
  ELSE "OK"

\* boot_software_reset, and main up to the loop: the application is started or not.
software_reset == lastSeq' = NoSeq /\ rx' = Empty /\ up' \in BOOLEAN

\* Seeded bugs: a frame for another node sets last_seq; a duplicate is not answered.
ProcessForeign(frame) ==
  LET result == Parse(frame, lastSeq) IN
  /\ rx' = Empty /\ UNCHANGED up
  /\ lastSeq' = IF result \in {"OK", "IGNORE"} THEN frame[4] ELSE lastSeq
  /\ executed' = IF result = "OK" THEN Append(executed, frame) ELSE executed
  /\ answer' = IF result \in {"OK", "DUPLICATE"} THEN frame[4] ELSE answer
ProcessSilently(frame) ==
  LET result == Parse(frame, lastSeq) IN
  /\ rx' = Empty /\ UNCHANGED up
  /\ lastSeq' = IF result = "OK" THEN frame[4] ELSE lastSeq
  /\ executed' = IF result = "OK" THEN Append(executed, frame) ELSE executed
  /\ answer' = IF result = "OK" THEN frame[4] ELSE answer

\* boot_process_complete_frame, with boot_handle_command as one execution; that of a
\* COMMIT succeeds or fails.
Process(frame) ==
  LET result == Parse(frame, lastSeq) IN
  /\ executed' = IF result = "OK" THEN Append(executed, frame) ELSE executed
  /\ answer' = IF result \in {"OK", "DUPLICATE"} THEN frame[4] ELSE answer
  /\ \/ /\ lastSeq' = IF result = "OK" THEN frame[4] ELSE lastSeq
        /\ rx' = Empty /\ UNCHANGED up
     \/ result = "OK" /\ frame \in CommitFrames /\ software_reset

FeedByte(b) ==
  IF up /\ Complete(Fed(b)) THEN Process(Fed(b).frame)
  ELSE /\ rx' = IF up THEN Fed(b) ELSE rx
       /\ UNCHANGED <<lastSeq, executed, answer, up>>

-----------------------------------------------------------------------------
(* The host and the line. *)

Current == Build(Local, host.seq, host.payload)

GoesWrong == noise < MaxNoise /\ noise' = noise + 1

\* The host sends its frame, for the first time or after it waited in vain.
SendFrame ==
  /\ wire = <<>> /\ answer # host.seq
  /\ wire' = Current
  /\ UNCHANGED <<rx, lastSeq, host, answer, executed, up, noise>>

\* Another node of the line is addressed.
SendToOther(frame) ==
  /\ wire = <<>> /\ frame[3] = Other
  /\ wire' = frame
  /\ UNCHANGED <<rx, lastSeq, host, answer, executed, up, noise>>

\* The STATUS with the sequence of the command is the answer to it; COMMIT is the last.
HearAnswer ==
  /\ wire = <<>> /\ answer = host.seq /\ host.payload \notin Commits
  /\ host' \in [seq : {(host.seq + 1) % SeqCount}, payload : Payloads]
  /\ answer' = SeqCount
  /\ executed' = <<>>
  /\ UNCHANGED <<rx, lastSeq, wire, up, noise>>

\* COMMIT was answered, or nobody listens.
SessionOver == ~up \/ (host.payload \in Commits /\ answer = host.seq)

\* The host begins again with a node that was switched off and on, or its power failed.
StartOver ==
  /\ (SessionOver /\ UNCHANGED noise) \/ GoesWrong
  /\ software_reset
  /\ host' \in [seq : {0}, payload : Payloads]
  /\ wire' = <<>> /\ answer' = SeqCount /\ executed' = <<>>

Deliver ==
  /\ wire # <<>>
  /\ FeedByte(Head(wire))
  /\ wire' = Tail(wire)
  /\ UNCHANGED <<host, noise>>

LoseByte ==
  /\ GoesWrong /\ wire # <<>>
  /\ wire' = Tail(wire)
  /\ UNCHANGED <<rx, lastSeq, host, answer, executed, up>>

ChangeByte(b) ==
  /\ GoesWrong /\ wire # <<>>
  /\ FeedByte(b)
  /\ wire' = Tail(wire)
  /\ UNCHANGED host

InventByte(b) ==
  /\ GoesWrong
  /\ FeedByte(b)
  /\ UNCHANGED <<host, wire>>

LoseAnswer ==
  /\ GoesWrong /\ answer # SeqCount
  /\ answer' = SeqCount
  /\ UNCHANGED <<rx, lastSeq, host, wire, executed, up>>

Line ==
  \/ Deliver \/ LoseByte \/ LoseAnswer
  \/ \E b \in Bytes : ChangeByte(b) \/ InventByte(b)

Next ==
  \/ SendFrame \/ HearAnswer \/ StartOver \/ Line
  \/ \E frame \in Buildable : SendToOther(frame)

Spec == Init /\ [][Next]_vars

\* The line delivers, and the host, when the line is free again and again, sends its
\* own frame again and again.
FairSpec == Spec /\ WF_vars(Deliver) /\ SF_vars(SendFrame) /\ SF_vars(HearAnswer)

-----------------------------------------------------------------------------
(* Properties. *)

\* The node executes a frame of the host once, however often it is repeated, and
\* nothing the line has made of it (main.c:225-237); only a COMMIT whose STATUS was lost
\* comes again to a node that has forgotten it in its reset.
ExecutesOnce ==
  /\ \A k \in DOMAIN executed : executed[k] = Current
  /\ host.payload \notin Commits => Len(executed) <= 1

\* A host that hears a STATUS with the sequence of its frame, OK or DUPLICATE, knows
\* the frame was executed: frames for other nodes, noise and the value of last_seq at
\* the start (main.c:27) do not come in between.
AnsweredMeansExecuted == answer = host.seq => executed # <<>>

\* An answered frame was executed, and none but COMMIT is executed twice.
AnsweredMeansExecutedOnce == ExecutesOnce /\ AnsweredMeansExecuted

\* Noise of the past does not keep a repeated frame out: one frame after the other is
\* answered, although the receiver has no timeout and forgets what a false start
\* swallowed (main.c:242-273), when no payload looks like the start of a frame and the
\* reset after COMMIT (main.c:232-234) has not put the application in the loader's place.
RepeatedFrameIsAnswered == []<>(answer = host.seq \/ ~up)
=============================================================================
