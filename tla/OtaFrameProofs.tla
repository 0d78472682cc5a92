---------------------------- MODULE OtaFrameProofs ----------------------------
(***************************************************************************)
(* Proofs about the byte receiver of OtaFrame and the firmware of OtaNode    *)
(* around it: for every payload, width of the sequence number and amount of  *)
(* noise.  They rest on the checksum (ChecksumIsPerfect): what the receiver   *)
(* accepts is the frame whose checksum it has just been fed, so the question  *)
(* is which checksums are still about, on the line and in the UART.          *)
(***************************************************************************)
EXTENDS OtaNode, SequenceTheorems, TLAPS

Foreign == {f \in Buildable : f[3] = Other}

\* What the line may still bring: bytes, and the checksum of a frame that is
\* being sent.
Sent == Bytes \cup {Checksum(f) : f \in Foreign \cup {Current}}

\* Frames of the host with the sequence that was executed last.
Past == {Build(Local, lastSeq, p) : p \in Payloads}

\* What the UART may still hold: that, or the checksum of such a frame.
Seen == Sent \cup {Checksum(f) : f \in Past}

\* The frame under way fits its buffer, and is not complete.
Fits(r) ==
  /\ r \in [frame : Seq(Nat), expected : Nat]
  /\ \/ Len(r.frame) < HeaderSize /\ r.expected = 0
     \/ HeaderSize <= Len(r.frame) /\ Len(r.frame) <= r.expected /\ r.expected \in Overhead .. WireMax

\* Nothing but the frame of the host was executed, and that once, unless it is a COMMIT;
\* the node knows what it executed, unless it has been reset since.
History ==
  /\ executed \in Seq({Current})
  /\ host.payload \notin Commits => executed = IF lastSeq = host.seq THEN <<Current>> ELSE <<>>
  /\ lastSeq = host.seq \/ answer = host.seq => executed # <<>>

FrameInv ==
  /\ Fits(rx) /\ ~Complete(rx)
  /\ lastSeq \in Seqs /\ host \in [seq : Seqs, payload : Payloads]
  /\ answer \in Seqs \cup {SeqCount} /\ up \in BOOLEAN /\ noise \in 0 .. MaxNoise
  /\ wire \in Seq(Sent)
  /\ History

-----------------------------------------------------------------------------
(* Frames. *)

LEMMA BuildFacts ==
  ASSUME NEW d \in {Local, Other}, NEW s \in Seqs, NEW p \in Payloads
  PROVE  /\ Build(d, s, p) \in Buildable
         /\ Build(d, s, p)[3] = d /\ Build(d, s, p)[4] = s
         /\ Len(Build(d, s, p)) = Overhead + Len(p)
         /\ \A k \in 1 .. Overhead + Len(p) - 1 : Build(d, s, p)[k] \in Bytes
         /\ Build(d, s, p) \in Seq(Nat)
  <1> DEFINE head == <<SOF0, SOF1, d, s, Len(p)>>
             body == head \o p
  <1>1. Build(d, s, p) = Append(body, Crc(body))
    BY DEF Build
  <1>2. Build(d, s, p) \in Buildable
    BY DEF Buildable
  <1>3. p \in Seq(Bytes) /\ Len(p) \in 0 .. PayloadMax
    BY FrameAssumption
  <1>4. head \in Seq(Bytes) /\ Len(head) = 5
    BY <1>3, FrameAssumption DEF Bytes
  <1>5. body \in Seq(Bytes) /\ Len(body) = 5 + Len(p) /\ body[3] = d /\ body[4] = s
    BY <1>3, <1>4
  <1> HIDE DEF body
  <1>6. /\ Len(Build(d, s, p)) = Len(body) + 1
        /\ \A k \in 1 .. Len(body) : Build(d, s, p)[k] = body[k]
        /\ Build(d, s, p)[Len(body) + 1] = Crc(body)
    BY <1>1, <1>5
  <1>7. Crc(body) \in Nat
    BY <1>2, <1>6, ChecksumIsPerfect DEF Checksum
  <1>8. Bytes \subseteq Nat
    BY FrameAssumption DEF Bytes, Seqs
  <1>9. Build(d, s, p) \in Seq(Nat)
    <2>1. body \in Seq(Nat)
      BY <1>5, <1>8, SeqMonotonic
    <2>2. QED
      BY <1>1, <1>7, <2>1
  <1>10. QED
    BY <1>2, <1>3, <1>5, <1>6, <1>9 DEF Overhead, HeaderSize

LEMMA BuildableFacts ==
  ASSUME NEW f \in Buildable
  PROVE  /\ f \in Seq(Nat) /\ f[3] \in {Local, Other} /\ f[4] \in Seqs
         /\ Len(f) \in Nat \ {0}
         /\ \A k \in 1 .. Len(f) : f[k] \in Bytes \cup {Checksum(f)}
         /\ Checksum(f) \in Nat \ Bytes
  <1>1. PICK d \in {Local, Other}, s \in Seqs, p \in Payloads : f = Build(d, s, p)
    BY DEF Buildable
  <1>2. Len(p) \in Nat
    BY FrameAssumption
  <1>3. /\ f \in Seq(Nat) /\ f[3] \in {Local, Other} /\ f[4] \in Seqs
        /\ Len(f) = Overhead + Len(p)
        /\ \A k \in 1 .. Overhead + Len(p) - 1 : f[k] \in Bytes
    BY <1>1, BuildFacts
  <1>4. \A k \in 1 .. Len(f) : k # Len(f) => f[k] \in Bytes
    BY <1>2, <1>3 DEF Overhead, HeaderSize
  <1>5. Len(f) \in Nat \ {0}
    BY <1>2, <1>3 DEF Overhead, HeaderSize
  <1>6. QED
    BY <1>3, <1>4, <1>5, ChecksumIsPerfect DEF Checksum

\* A frame is on the line as bytes and its checksum.
LEMMA FramesAreSent ==
  ASSUME NEW f \in Buildable, f \in Foreign \cup {Current} PROVE f \in Seq(Sent)
  <1>1. \A k \in 1 .. Len(f) : f[k] \in Sent
    BY BuildableFacts DEF Sent
  <1>2. f \in Seq(Nat)
    BY BuildableFacts
  <1>3. QED
    BY <1>1, <1>2

LEMMA CurrentFacts ==
  ASSUME host \in [seq : Seqs, payload : Payloads]
  PROVE  Current \in Buildable /\ Current[3] = Local /\ Current[4] = host.seq
  BY BuildFacts DEF Current

\* A frame is a COMMIT by its command.
LEMMA CommitFacts ==
  ASSUME host \in [seq : Seqs, payload : Payloads], Current \in CommitFrames
  PROVE  host.payload \in Commits
  <1>1. PICK s \in Seqs, p \in Commits : Current = Build(Local, s, p)
    BY DEF CommitFrames
  <1> DEFINE q == host.payload
  <1>2. /\ p \in Seq(Bytes) /\ q \in Seq(Bytes) /\ Len(p) \in Nat /\ Len(q) \in Nat
        /\ p \in Payloads /\ q \in Payloads /\ host.seq \in Seqs
    BY FrameAssumption
  <1>3. Current = Build(Local, host.seq, q)
    BY DEF Current
  <1> HIDE DEF q
  <1>4. \A d, t \in Nat, r \in Seq(Bytes) :
          /\ Len(Build(d, t, r)) = 6 + Len(r)
          /\ \A k \in 1 .. Len(r) : Build(d, t, r)[5 + k] = r[k]
    <2> TAKE d, t \in Nat, r \in Seq(Bytes)
    <2> DEFINE head == <<SOF0, SOF1, d, t, Len(r)>>
               body == head \o r
    <2>1. Build(d, t, r) = Append(body, Crc(body))
      BY DEF Build
    <2>2. head \in Seq(Nat) /\ Len(head) = 5 /\ Bytes \subseteq Nat
      BY FrameAssumption DEF Bytes, Seqs
    <2>3. r \in Seq(Nat) /\ Len(r) \in Nat
      <3>1. Seq(Bytes) \subseteq Seq(Nat)
        BY <2>2, SeqMonotonic
      <3>2. QED
        BY <3>1
    <2> HIDE DEF head
    <2>4. /\ body \in Seq(Nat) /\ Len(body) = 5 + Len(r)
          /\ \A k \in 1 .. Len(r) : body[5 + k] = r[k]
      <3>1. /\ Len(body) = Len(head) + Len(r) /\ body \in Seq(Nat)
            /\ \A i \in 1 .. Len(head) + Len(r) :
                 body[i] = IF i <= Len(head) THEN head[i] ELSE r[i - Len(head)]
        BY <2>2, <2>3, ConcatProperties
      <3>2. QED
        BY <2>2, <2>3, <3>1
    <2> HIDE DEF body
    <2>5. QED
      BY <2>1, <2>3, <2>4
  <1>5. Local \in Nat /\ Seqs \subseteq Nat
    BY FrameAssumption DEF Seqs
  <1>6. Len(p) = Len(q) /\ \A k \in 1 .. Len(p) : p[k] = q[k]
    <2>1. /\ Len(Current) = 6 + Len(p)
          /\ \A k \in 1 .. Len(p) : Current[5 + k] = p[k]
      BY <1>1, <1>2, <1>4, <1>5
    <2>2. /\ Len(Current) = 6 + Len(q)
          /\ \A k \in 1 .. Len(q) : Current[5 + k] = q[k]
      BY <1>2, <1>3, <1>4, <1>5
    <2>3. Len(p) = Len(q)
      BY <1>2, <2>1, <2>2
    <2>4. QED
      BY <2>1, <2>2, <2>3
  <1>7. p = q
    BY <1>2, <1>6, SeqEqual
  <1>8. QED
    BY <1>7 DEF q

LEMMA PastFacts ==
  ASSUME lastSeq \in Seqs, NEW f \in Past
  PROVE  f \in Buildable /\ f[3] = Local /\ f[4] = lastSeq
  BY BuildFacts DEF Past

LEMMA SeenFacts == ASSUME FrameInv, NEW b \in Seen PROVE b \in Nat
  <1>1. Foreign \cup {Current} \cup Past \subseteq Buildable
    BY CurrentFacts, PastFacts DEF FrameInv, Foreign
  <1>2. QED
    BY <1>1, BuildableFacts, FrameAssumption DEF Sent, Seen, Bytes, Seqs

-----------------------------------------------------------------------------
(* boot_feed_byte. *)

LEMMA FedFits ==
  ASSUME Fits(rx), ~Complete(rx), NEW b \in Nat
  PROVE  /\ Fits(Fed(b))
         /\ Complete(Fed(b)) => Checksum(Fed(b).frame) = b
  <1> DEFINE frame == Append(rx.frame, b)
  <1>1. /\ frame \in Seq(Nat) /\ Len(frame) = Len(rx.frame) + 1 /\ frame[Len(frame)] = b
        /\ rx.frame \in Seq(Nat) /\ Len(rx.frame) \in Nat /\ rx.expected \in Nat
        /\ rx = [frame |-> rx.frame, expected |-> rx.expected]
    BY DEF Fits
  <1> HIDE DEF frame
  <1>0. PayloadMax \in Nat
    BY FrameAssumption
  <1>2. Len(rx.frame) < WireMax
    BY <1>0, <1>1 DEF Fits, Complete, WireMax, Overhead, HeaderSize
  <1>3. CASE Fed(b) = rx
    BY <1>3
  <1>4. CASE Fed(b) = Empty
    <2>1. <<>> \in Seq(Nat) /\ Len(<<>>) = 0
      BY EmptySeq
    <2>2. QED
      BY <1>4, <2>1 DEF Empty, Fits, Complete, HeaderSize
  <1>5. CASE /\ Len(frame) = HeaderSize /\ LengthAllowed(b)
             /\ Fed(b) = [frame |-> frame, expected |-> Overhead + b]
    <2>1. /\ Fed(b) \in [frame : Seq(Nat), expected : Nat]
          /\ Fed(b).frame = frame /\ Fed(b).expected = 6 + b /\ b <= PayloadMax
          /\ Len(frame) = 5
      <3>1. 6 + b \in Nat /\ Overhead + b = 6 + b /\ HeaderSize = 5
        BY DEF Overhead, HeaderSize
      <3>2. Fed(b) = [frame |-> frame, expected |-> 6 + b]
        BY <1>5, <3>1
      <3>3. frame \in Seq(Nat) /\ Len(frame) = 5 /\ b <= PayloadMax
        BY <1>1, <1>5, <3>1 DEF LengthAllowed
      <3>4. QED
        BY <3>1, <3>2, <3>3
    <2>2. Fits(Fed(b))
      BY <1>0, <2>1 DEF Fits, WireMax, Overhead, HeaderSize
    <2>3. QED
      BY <1>1, <2>1, <2>2 DEF Checksum
  <1>6. CASE Len(frame) # HeaderSize /\ Fed(b) = [rx EXCEPT !.frame = frame]
    <2>1. Fed(b) = [frame |-> frame, expected |-> rx.expected]
      BY <1>1, <1>6
    <2>2. QED
      BY <1>0, <1>1, <1>6, <2>1 DEF Fits, Complete, Checksum, WireMax, Overhead, HeaderSize
  <1>7. QED
    BY <1>2, <1>3, <1>4, <1>5, <1>6 DEF Fed, frame

LEMMA EmptyFits == Fits(Empty) /\ ~Complete(Empty)
  <1>1. <<>> \in Seq(Nat) /\ Len(<<>>) = 0
    BY EmptySeq
  <1>2. QED
    BY <1>1 DEF Empty, Fits, Complete, HeaderSize

\* What is accepted is the frame the byte fed last belongs to.
LEMMA AcceptedIsSeen ==
  ASSUME FrameInv, NEW b \in Seen, Complete(Fed(b)), Fed(b).frame \in Buildable
  PROVE  /\ Fed(b).frame \in Foreign \cup {Current} \cup Past
         /\ b = Checksum(Fed(b).frame)
  <1>1. Checksum(Fed(b).frame) = b
    BY FedFits, SeenFacts DEF FrameInv
  <1>2. b \notin Bytes
    BY <1>1, ChecksumIsPerfect
  <1>3. PICK f \in Foreign \cup {Current} \cup Past : b = Checksum(f)
    BY <1>2 DEF Sent, Seen
  <1>4. f \in Buildable
    BY CurrentFacts, PastFacts DEF FrameInv, Foreign
  <1>5. QED
    BY <1>1, <1>3, <1>4, ChecksumIsPerfect

-----------------------------------------------------------------------------
(* OtaFrame: a receiver that is always ready. *)

\* boot_process_complete_frame: executes nothing but the frame of the host, and that once.
LEMMA ProcessFacts ==
  ASSUME FrameInv, NEW frame, frame \in Buildable => frame \in Foreign \cup {Current} \cup Past
  PROVE  /\ Parse(frame, lastSeq) = "OK" =>
              frame = Current /\ lastSeq # host.seq /\ frame[4] = host.seq
         /\ Parse(frame, lastSeq) = "DUPLICATE" => frame[4] = lastSeq
  <1>1. frame \in Buildable /\ frame[3] = Local /\ frame[4] # lastSeq
          => frame = Current /\ frame[4] = host.seq
    BY CurrentFacts, PastFacts, FrameAssumption DEF FrameInv, Foreign
  <1>2. /\ Parse(frame, lastSeq) = "OK" =>
            frame \in Buildable /\ frame[3] = Local /\ frame[4] # lastSeq
        /\ Parse(frame, lastSeq) = "DUPLICATE" =>
             frame \in Buildable /\ frame[3] = Local /\ frame[4] = lastSeq
    BY DEF Parse
  <1>3. QED
    BY <1>1, <1>2

LEMMA NoSeqFacts == 0 \in Seqs /\ NoSeq \in Seqs /\ NoSeq # 0 /\ SeqCount \notin Seqs /\ SeqCount # 0
  BY FrameAssumption DEF Seqs, NoSeq

\* The frame of the host is executed; the node remembers it, or was reset by a COMMIT.
LEMMA ExecutedFacts ==
  ASSUME host \in [seq : Seqs, payload : Payloads], History, lastSeq # host.seq,
         UNCHANGED host, executed' = Append(executed, Current),
         lastSeq' = host.seq \/ Current \in CommitFrames
  PROVE  History'
  <1>1. Current' = Current
    BY DEF Current
  <1>2. executed' \in Seq({Current}) /\ executed' # <<>>
    BY DEF History
  <1>3. host.payload \notin Commits => lastSeq' = host.seq /\ executed' = <<Current>>
    BY CommitFacts DEF History
  <1>4. QED
    BY <1>1, <1>2, <1>3 DEF History

LEMMA FeedByteStep ==
  ASSUME FrameInv, NEW b \in Sent, FeedByte(b), host' = host, wire' \in Seq(Sent),
         noise' \in 0 .. MaxNoise
  PROVE  FrameInv'
  <1>1. b \in Seen /\ b \in Nat /\ Fits(Fed(b))
    BY SeenFacts, FedFits DEF FrameInv, Seen
  <1>2. Current' = Current /\ Sent' = Sent
    BY DEF Current, Sent, Foreign
  <1>3. CASE up /\ Complete(Fed(b))
    <2> DEFINE frame == Fed(b).frame
    <2>1. frame \in Buildable => frame \in Foreign \cup {Current} \cup Past
      BY <1>1, <1>3, AcceptedIsSeen
    <2>2. Process(frame) /\ rx' = Empty /\ up' \in BOOLEAN
      BY <1>3 DEF FeedByte, Process, software_reset, FrameInv
    <2> HIDE DEF frame
    <2>3. Fits(Empty) /\ ~Complete(Empty)
      BY EmptyFits
    <2>4. CASE Parse(frame, lastSeq) = "OK"
      <3>1. /\ frame = Current /\ answer' = host.seq /\ lastSeq # host.seq
            /\ executed' = Append(executed, Current)
            /\ \/ lastSeq' = host.seq
               \/ lastSeq' = NoSeq /\ Current \in CommitFrames
        BY <2>1, <2>2, <2>4, ProcessFacts DEF Process, software_reset
      <3>2. History'
        BY <1>2, <3>1, ExecutedFacts DEF FrameInv
      <3>3. QED
        BY <1>2, <2>2, <2>3, <3>1, <3>2, NoSeqFacts DEF FrameInv
    <2>5. CASE Parse(frame, lastSeq) = "DUPLICATE"
      <3>1. answer' = lastSeq /\ UNCHANGED <<lastSeq, executed>>
        BY <2>1, <2>2, <2>5, ProcessFacts DEF Process
      <3>2. QED
        BY <1>2, <2>2, <2>3, <3>1 DEF FrameInv, History
    <2>6. CASE Parse(frame, lastSeq) \notin {"OK", "DUPLICATE"}
      <3>1. UNCHANGED <<answer, lastSeq, executed>>
        BY <2>2, <2>6 DEF Process
      <3>2. QED
        BY <1>2, <2>2, <2>3, <3>1 DEF FrameInv, History
    <2>7. QED
      BY <2>4, <2>5, <2>6
  <1>4. CASE ~(up /\ Complete(Fed(b)))
    BY <1>1, <1>2, <1>4 DEF FeedByte, FrameInv, History
  <1>5. QED
    BY <1>3, <1>4

LEMMA FrameInit == Init => FrameInv
  <1> SUFFICES ASSUME Init PROVE FrameInv
    OBVIOUS
  <1>1. <<>> \in Seq(Nat) /\ <<>> \in Seq(Sent) /\ Len(<<>>) = 0
    BY EmptySeq
  <1>2. 0 \in 0 .. MaxNoise /\ <<>> \in Seq({Current})
    BY FrameAssumption, EmptySeq
  <1>3. QED
    BY <1>1, <1>2, NoSeqFacts, EmptyFits DEF Init, FrameInv, History

\* The host sends, hears an answer, or the line drops something.
LEMMA HostStep ==
  ASSUME FrameInv,
         \/ SendFrame \/ HearAnswer \/ StartOver \/ LoseByte \/ LoseAnswer
         \/ \E frame \in Buildable : SendToOther(frame)
  PROVE  FrameInv'
  <1> USE DEF FrameInv, History
  <1>1. <<>> \in Seq(Sent') /\ <<>> \in Seq({Current}')
    BY EmptySeq
  <1>2. UNCHANGED host => Current' = Current /\ Sent' = Sent
    BY DEF Current, Sent, Foreign
  <1>3. CASE SendFrame
    BY <1>2, <1>3, CurrentFacts, FramesAreSent DEF SendFrame
  <1>4. ASSUME NEW frame \in Buildable, SendToOther(frame) PROVE FrameInv'
    <2>1. frame \in Seq(Sent)
      BY <1>4, FramesAreSent DEF SendToOther, Foreign
    <2>2. QED
      BY <1>2, <1>4, <2>1 DEF SendToOther
  <1>5. CASE HearAnswer
    <2>1. /\ (host.seq + 1) % SeqCount \in Seqs /\ (host.seq + 1) % SeqCount # host.seq
      <3>1. SeqCount \in Nat /\ SeqCount > 1 /\ host.seq \in 0 .. SeqCount - 1
        BY FrameAssumption DEF Seqs
      <3>2. CASE host.seq = SeqCount - 1
        <4>1. (host.seq + 1) % SeqCount = 0
          BY <3>1, <3>2
        <4>2. QED
          BY <3>1, <3>2, <4>1 DEF Seqs
      <3>3. CASE host.seq < SeqCount - 1
        <4>1. (host.seq + 1) % SeqCount = host.seq + 1
          BY <3>1, <3>3
        <4>2. QED
          BY <3>1, <3>3, <4>1 DEF Seqs
      <3>4. QED
        BY <3>1, <3>2, <3>3
    <2>2. host' \in [seq : Seqs, payload : Payloads] /\ host'.seq # host.seq
      BY <1>5, <2>1 DEF HearAnswer
    <2>3. /\ lastSeq' = lastSeq /\ lastSeq = host.seq /\ executed' = <<>> /\ wire' = <<>>
          /\ answer' = SeqCount /\ rx' = rx /\ up' = up /\ noise' = noise
      BY <1>5 DEF HearAnswer
    <2>4. answer' # host'.seq
      BY <2>2, <2>3, NoSeqFacts
    <2>5. QED
      BY <1>1, <2>2, <2>3, <2>4
  <1>6. CASE LoseByte
    <2>1. Tail(wire) \in Seq(Sent)
      BY <1>6, HeadTailProperties DEF LoseByte
    <2>2. noise' \in 0 .. MaxNoise
      BY <1>6, FrameAssumption DEF LoseByte, GoesWrong
    <2>3. QED
      BY <1>2, <1>6, <2>1, <2>2 DEF LoseByte
  <1>7. CASE LoseAnswer
    <2>1. noise' \in 0 .. MaxNoise
      BY <1>7, FrameAssumption DEF LoseAnswer, GoesWrong
    <2>2. QED
      BY <1>2, <1>7, <2>1, NoSeqFacts DEF LoseAnswer
  <1>8. CASE StartOver
    <2>1. /\ lastSeq' = NoSeq /\ rx' = Empty /\ up' \in BOOLEAN
          /\ host' \in [seq : {0}, payload : Payloads]
          /\ wire' = <<>> /\ answer' = SeqCount /\ executed' = <<>>
      BY <1>8 DEF StartOver, software_reset
    <2>2. noise' \in 0 .. MaxNoise
      BY <1>8, FrameAssumption DEF StartOver, GoesWrong
    <2>3. QED
      BY <1>1, <2>1, <2>2, NoSeqFacts, EmptyFits
  <1>9. QED
    BY <1>3, <1>4, <1>5, <1>6, <1>7, <1>8

LEMMA FrameStep == FrameInv /\ [Next]_vars => FrameInv'
  <1> SUFFICES ASSUME FrameInv, [Next]_vars PROVE FrameInv'
    OBVIOUS
  <1>1. CASE UNCHANGED vars
    BY <1>1 DEF vars, FrameInv, History, Current, Sent, Foreign
  <1>2. CASE Deliver
    <2>1. Head(wire) \in Sent /\ Tail(wire) \in Seq(Sent)
      BY <1>2, HeadTailProperties DEF Deliver, FrameInv
    <2>2. QED
      BY <1>2, <2>1, FeedByteStep DEF Deliver, FrameInv
  <1>3. ASSUME NEW b \in Bytes, ChangeByte(b) \/ InventByte(b) PROVE FrameInv'
    <2>1. b \in Sent /\ (wire # <<>> => Tail(wire) \in Seq(Sent))
      BY HeadTailProperties DEF FrameInv, Sent
    <2>2. noise' \in 0 .. MaxNoise
      BY <1>3, FrameAssumption DEF ChangeByte, InventByte, GoesWrong, FrameInv
    <2>3. QED
      BY <1>3, <2>1, <2>2, FeedByteStep DEF ChangeByte, InventByte, FrameInv
  <1>4. QED
    BY <1>1, <1>2, <1>3, HostStep DEF Next, Line

LEMMA HistoryIsTrue == FrameInv => AnsweredMeansExecutedOnce
  <1> SUFFICES ASSUME FrameInv PROVE AnsweredMeansExecutedOnce
    OBVIOUS
  <1>1. \A k \in DOMAIN executed : executed[k] = Current
    BY DEF FrameInv, History
  <1>2. host.payload \notin Commits => Len(executed) <= 1
    <2>1. host.payload \notin Commits => executed = << >> \/ executed = <<Current>>
      BY DEF FrameInv, History
    <2>2. Len(<< >>) = 0 /\ Len(<<Current>>) = 1
      OBVIOUS
    <2>3. QED
      BY <2>1, <2>2
  <1>3. QED
    BY <1>1, <1>2 DEF FrameInv, History, AnsweredMeansExecutedOnce, ExecutesOnce,
                      AnsweredMeansExecuted

\* A STATUS with the sequence of the host's frame means that this frame was executed, and
\* none but a COMMIT is executed twice, whatever the line loses, changes or invents and
\* whenever the node is reset (main.c:225-237).
THEOREM AnswersAreTrue == Spec => []AnsweredMeansExecutedOnce
  <1>1. FrameInv => AnsweredMeansExecutedOnce
    BY HistoryIsTrue
  <1>2. QED
    BY <1>1, FrameInit, FrameStep, PTL DEF Spec

\* The types of the receiver: above all, a frame never outgrows the receive buffer
\* (boot_feed_byte).
THEOREM FrameTypeCorrect == Spec => []TypeOK
  <1>1. FrameInv => TypeOK
    <2> SUFFICES ASSUME FrameInv PROVE TypeOK
      OBVIOUS
    <2>1. rx.frame \in Seq(Nat) /\ Len(rx.frame) < WireMax /\ rx.expected \in {0} \cup Overhead .. WireMax
      <3>1. PayloadMax \in Nat /\ Len(rx.frame) \in Nat
        BY FrameAssumption DEF FrameInv, Fits
      <3>2. QED
        BY <3>1 DEF FrameInv, Fits, Complete, WireMax, Overhead, HeaderSize
    <2>2. wire \in Seq(Nat)
      <3>1. Sent \subseteq Nat
        BY SeenFacts DEF Seen
      <3>2. QED
        BY <3>1, SeqMonotonic DEF FrameInv
    <2>3. executed \in Seq(Buildable)
      <3>1. Current \in Buildable
        BY CurrentFacts DEF FrameInv
      <3>2. QED
        BY <3>1, SeqMonotonic DEF FrameInv, History
    <2>4. QED
      BY <2>1, <2>2, <2>3 DEF FrameInv, TypeOK
  <1>2. QED
    BY <1>1, FrameInit, FrameStep, PTL DEF Spec

-----------------------------------------------------------------------------
(* OtaNode: the same receiver in a firmware that polls one byte. *)

Statuses == [seq : Seqs, left : Int, spoilt : BOOLEAN, resets : BOOLEAN]

\* A STATUS is about the last frame executed, and a COMMIT it is about was executed.
Reported ==
  /\ Busy => status.seq = lastSeq
  /\ status.resets => executed # <<>> /\ host.payload \in Commits

\* The UART holds a byte of a frame that is sent, or was executed last, and a STATUS is
\* about the last frame executed.
NodeInv ==
  /\ FrameInv
  /\ uart \in [sbuf : Seen, ri : BOOLEAN, late : BOOLEAN] /\ held \in Seen
  /\ node \in {"polls", "takes", "executes", "sends"}
  /\ status \in Statuses /\ Reported
  /\ IF firmware = "uart1" THEN held = 0
     ELSE node = "takes" => uart.ri /\ uart.sbuf = held

LEMMA NodeFeed ==
  ASSUME NodeInv, NEW b \in Seen, feed_byte(b), UNCHANGED <<host, wire, answer, up, noise>>
  PROVE  /\ FrameInv' /\ b \in Seen'
         /\ node' \in {"polls", "executes", "sends"}
         /\ status' \in Statuses /\ Reported'
  <1>1. FrameInv /\ b \in Nat /\ Fits(Fed(b))
    BY SeenFacts, FedFits DEF NodeInv, FrameInv
  <1>2. Current' = Current /\ Sent' = Sent
    BY DEF Current, Sent, Foreign
  <1>3. CASE Complete(Fed(b))
    <2> DEFINE frame == Fed(b).frame
               result == Parse(frame, lastSeq)
    <2>1. frame \in Buildable => frame \in Foreign \cup {Current} \cup Past /\ b = Checksum(frame)
      BY <1>1, <1>3, AcceptedIsSeen
    <2>2. rx' = Empty /\ process_frame(frame)
      BY <1>3 DEF feed_byte
    <2>3. result = "OK" => frame \in Buildable
      BY DEF Parse
    <2> HIDE DEF frame
    <2>4. CASE result = "OK"
      <3>1. frame = Current /\ lastSeq # host.seq /\ frame[4] = host.seq /\ b = Checksum(Current)
        BY <1>1, <2>1, <2>3, <2>4, ProcessFacts
      <3>2. lastSeq' = host.seq /\ executed' = Append(executed, Current)
        BY <2>2, <2>4, <3>1 DEF process_frame
      <3>3. FrameInv'
        <4>1. History'
          BY <1>1, <3>1, <3>2, ExecutedFacts DEF FrameInv
        <4>2. QED
          BY <1>1, <1>2, <2>2, <3>2, <4>1, EmptyFits DEF FrameInv
      <3>4. b \in Seen'
        BY <1>2, <3>1 DEF Sent, Seen
      <3>5. PICK resets \in {FALSE, firmware # "uart3" /\ Current \in CommitFrames} :
              /\ node' \in {"executes", "sends"}
              /\ status' = [seq |-> host.seq, left |-> StatusBytes, spoilt |-> FALSE,
                            resets |-> resets]
        BY <2>2, <2>4, <3>1 DEF process_frame, Leads
      <3>6. /\ resets \in BOOLEAN /\ executed' # <<>>
            /\ resets => host.payload \in Commits
        <4>1. resets = FALSE \/ resets = (firmware # "uart3" /\ Current \in CommitFrames)
          BY <3>5
        <4>2. resets \in BOOLEAN /\ (resets => Current \in CommitFrames)
          BY <4>1, Zenon
        <4>3. executed' # <<>>
          BY <1>1, <3>2 DEF FrameInv, History
        <4>4. QED
          BY <1>1, <4>2, <4>3, CommitFacts DEF FrameInv
      <3>7. status' \in Statuses /\ status'.seq = host.seq /\ status'.resets = resets
        BY <1>1, <3>5, <3>6, NodeAssumption DEF FrameInv, Statuses
      <3>8. QED
        BY <3>2, <3>3, <3>4, <3>5, <3>6, <3>7 DEF Reported
    <2>5. CASE result # "OK"
      <3>1. lastSeq' = lastSeq /\ executed' = executed
        BY <2>2, <2>5 DEF process_frame
      <3>2. FrameInv' /\ b \in Seen'
        BY <1>1, <1>2, <2>2, <3>1, EmptyFits DEF FrameInv, History, Seen, Past
      <3>3. CASE result = "DUPLICATE"
        <4>1. frame[4] = lastSeq
          BY <1>1, <2>1, <3>3, ProcessFacts
        <4>2. /\ node' = "sends"
              /\ status' = [seq |-> lastSeq, left |-> StatusBytes, spoilt |-> FALSE, resets |-> FALSE]
          BY <2>2, <3>3, <4>1 DEF process_frame, Leads
        <4>3. status' \in Statuses /\ status'.seq = lastSeq /\ ~status'.resets
          BY <1>1, <4>2, NodeAssumption DEF FrameInv, Statuses
        <4>4. QED
          BY <3>1, <3>2, <4>2, <4>3 DEF Reported
      <3>4. CASE result # "DUPLICATE"
        <4>1. node' = "polls" /\ status' = status
          BY <2>2, <2>5, <3>4 DEF process_frame, Leads
        <4>2. QED
          BY <3>1, <3>2, <4>1 DEF NodeInv, Reported, Busy
      <3>5. QED
        BY <3>3, <3>4
    <2>6. QED
      BY <2>4, <2>5
  <1>4. CASE ~Complete(Fed(b))
    <2>1. /\ rx' = Fed(b) /\ node' = "polls"
          /\ UNCHANGED <<lastSeq, executed, status, host, wire, answer, up, noise>>
      BY <1>4 DEF feed_byte
    <2>2. FrameInv' /\ b \in Seen'
      BY <1>1, <1>2, <1>4, <2>1 DEF FrameInv, History, Seen, Past
    <2>3. QED
      BY <2>1, <2>2 DEF NodeInv, Reported, Busy
  <1>5. QED
    BY <1>3, <1>4

\* The receiver aside, the byte that is read is gone or stays what it was.
LEMMA TakesStep ==
  ASSUME NodeInv, ReadByte \/ ClearLast
  PROVE  NodeInv'
  <1> USE DEF NodeInv
  <1>1. 0 \in Bytes /\ Bytes \subseteq Seen'
    BY FrameAssumption DEF Bytes, Seqs, Sent, Seen
  <1>2. CASE ReadByte
    <2> DEFINE b == uart.sbuf
    <2>1. /\ b \in Seen /\ feed_byte(b) /\ UNCHANGED <<host, wire, answer, up, noise, firmware, held>>
          /\ firmware = "uart1" /\ uart' = [uart EXCEPT !.late = FALSE]
      BY <1>2 DEF ReadByte, Polled
    <2> HIDE DEF b
    <2>2. /\ FrameInv' /\ b \in Seen' /\ node' \in {"polls", "executes", "sends"}
          /\ status' \in Statuses /\ Reported'
      BY <2>1, NodeFeed
    <2>3. uart' \in [sbuf : Seen', ri : BOOLEAN, late : BOOLEAN]
      BY <2>1, <2>2 DEF b
    <2>4. QED
      BY <1>1, <2>1, <2>2, <2>3
  <1>3. CASE ClearLast
    <2>1. /\ held \in Seen /\ feed_byte(held) /\ UNCHANGED <<host, wire, answer, up, noise, firmware, held>>
          /\ firmware # "uart1" /\ uart' = [uart EXCEPT !.ri = FALSE, !.late = FALSE]
          /\ uart.sbuf = held
      BY <1>3 DEF ClearLast, Polled
    <2>2. /\ FrameInv' /\ held \in Seen' /\ node' \in {"polls", "executes", "sends"}
          /\ status' \in Statuses /\ Reported'
      BY <2>1, NodeFeed
    <2>3. uart' \in [sbuf : Seen', ri : BOOLEAN, late : BOOLEAN]
      BY <2>1, <2>2
    <2>4. QED
      BY <2>1, <2>2, <2>3
  <1>4. QED
    BY <1>2, <1>3

LEMMA ArrivesStep == ASSUME NodeInv, Arrives PROVE NodeInv'
  <1> USE DEF NodeInv
  <1>1. Head(wire) \in Sent /\ Tail(wire) \in Seq(Sent)
    BY HeadTailProperties DEF Arrives, FrameInv
  <1>2. /\ Current' = Current /\ Sent' = Sent /\ Past' = Past /\ Seen' = Seen
        /\ wire' = Tail(wire)
        /\ UNCHANGED <<rx, lastSeq, host, answer, executed, up, noise, firmware, node, held>>
    BY DEF Arrives, Current, Sent, Foreign, Past, Seen
  <1>3. FrameInv'
    BY <1>1, <1>2 DEF FrameInv, History
  <1>4. /\ uart' \in [sbuf : Seen, ri : BOOLEAN, late : BOOLEAN]
        /\ uart.ri => uart'.ri /\ uart'.sbuf = uart.sbuf
    <2>1. Head(wire) \in Seen /\ Busy \in BOOLEAN
      BY <1>1 DEF Seen, Busy
    <2>2. CASE uart' = uart
      BY <2>2
    <2>3. CASE uart.ri /\ uart' = [uart EXCEPT !.late = Busy]
      BY <2>1, <2>3
    <2>4. CASE ~uart.ri /\ uart' = [sbuf |-> Head(wire), ri |-> TRUE, late |-> Busy]
      BY <2>1, <2>4
    <2>5. QED
      BY <2>2, <2>3, <2>4 DEF Arrives, ByteReceived
  <1>5. /\ status' \in Statuses
        /\ status'.seq = status.seq /\ status'.resets = status.resets
    BY DEF Arrives, Deaf, Statuses
  <1>6. QED
    BY <1>2, <1>3, <1>4, <1>5 DEF Busy, Reported

LEMMA StartFacts == 0 \in Seen /\ Fresh \in [sbuf : Seen, ri : BOOLEAN, late : BOOLEAN] /\ NoStatus \in Statuses
  BY NoSeqFacts DEF Seen, Sent, Bytes, Fresh, NoStatus, Statuses

\* The STATUS has left, or was cut short; the node goes on or is reset.
LEMMA StatusEndsStep ==
  ASSUME NodeInv, node = "sends", StatusEnds, UNCHANGED <<host, wire, executed, firmware>>,
         answer' \in {answer, status.seq}, noise' \in 0 .. MaxNoise
  PROVE  NodeInv'
  <1> USE DEF NodeInv, FrameInv
  <1>1. Current' = Current /\ Sent' = Sent
    BY DEF Current, Sent, Foreign
  <1>2. answer' \in Seqs \cup {SeqCount} /\ (answer' = host.seq => executed # <<>>)
    BY DEF Reported, Busy, Statuses, History
  <1>3. CASE status.resets
    <2>1. /\ lastSeq' = NoSeq /\ rx' = Empty /\ up' \in BOOLEAN
          /\ uart' = Fresh /\ node' = "polls" /\ held' = 0 /\ status' = NoStatus
      BY <1>3 DEF StatusEnds, Restart, software_reset
    <2>2. executed # <<>> /\ host.payload \in Commits
      BY <1>3 DEF Reported
    <2>3. History'
      BY <1>1, <1>2, <2>1, <2>2 DEF History
    <2>4. FrameInv'
      BY <1>1, <1>2, <2>1, <2>3, NoSeqFacts, EmptyFits
    <2>5. /\ uart' \in [sbuf : Seen', ri : BOOLEAN, late : BOOLEAN] /\ held' \in Seen'
      <3>1. Fresh = [sbuf |-> 0, ri |-> FALSE, late |-> FALSE] /\ 0 \in Bytes
        BY NoSeqFacts DEF Fresh, Bytes
      <3>2. 0 \in Seen'
        BY <1>1, <3>1 DEF Seen, Sent
      <3>3. QED
        BY <2>1, <3>1, <3>2
    <2>6. status' \in Statuses /\ ~status'.resets /\ node' = "polls"
      BY <2>1, StartFacts DEF NoStatus
    <2>7. QED
      BY <2>1, <2>4, <2>5, <2>6 DEF Reported, Busy
  <1>4. CASE ~status.resets
    <2>1. /\ node' = "polls" /\ status' = [status EXCEPT !.left = 0]
          /\ UNCHANGED <<rx, lastSeq, up, uart, held>>
      BY <1>4 DEF StatusEnds
    <2>2. FrameInv' /\ Seen' = Seen
      BY <1>1, <1>2, <2>1 DEF History, Seen, Past
    <2>3. status' \in Statuses /\ ~status'.resets
      BY <1>4, <2>1 DEF Statuses
    <2>4. QED
      BY <2>1, <2>2, <2>3 DEF Reported, Busy
  <1>5. QED
    BY <1>3, <1>4

\* The node between two bytes.
LEMMA PollStep ==
  ASSUME NodeInv,
         ClearFlag \/ ReadFirst \/ ExecutionEnds \/ putc \/ PutcLast \/ PutcTimesOut
  PROVE  NodeInv'
  <1> USE DEF NodeInv, Reported
  <1>1. UNCHANGED <<lastSeq, host>> =>
          Current' = Current /\ Sent' = Sent /\ Past' = Past /\ Seen' = Seen
    BY DEF Current, Sent, Foreign, Past, Seen
  <1>2. CASE ClearFlag
    <2>1. uart' \in [sbuf : Seen, ri : BOOLEAN, late : BOOLEAN]
      BY <1>2 DEF ClearFlag
    <2>2. FrameInv'
      BY <1>1, <1>2 DEF ClearFlag, Polled, FrameInv, History
    <2>3. QED
      BY <1>1, <1>2, <2>1, <2>2 DEF ClearFlag, Polled, Busy
  <1>3. CASE ReadFirst
    <2>1. FrameInv'
      BY <1>1, <1>3 DEF ReadFirst, Polled, FrameInv, History
    <2>2. QED
      BY <1>1, <1>3, <2>1 DEF ReadFirst, Polled, Busy
  <1>4. CASE ExecutionEnds
    <2>1. FrameInv'
      BY <1>1, <1>4 DEF ExecutionEnds, frameVars, FrameInv, History
    <2>2. QED
      BY <1>1, <1>4, <2>1 DEF ExecutionEnds, frameVars, Busy
  <1>5. CASE putc
    <2>1. FrameInv'
      BY <1>1, <1>5 DEF putc, frameVars, FrameInv, History
    <2>2. /\ status' \in Statuses
          /\ status'.seq = status.seq /\ status'.resets = status.resets
      BY <1>5 DEF putc, Statuses
    <2>3. QED
      BY <1>1, <1>5, <2>1, <2>2 DEF putc, frameVars, Busy
  <1>6. CASE PutcTimesOut
    <2>1. noise' \in 0 .. MaxNoise
      BY <1>6, FrameAssumption DEF PutcTimesOut, GoesWrong, FrameInv
    <2>2. QED
      BY <1>6, <2>1, StatusEndsStep DEF PutcTimesOut
  <1>7. CASE PutcLast
    <2>1. noise' \in 0 .. MaxNoise
      BY <1>7 DEF PutcLast, FrameInv
    <2>2. QED
      BY <1>7, <2>1, StatusEndsStep DEF PutcLast
  <1>8. QED
    BY <1>2, <1>3, <1>4, <1>5, <1>6, <1>7

\* The host and the line.
LEMMA LineStep ==
  ASSUME NodeInv,
         \/ SendPatiently \/ SendEarly \/ HostHears \/ LineFails
         \/ \E frame \in Buildable : OthersTalk(frame)
  PROVE  NodeInv'
  <1> USE DEF NodeInv
  <1>1. FrameInv'
    <2>1. CASE SendEarly
      <3>1. noise' \in 0 .. MaxNoise /\ Current \in Seq(Sent)
        BY <2>1, FrameAssumption, CurrentFacts, FramesAreSent DEF SendEarly, GoesWrong, FrameInv
      <3>2. Current' = Current /\ Sent' = Sent
        BY <2>1 DEF SendEarly, Current, Sent, Foreign
      <3>3. QED
        BY <2>1, <3>1, <3>2 DEF SendEarly, FrameInv, History
    <2>2. QED
      BY <2>1, HostStep DEF SendPatiently, HostHears, LineFails, OthersTalk
  <1>2. UNCHANGED <<polling, lastSeq>>
    BY DEF SendPatiently, SendEarly, HostHears, LineFails, OthersTalk, SendFrame, HearAnswer,
           LoseByte, LoseAnswer, SendToOther, polling
  <1>3. Seen \subseteq Seen' /\ (UNCHANGED host \/ ~status.resets)
    <2>1. CASE UNCHANGED host
      BY <1>2, <2>1 DEF Seen, Past, Sent, Foreign, Current
    <2>2. CASE HearAnswer
      <3>1. lastSeq = host.seq /\ host.payload \in Payloads /\ host.payload \notin Commits
        BY <2>2 DEF HearAnswer, FrameInv, History
      <3>2. Current \in Past /\ Past' = Past
        BY <1>2, <3>1 DEF Current, Past
      <3>3. QED
        BY <3>1, <3>2 DEF Seen, Sent, Foreign, Reported
    <2>3. QED
      BY <2>1, <2>2 DEF SendPatiently, SendEarly, HostHears, LineFails, OthersTalk, SendFrame,
                        LoseByte, LoseAnswer, SendToOther, polling
  <1>4. Reported'
    <2>1. CASE ~status.resets
      BY <1>2, <2>1 DEF polling, Busy, Reported
    <2>2. CASE UNCHANGED host
      <3>1. CASE UNCHANGED executed
        BY <1>2, <2>2, <3>1 DEF polling, Busy, Reported
      <3>2. CASE HearAnswer
        BY <1>2, <3>2 DEF HearAnswer, Reported, polling, Busy
      <3>3. QED
        BY <3>1, <3>2 DEF SendPatiently, SendEarly, HostHears, LineFails, OthersTalk, SendFrame,
                          LoseByte, LoseAnswer, SendToOther
    <2>3. QED
      BY <1>3, <2>1, <2>2
  <1>5. UNCHANGED <<firmware, uart, node, held, status>>
    BY <1>2 DEF polling
  <1>6. uart' \in [sbuf : Seen', ri : BOOLEAN, late : BOOLEAN] /\ held' \in Seen'
    BY <1>3, <1>5
  <1>7. QED
    BY <1>1, <1>4, <1>5, <1>6

LEMMA BeginAgainStep == ASSUME NodeInv, BeginAgain PROVE NodeInv'
  <1>1. FrameInv'
    BY HostStep DEF BeginAgain, NodeInv
  <1>2. /\ uart' = Fresh /\ node' = "polls" /\ held' = 0 /\ status' = NoStatus
    BY DEF BeginAgain, Restart
  <1>3. Fresh = [sbuf |-> 0, ri |-> FALSE, late |-> FALSE] /\ 0 \in Seen'
    BY NoSeqFacts DEF Fresh, Bytes, Seen, Sent
  <1>4. uart' \in [sbuf : Seen', ri : BOOLEAN, late : BOOLEAN] /\ held' \in Seen'
    BY <1>2, <1>3
  <1>5. status' \in Statuses /\ ~status'.resets
    BY <1>2, StartFacts DEF NoStatus
  <1>6. QED
    BY <1>1, <1>2, <1>4, <1>5 DEF NodeInv, Reported, Busy

LEMMA NodeStep == NodeInv /\ [NodeNext]_nodeVars => NodeInv'
  <1> SUFFICES ASSUME NodeInv, [NodeNext]_nodeVars PROVE NodeInv'
    OBVIOUS
  <1>1. CASE UNCHANGED nodeVars
    BY <1>1 DEF nodeVars, frameVars, polling, NodeInv, FrameInv, History, Current, Sent, Foreign,
                Past, Seen, Reported, Busy
  <1>2. QED
    BY <1>1, ArrivesStep, TakesStep, PollStep, LineStep, BeginAgainStep DEF NodeNext, Poll

LEMMA NodeInitInv == NodeInit => NodeInv
  <1>1. NodeInit => FrameInv
    BY FrameInit DEF NodeInit
  <1>2. QED
    BY <1>1, StartFacts DEF NodeInit, NodeInv, NoStatus, Reported, Busy

\* The same for the three firmwares that poll: although bytes are lost or read twice while a
\* command runs, answers are cut short, and a COMMIT resets the node behind its answer, an
\* answer is still true and nothing but a COMMIT is executed twice (stc8h_uart_readable, stc8h_uart_getc, boot_send_status).
THEOREM PolledAnswersAreTrue == NodeSpec => []AnsweredMeansExecutedOnce
  <1>1. NodeInv => AnsweredMeansExecutedOnce
    BY HistoryIsTrue DEF NodeInv
  <1>2. QED
    BY <1>1, NodeInitInv, NodeStep, PTL DEF NodeSpec
==============================================================================
