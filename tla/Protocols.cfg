\* The repeated frame comes through, two bytes or answers going wrong or being sent too
\* early, or a failing power (one with a node that polls), when no payload looks like the
\* start of a frame; STATUS has two bytes; COMMIT resets the node.  Two nodes of the link, any calls, lost and
\* repeated packets, a node that dies; no code compares sequence numbers.
SPECIFICATION MCSpec
CONSTANTS
  a = a
  b = b
  SOF0 = 3
  SOF1 = 4
  PayloadMax = 2
  Payloads <- HalfStart
  Commits <- EmptyPayload
  SeqCount = 3
  Local = 0
  Other = 1
  Crc <- BytesAsNumber
  MaxNoise = 2
  NodeNoise = 1
  StatusBytes = 2
  Nodes = {a, b}
  SeqMod = 1
  TimeMod = 4
  LostTimeout = 2
  Elapsed = {1, 2}
  MaxAir = 2
INVARIANTS AnsweredMeansExecutedOnce ConnectedMeansHeard
PROPERTIES RepeatedFrameIsAnswered LostIsDeserved DeadPeerIsNoticed
