SPECIFICATION Spec
CONSTANTS
  Players = {p1}
  BufferSize = 3
  BatchSize = 2
  Latency = 1
  Kinds = {"videoHeader", "audioHeader", "key", "inter"}
  Deltas = {0, 2}
  MaxIndex = 5
INVARIANTS RingIsWindow GopsInRing GapLandsOnKeyFrame JoinsWithinLatency FramesInOrder DecodedWithItsHeader
CHECK_DEADLOCK FALSE
