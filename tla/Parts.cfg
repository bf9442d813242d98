SPECIFICATION Spec
CONSTANTS
  Conns = {c1, c2}
  MaxFd = 3
  Nothing = Nothing
  Offset = 2
  Length = 3
  Ext = 4
  MaxBytes = 12
  Half = 8
  FrameTimes = {0, 2, 3, 5, 14}
  MaxDelta = 4
  VideoDelta = 2
  AudioDelta = 1
  MaxFrames = 4
  Tasks = {t1, t2}
  Intervals = {0, 2}
  MaxClock = 4
  NoTask = NoTask
  Hosts = {h1, h2}
  Addresses <- MCAddresses
  Retry = 2
  NotAdded = NotAdded
  MaxDatagrams = 3
INVARIANTS TypeOK DescriptorsAgree StaleOnlyFresh InputIsReported EvenUnchanged SendsInOrder
PROPERTIES ImplementsByteStream NoJumps OnceInTime ResolvedStays
SYMMETRY Symmetry
CHECK_DEADLOCK FALSE
