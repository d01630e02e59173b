SPECIFICATION GpuFairSpec
CONSTANTS
  Kind = "graphics"
  Submitters = {g1}
  Quiescers = {g2}
  SlotCount = 3
  MaxFlushes = 3
  MaxPeerCalls = 1
  MaxLabels = 1
  MaxObjects = 1
  RingWorker = RingWorker
  Peer = Peer
  NoThread = NoThread
INVARIANTS SubmissionRequirements FiredInOrder NoObjectStranded QuiescedMeansDrained
CHECK_DEADLOCK FALSE
PROPERTY SubmissionsEnd
