SPECIFICATION GpuSpec
CONSTANTS
  Kind = "compute"
  Submitters = {g1}
  Quiescers = {g2}
  SlotCount = 2
  MaxFlushes = 2
  MaxPeerCalls = 0
  MaxLabels = 1
  MaxObjects = 0
  RingWorker = RingWorker
  Peer = Peer
  NoThread = NoThread
INVARIANTS QuiescedMeansDrained
CHECK_DEADLOCK FALSE
