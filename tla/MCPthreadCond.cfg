SPECIFICATION CondSpec
CONSTANTS
  t1 = t1
  t2 = t2
  t3 = t3
  s1 = s1
  s2 = s2
  Nobody = Nobody
  NoState = NoState
  Threads <- ThreeThreads
  Waiters <- TwoThreads
  Signallers <- Others
  Types <- TwoTypes
  Calls <- AllCalls
  MaxDepth = 2
  States <- TwoStates
  MaxSignals = 2
INVARIANTS ReleasedIsCounted OwnershipIsExact
PROPERTY SignalReachesAWaiter
