SPECIFICATION FairSpec
CONSTANTS
  t1 = t1
  t2 = t2
  t3 = t3
  Threads <- ThreeThreads
  InitCount = 0
  MaxCount = 2
  IntMax = 3
  Offered <- Kinds
INVARIANTS SafetyInv CancelReportsExactly
PROPERTY WaitersSettle
