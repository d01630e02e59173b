SPECIFICATION FairSpec
CONSTANTS
  t1 = t1
  t2 = t2
  t3 = t3
  a = a
  b = b
  Threads <- ThreeThreads
  Bits <- TwoBits
  Offered <- Kinds
INVARIANTS SleepersHaveReason CancelReportsExactly
PROPERTIES ImplementsAtomic DrainsEnd
