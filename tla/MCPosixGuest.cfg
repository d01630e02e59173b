SPECIFICATION GuestFairSpec
CONSTANTS
  Threads = {t1, t2, t3}
  Objects = {A, B}
  NoObject = none
  MaxValue = 1
INVARIANTS BlockIsOfTheTable RunsOnceFirst
PROPERTIES OldWaitsEnd
