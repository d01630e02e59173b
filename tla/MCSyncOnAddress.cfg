SPECIFICATION FairSpec
CONSTANTS
  w1 = w1
  w2 = w2
  k1 = k1
  s1 = s1
  s2 = s2
  NoState = NoState
  Waiters <- TwoWaiters
  Wakers <- OneWaker
  States <- TwoStates
  Values = {0, 1}
  InitValue = 0
  WakeCounts = {0, 1}
  TimedChoices = {TRUE, FALSE}
  MaxWakes = 2
INVARIANT WaitersShareState
PROPERTIES CoveredWaitersReturn WakeAfterStore
