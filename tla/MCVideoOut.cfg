SPECIFICATION FairSpec
CONSTANTS
  Guests = {g1, g2}
  Flipper = g1
  Closer = g2
  Worker = worker
  Slots = {0, 1}
  Blank = Blank
  Addresses = {a}
  MaxSessions = 2
  MaxRegistrations = 2
  MaxStream = 1
  FollowRaces = FALSE
  Nobody = Nobody
INVARIANTS RequirementsHold QuietWhenCleared BuffersDisjoint PendingTellsFlips
PROPERTY TransactionsEnd
