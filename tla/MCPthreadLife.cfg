SPECIFICATION FairLifeSpec
CONSTANTS
  Raisers = {r1, r2}
  Slots = {s1}
  Users = {u1, u2}
  Reaper = reaper
  Keys = {k1}
  Passes = 2
  Tracked = s1
INVARIANTS OneSignalPerRequest EndsClean SlotsAreSound
PROPERTIES RequestAnswered ThreadsAreReclaimed
