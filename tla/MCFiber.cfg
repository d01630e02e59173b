SPECIFICATION FairSpec
CONSTANTS
  Threads = {t1, t2}
  Fibers = {A, B, C}
  NoFiber = none
  RunArgs = {x, y}
  ReturnArgs = {r}
  Zero = zero
INVARIANTS OneThreadPerStack ArgumentArrives
PROPERTIES LeftFiberIsFreed
