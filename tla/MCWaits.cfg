SPECIFICATION WaitsSpec
CONSTANTS
  Threads = {t1, t2, t3}
  Nobody = nobody
  Modulus = 3
  MaxTokens = 2
  EventWaiters = {w1, w2}
  Users = {u1, u2}
  Deleter = deleter
  Presenter = presenter
  SessionCloser = closer
  Bindings = {b1, b2}
  NoBinding = none
  MaxGeneration = 2
  MaxPending = 2
INVARIANTS PinKeepsQueue BindingsAreSound NoWaiterMissed
PROPERTIES ImplementsAtomic TokenIsTaken DrainsEnd
