\* The loop on both clocks, timers with any delay, zero included.
CONSTANTS
  QueueDepth = 2
  MaxTimers = 3
  Delays = {0, 1, 2}
  ClockKinds = {"simulated", "host"}
  MaxPosts = 4
  MaxTime = 3
SPECIFICATION FairSpec
INVARIANTS TypeOK DrainSafe
PROPERTIES ImplementsOnce RunOnceDefers NoOvertaking TimersFireInDueOrder
PROPERTY RunEventuallyReturns
