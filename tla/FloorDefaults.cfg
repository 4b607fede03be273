SPECIFICATION Spec
CONSTANTS
  Unset = Unset
  Garbage = Garbage
  RateKnobs = {Unset}
  WindowKnobs = {Unset}
  defaultRate = 1
  defaultWindow = 12
  Step = 2
  Lag = 1
  Total = 29
  Gains = {0, 14}
  Capacity = 14
  slack = 12
  minDeadline = 36
  MaxClock = 42
  MaxLost = 0
INVARIANTS
  FloorAlwaysFirst
