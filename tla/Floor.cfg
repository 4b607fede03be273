SPECIFICATION Spec
CONSTANTS
  Unset = Unset
  Garbage = Garbage
  RateKnobs <- MCRateKnobs
  WindowKnobs <- MCWindowKnobs
  defaultRate = 1
  defaultWindow = 3
  Step = 1
  Lag = 2
  Total = 6
  Gains = {0, 1, 5}
  Capacity = 5
  slack = 8
  minDeadline = 3
  MaxClock = 16
  MaxLost = 5
INVARIANTS
  TypeOK
  CondemnedWasSlow
  DeadIsCaught
  FloorComesFirst
