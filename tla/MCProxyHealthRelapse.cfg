SPECIFICATION Spec
CONSTANTS
  DeadCooldown = 6
  CountCap = 3
  SampleCount = 5
PROPERTY
  DegradedDeathIsEarned
