SPECIFICATION FairSpec
CONSTANTS
  DeadCooldown = 6
  CountCap = 3
  SampleCount = 5
INVARIANTS
  TypeOK
  TwoBlackholesAreDead
  CooldownServed
PROPERTIES
  HealthyNeedsTwoGoods
  FirstDeathIsEarned
  PersistentGoodRecovers
