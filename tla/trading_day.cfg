SPECIFICATION Spec
CONSTANTS
  MinRR = 150
  MaxDailyLosses = 2
  DayLimit = 3
  Assets = {"a"}
  Guides = {"checklist", "filter"}
  Plans <- SmallPlans
  Exits = {8, 13}
  Emotions = {"calmo", "fomo"}
  Minutes <- Limits
  MaxOpen = 2
  MaxTrades = 4
  MaxLoads = 2
  MaxDays = 1
CONSTRAINT OnePlan
INVARIANTS
  DayIsBounded
  CounselsAgree
CHECK_DEADLOCK FALSE
