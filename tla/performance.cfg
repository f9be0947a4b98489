SPECIFICATION ReportSpec
CONSTANTS
  MinRR = 150
  MaxDailyLosses = 1
  DayLimit = 5
  Assets = {"a"}
  Guides = {"none", "checklist"}
  Plans <- OnePlan
  Exits = {8, 13}
  Emotions = {"calmo"}
  Minutes = {601}
  MaxOpen = 1
  MaxTrades = 3
  MaxLoads = 0
  MaxDays = 2
  Windows = {1}
  ALL = ALL
  MaxReports = 1
INVARIANTS
  FiguresAreRight
  ReportsRepeat
  ReportsFitTheRules
PROPERTIES
  AWinNeverLowersTheGrade
CHECK_DEADLOCK FALSE
