SPECIFICATION Spec
CONSTANTS
  Workers = {w1, w2}
  Trades = {t1}
  Day = 4
  Week = 8
  BriefingAt = 1
  SummaryAt = 1
  WorkingDays = 4
  Interval = 3
  Opening = 2
  Closing = 4
  Grace = 1
  MaxCommit = 1
  MaxTime = 10
SYMMETRY Symmetry
INVARIANTS
  TypeOK
  NoTradeBetween
  AnnouncedOnce
