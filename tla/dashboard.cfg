SPECIFICATION FairSpec
CONSTANTS
  NONE = NONE
  b1 = b1
  b2 = b2
  q1 = q1
  q2 = q2
  a1 = a1
  a2 = a2
  s1 = s1
  s2 = s2
  Browsers = {b1, b2}
  Questions = {q1, q2}
  Analyses = {a1, a2}
  Audience <- AudienceOf
  Asker <- AskerOf
  Runner <- RunnerOf
  Answers <- SmallAnswers
  Copies <- CopiesOf
  MaxLosses = 1
  Patient = TRUE
  MaxTokens = 2
  Changes = {1, 2}
  MaxFailures = 1
  Requests = {1, 2}
  MaxTicks = 2
  Symbols = {"PETR4", "WINQ"}
  OnYahoo = {"PETR4"}
  Timeframes = {"H4", "D1"}
  Base <- SmallBase
  Drifts = {3}
  DOWN = DOWN
  Feeds <- SmallFeeds
  Featured = "PETR4"
  Tape <- SmallTape
  Lines = {1, 2}
  MaxMoves = 1
  MaxSilences = 1
  Texts <- SmallTexts
  Covered = {"PETR4", "WINQ"}
  Replays = {s1, s2}
  Frames <- FramesOf
  Careful = TRUE
  MaxRefusals = 1
  Slots = {1, 2}
INVARIANTS
  TypeOK
  OwnAnswer
  PricesAreSound
  ShownIsOwn
  ReloadKeeps
  ReplayIsFollowed
CONSTRAINT SmallReplay
PROPERTIES
  PagesSettle
CHECK_DEADLOCK FALSE
