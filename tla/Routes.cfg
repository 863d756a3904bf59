\* Both engines on every suite.
SPECIFICATION BothSpec
CONSTANTS
  Suites <- EngineSuites
  inline_jobs = 3
  RowValues = 256
  Searches <- MCSearches
INVARIANTS
  TypeOK
  RefsBalanced
  PoolSound
  PreferredStartsFirst
  CapturesAreWhole
  FrameTypeOK
  SpillsWhenFull
  FailedStartsAreClosed
  RoutesAgree
PROPERTIES
  AnswersAsPromised
CHECK_DEADLOCK FALSE
