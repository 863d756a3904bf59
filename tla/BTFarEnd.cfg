\* A search at the far end of a subject longer than a row.
SPECIFICATION BacktrackSpec
CONSTANTS
  Suites <- FarSuites
  inline_jobs = 3
  RowValues = 4
  Searches <- MCSearches
INVARIANT
  FirstMatchIsTheAnswer
CHECK_DEADLOCK FALSE
