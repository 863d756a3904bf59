\* find_iter and count_matches over subjects of three to six bytes. Only a walk that is over stands still.
SPECIFICATION Spec
CONSTANTS
  Walks <- MCWalks
  batch_cap = 2
  lazy_dfa_min_input = 2
  reads_per_byte = 3
  inner_literal_max = 2
  per_candidate = 8
  per_read_byte = 10
  per_crossed = 5
  slack = 24
  Suites = {}
INVARIANTS
  TypeOK
  AnswersHold
  BatchContinues
  ReadsEachByteOnce
  SweepAnswers
PROPERTIES
  HandsOutEveryMatch
