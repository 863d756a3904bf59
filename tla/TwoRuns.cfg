\* Two runs around a literal that the first may contain.
SPECIFICATION Spec
CONSTANTS
  Walks <- TwoRunWalks
  batch_cap = 2
  lazy_dfa_min_input = 2
  reads_per_byte = 3
  inner_literal_max = 2
  per_candidate = 8
  per_read_byte = 10
  per_crossed = 5
  slack = 24
  Suites = {}
INVARIANT SweepAnswers
