\* Candidates that find no start.
SPECIFICATION Spec
CONSTANTS
  Walks <- LinearWalks
  batch_cap = 2
  lazy_dfa_min_input = 2
  reads_per_byte = 3
  inner_literal_max = 2
  per_candidate = 8
  per_read_byte = 10
  per_crossed = 9
  slack = 10
  Suites = {}
INVARIANT LinearWork
