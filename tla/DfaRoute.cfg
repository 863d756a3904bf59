\* The route over both DFAs: searches in a row.
SPECIFICATION RouteSpec
CONSTANTS
  Suites = {}
  Programs <- MCPrograms
  VM <- MCVM
  state_budget = 4
  quit_bytes_per_state = 1
  SizeValues = 256
  MaxSearches = 3
  lazy_dfa_min_input = 1
  bill_slack = 16
  max_nodes = 5
INVARIANTS
  TypeOK
  RouteIsRight
  BackReachesAStart
  EdgesAreExact
  QuitsHaveCause
  ReverseEdgesAreExact
PROPERTIES
  SearchesAreAnswered
