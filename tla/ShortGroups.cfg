\* A group whose copies are none, in a program with a one-pass table.
SPECIFICATION RouteSpec
CONSTANTS
  Suites = {}
  Programs <- MCNeverTaken
  VM <- MCVM
  state_budget = 4
  quit_bytes_per_state = 1
  SizeValues = 256
  MaxSearches = 3
  lazy_dfa_min_input = 1
  bill_slack = 16
  max_nodes = 5
INVARIANT
  GroupsAreCounted
