\* One regex used over and over, two regexes, and nested scans.
SPECIFICATION ScenarioSpec
CONSTANTS
  Threads = {t1, t2}
  t1 = t1
  t2 = t2
  Addresses = {a1, a2}
  a1 = a1
  a2 = a2
  stripe = stripe
  Stripes = {stripe}
  Stripe <- OneStripe
  NoThread = NoThread
  NoAddress = NoAddress
  MaxPrograms = 2
  MaxDepth = 2
  AllocFails = TRUE
  Scenarios <- MCScenarios
CHECK_DEADLOCK FALSE
SYMMETRY Symmetry
INVARIANTS
  TypeOK
  WalkIsCurrent
  OneOwner
  RetiredStaysEmpty
  SetsBounded
  OwnerIsMapped
PROPERTIES
  DestroyerKeepsNothing
