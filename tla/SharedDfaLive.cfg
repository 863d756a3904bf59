\* One regex destroyed and built again, and two regexes on one stripe: every queued search is served.
SPECIFICATION FairScenarioSpec
CONSTANTS
  Threads = {t1, t2}
  t1 = t1
  t2 = t2
  Addresses = {a1, a2}
  a1 = a1
  a2 = a2
  stripe = stripe
  Stripes = {stripe}
  Stripe <- OneStripe
  NoThread = NoThread
  NoAddress = NoAddress
  MaxPrograms = 2
  MaxDepth = 2
  AllocFails = FALSE
  Scenarios <- LiveScenarios
CHECK_DEADLOCK FALSE
PROPERTIES
  SearchServed
