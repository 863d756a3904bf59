\* Two threads on two regexes, any allocation free to fail.
SPECIFICATION Spec
CONSTANTS
  Threads = {t1, t2}
  t1 = t1
  t2 = t2
  Addresses = {a1, a2}
  a1 = a1
  a2 = a2
  stripe = stripe
  Stripes = {stripe}
  Stripe <- OneStripe
  NoThread = NoThread
  NoAddress = NoAddress
  MaxPrograms = 2
  MaxDepth = 1
  AllocFails = TRUE
CHECK_DEADLOCK FALSE
SYMMETRY Symmetry
INVARIANT FailureKeepsAPromise
