\* Programs with and without DFA routes, assigned over one another: what each call consults is current and built once.
SPECIFICATION Spec
CONSTANTS
  Threads = {t1, t2}
  Buffers = {b1, b2}
  Rows = {r1}
  RouteSets <- MCRouteSets
  NullPtr = NullPtr
  NoThread = NoThread
  MaxVersion = 3
  PrefixWarm = 1
  ShortBudget = 2
SYMMETRY Symmetry
INVARIANTS
  TypeOK
  UseIsCurrent
  ExtractorSpansLiveProgram
  PoolResetBeforeKey
  PrefixCallsBounded
  IInv
PROPERTIES
  BuildsOnce
