\* The routes that keep no DFA, and the extractor, fairly scheduled: every call is served.
SPECIFICATION FairSpec
CONSTANTS
  Threads = {t1, t2}
  Buffers = {b1, b2}
  Rows = {r1}
  RouteSets = {{r1, "ac", "alt_pairs"}}
  NullPtr = NullPtr
  NoThread = NoThread
  MaxVersion = 2
  PrefixWarm = 1
  ShortBudget = 2
PROPERTIES
  CallServed
