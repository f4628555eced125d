CONSTANTS
  t1 = t1
  t2 = t2
  static = static
  scoped = scoped
  badname = badname
  fallible = fallible
  None = None
  Threads <- MCThreads
  Metrics = {static, badname}
  BadNames <- MCBadNames
  Fallible = {}
  Scoped = {}
  Overlap = TRUE
  Apple = FALSE
SPECIFICATION Spec
INVARIANT
  OnlyLiveMetricsAreCollected
