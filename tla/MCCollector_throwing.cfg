CONSTANTS
  t1 = t1
  t2 = t2
  static = static
  scoped = scoped
  badname = badname
  fallible = fallible
  None = None
  Threads <- MCThreads
  Metrics = {static, badname, fallible}
  BadNames <- MCBadNames
  Fallible = {fallible}
  Scoped = {}
  Overlap = FALSE
  Apple = FALSE
SPECIFICATION Spec
INVARIANT
  OnlyLiveMetricsAreCollected
