CONSTANTS
  t1 = t1
  t2 = t2
  collection_errors = collection_errors
  histogram = histogram
  dynamic = dynamic
  scoped = scoped
  badname = badname
  fallible = fallible
  global_registry = global_registry
  global_collector = global_collector
  default_histogram_levels = default_histogram_levels
  None = None
  Threads <- MCThreads
  Metrics <- MCMetrics
  BadNames = {badname}
  Fallible = {fallible}
  Scoped = {scoped}
  Overlap = TRUE
  Apple = FALSE
  Main = t1
  StaticMetrics <- MCStaticMetrics
  WithLevels = {}
  BuildOrder = {}
SPECIFICATION PSpec
INVARIANTS
  GlobalMetricsAreExposed
