CONSTANTS
  t1 = t1
  t2 = t2
  k1 = k1
  k2 = k2
  Nothing = Nothing
  Threads <- MCThreads
  Keys <- MCKeys
  MaxNodes = 3
  MaxCount = 2
SPECIFICATION Spec
INVARIANTS
  TypeOK
  ReferencesAreCurrent
  ExposedIncludesEarlier
PROPERTY
  ImplementsSnapshot
