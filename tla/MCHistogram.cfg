CONSTANTS
  t1 = t1
  t2 = t2
  NaN = NaN
  Inf = Inf
  Garbage = Garbage
  Nothing = Nothing
  Threads <- MCThreads
  N = 3
  Observations = {1, 2, 3, NaN}
  AtMost <- MCAtMost
  Plus <- MCPlus
  Sum <- MCSum
  Fresh = {0}
  MaxCalls = 3
SPECIFICATION FairSpec
INVARIANTS
  TypeOK
  ExposedIsCoherent
PROPERTIES
  ImplementsAtomic
  MutexIsReleased
