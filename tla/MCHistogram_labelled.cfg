CONSTANTS
  t1 = t1
  t2 = t2
  NaN = NaN
  Inf = Inf
  Garbage = Garbage
  Nothing = Nothing
  Threads <- MCThreads
  N = 3
  Observations = {1, 2, 3}
  AtMost <- MCAtMost
  Plus <- MCPlus
  Sum <- MCSum
  Fresh = {0, Garbage}
  MaxCalls = 3
SPECIFICATION Spec
INVARIANT
  EmptyHasZeroSum
