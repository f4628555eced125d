CONSTANTS
  t1 = t1
  t2 = t2
  counter = counter
  gauge = gauge
  inprogress = inprogress
  setgauge = setgauge
  NaN = NaN
  Inf = Inf
  MinusInf = MinusInf
  Nothing = Nothing
  Threads <- MCThreads
  Counters = {counter}
  IncDecGauges = {gauge, inprogress}
  SetGauges = {setgauge}
  Double <- MCDouble
  Zero = 0
  Plus <- MCPlus
  Neg <- MCNeg
  Less <- MCLess
  Amounts <- MCAmounts
  MaxCalls = 4
  ScopedGauges = {inprogress}
  ScopeAmounts <- MCScopeAmounts
  MaxOpen = 2
  Units = 1
  Whole <- MCWhole
SPECIFICATION UFairSpec
INVARIANTS
  TypeOK
  InProgressCounts
PROPERTIES
  CounterNeverDecreases
  ImplementsAtomic
  CallsReturn
