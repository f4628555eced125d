CONSTANTS
  NaN = NaN
  PosInf = PosInf
  NegInf = NegInf
  Refused = Refused
  Zero = 0
  One = 2
  Lowest <- MCLowest
  Counts <- MCCounts
  MaxObservations = 2
  Doubles <- MCDoubles
  LE <- MCLE
  Plus <- MCPlus
  Pow <- MCPow
  Bases <- MCBases
  Exponents <- MCExponents
  Starts <- MCStarts
  Increments <- MCIncrements
  Observations <- MCObservations
  Given <- MCGiven
SPECIFICATION Spec
INVARIANTS
  AcceptedLevelsIncrease
  BuiltAsDocumented
  ValueCountsObservations
CHECK_DEADLOCK FALSE
