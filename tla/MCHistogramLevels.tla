-------------------------- MODULE MCHistogramLevels --------------------------
(***************************************************************************)
(* A small floating-point format for TLC: n stands for n/2, exact up to 8, *)
(* in steps of 2 up to 16 and of 4 up to 32, infinite beyond; bases are    *)
(* powers of two.                                                          *)
(***************************************************************************)
EXTENDS HistogramLevels

CONSTANT NegInf

Step(n) == IF n <= 8 THEN 1 ELSE IF n <= 16 THEN 2 ELSE 4
Abs(n) == IF n < 0 THEN -n ELSE n

Finite == {n \in -32..32 : n % Step(Abs(n)) = 0}
MCDoubles == Finite \union {NegInf, PosInf, NaN}

\* The nearest double, ties to the even multiple of the step.
Rounded(n) ==
  LET step == Step(Abs(n))
      low == step * (n \div step)
      near == IF \/ 2 * (n - low) > step
                 \/ 2 * (n - low) = step /\ (low \div step) % 2 = 1
              THEN low + step ELSE low
  IN  IF near > 32 THEN PosInf ELSE IF near < -32 THEN NegInf ELSE near

MCLE(d, e) ==
  /\ NaN \notin {d, e}
  /\ \/ d = NegInf \/ e = PosInf
     \/ d \in Finite /\ e \in Finite /\ d <= e

MCPlus(d, e) ==
  CASE NaN \in {d, e} \/ {d, e} = {PosInf, NegInf} -> NaN
    [] PosInf \in {d, e} /\ {d, e} \intersect {NaN, NegInf} = {} -> PosInf
    [] NegInf \in {d, e} /\ {d, e} \intersect {NaN, PosInf} = {} -> NegInf
    [] OTHER -> Rounded(d + e)

\* The C function pow; fractions of exponents are dropped.
MCPow(base, exp) ==
  IF base = One \/ exp = Zero THEN One
  ELSE IF NaN \in {base, exp} THEN NaN
  ELSE IF base = PosInf THEN IF MCLE(Zero, exp) THEN PosInf ELSE Zero
  ELSE IF exp \in {PosInf, NegInf}
       THEN IF (exp = PosInf) = MCLE(base, One) THEN Zero ELSE PosInf
  ELSE LET log == CASE base = 1 -> -1 [] base = 4 -> 1 [] base = 8 -> 2
           two == 1 + log * (exp \div 2)
       IN  IF two > 5 THEN PosInf ELSE IF two < 0 THEN Zero ELSE 2 ^ two

MCLowest == -32
MCCounts == {-3, -2, -1, 0, 1, 2, 4}
MCBases == {-2, 0, 1, 2, 4, 8, PosInf, NaN}
MCExponents == {-6, -2, 0, 4, 16, NaN}
MCStarts == {NegInf, -32, -2, 0, 7, 16, PosInf, NaN}
MCIncrements == {-1, 0, 1, 2, 20, PosInf, NaN}
MCObservations == {NegInf, 0, 1, 5, PosInf, NaN}
MCGiven == UNION {[1..n -> {NegInf, -32, 0, 2, 5, PosInf, NaN}] : n \in 1..3}
=============================================================================
