---------------------------- MODULE MCUtils ----------------------------
(***************************************************************************)
(* Instance of Utils for TLC, over a float format small enough that        *)
(* increments of 1 reach its rounding limit: two significand bits, values  *)
(* 0 to 4, 6, 8, their negatives, the infinities and NaN.                  *)
(***************************************************************************)
EXTENDS Utils, Integers

CONSTANTS t1, t2, counter, gauge, inprogress, setgauge, NaN, Inf, MinusInf

MCFinite == {-8, -6} \union (-4..4) \union {6, 8}
MCDouble == MCFinite \union {NaN, Inf, MinusInf}

\* Round to nearest, ties to even: 5 is 4, 7 is 8, 10 overflows.
MCRoundUp(x) ==
  CASE x <= 4 -> x [] x = 5 -> 4 [] x = 6 -> 6 [] x \in 7..9 -> 8 [] OTHER -> Inf

MCNeg(x) ==
  CASE x = NaN -> NaN [] x = Inf -> MinusInf [] x = MinusInf -> Inf [] OTHER -> -x

MCRound(x) == IF x < 0 THEN MCNeg(MCRoundUp(-x)) ELSE MCRoundUp(x)

MCPlus(a, b) ==
  CASE NaN \in {a, b} -> NaN
    [] {a, b} = {Inf, MinusInf} -> NaN
    [] Inf \in {a, b} -> Inf
    [] MinusInf \in {a, b} -> MinusInf
    [] OTHER -> MCRound(a + b)

MCLess(a, b) ==
  CASE NaN \in {a, b} \/ a = b -> FALSE
    [] a = MinusInf \/ b = Inf -> TRUE
    [] a = Inf \/ b = MinusInf -> FALSE
    [] OTHER -> a < b

MCThreads == {t1, t2}
MCAmounts == {-1, 1, 4, NaN}

\* With at most two objects open, these sums stay far from the rounding limit.
MCScopeAmounts == {-1, 1}
MCWhole == [n \in -4..4 |-> n]
=============================================================================
