----------------------------- MODULE MCHistogram -----------------------------
(***************************************************************************)
(* Instances of Histogram for TLC: levels 1, 2 and +Inf; observations in   *)
(* the first bucket, in the second, above all finite levels, and NaN.      *)
(***************************************************************************)
EXTENDS Histogram, Integers

CONSTANTS t1, t2, NaN, Inf, Garbage

MCThreads == {t1, t2}

\* v <= levels_[b]; a comparison with NaN is false.
MCAtMost(v, b) == v # NaN /\ (b = 3 \/ v <= b)

\* Whatever an uninitialised double holds, NaN included, stays unknown.
MCPlus(s, v) ==
  CASE s = Garbage -> Garbage
    [] s = NaN \/ v = NaN -> NaN
    [] s = Inf -> Inf
    [] OTHER -> IF s + v > 9 THEN Inf ELSE s + v

MCSum == (0..9) \union {NaN, Inf, Garbage}
=============================================================================
