--------------------------- MODULE HistogramLevels ---------------------------
(***************************************************************************)
(* How a histogram gets its levels (src/prometheus/values.cc): the         *)
(* functions that build lists of levels, the +Inf that the constructor     *)
(* adds, its check, and what value() answers afterwards.  One histogram    *)
(* from the construction of its list on; module Histogram has the          *)
(* concurrent side, for levels that are already accepted.                  *)
(*                                                                         *)
(* Doubles are abstract: the instance gives them an order, a sum and a     *)
(* power, with rounding, infinities and NaN.                               *)
(***************************************************************************)
EXTENDS Integers, Sequences, SequencesExt, FiniteSets

CONSTANTS
  Doubles, LE(_, _),    \* the order; a comparison with NaN is FALSE
  Plus(_, _), Pow(_, _),
  Zero, One, PosInf, NaN, Lowest,
  Bases, Exponents, Counts, Starts, Increments,   \* arguments of the builders
  Given,                \* lists that a client writes out
  Observations,
  Refused,              \* an exception instead of a list
  MaxObservations       \* bound on the number of observations

ASSUME HistogramLevelsAssumption ==
  /\ Counts \subseteq Int
  /\ {Zero, One, PosInf, NaN, Lowest} \union Starts \union Increments
       \union Exponents \union Observations \subseteq Doubles
  /\ \A list \in Given : list \in Seq(Doubles)
  /\ <<>> \notin Given          \* in.back() of an empty vector is undefined
  /\ MaxObservations \in Nat

\* What the model relies on in the arithmetic: all doubles but NaN are ordered,
\* up to +Inf; adding a positive number takes no double below itself; and the
\* powers of a base above 1 are not negative and do not fall when the exponent
\* grows.  Rounding may make any two of them equal.
ASSUME DoubleAssumption ==
  /\ \A d, e \in Doubles : LE(d, e) \in BOOLEAN /\ Plus(d, e) \in Doubles
  /\ \A d, e \in Doubles \ {NaN} : LE(d, e) \/ LE(e, d)
  /\ \A d \in Doubles \ {NaN} : LE(d, PosInf)
  /\ \A d \in Doubles : LE(PosInf, d) => d = PosInf
  /\ \A d \in Doubles, i \in Increments :
       ~LE(i, Zero) /\ LE(Plus(d, i), d) => Plus(d, i) = d
  /\ \A b \in Bases : \A e \in Doubles :
       /\ ~LE(b, Zero) => Pow(b, e) \in Doubles
       /\ ~LE(b, Zero) /\ ~LE(b, One) =>
            /\ LE(Pow(b, e), Zero) => Pow(b, e) = Zero
            /\ LE(Pow(b, Plus(e, One)), Pow(b, e)) => Pow(b, Plus(e, One)) = Pow(b, e)

VARIABLES
  call,         \* where the list comes from
  levels,       \* what the client passes to the constructor, or Refused
  at,           \* "given", "live", or "threw" (UnsortedLevelsException)
  levels_, values_,
  observed      \* the values observed so far (history)

vars == <<call, levels, at, levels_, values_, observed>>

-----------------------------------------------------------------------------
(* The builders.  Both size the vector before they check `count`: a size   *)
(* below zero is a length_error, which is a logic_error too.               *)

\* The loop variable of both, after k passes.
Repeated(first, increment) ==
  LET value[k \in Nat] == IF k = 0 THEN first ELSE Plus(value[k - 1], increment)
  IN  value

histogram_levels_powers_of_NoZero(base, count, starting_exponent) ==    \* mutant
  IF count + 2 < 0 \/ count <= 0 \/ LE(base, Zero) THEN Refused
  ELSE [k \in 1..(count + 2) |->
          IF k = count + 2 THEN PosInf ELSE Pow(base, Repeated(starting_exponent, One)[k - 1])]

histogram_levels_powers_of(base, count, starting_exponent) ==
  IF count + 2 < 0 \/ count <= 0 \/ LE(base, Zero) THEN Refused
  ELSE [k \in 1..(count + 2) |->
          CASE k = 1 -> Zero
            [] k = count + 2 -> PosInf
            [] OTHER -> Pow(base, Repeated(starting_exponent, One)[k - 2])]

histogram_levels_linear(start, count, increment) ==
  IF count + 1 < 0 \/ count <= 0 \/ LE(increment, Zero) THEN Refused
  ELSE [k \in 1..(count + 1) |->
          IF k = count + 1 THEN PosInf ELSE Repeated(start, increment)[k - 1]]

-----------------------------------------------------------------------------
(* HistogramValue *)

add_inf(in) == IF Last(in) = PosInf THEN in ELSE Append(in, PosInf)

\* The constructor's loop: each level is compared with the one before it.
Unsorted_EqualAllowed(list) ==                  \* mutant: < for <=
  \E k \in DOMAIN list :
    LET last_level == IF k = 1 THEN Lowest ELSE list[k - 1]
    IN  LE(list[k], last_level) /\ list[k] # last_level

Unsorted(list) ==
  \E k \in DOMAIN list : LE(list[k], IF k = 1 THEN Lowest ELSE list[k - 1])

Calls ==
  [by : {"histogram_levels"}, list : Given]
  \union [by : {"powers_of"}, base : Bases, count : Counts, exponent : Exponents]
  \union [by : {"linear"}, start : Starts, count : Counts, increment : Increments]

Init ==
  /\ call \in Calls
  /\ levels = CASE call.by = "histogram_levels" -> call.list
                [] call.by = "powers_of" ->
                     histogram_levels_powers_of(call.base, call.count, call.exponent)
                [] call.by = "linear" ->
                     histogram_levels_linear(call.start, call.count, call.increment)
  /\ at = "given"
  /\ levels_ = <<>> /\ values_ = <<>> /\ observed = <<>>

\* HistogramValue::HistogramValue: the members are initialised first.
Construct ==
  /\ at = "given" /\ levels # Refused
  /\ levels_' = add_inf(levels)
  /\ values_' = [k \in DOMAIN levels_' |-> 0]
  /\ at' = IF Unsorted(levels) THEN "threw" ELSE "live"
  /\ UNCHANGED <<call, levels, observed>>

observe(v) ==
  /\ at = "live" /\ Len(observed) < MaxObservations
  /\ values_' = [k \in DOMAIN values_ |->
                   values_[k] + IF LE(v, levels_[k]) THEN 1 ELSE 0]
  /\ observed' = Append(observed, v)
  /\ UNCHANGED <<call, levels, at, levels_>>

Next == Construct \/ \E v \in Observations : observe(v)

Spec == Init /\ [][Next]_vars

\* value(d): the first bucket that is wide enough, or the last.
value_Narrower(d) ==                            \* mutant: bucket below
  LET wide == {k \in DOMAIN levels_ : ~LE(d, levels_[k])}
  IN  IF wide = {} THEN values_[1]
      ELSE values_[CHOOSE k \in wide : \A j \in wide : j <= k]

value(d) ==
  LET wide == {k \in DOMAIN levels_ : LE(d, levels_[k])}
  IN  IF wide = {} THEN values_[Len(values_)]
      ELSE values_[CHOOSE k \in wide : \A j \in wide : k <= j]

-----------------------------------------------------------------------------
(* Properties *)

HasNaN(list) == NaN \in ToSet(list)

\* What the constructor accepts is what Prometheus needs: strictly increasing
\* levels, of which the last and only the last is +Inf, whether the client gave
\* the +Inf or not.  A NaN among the levels voids it: every comparison with it
\* is false, so the check lets it pass (values.cc:101-110, 121-131).
AcceptedLevelsIncrease ==
  at = "live" /\ ~HasNaN(levels) =>
    /\ Last(levels_) = PosInf
    /\ \A k \in 1..(Len(levels_) - 1) :
         LE(levels_[k], levels_[k + 1]) /\ levels_[k] # levels_[k + 1]

\* A list with two equal neighbours, or that starts at the lowest double or
\* below it.
Stalls(list) ==
  \/ LE(list[1], Lowest)
  \/ \E k \in 1..(Len(list) - 1) : list[k] = list[k + 1]

\* values.hh:26-36: `count` buckets, with 0 before and +Inf after them in the
\* exponential case, +Inf after them in the linear one; an exception for any
\* count, base or increment that is not positive.  What they return makes a
\* histogram, unless the base is at most 1, which the comment does not exclude,
\* or rounding and overflow make two levels equal (values.cc:24-59).
BuiltAsDocumented ==
  /\ call.by = "powers_of" =>
       IF call.count <= 0 \/ LE(call.base, Zero) THEN levels = Refused
       ELSE /\ Len(levels) = call.count + 2
            /\ levels[1] = Zero /\ levels[2] = Pow(call.base, call.exponent)
            /\ Last(levels) = PosInf
            /\ at = "threw" => LE(call.base, One) \/ Stalls(levels)
  /\ call.by = "linear" =>
       IF call.count <= 0 \/ LE(call.increment, Zero) THEN levels = Refused
       ELSE /\ Len(levels) = call.count + 1
            /\ levels[1] = call.start
            /\ Last(levels) = PosInf
            /\ at = "threw" => Stalls(levels)

\* Where no NaN has been observed, value(d) is the number of observations of at
\* most the first level that is not below d, and value(+Inf) "the total count
\* of observed values" (values.hh:113-116), in whatever order they came
\* (values.cc:133-163).  With a NaN the total falls short.
ValueCountsObservations ==
  at = "live" /\ ~HasNaN(levels) /\ ~HasNaN(observed) =>
    /\ \A d \in Doubles \ {NaN} :
         \E k \in DOMAIN levels_ :
           /\ LE(d, levels_[k])
           /\ \A j \in 1..(k - 1) : ~LE(d, levels_[j])
           /\ value(d) = Cardinality({i \in DOMAIN observed : LE(observed[i], levels_[k])})
    /\ value(PosInf) = Len(observed)
=============================================================================
